---------------------------- MODULE Mag3110Proofs ----------------------------
(***************************************************************************)
(* Proofs about the compass and the two lines it is read over, for every   *)
(* width of a byte, every address, and every number of bytes.              *)
(*                                                                         *)
(* The device is in a transfer ("Live") only while it is in step with the  *)
(* master: it has seen the same START, counts the same bit of the same     *)
(* byte of the access, and has taken the bits that were sent.  A device    *)
(* that comes up in the middle, and one that did not acknowledge, waits    *)
(* for the next START.  That is InStep; Order says which byte of the       *)
(* access is under way, Bits how much of it the master has seen, and Lines *)
(* who pulls the lines at each step.  Together they are BusInv, which is   *)
(* inductive.  Remembered adds what the device knows of a write, and       *)
(* Answer, StaysUp and AllSent what it has sent of a read.                 *)
(***************************************************************************)
EXTENDS Mag3110, SequenceTheorems, TLAPS

USE I2cAssumption, Mag3110Assumption

-----------------------------------------------------------------------------
(* The device: what its operators do to a device that is one.              *)

Modes == {Off, Boot, "idle", "addr", "reg", "data", "send"}

Slaves ==
    [mode : Modes, n : -1..Width, shift : Seq(BOOLEAN), low : BOOLEAN, stretch : BOOLEAN,
     reg : Seq(BOOLEAN), written : Seq(Seq(BOOLEAN)), sent : Seq(Seq(BOOLEAN))]

Receiver(s) == s.mode \in {"addr", "reg", "data"}
Joined(s) == Receiver(s) \/ s.mode = "send"

LEMMA ByteSeq == \A b \in Byte : b \in Seq(BOOLEAN) /\ Len(b) = Width
  BY DEF Byte

LEMMA BlankFields ==
    ASSUME NEW mode \in {Off, Boot, "idle"}
    PROVE  /\ Blank(mode) \in Slaves /\ Blank(mode).mode = mode
           /\ ~Blank(mode).low /\ ~Blank(mode).stretch
<1>1. Zero \in Byte
  BY DEF Zero, Byte
<1>2. Zero \in Seq(BOOLEAN) 
  BY <1>1, ByteSeq
<1>3. 0 \in -1..Width
  OBVIOUS
<1> QED BY <1>2, <1>3 DEF Blank, Slaves, Modes

\* What is left alone but by the clock falling.
Kept(s, t) ==
    /\ t.stretch = s.stretch /\ t.reg = s.reg /\ t.written = s.written /\ t.sent = s.sent

LEMMA IdleFields ==
    ASSUME NEW s \in Slaves
    PROVE  /\ Idle(s) \in Slaves /\ Idle(s).mode = "idle" /\ ~Idle(s).low
           /\ Kept(s, Idle(s)) /\ Idle(s).shift = s.shift
  BY DEF Idle, Slaves, Modes, Kept

LEMMA StartedFields ==
    ASSUME NEW s \in Slaves
    PROVE  /\ Started(s) \in Slaves /\ Started(s).mode = "addr" /\ ~Started(s).low
           /\ Started(s).n = -1 /\ Started(s).shift = <<>>
           /\ Kept(s, Started(s))
<1>1. -1 \in -1..Width /\ <<>> \in Seq(BOOLEAN)
  OBVIOUS
<1>2. Started(s) \in Slaves
  BY <1>1 DEF Started, Slaves, Modes
<1>3. Started(s).mode = "addr" /\ Started(s).n = -1 /\ Started(s).shift = <<>>
  BY DEF Started, Slaves
<1>4. ~Started(s).low /\ Kept(s, Started(s))
  BY DEF Started, Slaves, Kept
<1> QED BY <1>2, <1>3, <1>4

LEMMA SampledFields ==
    ASSUME NEW s \in Slaves, NEW bit \in BOOLEAN
    PROVE  LET t == Sampled(s, bit) IN
           /\ t \in Slaves /\ Kept(s, t) 
           /\ Receiver(s) /\ s.n < Width =>
                t.mode = s.mode /\ t.n = s.n /\ t.low = s.low /\ t.shift = Append(s.shift, bit)
           /\ s.mode = "send" /\ s.n = Width /\ bit => t = Idle(s)
           /\ ~(Receiver(s) /\ s.n < Width) /\ ~(s.mode = "send" /\ s.n = Width /\ bit) => t = s
<1>1. CASE Receiver(s) /\ s.n < Width
  <2> DEFINE t == [s EXCEPT !.shift = Append(@, bit)]
  <2>1. Sampled(s, bit) = t
    BY <1>1 DEF Sampled, Receiver
  <2>2. Append(s.shift, bit) \in Seq(BOOLEAN)
    BY DEF Slaves
  <2>3. t \in Slaves /\ t.shift = Append(s.shift, bit)
    BY <2>2 DEF Slaves
  <2>4. t.mode = s.mode /\ t.n = s.n /\ t.low = s.low /\ Kept(s, t)
    BY DEF Slaves, Kept
  <2>5. ~(s.mode = "send")
    BY <1>1 DEF Receiver
  <2> QED BY <1>1, <2>1, <2>3, <2>4, <2>5
<1>2. CASE ~(Receiver(s) /\ s.n < Width) /\ s.mode = "send" /\ s.n = Width /\ bit
  BY <1>2, IdleFields DEF Sampled, Receiver
<1>3. CASE ~(Receiver(s) /\ s.n < Width) /\ ~(s.mode = "send" /\ s.n = Width /\ bit)
  BY <1>3 DEF Sampled, Receiver, Kept
<1> QED BY <1>1, <1>2, <1>3

LEMMA ReleasedFields ==
    ASSUME NEW s \in Slaves, NEW b \in BOOLEAN
    PROVE  LET t == [s EXCEPT !.stretch = b] IN
           /\ t \in Slaves /\ t.mode = s.mode /\ t.n = s.n /\ t.shift = s.shift /\ t.low = s.low
           /\ t.reg = s.reg /\ t.written = s.written /\ t.sent = s.sent /\ t.stretch = b
  BY DEF Slaves

\* A bit inside a byte.
LEMMA BitFields ==
    ASSUME NEW s \in Slaves, Joined(s), s.n < Width - 1, NEW t \in Shifted(s)
    PROVE  /\ t \in Slaves /\ Kept(s, t) /\ t.mode = s.mode /\ t.n = s.n + 1 /\ t.shift = s.shift
           /\ t.low <=> s.mode = "send" /\ ~s.shift[s.n + 2]
<1> DEFINE low == s.mode = "send" /\ ~s.shift[s.n + 2]
<1>1. t = [s EXCEPT !.n = @ + 1, !.low = low]
  BY DEF Shifted, Joined, Receiver
<1>2. low \in BOOLEAN
  BY Zenon
<1>3. s.n + 1 \in -1..Width
  BY DEF Slaves
<1> HIDE DEF low
<1>4. t \in Slaves /\ t.n = s.n + 1 /\ t.low = low
  BY <1>1, <1>2, <1>3 DEF Slaves
<1>5. t.mode = s.mode /\ t.shift = s.shift /\ Kept(s, t)
  BY <1>1 DEF Slaves, Kept
<1> QED BY <1>4, <1>5 DEF low

\* The last bit of a byte.
LEMMA LastBitFields ==
    ASSUME NEW s \in Slaves, Joined(s), s.n = Width - 1, NEW t \in Shifted(s)
    PROVE  /\ t \in Slaves /\ t.stretch = s.stretch /\ t.sent = s.sent
           /\ t.mode = "idle" =>
                ~t.low /\ t.reg = s.reg /\ s.mode = "addr" /\ SubSeq(s.shift, 1, Width - 1) # Device
           /\ t.mode # "idle" => t.mode = s.mode /\ t.n = Width /\ t.shift = s.shift /\ (t.low <=> Receiver(s))
           /\ t.reg = IF t.mode = "reg" THEN s.shift ELSE s.reg
           /\ t.mode = "data" => t.written = <<s.reg, s.shift>>
<1>1. Width \in -1..Width
  OBVIOUS
<1>2. CASE s.mode = "send"
  <2>1. t = [s EXCEPT !.n = Width, !.low = FALSE]
    BY <1>2 DEF Shifted
  <2>2. t \in Slaves /\ t.n = Width /\ ~t.low /\ t.mode = "send"
    BY <2>1, <1>1, <1>2 DEF Slaves
  <2>3. t.shift = s.shift /\ Kept(s, t)
    BY <2>1 DEF Slaves, Kept
  <2> QED BY <2>2, <2>3, <1>2 DEF Kept, Receiver
<1>3. CASE Receiver(s) /\ s.mode = "addr" /\ SubSeq(s.shift, 1, Width - 1) # Device
  <2>1. t = Idle(s)
    BY <1>3 DEF Shifted, Acknowledged
  <2>2. t \in Slaves /\ t.mode = "idle" /\ ~t.low /\ Kept(s, t)
    BY <2>1, IdleFields
  <2> QED BY <1>3, <2>2 DEF Kept
<1>4. CASE Receiver(s) /\ ~(s.mode = "addr" /\ SubSeq(s.shift, 1, Width - 1) # Device)
  <2> DEFINE reg == IF s.mode = "reg" THEN s.shift ELSE s.reg
             written == IF s.mode = "data" THEN <<s.reg, s.shift>> ELSE s.written
  <2>1. t = [s EXCEPT !.n = Width, !.low = TRUE, !.reg = reg, !.written = written]
    BY <1>4 DEF Shifted, Acknowledged, Receiver
  <2>2. reg \in Seq(BOOLEAN) /\ written \in Seq(Seq(BOOLEAN))
    <3>1. s.reg \in Seq(BOOLEAN) /\ s.shift \in Seq(BOOLEAN) /\ s.written \in Seq(Seq(BOOLEAN))
      BY DEF Slaves
    <3>2. <<s.reg, s.shift>> \in Seq(Seq(BOOLEAN))
      BY <3>1
    <3> QED BY <3>1, <3>2
  <2> HIDE DEF reg, written
  <2>3. t \in Slaves
    BY <1>1, <2>1, <2>2 DEF Slaves
  <2>4. t.mode = s.mode /\ t.n = Width /\ t.low /\ t.shift = s.shift
    BY <2>1 DEF Slaves
  <2>5. t.reg = reg /\ t.written = written /\ t.sent = s.sent /\ t.stretch = s.stretch
    BY <2>1 DEF Slaves
  <2> QED BY <1>4, <2>3, <2>4, <2>5 DEF reg, written, Receiver
<1> QED BY <1>2, <1>3, <1>4 DEF Joined

\* After the acknowledge bit the next byte begins.
LEMMA NextByteFields ==
    ASSUME NEW s \in Slaves, Joined(s), s.n = Width, NEW t \in Shifted(s)
    PROVE  /\ t \in Slaves /\ t.stretch = s.stretch /\ t.reg = s.reg /\ t.n = 0
           /\ s.mode = "send" \/ Addressed(s) =>
                /\ t.mode = "send" /\ Len(t.shift) = Width /\ (t.low <=> ~t.shift[1])
                /\ t.sent = IF s.mode = "send" THEN Append(s.sent, t.shift) ELSE <<t.shift>>
           /\ s.mode # "send" /\ ~Addressed(s) =>
                /\ t.mode = IF s.mode = "addr" THEN "reg" ELSE "data"
                /\ t.shift = <<>> /\ ~t.low /\ t.sent = s.sent
<1>1. 0 \in -1..Width /\ <<>> \in Seq(BOOLEAN)
  OBVIOUS
<1>2. CASE s.mode = "send" \/ Addressed(s)
  <2>1. PICK value \in Byte : t = Sends(s, value)
    BY <1>2 DEF Shifted, Joined, Receiver
  <2> DEFINE low == ~value[1]
             sent == IF s.mode = "send" THEN Append(s.sent, value) ELSE <<value>>
  <2>2. t = [s EXCEPT !.mode = "send", !.n = 0, !.shift = value, !.low = low, !.sent = sent]
    BY <2>1 DEF Sends
  <2>3. low \in BOOLEAN
    BY Zenon
  <2>4. value \in Seq(BOOLEAN) /\ Len(value) = Width
    BY ByteSeq
  <2>5. sent \in Seq(Seq(BOOLEAN))
    <3>1. s.sent \in Seq(Seq(BOOLEAN))
      BY DEF Slaves
    <3>2. Append(s.sent, value) \in Seq(Seq(BOOLEAN)) /\ <<value>> \in Seq(Seq(BOOLEAN))
      BY <2>4, <3>1
    <3> QED BY <3>2
  <2> HIDE DEF low, sent
  <2>6. t \in Slaves
    BY <1>1, <2>2, <2>3, <2>4, <2>5 DEF Slaves, Modes
  <2>7. t.mode = "send" /\ t.n = 0 /\ t.shift = value /\ t.low = low /\ t.sent = sent
    BY <2>2 DEF Slaves
  <2>8. t.stretch = s.stretch /\ t.reg = s.reg
    BY <2>2 DEF Slaves
  <2> QED BY <1>2, <2>4, <2>6, <2>7, <2>8 DEF low, sent
<1>3. CASE ~(s.mode = "send" \/ Addressed(s))
  <2> DEFINE mode == IF s.mode = "addr" THEN "reg" ELSE "data"
  <2>1. t = [s EXCEPT !.mode = mode, !.n = 0, !.shift = <<>>, !.low = FALSE]
    BY <1>3 DEF Shifted, Joined, Receiver, Receives
  <2>2. mode \in Modes
    BY DEF Modes
  <2> HIDE DEF mode
  <2>3. t \in Slaves
    BY <1>1, <2>1, <2>2 DEF Slaves
  <2>4. t.mode = mode /\ t.n = 0 /\ t.shift = <<>> /\ ~t.low
    BY <2>1 DEF Slaves
  <2>5. t.stretch = s.stretch /\ t.reg = s.reg /\ t.sent = s.sent
    BY <2>1 DEF Slaves
  <2> QED BY <1>3, <2>3, <2>4, <2>5 DEF mode
<1> QED BY <1>2, <1>3

\* A device that waits for a START goes on waiting.
LEMMA IdleShifted ==
    ASSUME NEW s \in Slaves, s.mode = "idle", NEW t \in Shifted(s)
    PROVE  t = s
  BY DEF Shifted

-----------------------------------------------------------------------------
(* The lines: what the device does when the master moves one of them.      *)

LEMMA ClockStaysLow == ASSUME scl_low, scl_low', Follow PROVE slave' = slave
  BY DEF Follow, SCL, SCL_next

LEMMA ClockRises ==
    ASSUME slave \in Slaves, scl_low \in BOOLEAN, ~scl_low', UNCHANGED sda_low, Follow
    PROVE  \/ slave' = slave /\ (Deaf \/ slave.stretch \/ ~scl_low)
           \/ ~Deaf /\ ~slave.stretch /\ scl_low /\ slave' = Sampled(slave, SDA)
<1>1. SDA_next = SDA
  BY DEF SDA, SDA_next
<1>2. SCL_next <=> ~slave.stretch
  BY DEF SCL_next
<1>3. SCL <=> ~scl_low /\ ~slave.stretch
  BY DEF SCL
<1> QED BY <1>1, <1>2, <1>3 DEF Follow

LEMMA DataMoves ==
    ASSUME slave \in Slaves, UNCHANGED scl_low, Follow
    PROVE  \/ slave' = slave /\ (Deaf \/ ~SCL \/ (SDA <=> SDA_next))
           \/ ~Deaf /\ SCL /\ ~SDA /\ SDA_next /\ slave' = Idle(slave)
           \/ ~Deaf /\ SCL /\ SDA /\ ~SDA_next /\ slave' = Started(slave)
<1>1. SCL_next = SCL
  BY DEF SCL, SCL_next
<1>2. (SDA = SDA_next) => (SDA <=> SDA_next)
  OBVIOUS
<1>3. (SDA <=> SDA_next) => (SDA = SDA_next)
  BY DEF SDA, SDA_next
<1> QED BY <1>1, <1>2, <1>3 DEF Follow

LEMMA ClockFalls ==
    ASSUME SCL, scl_low', Follow
    PROVE  \/ Deaf /\ slave' = slave
           \/ ~Deaf /\ \E s \in Shifted(slave), stretch \in BOOLEAN :
                            slave' = [s EXCEPT !.stretch = stretch]
<1>1. ~SCL_next
  BY DEF SCL_next
<1> QED BY <1>1 DEF Follow

LEMMA ShiftedType ==
    ASSUME NEW s \in Slaves, s.mode \notin {Off, Boot}, NEW t \in Shifted(s)
    PROVE  t \in Slaves
<1>1. s.mode = "idle" \/ Joined(s)
  BY DEF Slaves, Modes, Joined, Receiver
<1>2. s.n < Width - 1 \/ s.n = Width - 1 \/ s.n = Width
  BY DEF Slaves
<1> QED BY <1>1, <1>2, IdleShifted, BitFields, LastBitFields, NextByteFields

LEMMA FollowType ==
    ASSUME slave \in Slaves, sda_low' \in BOOLEAN, Follow
    PROVE  slave' \in Slaves
<1>1. SDA_next \in BOOLEAN
  BY DEF SDA_next
<1>2. Sampled(slave, SDA_next) \in Slaves
  BY <1>1, SampledFields
<1>3. Idle(slave) \in Slaves /\ Started(slave) \in Slaves
  BY IdleFields, StartedFields
<1>4. ASSUME ~Deaf, NEW s \in Shifted(slave), NEW stretch \in BOOLEAN
      PROVE  [s EXCEPT !.stretch = stretch] \in Slaves
  BY <1>4, ShiftedType, ReleasedFields DEF Deaf
<1> QED BY <1>2, <1>3, <1>4 DEF Follow

-----------------------------------------------------------------------------
(* The calls of an access, one for each byte.                              *)

Accesses == {"ctrl1", "ctrl2", "read"}
Ops == [write : BOOLEAN, start : BOOLEAN, stop : BOOLEAN, data : Byte, nack : BOOLEAN]

CallsOf(f) ==
    IF f = "ctrl1" THEN hal_mag3110_reg_write(CtrlReg1, Active)
    ELSE IF f = "ctrl2" THEN hal_mag3110_reg_write(CtrlReg2, Raw)
    ELSE hal_mag3110_reg_read_burst(OutX)
TotalOf(f) == IF f = "read" THEN 3 + NBytes ELSE 3
RegisterOf(f) == IF f = "ctrl1" THEN CtrlReg1 ELSE IF f = "ctrl2" THEN CtrlReg2 ELSE OutX
ValueOf(f) == IF f = "ctrl1" THEN Active ELSE Raw

LEMMA WriteOp ==
    ASSUME NEW start \in BOOLEAN, NEW stop \in BOOLEAN, NEW data \in Byte
    PROVE  LET o == hal_i2c_write_byte(start, stop, data) IN
           /\ o \in Ops /\ o.write /\ (o.start <=> start) /\ (o.stop <=> stop) /\ o.data = data
  BY DEF hal_i2c_write_byte, Ops

LEMMA ReadOp ==
    ASSUME NEW nack \in BOOLEAN, NEW stop \in BOOLEAN
    PROVE  LET o == hal_i2c_read_byte(nack, stop) IN
           /\ o \in Ops /\ ~o.write /\ ~o.start /\ (o.stop <=> stop) /\ (o.nack <=> nack)
<1>1. Zero \in Byte
  BY DEF Zero, Byte
<1> QED BY <1>1 DEF hal_i2c_read_byte, Ops

LEMMA AddressBytes ==
    /\ DEVICE_ADDR \in Byte /\ ~DEVICE_ADDR[Width]
    /\ DEVICE_ADDR_READ \in Byte /\ DEVICE_ADDR_READ[Width]
<1>1. Device \in Seq(BOOLEAN) /\ Len(Device) = Width - 1
  OBVIOUS
<1>2. ASSUME NEW b \in BOOLEAN
      PROVE  Append(Device, b) \in [1..Width -> BOOLEAN] /\ Append(Device, b)[Width] = b
  <2>1. Append(Device, b) \in Seq(BOOLEAN) /\ Len(Append(Device, b)) = Width
    BY <1>1
  <2>2. Append(Device, b)[Width] = b
    BY <1>1
  <2>3. Append(Device, b) \in [1..Len(Append(Device, b)) -> BOOLEAN]
    BY <2>1, LenProperties
  <2> QED BY <2>1, <2>2, <2>3
<1> QED BY <1>2 DEF DEVICE_ADDR, DEVICE_ADDR_READ, Byte

LEMMA CallsOfWrite ==
    ASSUME NEW reg \in Byte, NEW value \in Byte
    PROVE  LET c == hal_mag3110_reg_write(reg, value) IN
           /\ c \in Seq(Ops) /\ Len(c) = 3
           /\ c[1].write /\ c[1].start /\ ~c[1].stop /\ ~c[1].data[Width]
           /\ c[2].write /\ ~c[2].start /\ ~c[2].stop /\ c[2].data = reg
           /\ c[3].write /\ ~c[3].start /\ c[3].stop /\ c[3].data = value
<1> DEFINE a == hal_i2c_write_byte(TRUE, FALSE, DEVICE_ADDR)
           b == hal_i2c_write_byte(FALSE, FALSE, reg)
           d == hal_i2c_write_byte(FALSE, TRUE, value)
<1>1. /\ a \in Ops /\ a.write /\ a.start /\ ~a.stop /\ a.data = DEVICE_ADDR
      /\ b \in Ops /\ b.write /\ ~b.start /\ ~b.stop /\ b.data = reg
      /\ d \in Ops /\ d.write /\ ~d.start /\ d.stop /\ d.data = value
  BY WriteOp, AddressBytes
<1>2. hal_mag3110_reg_write(reg, value) = <<a, b, d>>
  BY DEF hal_mag3110_reg_write
<1> HIDE DEF a, b, d
<1> QED BY <1>1, <1>2, AddressBytes

LEMMA CallsOfRead ==
    LET c == hal_mag3110_reg_read_burst(OutX) IN
    /\ c \in Seq(Ops) /\ Len(c) = 3 + NBytes
    /\ c[1].write /\ c[1].start /\ ~c[1].stop /\ c[1].data = DEVICE_ADDR
    /\ c[2].write /\ ~c[2].start /\ ~c[2].stop /\ c[2].data = OutX
    /\ c[3].write /\ c[3].start /\ ~c[3].stop /\ c[3].data = DEVICE_ADDR_READ
    /\ \A i \in 4..3 + NBytes :
           /\ ~c[i].write /\ ~c[i].start
           /\ c[i].stop <=> i = 3 + NBytes
           /\ c[i].nack <=> i = 3 + NBytes
<1> DEFINE a == hal_i2c_write_byte(TRUE, FALSE, DEVICE_ADDR)
           b == hal_i2c_write_byte(FALSE, FALSE, OutX)
           d == hal_i2c_write_byte(TRUE, FALSE, DEVICE_ADDR_READ)
           r == [i \in 1..NBytes |-> hal_i2c_read_byte(i = NBytes, i = NBytes)]
           c == hal_mag3110_reg_read_burst(OutX)
<1>1. /\ a \in Ops /\ a.write /\ a.start /\ ~a.stop /\ a.data = DEVICE_ADDR
      /\ b \in Ops /\ b.write /\ ~b.start /\ ~b.stop /\ b.data = OutX
      /\ d \in Ops /\ d.write /\ d.start /\ ~d.stop /\ d.data = DEVICE_ADDR_READ
  BY WriteOp, AddressBytes
<1>2. \A i \in 1..NBytes :
         /\ r[i] \in Ops /\ ~r[i].write /\ ~r[i].start
         /\ r[i].stop <=> i = NBytes
         /\ r[i].nack <=> i = NBytes
  <2> SUFFICES ASSUME NEW i \in 1..NBytes
               PROVE  /\ r[i] \in Ops /\ ~r[i].write /\ ~r[i].start
                      /\ r[i].stop <=> i = NBytes
                      /\ r[i].nack <=> i = NBytes
    OBVIOUS
  <2>1. (i = NBytes) \in BOOLEAN
    OBVIOUS
  <2>2. r[i] = hal_i2c_read_byte(i = NBytes, i = NBytes)
    OBVIOUS
  <2> QED BY <2>1, <2>2, ReadOp
<1>3. r \in Seq(Ops) /\ Len(r) = NBytes
  <2>1. r \in [1..NBytes -> Ops]
    BY <1>2
  <2> HIDE DEF r
  <2> QED BY <2>1
<1>4. c = <<a, b, d>> \o r
  BY DEF hal_mag3110_reg_read_burst
<1> HIDE DEF a, b, d, r, c
<1>5. <<a, b, d>> \in Seq(Ops) /\ Len(<<a, b, d>>) = 3
  BY <1>1
<1>6. c \in Seq(Ops) /\ Len(c) = 3 + NBytes
  BY <1>3, <1>4, <1>5
<1>7. c[1] = a /\ c[2] = b /\ c[3] = d
  BY <1>3, <1>4, <1>5
<1>8. ASSUME NEW i \in 4..3 + NBytes
      PROVE  i - 3 \in 1..NBytes /\ c[i] = r[i - 3]
  BY <1>3, <1>4, <1>5
<1>9. ASSUME NEW i \in 4..3 + NBytes
      PROVE  /\ ~c[i].write /\ ~c[i].start
             /\ c[i].stop <=> i = 3 + NBytes
             /\ c[i].nack <=> i = 3 + NBytes
  BY <1>2, <1>8
<1> QED BY <1>1, <1>6, <1>7, <1>9 DEF c

LEMMA CallsOfAccess ==
    ASSUME NEW f \in Accesses
    PROVE  LET c == CallsOf(f) IN
           /\ c \in Seq(Ops) /\ Len(c) = TotalOf(f) /\ TotalOf(f) \in Nat /\ TotalOf(f) >= 3
           /\ c[1].write /\ c[1].start /\ ~c[1].stop /\ ~c[1].data[Width]
           /\ c[2].write /\ ~c[2].start /\ ~c[2].stop /\ c[2].data = RegisterOf(f)
           /\ f # "read" =>
                c[3].write /\ ~c[3].start /\ c[3].stop /\ c[3].data = ValueOf(f)
           /\ f = "read" => c[3].write /\ c[3].start /\ ~c[3].stop /\ c[3].data[Width]
           /\ \A i \in 4..TotalOf(f) :
                 /\ ~c[i].write /\ ~c[i].start
                 /\ c[i].stop <=> i = TotalOf(f)
                 /\ c[i].nack <=> i = TotalOf(f)
<1>1. CASE f = "ctrl1"
  BY <1>1, CallsOfWrite DEF CallsOf, TotalOf, RegisterOf, ValueOf
<1>2. CASE f = "ctrl2"
  BY <1>2, CallsOfWrite DEF CallsOf, TotalOf, RegisterOf, ValueOf
<1>3. CASE f = "read"
  BY <1>3, CallsOfRead, AddressBytes DEF CallsOf, TotalOf, RegisterOf, ValueOf
<1> QED BY <1>1, <1>2, <1>3 DEF Accesses

-----------------------------------------------------------------------------
(* Types, and the order of the calls.                                      *)

Starting == pc \in {"start", "restart", "restart_wait", "start_sda", "start_scl"}
Clocking == pc \in {"bit", "raise", "fall"}
Stopping == pc \in {"stop", "stop_scl", "stop_sda"}
Between  == pc \in {"done", "ready"}

MagTypes ==
    /\ sda_low \in BOOLEAN /\ scl_low \in BOOLEAN /\ started \in BOOLEAN
    /\ slave \in Slaves /\ op \in Ops
    /\ Starting \/ Clocking \/ Stopping \/ Between
    /\ cycle \in 0..Width + 1 /\ (Clocking => cycle <= Width)
    /\ Starting => cycle = 0
    /\ byte \in Seq(BOOLEAN)
    /\ timeout \in 0..Timeout
    /\ fn \in {"none", "init_scl", "init_sda", "init"} \union Accesses
    /\ todo \in Seq(Ops) /\ buf \in Seq(Seq(BOOLEAN))
    /\ ok \in BOOLEAN /\ pure \in BOOLEAN

LEMMA TypesInit == Init => MagTypes
<1> SUFFICES ASSUME Init PROVE MagTypes
  OBVIOUS
<1>1. slave \in Slaves
  BY BlankFields DEF Init
<1>2. op \in Ops
  BY ReadOp DEF Init
<1>3. /\ sda_low \in BOOLEAN /\ scl_low \in BOOLEAN /\ started \in BOOLEAN
      /\ ok \in BOOLEAN /\ pure \in BOOLEAN
  BY Zenon DEF Init
<1>4. /\ byte = <<>> /\ todo = <<>> /\ buf = <<>> /\ cycle = 0 /\ timeout = 0
      /\ fn = "none" /\ pc = "ready"
  BY DEF Init
<1> QED BY <1>1, <1>2, <1>3, <1>4 DEF MagTypes, Starting, Clocking, Stopping, Between

LEMMA SdaTypes ==
    ASSUME MagTypes, NEW high \in BOOLEAN, SetSDA(high)
    PROVE  sda_low' \in BOOLEAN /\ scl_low' \in BOOLEAN /\ slave' \in Slaves
<1>1. sda_low' \in BOOLEAN
  BY Zenon DEF SetSDA
<1> QED BY <1>1, FollowType DEF SetSDA, MagTypes

LEMMA SclTypes ==
    ASSUME MagTypes, NEW high \in BOOLEAN, SetSCL(high)
    PROVE  sda_low' \in BOOLEAN /\ scl_low' \in BOOLEAN /\ slave' \in Slaves
<1>1. scl_low' \in BOOLEAN /\ sda_low' = sda_low
  BY Zenon DEF SetSCL
<1> QED BY <1>1, FollowType DEF SetSCL, MagTypes

LEMMA TypesTransfer == ASSUME MagTypes, Bus PROVE MagTypes'
<1> USE DEF Starting, Clocking, Stopping, Between
<1>0. UNCHANGED <<timeout, fn, todo, buf, ok, pure>>
  BY DEF Bus, mag_vars
<1>1. /\ sda_low' \in BOOLEAN /\ scl_low' \in BOOLEAN /\ slave' \in Slaves
  <2>1. BitOut \in BOOLEAN
    BY DEF BitOut
  <2> QED BY <2>1, SdaTypes, SclTypes
          DEF Bus, Transfer, ReleaseSDA, ReleaseSCL, WaitSCL, StartCondition, StartDone,
              DriveBit, Raise, Fall, StopLow, StopRaise, StopCondition, MagTypes
<1>2. started' \in BOOLEAN /\ op' = op
  BY DEF Bus, Transfer, ReleaseSDA, ReleaseSCL, WaitSCL, StartCondition, StartDone,
         DriveBit, Raise, Fall, StopLow, StopRaise, StopCondition, MagTypes
<1>3. CASE Fall
  <2>1. SDA \in BOOLEAN
    BY DEF SDA
  <2>2. byte' \in Seq(BOOLEAN)
    <3>1. byte' = byte \/ byte' = Append(byte, SDA)
      BY <1>3 DEF Fall
    <3>2. byte \in Seq(BOOLEAN)
      BY DEF MagTypes
    <3>3. Append(byte, SDA) \in Seq(BOOLEAN)
      BY <2>1, <3>2
    <3> QED BY <3>1, <3>2, <3>3
  <2>3. /\ Clocking' \/ Stopping' \/ Between'
        /\ ~Starting' /\ cycle' \in 0..Width + 1 /\ (Clocking' => cycle' <= Width)
    <3>1. pc = "fall" /\ cycle' = cycle + 1 /\ cycle <= Width
      BY <1>3 DEF Fall, At, MagTypes
    <3>2. pc' = AfterBit /\ AfterBit \in {"bit", "stop", "done"} /\ (AfterBit = "bit" => cycle < Width)
      BY <1>3 DEF Fall, Goto, AfterBit
    <3> QED BY <3>1, <3>2 DEF MagTypes
  <2> QED BY <1>0, <1>1, <1>2, <2>2, <2>3 DEF MagTypes
<1>4. CASE ~Fall
  <2>1. byte' = byte /\ cycle' = cycle
    BY <1>4, Zenon
       DEF Bus, Transfer, ReleaseSDA, ReleaseSCL, WaitSCL, StartCondition, StartDone,
           DriveBit, Raise, StopLow, StopRaise, StopCondition
  <2>2. /\ Starting' \/ Clocking' \/ Stopping' \/ Between'
        /\ Clocking' => Clocking \/ Starting
        /\ Starting' => Starting
    BY <1>4 DEF Bus, Transfer, ReleaseSDA, ReleaseSCL, WaitSCL, StartCondition, StartDone,
                DriveBit, Raise, StopLow, StopRaise, StopCondition, At, Goto
  <2> QED BY <1>0, <1>1, <1>2, <2>1, <2>2 DEF MagTypes
<1> QED BY <1>3, <1>4

LEMMA TypesNextByte == ASSUME MagTypes, NextByte PROVE MagTypes'
<1>1. /\ op' = Head(todo) /\ todo' = Tail(todo) /\ todo # <<>>
      /\ cycle' = 0 /\ byte' = <<>> /\ (pc' = "start" \/ pc' = "bit")
      /\ UNCHANGED <<sda_low, scl_low, started, slave, timeout, fn, buf, ok, pure>>
  BY DEF NextByte, Call, Goto
<1>2. Head(todo) \in Ops /\ Tail(todo) \in Seq(Ops)
  BY <1>1 DEF MagTypes
<1>3. (Starting' \/ Clocking') /\ (Clocking' => 0 <= Width)
  BY <1>1 DEF Starting, Clocking
<1> QED BY <1>1, <1>2, <1>3 DEF MagTypes

LEMMA TypesEndByte == ASSUME MagTypes, EndByte PROVE MagTypes'
<1>1. /\ pc' = "ready"
      /\ buf' = buf \/ buf' = Append(buf, byte)
      /\ todo' = todo \/ todo' = <<>>
      /\ UNCHANGED <<sda_low, scl_low, started, op, cycle, byte, slave, timeout, fn, ok, pure>>
  BY DEF EndByte, Goto
<1>2. buf \in Seq(Seq(BOOLEAN)) /\ byte \in Seq(BOOLEAN) /\ todo \in Seq(Ops)
  BY DEF MagTypes
<1> DEFINE longer == Append(buf, byte)
<1>3. Between' /\ ~Starting' /\ ~Clocking'
  BY <1>1 DEF Between, Starting, Clocking
<1>4. buf' \in Seq(Seq(BOOLEAN)) /\ todo' \in Seq(Ops)
  <2>1. longer \in Seq(Seq(BOOLEAN))
    BY <1>2
  <2>2. <<>> \in Seq(Ops)
    OBVIOUS
  <2>3. buf' = buf \/ buf' = longer
    BY <1>1
  <2> HIDE DEF longer
  <2> QED BY <1>1, <1>2, <2>1, <2>2, <2>3, Zenon
<1> QED BY <1>1, <1>3, <1>4 DEF MagTypes

LEMMA TypesNextAccess == ASSUME MagTypes, NextAccess PROVE MagTypes'
<1>1. /\ fn' \in Accesses /\ todo' = CallsOf(fn') /\ buf' = <<>> /\ pure' = ~Deaf
      /\ UNCHANGED <<i2c_vars, timeout, ok>>
  BY DEF NextAccess, WriteCtrlReg1, WriteCtrlReg2, ReadOut, AfterCtrl1, Access, CallsOf, Accesses
<1>2. todo' \in Seq(Ops)
  BY <1>1, CallsOfAccess
<1>3. pure' \in BOOLEAN
  BY <1>1 DEF Deaf
<1> QED BY <1>1, <1>2, <1>3 DEF MagTypes, i2c_vars, Starting, Clocking, Stopping, Between

LEMMA TypesDriver == ASSUME MagTypes, Driver PROVE MagTypes'
<1>1. CASE InitSCL
  <2>1. /\ sda_low' \in BOOLEAN /\ scl_low' \in BOOLEAN /\ slave' \in Slaves
    BY <1>1, SclTypes DEF InitSCL
  <2>2. /\ fn' = "init_sda"
        /\ UNCHANGED <<started, op, pc, cycle, byte, timeout, todo, buf, ok, pure>>
    BY <1>1 DEF InitSCL
  <2> QED BY <2>1, <2>2 DEF MagTypes, Starting, Clocking, Stopping, Between
<1>2. CASE InitSDA
  <2>1. /\ sda_low' \in BOOLEAN /\ scl_low' \in BOOLEAN /\ slave' \in Slaves
    BY <1>2, SdaTypes DEF InitSDA
  <2>2. /\ fn' = "init"
        /\ UNCHANGED <<started, op, pc, cycle, byte, timeout, todo, buf, ok, pure>>
    BY <1>2 DEF InitSDA
  <2> QED BY <2>1, <2>2 DEF MagTypes, Starting, Clocking, Stopping, Between
<1>3. CASE EndRead
  <2>1. fn' = "none" /\ ok' \in BOOLEAN /\ UNCHANGED <<i2c_vars, timeout, todo, buf, pure>>
    BY <1>3, Zenon DEF EndRead
  <2> QED BY <2>1 DEF MagTypes, i2c_vars, Starting, Clocking, Stopping, Between
<1> QED BY <1>1, <1>2, <1>3, TypesNextByte, TypesEndByte, TypesNextAccess DEF Driver

LEMMA TypesWorld == ASSUME MagTypes, World PROVE MagTypes'
<1>1. slave' \in Slaves
  <2>1. SDA \in BOOLEAN
    BY DEF SDA
  <2>2. Sampled(slave, SDA) \in Slaves
    BY <2>1, SampledFields DEF MagTypes
  <2>3. CASE Release
    BY <2>2, <2>3, ReleasedFields DEF Release, MagTypes
  <2>4. CASE Up \/ Upset
    BY <2>4, BlankFields DEF Up, Upset
  <2> QED BY <2>3, <2>4 DEF World, External
<1>2. pure' \in BOOLEAN
  BY DEF World
<1>3. /\ UNCHANGED <<sda_low, scl_low, started, op, pc, cycle, byte>>
      /\ UNCHANGED <<timeout, fn, todo, buf, ok>>
  BY DEF World, External, Release, Up, Upset
<1> QED BY <1>1, <1>2, <1>3 DEF MagTypes, Starting, Clocking, Stopping, Between

LEMMA TypesRead == ASSUME MagTypes, svc_compass_read PROVE MagTypes'
<1>1. slave' \in Slaves
  BY BlankFields DEF svc_compass_read, MagTypes
<1>2. /\ timeout' \in 0..Timeout
      /\ UNCHANGED <<sda_low, scl_low, started, op, pc, cycle, byte, ok>>
  BY DEF svc_compass_read
<1>3. /\ fn' \in {"init_scl", "read"}
      /\ fn' = "init_scl" => UNCHANGED <<todo, buf, pure>>
      /\ fn' = "read" => todo' = CallsOf("read") /\ buf' = <<>> /\ pure' = ~Deaf
  BY DEF svc_compass_read, ReadOut, Access, CallsOf
<1>4. todo' \in Seq(Ops) /\ buf' \in Seq(Seq(BOOLEAN)) /\ pure' \in BOOLEAN
  <2>1. CallsOf("read") \in Seq(Ops) /\ <<>> \in Seq(Seq(BOOLEAN)) 
    BY CallsOfAccess DEF Accesses
  <2>2. (~Deaf) \in BOOLEAN
    BY DEF Deaf
  <2> QED BY <1>3, <2>1, <2>2 DEF MagTypes
<1> QED BY <1>1, <1>2, <1>3, <1>4 DEF MagTypes, Starting, Clocking, Stopping, Between, Accesses

LEMMA TypesProcess == ASSUME MagTypes, svc_compass_process PROVE MagTypes'
<1>1. slave' \in Slaves /\ sda_low' \in BOOLEAN /\ scl_low' \in BOOLEAN
  BY BlankFields, Zenon DEF svc_compass_process, MagTypes
<1>2. /\ timeout' \in 0..Timeout
      /\ UNCHANGED <<started, op, pc, cycle, byte, fn, todo, buf, ok, pure>>
  BY DEF svc_compass_process, MagTypes
<1> QED BY <1>1, <1>2 DEF MagTypes, Starting, Clocking, Stopping, Between

LEMMA TypesReset == ASSUME MagTypes, Reset PROVE MagTypes'
<1>1. slave' \in Slaves
  BY BlankFields DEF Reset
<1>2. sda_low' \in BOOLEAN /\ scl_low' \in BOOLEAN /\ started' \in BOOLEAN /\ ok' \in BOOLEAN
  BY Zenon DEF Reset
<1>3. /\ pc' = "ready" /\ timeout' = 0 /\ fn' = "none" /\ todo' = <<>> /\ buf' = <<>>
      /\ UNCHANGED <<op, cycle, byte, pure>>
  BY DEF Reset
<1> QED BY <1>1, <1>2, <1>3 DEF MagTypes, Starting, Clocking, Stopping, Between

LEMMA TypesStep == MagTypes /\ [Next]_vars => MagTypes'
<1>1. ASSUME MagTypes, UNCHANGED vars PROVE MagTypes'
  BY <1>1 DEF MagTypes, vars, i2c_vars, mag_vars, Starting, Clocking, Stopping, Between
<1> QED BY <1>1, TypesTransfer, TypesDriver, TypesWorld, TypesRead, TypesProcess, TypesReset
        DEF Next

-----------------------------------------------------------------------------
(* The order of the calls: byte Nth of the access is under way, or done;   *)
(* todo holds the ones after it, unless the access was given up.           *)

Nth == TotalOf(fn) - Len(todo)
GivenUp == At("ready") /\ todo = <<>> /\ Nack

Order ==
    /\ ~InAccess => At("ready") /\ todo = <<>>
    /\ InAccess /\ ~GivenUp =>
         /\ Len(todo) <= TotalOf(fn)
         /\ \A i \in 1..Len(todo) : todo[i] = CallsOf(fn)[Nth + i]
         /\ Len(todo) = TotalOf(fn) => At("ready")
         /\ Len(todo) < TotalOf(fn) => op = CallsOf(fn)[Nth]
    /\ Starting => op.start
    /\ Stopping => op.stop

LEMMA TotalType == TotalOf(fn) \in Nat /\ TotalOf(fn) >= 3 /\ (fn # "read" => TotalOf(fn) = 3)
  BY DEF TotalOf

\* Where a byte stands in its access.
LEMMA CallAt ==
    ASSUME NEW f \in Accesses, NEW i \in 1..TotalOf(f)
    PROVE  LET o == CallsOf(f)[i] IN
           /\ o.write <=> i <= 3
           /\ o.start <=> i = 1 \/ (i = 3 /\ f = "read")
           /\ o.stop <=> i = TotalOf(f)
           /\ ~o.write => (o.nack <=> i = TotalOf(f))
<1>1. TotalOf(f) \in Nat /\ (f # "read" => TotalOf(f) = 3) /\ (f = "read" => TotalOf(f) > 3)
  BY DEF TotalOf
<1>2. i = 1 \/ i = 2 \/ i = 3 \/ i \in 4..TotalOf(f)
  BY <1>1
<1>3. CASE f = "read"
  BY <1>1, <1>2, <1>3, CallsOfAccess
<1>4. CASE f # "read"
  BY <1>1, <1>2, <1>4, CallsOfAccess
<1> QED BY <1>3, <1>4

\* Which byte is under way.
LEMMA Position ==
    ASSUME MagTypes, Order, ~At("ready")
    PROVE  /\ InAccess /\ fn \in Accesses /\ Nth \in 1..TotalOf(fn) /\ op = CallsOf(fn)[Nth]
           /\ op.write <=> Nth <= 3
           /\ op.start <=> Nth = 1 \/ (Nth = 3 /\ fn = "read")
           /\ op.stop <=> Nth = TotalOf(fn)
           /\ ~op.write => (op.nack <=> Nth = TotalOf(fn))
<1>1. InAccess /\ fn \in Accesses /\ ~GivenUp
  BY DEF Order, InAccess, Accesses, GivenUp, At
<1>2. Len(todo) \in Nat
  BY DEF MagTypes
<1>3. Nth \in 1..TotalOf(fn) /\ op = CallsOf(fn)[Nth]
  BY <1>1, <1>2, TotalType DEF Order, Nth, At
<1> QED BY <1>1, <1>3, CallAt

LEMMA BusLabels ==
    ASSUME Bus
    PROVE  /\ ~At("ready") /\ pc' # "ready"
           /\ Starting' => Starting
           /\ Stopping' => Stopping \/ (Fall /\ op.stop)
           /\ UNCHANGED <<op, timeout, fn, todo, buf, ok, pure>>
<1>1. CASE Fall
  BY <1>1 DEF Bus, mag_vars, Fall, AfterBit, At, Goto, Starting, Stopping
<1>2. CASE ~Fall
  BY <1>2 DEF Bus, mag_vars, Transfer, ReleaseSDA, ReleaseSCL, WaitSCL, StartCondition,
              StartDone, DriveBit, Raise, StopLow, StopRaise, StopCondition, At, Goto,
              Starting, Stopping
<1> QED BY <1>1, <1>2

LEMMA OrderBus == ASSUME MagTypes, Order, Bus PROVE Order'
<1>1. InAccess /\ ~GivenUp
  BY BusLabels DEF Order, GivenUp, At
<1>2. InAccess' /\ Nth' = Nth /\ UNCHANGED <<op, fn, todo>>
  BY <1>1, BusLabels DEF InAccess, Nth
<1>3. Len(todo) # TotalOf(fn)
  BY <1>1, BusLabels DEF Order
<1> QED BY <1>1, <1>2, <1>3, BusLabels DEF Order

LEMMA OrderNextByte == ASSUME MagTypes, Order, NextByte PROVE Order'
<1>1. InAccess /\ ~GivenUp /\ todo # <<>>
  BY DEF NextByte, GivenUp
<1>2. /\ op' = Head(todo) /\ todo' = Tail(todo) /\ fn' = fn
      /\ pc' = IF Head(todo).start THEN "start" ELSE "bit"
  BY DEF NextByte, Call, Goto
<1>3. /\ Len(todo) \in Nat \ {0} /\ Head(todo) = todo[1] /\ Len(todo') = Len(todo) - 1
      /\ \A i \in 1..Len(todo') : i + 1 \in 1..Len(todo) /\ todo'[i] = todo[i + 1]
  BY <1>1, <1>2 DEF MagTypes
<1>4. Nth' = Nth + 1
  BY <1>2, <1>3, TotalType DEF Nth
<1>5. op' = CallsOf(fn)[Nth']
  BY <1>1, <1>2, <1>3, <1>4 DEF Order
<1>6. \A i \in 1..Len(todo') : todo'[i] = CallsOf(fn)[Nth' + i]
  <2> TAKE i \in 1..Len(todo')
  <2>1. todo'[i] = CallsOf(fn)[Nth + (i + 1)]
    BY <1>1, <1>3 DEF Order
  <2>2. Nth + (i + 1) = Nth' + i
    BY <1>3, <1>4, TotalType DEF Nth
  <2> QED BY <2>1, <2>2
<1>7. /\ InAccess' /\ Len(todo') <= TotalOf(fn')
      /\ Len(todo') # TotalOf(fn')
  BY <1>1, <1>2, <1>3, TotalType DEF Order, InAccess
<1>8. (Starting' => op'.start) /\ ~Stopping'
  BY <1>2 DEF Starting, Stopping
<1>9. op' = CallsOf(fn')[Nth'] /\ \A i \in 1..Len(todo') : todo'[i] = CallsOf(fn')[Nth' + i]
  BY <1>2, <1>5, <1>6
<1> QED BY <1>7, <1>8, <1>9 DEF Order

LEMMA OrderEndByte == ASSUME MagTypes, Order, EndByte PROVE Order'
<1>1. /\ ~At("ready") /\ pc' = "ready" /\ UNCHANGED <<op, byte, fn>>
      /\ IF Nack THEN todo' = <<>> ELSE UNCHANGED todo
  BY DEF EndByte, At, Goto, Refused
<1>2. InAccess /\ ~GivenUp /\ InAccess'
  BY <1>1 DEF Order, GivenUp, InAccess
<1>3. ~Starting' /\ ~Stopping'
  BY <1>1 DEF Starting, Stopping
<1>4. CASE Nack
  <2>1. GivenUp'
    BY <1>1, <1>4 DEF GivenUp, At, Nack
  <2> QED BY <1>2, <1>3, <2>1 DEF Order
<1>5. CASE ~Nack
  BY <1>1, <1>2, <1>3, <1>5 DEF Order, Nth, At
<1> QED BY <1>4, <1>5

\* A new access: all its calls are still to be made.
LEMMA OrderFresh ==
    ASSUME At("ready")', fn' \in Accesses, todo' = CallsOf(fn')
    PROVE  Order'
<1>1. Len(todo') = TotalOf(fn') /\ TotalOf(fn') \in Nat
  BY CallsOfAccess
<1>2. Nth' = 0
  BY <1>1 DEF Nth
<1>3. \A i \in 1..Len(todo') : todo'[i] = CallsOf(fn')[Nth' + i]
  BY <1>1, <1>2
<1>4. InAccess' /\ ~Starting' /\ ~Stopping'
  BY DEF InAccess, Accesses, At, Starting, Stopping
<1> QED BY <1>1, <1>3, <1>4 DEF Order

\* No access: nothing to be done.
LEMMA OrderNone ==
    ASSUME At("ready")', ~InAccess', todo' = <<>>
    PROVE  Order'
  BY DEF Order, At, Starting, Stopping

LEMMA OrderWorld ==
    ASSUME Order, UNCHANGED <<op, pc, byte, fn, todo>> PROVE Order'
  BY DEF Order, GivenUp, Nack, InAccess, Nth, At, Starting, Stopping

LEMMA OrderStep == MagTypes /\ Order /\ [Next]_vars => Order'
<1> SUFFICES ASSUME MagTypes, Order, [Next]_vars PROVE Order'
  OBVIOUS
<1>1. CASE NextAccess
  <2>1. fn' \in Accesses /\ todo' = CallsOf(fn') /\ pc' = pc
    BY <1>1 DEF NextAccess, WriteCtrlReg1, WriteCtrlReg2, ReadOut, AfterCtrl1, Access,
                CallsOf, Accesses, i2c_vars
  <2>2. At("ready")
    BY <1>1 DEF NextAccess, Ended, Order, InAccess
  <2> QED BY <2>1, <2>2, OrderFresh DEF At
<1>2. CASE InitSCL \/ InitSDA
  BY <1>2, OrderNone DEF InitSCL, InitSDA, Order, InAccess, At
<1>3. CASE EndRead
  BY <1>3, OrderNone DEF EndRead, Ended, InAccess, At, i2c_vars
<1>4. CASE World
  BY <1>4, OrderWorld DEF World, External, Release, Up, Upset
<1>5. CASE svc_compass_read
  <2>1. At("ready") /\ At("ready")' /\ todo = <<>>
    BY <1>5 DEF svc_compass_read, At, Order, InAccess
  <2>2. \/ fn' = "init_scl" /\ todo' = todo
        \/ fn' = "read" /\ todo' = CallsOf("read")
    BY <1>5 DEF svc_compass_read, ReadOut, Access, CallsOf
  <2> QED BY <2>1, <2>2, OrderNone, OrderFresh DEF InAccess, Accesses
<1>6. CASE svc_compass_process
  BY <1>6, OrderWorld DEF svc_compass_process
<1>7. CASE Reset
  BY <1>7, OrderNone DEF Reset, At, InAccess
<1>8. CASE UNCHANGED vars
  BY <1>8, OrderWorld DEF vars, i2c_vars, mag_vars
<1> QED BY <1>1, <1>2, <1>3, <1>4, <1>5, <1>6, <1>7, <1>8,
           OrderBus, OrderNextByte, OrderEndByte DEF Next, Driver

-----------------------------------------------------------------------------
(* The bits the master has seen of the byte under way.                     *)

Bits ==
    /\ Starting \/ Clocking => Len(byte) = IF op.write THEN 0 ELSE cycle
    /\ Stopping \/ At("done") => Len(byte) = IF op.write THEN 1 ELSE Width

LEMMA BitsStep == MagTypes /\ Order /\ Bits /\ [Next]_vars => Bits'
<1> SUFFICES ASSUME MagTypes, Order, Bits, [Next]_vars PROVE Bits'
  OBVIOUS
<1>1. CASE Bus /\ Fall
  <2>1. /\ At("fall") /\ Clocking /\ op' = op /\ cycle' = cycle + 1
        /\ byte' = IF Looks THEN Append(byte, SDA) ELSE byte
        /\ pc' = AfterBit
    BY <1>1 DEF Fall, At, Goto, Clocking
  <2>2. SDA \in BOOLEAN
    BY DEF SDA
  <2>3. /\ byte \in Seq(BOOLEAN) /\ cycle \in 0..Width /\ op.write \in BOOLEAN
        /\ Len(byte) = IF op.write THEN 0 ELSE cycle
    BY <2>1 DEF MagTypes, Ops, Bits
  <2>4. Len(byte') = IF Looks THEN Len(byte) + 1 ELSE Len(byte)
    BY <2>1, <2>2, <2>3
  <2>5. Len(byte') = IF op.write THEN IF cycle = Width THEN 1 ELSE 0
                     ELSE IF cycle < Width THEN cycle + 1 ELSE cycle
    BY <2>3, <2>4 DEF Looks
  <2>6. /\ ~Starting' /\ (Clocking' => cycle < Width)
        /\ Stopping' \/ pc' = "done" => cycle >= Width
    BY <2>1, <2>3 DEF AfterBit, Starting, Clocking, Stopping
  <2> QED BY <2>1, <2>3, <2>5, <2>6 DEF Bits, At
<1>2. CASE Bus /\ ~Fall
  <2>1. byte' = byte /\ cycle' = cycle /\ op' = op
    BY <1>2, Zenon
       DEF Bus, Transfer, ReleaseSDA, ReleaseSCL, WaitSCL, StartCondition, StartDone,
           DriveBit, Raise, StopLow, StopRaise, StopCondition
  <2>2. /\ Starting' \/ Clocking' => Starting \/ Clocking
        /\ Stopping' \/ pc' = "done" => Stopping
    BY <1>2 DEF Bus, Transfer, ReleaseSDA, ReleaseSCL, WaitSCL, StartCondition, StartDone,
                DriveBit, Raise, StopLow, StopRaise, StopCondition, At, Goto,
                Starting, Clocking, Stopping
  <2> QED BY <2>1, <2>2 DEF Bits, At
<1>3. CASE NextByte
  <2>1. byte' = <<>> /\ cycle' = 0 /\ (pc' = "start" \/ pc' = "bit")
    BY <1>3 DEF NextByte, Call, Goto
  <2> QED BY <2>1 DEF Bits, At, Stopping
<1>4. CASE pc' = "ready"
  BY <1>4 DEF Bits, At, Starting, Clocking, Stopping
<1>5. CASE UNCHANGED <<op, pc, cycle, byte>>
  BY <1>5 DEF Bits, At, Starting, Clocking, Stopping
<1>6. CASE Driver /\ ~NextByte
  BY <1>4, <1>5, <1>6 DEF Driver, EndByte, InitSCL, InitSDA, NextAccess, EndRead, Goto, i2c_vars
<1>7. CASE World \/ svc_compass_read \/ svc_compass_process \/ Reset \/ UNCHANGED vars
  BY <1>4, <1>5, <1>7 DEF World, External, Release, Up, Upset, svc_compass_read,
     svc_compass_process, Reset, vars, i2c_vars
<1> QED BY <1>1, <1>2, <1>3, <1>6, <1>7 DEF Next

-----------------------------------------------------------------------------
(* The lines, and the device in step with the master.                      *)

Live == Joined(slave)

\* hal_i2c_init has made inputs of both pins, and nothing has undone it.
Initialised == fn = "init" \/ InAccess \/ (fn = "none" /\ timeout > 0)

Lines ==
    /\ ~Live => ~slave.low
    /\ ~started =>
         /\ ~slave.stretch
         /\ pc \in {"ready", "start", "start_sda", "start_scl", "done"}
         /\ Live => At("start_scl")
         /\ Initialised => ~scl_low /\ (sda_low <=> At("start_scl"))
    /\ fn = "init_sda" => ~scl_low
    /\ pc \in {"bit", "raise", "stop", "stop_scl"} => scl_low
    /\ pc \in {"fall", "stop_sda", "restart_wait", "start_sda", "start_scl"} => ~scl_low
    /\ pc \in {"raise", "fall"} => (sda_low <=> ~BitOut)
    /\ pc \in {"restart", "restart_wait", "start_sda"} => ~sda_low
    /\ pc \in {"stop_scl", "stop_sda", "start_scl"} => sda_low
    /\ pc \in {"start_sda", "start_scl"} => ~slave.stretch
    /\ At("start") /\ started /\ ~scl_low => ~Live
    /\ Between /\ InAccess /\ Nth \in 1..TotalOf(fn) - 1 => started /\ scl_low

\* What a device in step takes byte Nth for, and is ready for after it.
ModeIn == IF Nth = 1 \/ (Nth = 3 /\ fn = "read") THEN "addr"
          ELSE IF Nth = 2 THEN "reg"
          ELSE IF fn = "read" THEN "send" ELSE "data"
ModeAfter == IF Nth = 1 THEN "reg" ELSE IF fn = "read" /\ Nth > 2 THEN "send" ELSE "data"

\* Bits of the byte a device in step has taken.
Taken == IF At("fall") /\ SCL /\ cycle < Width THEN cycle + 1 ELSE cycle

\* Between two bytes: the last one was acknowledged, and not refused.
InStepBetween ==
    Live /\ Between =>
        /\ InAccess /\ Nth \in 1..TotalOf(fn) - 1 /\ started /\ ~Nack
        /\ slave.mode = ModeAfter /\ slave.n = 0
        /\ Receiver(slave) => slave.shift = <<>> /\ ~slave.low

\* On the way to a START or a STOP: the device takes it for the next value,
\* until the data line moves.
InStepEdges ==
    Live =>
        /\ (Starting /\ ~At("start_scl")) \/ Stopping =>
              slave.mode = "data" /\ slave.n = 0 /\ ~slave.low
        /\ At("start_scl") =>
              slave.mode = "addr" /\ slave.n = -1 /\ slave.shift = <<>> /\ ~slave.low
        /\ Stopping => ~Nack

\* Inside a byte.
InStepClocking ==
    Live /\ Clocking =>
        /\ slave.mode = ModeIn /\ slave.n = cycle
        /\ Receiver(slave) =>
              /\ slave.low <=> cycle = Width
              /\ Len(slave.shift) = Taken
              /\ \A i \in 1..Taken : slave.shift[i] = op.data[i]
        /\ At("fall") /\ SCL /\ slave.mode = "send" /\ cycle = Width => ~op.nack

\* A sender holds the data line as its bit says.
SendsBit ==
    slave.mode = "send" =>
        /\ Len(slave.shift) = Width
        /\ slave.low <=> slave.n < Width /\ ~slave.shift[slave.n + 1]

InStep == InStepBetween /\ InStepEdges /\ InStepClocking /\ SendsBit

BusInv == MagTypes /\ Order /\ Bits /\ Lines /\ InStep

LEMMA BusFrame ==
    ASSUME BusInv, Bus
    PROVE  /\ InAccess /\ InAccess' /\ Nth' = Nth /\ Initialised /\ Initialised'
           /\ ModeIn' = ModeIn /\ ModeAfter' = ModeAfter
           /\ UNCHANGED <<op, timeout, fn, todo>>
           /\ fn \in Accesses /\ fn # "init_sda"
  BY BusLabels, Position DEF BusInv, Accesses, InAccess, Nth, Initialised, ModeIn, ModeAfter

LEMMA StepReleaseSDA == ASSUME BusInv, Bus, ReleaseSDA PROVE Lines' /\ InStep'
<1> USE DEF Starting, Clocking, Stopping, Between, At
<1>1. /\ pc = "start" /\ pc' = IF started THEN "restart" ELSE "start_sda"
      /\ ~sda_low' /\ UNCHANGED <<scl_low, started, op, cycle, byte>> /\ Follow
  BY DEF ReleaseSDA, SetSDA, Goto
<1>2. slave' = slave \/ slave' = Idle(slave)
  <2>1. ~(SDA /\ ~SDA_next)
    BY <1>1 DEF SDA, SDA_next
  <2> QED BY <1>1, <2>1, DataMoves DEF BusInv, MagTypes
<1>3. slave' = slave \/ (~Live' /\ ~slave'.low /\ slave'.stretch = slave.stretch /\ slave'.mode = "idle")
  BY <1>2, IdleFields DEF BusInv, MagTypes, Live, Joined, Receiver, Kept
<1>4. Lines'
  BY <1>1, <1>3, BusFrame DEF BusInv, Lines, InStep, InStepEdges, Live
<1>5. InStep'
  BY <1>1, <1>3, BusFrame DEF BusInv, InStep, InStepEdges, InStepBetween, InStepClocking, SendsBit, Live
<1> QED BY <1>4, <1>5

\* A device that takes values, at the first bit of one, samples it.
LEMMA SampledData ==
    ASSUME BusInv, NEW bit \in BOOLEAN, ~Live \/ (slave.mode = "data" /\ slave.n = 0)
    PROVE  LET t == Sampled(slave, bit) IN
           /\ ~Live => t = slave
           /\ Live => /\ t.mode = slave.mode /\ t.n = slave.n /\ t.low = slave.low
                      /\ t.stretch = slave.stretch
  BY SampledFields DEF BusInv, MagTypes, Live, Joined, Receiver, Kept

LEMMA StepReleaseSCL == ASSUME BusInv, Bus, ReleaseSCL PROVE Lines' /\ InStep'
<1> USE DEF Starting, Clocking, Stopping, Between, At
<1>1. /\ pc = "restart" /\ pc' = "restart_wait"
      /\ ~scl_low' /\ UNCHANGED <<sda_low, started, op, cycle, byte>> /\ Follow
  BY DEF ReleaseSCL, SetSCL, Goto
<1>2. SDA \in BOOLEAN
  BY DEF SDA
<1>3. Live => slave.mode = "data" /\ slave.n = 0 /\ ~slave.low
  BY <1>1 DEF BusInv, InStep, InStepEdges
<1>4. slave' = slave \/ slave' = Sampled(slave, SDA)
  BY <1>1, ClockRises DEF BusInv, MagTypes
<1>5. \/ slave' = slave
      \/ Live /\ Live' /\ slave'.mode = "data" /\ slave'.n = 0 /\ ~slave'.low
         /\ slave'.stretch = slave.stretch
  BY <1>2, <1>3, <1>4, SampledData DEF Live, Joined, Receiver
<1>6. started
  BY <1>1 DEF BusInv, Lines
<1>7. Lines'
  BY <1>1, <1>5, <1>6, BusFrame DEF BusInv, Lines, Live
<1>8. InStep'
  BY <1>1, <1>3, <1>5, BusFrame DEF InStep, InStepEdges, InStepBetween, InStepClocking, SendsBit, Live, BusInv
<1> QED BY <1>7, <1>8

LEMMA StepWaitSCL == ASSUME BusInv, Bus, WaitSCL PROVE Lines' /\ InStep'
<1> USE DEF Starting, Clocking, Stopping, Between, At
<1>1. /\ pc = "restart_wait" /\ pc' = "start_sda" /\ SCL
      /\ UNCHANGED <<sda_low, scl_low, started, op, cycle, byte, slave>>
  BY DEF WaitSCL, Goto
<1>2. ~slave.stretch
  BY <1>1 DEF SCL
<1>3. Lines'
  BY <1>1, <1>2, BusFrame DEF BusInv, Lines, Live
<1>4. InStep'
  BY <1>1, BusFrame DEF InStep, InStepEdges, InStepBetween, InStepClocking, SendsBit, Live, BusInv
<1> QED BY <1>3, <1>4

\* What the runs check: the lines are high when the START is made.
LEMMA FreeBus == BusInv => StartOnFreeBus
<1> SUFFICES ASSUME BusInv, At("start_sda") PROVE SCL /\ SDA
  BY DEF StartOnFreeBus
<1>1. ~sda_low /\ ~scl_low /\ ~slave.stretch
  BY DEF BusInv, Lines, At
<1>2. ~slave.low
  BY DEF BusInv, Lines, InStep, InStepEdges, Starting, At
<1> QED BY <1>1, <1>2 DEF SDA, SCL

LEMMA StepStartCondition == ASSUME BusInv, Bus, StartCondition PROVE Lines' /\ InStep'
<1> USE DEF Starting, Clocking, Stopping, Between, At
<1>1. /\ pc = "start_sda" /\ pc' = "start_scl"
      /\ sda_low' /\ UNCHANGED <<scl_low, started, op, cycle, byte>> /\ Follow
  BY DEF StartCondition, SetSDA, Goto
<1>2. SCL /\ SDA /\ ~SDA_next
  BY <1>1, FreeBus DEF StartOnFreeBus, SDA_next
<1>3. (Deaf /\ slave' = slave) \/ slave' = Started(slave)
  BY <1>1, <1>2, DataMoves DEF BusInv, MagTypes
<1>4. \/ ~Live /\ slave' = slave
      \/ /\ Live' /\ slave'.mode = "addr" /\ slave'.n = -1 /\ slave'.shift = <<>> /\ ~slave'.low
         /\ slave'.stretch = slave.stretch
  BY <1>3, StartedFields DEF BusInv, MagTypes, Deaf, Off, Boot, Live, Joined, Receiver, Kept
<1>5. Lines'
  BY <1>1, <1>4, BusFrame DEF BusInv, Lines, Live
<1>6. InStep'
  BY <1>1, <1>4, BusFrame DEF InStep, InStepEdges, InStepBetween, InStepClocking, SendsBit, Live, BusInv
<1> QED BY <1>5, <1>6

LEMMA StepDriveBit == ASSUME BusInv, Bus, DriveBit PROVE Lines' /\ InStep'
<1> USE DEF Starting, Clocking, Stopping, Between, At
<1>1. /\ pc = "bit" /\ pc' = "raise"
      /\ sda_low' = ~BitOut /\ UNCHANGED <<scl_low, started, op, cycle, byte>> /\ Follow
  BY DEF DriveBit, SetSDA, Goto
<1>2. scl_low /\ started
  BY <1>1 DEF BusInv, Lines
<1>3. slave' = slave
  BY <1>1, <1>2, ClockStaysLow
<1>4. BitOut' = BitOut
  BY <1>1 DEF BitOut
<1>5. Lines'
  BY <1>1, <1>2, <1>3, <1>4, BusFrame DEF BusInv, Lines, Live
<1>6. InStep'
  BY <1>1, <1>3, BusFrame DEF InStep, InStepEdges, InStepBetween, InStepClocking, SendsBit, Live, BusInv, Taken
<1> QED BY <1>5, <1>6

LEMMA StepStopLow == ASSUME BusInv, Bus, StopLow PROVE Lines' /\ InStep'
<1> USE DEF Starting, Clocking, Stopping, Between, At
<1>1. /\ pc = "stop" /\ pc' = "stop_scl"
      /\ sda_low' /\ UNCHANGED <<scl_low, started, op, cycle, byte>> /\ Follow
  BY DEF StopLow, SetSDA, Goto
<1>2. scl_low /\ started
  BY <1>1 DEF BusInv, Lines
<1>3. slave' = slave
  BY <1>1, <1>2, ClockStaysLow
<1>4. Lines'
  BY <1>1, <1>2, <1>3, BusFrame DEF BusInv, Lines, Live
<1>5. InStep'
  BY <1>1, <1>3, BusFrame DEF InStep, InStepEdges, InStepBetween, InStepClocking, SendsBit, Live, BusInv, Nack
<1> QED BY <1>4, <1>5

LEMMA StepStopRaise == ASSUME BusInv, Bus, StopRaise PROVE Lines' /\ InStep'
<1> USE DEF Starting, Clocking, Stopping, Between, At
<1>1. /\ pc = "stop_scl" /\ pc' = "stop_sda"
      /\ ~scl_low' /\ UNCHANGED <<sda_low, started, op, cycle, byte>> /\ Follow
  BY DEF StopRaise, SetSCL, Goto
<1>2. SDA \in BOOLEAN
  BY DEF SDA
<1>3. Live => slave.mode = "data" /\ slave.n = 0 /\ ~slave.low
  BY <1>1 DEF BusInv, InStep, InStepEdges
<1>4. slave' = slave \/ slave' = Sampled(slave, SDA)
  BY <1>1, ClockRises DEF BusInv, MagTypes
<1>5. \/ slave' = slave
      \/ Live /\ Live' /\ slave'.mode = "data" /\ slave'.n = 0 /\ ~slave'.low
         /\ slave'.stretch = slave.stretch
  BY <1>2, <1>3, <1>4, SampledData DEF Live, Joined, Receiver
<1>6. started
  BY <1>1 DEF BusInv, Lines
<1>7. Lines'
  BY <1>1, <1>5, <1>6, BusFrame DEF BusInv, Lines, Live
<1>8. InStep'
  BY <1>1, <1>3, <1>5, BusFrame DEF InStep, InStepEdges, InStepBetween, InStepClocking, SendsBit, Live, BusInv, Nack
<1> QED BY <1>7, <1>8

LEMMA StepStopCondition == ASSUME BusInv, Bus, StopCondition PROVE Lines' /\ InStep'
<1> USE DEF Starting, Clocking, Stopping, Between, At
<1>1. /\ pc = "stop_sda" /\ pc' = "done" /\ SCL
      /\ ~sda_low' /\ started' = FALSE /\ UNCHANGED <<scl_low, op, cycle, byte>> /\ Follow
  BY DEF StopCondition, SetSDA, Goto
<1>2. ~slave.low /\ sda_low /\ ~slave.stretch /\ ~scl_low
  BY <1>1 DEF BusInv, Lines, InStep, InStepEdges, SCL
<1>3. ~SDA /\ SDA_next
  BY <1>1, <1>2 DEF SDA, SDA_next
<1>4. (Deaf /\ slave' = slave) \/ slave' = Idle(slave)
  BY <1>1, <1>3, DataMoves DEF BusInv, MagTypes
<1>5. ~Live' /\ ~slave'.low /\ slave'.stretch = slave.stretch /\ slave'.mode # "send"
  BY <1>2, <1>4, IdleFields DEF BusInv, MagTypes, Deaf, Off, Boot, Live, Joined, Receiver, Kept
<1>6. ~Initialised' \/ (~scl_low' /\ ~sda_low')
  BY <1>1, <1>2
<1>7. Nth \in Int /\ (Nth = TotalOf(fn))
  BY <1>1, Position DEF BusInv, Order
<1>8. Lines'
  BY <1>1, <1>2, <1>5, <1>6, <1>7, BusFrame, TotalType DEF BusInv, Lines
<1>9. InStep'
  BY <1>1, <1>5, BusFrame DEF InStep, InStepEdges, InStepBetween, InStepClocking, SendsBit
<1> QED BY <1>8, <1>9

-----------------------------------------------------------------------------
(* The two edges of the clock.                                             *)

\* A rising clock, made by the master or let through by the device.
LEMMA SampledBit ==
    ASSUME BusInv, pc \in {"raise", "fall"}, Live, ~At("fall") \/ ~SCL
    PROVE  LET t == Sampled(slave, SDA)
               taken == IF cycle < Width THEN cycle + 1 ELSE cycle IN
           /\ t \in Slaves /\ t.stretch = slave.stretch
           /\ Receiver(slave) =>
                /\ t.mode = slave.mode /\ t.n = slave.n /\ t.low = slave.low
                /\ Len(t.shift) = taken /\ \A i \in 1..taken : t.shift[i] = op.data[i]
           /\ slave.mode = "send" =>
                \/ t = slave /\ (cycle = Width => ~op.nack)
                \/ t.mode = "idle" /\ ~t.low
<1> DEFINE t == Sampled(slave, SDA)
           taken == IF cycle < Width THEN cycle + 1 ELSE cycle
<1>1. SDA \in BOOLEAN
  BY DEF SDA
<1>2. slave \in Slaves /\ cycle \in 0..Width /\ cycle \in Nat /\ op \in Ops
  BY DEF BusInv, MagTypes, Clocking
<1>3. t \in Slaves /\ t.stretch = slave.stretch
  BY <1>1, <1>2, SampledFields DEF Kept
<1>4. /\ slave.mode = ModeIn /\ slave.n = cycle
      /\ Receiver(slave) => /\ slave.low <=> cycle = Width
                           /\ Len(slave.shift) = cycle
                           /\ \A i \in 1..cycle : slave.shift[i] = op.data[i]
  BY <1>2 DEF BusInv, InStep, InStepClocking, Taken, Clocking, At
<1>5. /\ sda_low <=> ~BitOut
      /\ op.write <=> Nth <= 3
      /\ Nth \in Nat \ {0} /\ (fn # "read" => Nth <= 3)
  BY Position, TotalType DEF BusInv, Lines, At
<1>6. CASE Receiver(slave) /\ cycle < Width
  <2>1. op.write
    BY <1>4, <1>5, <1>6 DEF ModeIn, Receiver
  <2>2. op.data[cycle + 1] \in BOOLEAN
    BY <1>2, <1>6 DEF Ops, Byte
  <2>3. SDA = op.data[cycle + 1]
    <3>1. SDA <=> op.data[cycle + 1]
      BY <1>4, <1>5, <1>6, <2>1 DEF SDA, BitOut
    <3> QED BY <1>1, <2>2, <3>1, Zenon
  <2>4. /\ t.mode = slave.mode /\ t.n = slave.n /\ t.low = slave.low
        /\ t.shift = Append(slave.shift, SDA)
    BY <1>1, <1>2, <1>4, <1>6, SampledFields
  <2>5. slave.shift \in Seq(BOOLEAN)
    BY <1>2 DEF Slaves
  <2>6. Len(t.shift) = cycle + 1 /\ \A i \in 1..cycle + 1 : t.shift[i] = op.data[i]
    BY <1>1, <1>2, <1>4, <1>6, <2>3, <2>4, <2>5
  <2> QED BY <1>3, <1>6, <2>4, <2>6 DEF Receiver
<1>7. CASE Receiver(slave) /\ cycle = Width
  <2>1. t = slave
    BY <1>1, <1>2, <1>4, <1>7, SampledFields DEF Receiver
  <2> QED BY <1>3, <1>4, <1>7, <2>1 DEF Receiver
<1>8. CASE slave.mode = "send"
  <2>1. CASE slave.n = Width /\ SDA
    <3>1. t = Idle(slave)
      BY <1>1, <1>2, <1>8, <2>1, SampledFields
    <3>2. t.mode = "idle" /\ ~t.low
      BY <1>2, <3>1, IdleFields
    <3> QED BY <1>3, <1>8, <3>2 DEF Receiver
  <2>2. CASE ~(slave.n = Width /\ SDA)
    <3>1. t = slave
      BY <1>1, <1>2, <1>8, <2>2, SampledFields DEF Receiver
    <3>2. cycle = Width => ~op.nack
      <4>1. ~op.write
        BY <1>4, <1>5, <1>8 DEF ModeIn
      <4>2. cycle = Width => ~SDA /\ ~slave.low
        BY <1>2, <1>4, <1>8, <2>2 DEF BusInv, InStep, SendsBit
      <4> QED BY <1>5, <4>1, <4>2 DEF SDA, BitOut
    <3> QED BY <1>3, <1>8, <3>1, <3>2 DEF Receiver
  <2> QED BY <2>1, <2>2
<1> QED BY <1>2, <1>6, <1>7, <1>8 DEF Live, Joined

LEMMA StepRaise == ASSUME BusInv, Bus, Raise PROVE Lines' /\ InStep'
<1> USE DEF Starting, Clocking, Stopping, Between, At
<1>1. /\ pc = "raise" /\ pc' = "fall"
      /\ ~scl_low' /\ UNCHANGED <<sda_low, started, op, cycle, byte>> /\ Follow
  BY DEF Raise, SetSCL, Goto
<1>2. scl_low /\ started /\ BitOut' = BitOut /\ cycle \in 0..Width
  BY <1>1 DEF BusInv, Lines, BitOut, MagTypes
<1>3. \/ slave' = slave /\ (~Live \/ slave.stretch)
      \/ ~Deaf /\ ~slave.stretch /\ slave' = Sampled(slave, SDA)
  BY <1>1, <1>2, ClockRises DEF BusInv, MagTypes, Deaf, Off, Boot, Live, Joined, Receiver
<1>4. CASE slave' = slave /\ (~Live \/ slave.stretch)
  <2>1. Live' = Live /\ (Live => Taken' = cycle)
    BY <1>1, <1>4 DEF Live, Taken, SCL
  <2>2. Lines'
    BY <1>1, <1>2, <1>4, BusFrame DEF BusInv, Lines, Live
  <2>3. Live => Taken = cycle /\ ~(SCL')
    BY <1>1, <1>4 DEF Taken, SCL
  <2>4. InStepClocking'
    BY <1>1, <1>4, <2>1, <2>3, BusFrame DEF BusInv, InStep, InStepClocking
  <2>5. (InStepEdges /\ InStepBetween /\ SendsBit)'
    BY <1>1, <1>4, BusFrame DEF BusInv, InStep, InStepEdges, InStepBetween, SendsBit
  <2> QED BY <2>2, <2>4, <2>5 DEF InStep
<1>5. CASE ~Live /\ slave' = Sampled(slave, SDA)
  <2>1. SDA \in BOOLEAN
    BY DEF SDA
  <2>2. slave' = slave
    BY <1>5, <2>1, SampledData
  <2> QED BY <1>4, <1>5, <2>2
<1>6. CASE Live /\ ~slave.stretch /\ slave' = Sampled(slave, SDA)
  <2> DEFINE taken == IF cycle < Width THEN cycle + 1 ELSE cycle
  <2>1. /\ slave' \in Slaves /\ slave'.stretch = slave.stretch
        /\ Receiver(slave) =>
             /\ slave'.mode = slave.mode /\ slave'.n = slave.n /\ slave'.low = slave.low
             /\ Len(slave'.shift) = taken /\ \A i \in 1..taken : slave'.shift[i] = op.data[i]
        /\ slave.mode = "send" =>
             \/ slave' = slave /\ (cycle = Width => ~op.nack)
             \/ slave'.mode = "idle" /\ ~slave'.low
    BY <1>1, <1>6, SampledBit
  <2>2. Taken' = taken /\ SCL'
    BY <1>1, <1>6, <2>1 DEF Taken, SCL
  <2> HIDE DEF taken
  <2>3. /\ slave.mode = ModeIn /\ slave.n = cycle
        /\ Receiver(slave) => (slave.low <=> cycle = Width)
    BY <1>1, <1>6 DEF BusInv, InStep, InStepClocking
  <2>4. Lines'
    BY <1>1, <1>2, <1>6, <2>1, BusFrame DEF BusInv, Lines, Live, Joined, Receiver
  <2>5. InStepClocking'
    BY <1>1, <1>6, <2>1, <2>2, <2>3, BusFrame DEF InStepClocking, Live, Joined, Receiver
  <2>6. SendsBit'
    BY <1>6, <2>1 DEF BusInv, InStep, SendsBit, Live, Joined, Receiver
  <2>7. (InStepEdges /\ InStepBetween)'
    BY <1>1 DEF InStepEdges, InStepBetween
  <2> QED BY <2>4, <2>5, <2>6, <2>7 DEF InStep
<1> QED BY <1>3, <1>4, <1>5, <1>6

\* A falling clock in the middle of nothing, or of what the device ignores.
LEMMA FallsUnheard ==
    ASSUME BusInv, SCL, scl_low', Follow, ~Live
    PROVE  /\ slave' \in Slaves /\ slave'.mode = slave.mode /\ slave'.low = slave.low
           /\ slave'.shift = slave.shift /\ slave'.reg = slave.reg
           /\ slave'.written = slave.written /\ slave'.sent = slave.sent
<1>1. slave \in Slaves
  BY DEF BusInv, MagTypes
<1>2. CASE slave' = slave
  BY <1>1, <1>2
<1>3. ASSUME ~Deaf, NEW s \in Shifted(slave), NEW stretch \in BOOLEAN,
             slave' = [s EXCEPT !.stretch = stretch]
      PROVE  /\ slave' \in Slaves /\ slave'.mode = slave.mode /\ slave'.low = slave.low
             /\ slave'.shift = slave.shift /\ slave'.reg = slave.reg
             /\ slave'.written = slave.written /\ slave'.sent = slave.sent
  <2>1. slave.mode = "idle"
    BY <1>1, <1>3 DEF Deaf, Live, Joined, Receiver, Slaves, Modes
  <2>2. s = slave
    BY <1>1, <1>3, <2>1, IdleShifted
  <2> QED BY <1>1, <1>3, <2>2, ReleasedFields
<1> QED BY <1>2, <1>3, ClockFalls

\* A falling clock that the device follows.
LEMMA FallsHeard ==
    ASSUME BusInv, SCL, scl_low', Follow, Live
    PROVE  \E s \in Shifted(slave) :
              /\ s \in Slaves /\ slave' \in Slaves
              /\ slave'.mode = s.mode /\ slave'.n = s.n /\ slave'.shift = s.shift
              /\ slave'.low = s.low /\ slave'.reg = s.reg
              /\ slave'.written = s.written /\ slave'.sent = s.sent
<1>1. slave \in Slaves /\ ~Deaf /\ slave.mode \notin {Off, Boot}
  BY DEF BusInv, MagTypes, Deaf, Off, Boot, Live, Joined, Receiver
<1>2. PICK s \in Shifted(slave), stretch \in BOOLEAN : slave' = [s EXCEPT !.stretch = stretch]
  BY <1>1, ClockFalls
<1>3. s \in Slaves
  BY <1>1, ShiftedType
<1>4. WITNESS s \in Shifted(slave)
<1> QED BY <1>2, <1>3, ReleasedFields

LEMMA StepStartDone == ASSUME BusInv, Bus, StartDone PROVE Lines' /\ InStep'
<1> USE DEF Starting, Clocking, Stopping, Between, At
<1>1. /\ pc = "start_scl" /\ pc' = "bit"
      /\ scl_low' /\ started' = TRUE /\ UNCHANGED <<sda_low, op, cycle, byte>> /\ Follow
  BY DEF StartDone, SetSCL, Goto
<1>2. SCL /\ cycle = 0
  BY <1>1 DEF BusInv, Lines, SCL, MagTypes
<1>3. ModeIn = "addr" /\ ModeIn' = ModeIn
  BY <1>1, Position, BusFrame DEF BusInv, Order, ModeIn
<1>4. CASE ~Live
  <2>1. slave'.mode = slave.mode /\ slave'.low = slave.low
    BY <1>1, <1>2, <1>4, FallsUnheard
  <2>2. ~Live' /\ ~slave'.low /\ slave'.mode # "send"
    BY <1>4, <2>1 DEF BusInv, Lines, Live, Joined, Receiver
  <2>3. Lines'
    BY <1>1, <2>2, BusFrame DEF BusInv, Lines
  <2> QED BY <2>2, <2>3 DEF InStep, InStepBetween, InStepEdges, InStepClocking, SendsBit
<1>5. CASE Live
  <2>1. slave.mode = "addr" /\ slave.n = -1 /\ slave.shift = <<>> /\ ~slave.low
    BY <1>1, <1>5 DEF BusInv, InStep, InStepEdges
  <2>2. PICK s \in Shifted(slave) :
              /\ slave'.mode = s.mode /\ slave'.n = s.n /\ slave'.shift = s.shift
              /\ slave'.low = s.low
    BY <1>1, <1>2, <1>5, FallsHeard
  <2>3. s.mode = "addr" /\ s.n = 0 /\ s.shift = <<>> /\ ~s.low
    <3>1. slave \in Slaves /\ Joined(slave) /\ slave.n < Width - 1
      BY <1>5, <2>1 DEF BusInv, MagTypes, Live
    <3>2. /\ s.mode = slave.mode /\ s.n = slave.n + 1 /\ s.shift = slave.shift
          /\ s.low => slave.mode = "send"
      BY <3>1, BitFields
    <3> QED BY <2>1, <3>2
  <2>4. Lines'
    BY <1>1, <1>5, <2>2, <2>3, BusFrame DEF BusInv, Lines, Live, Joined, Receiver
  <2>5. Taken' = 0 /\ cycle' = 0
    BY <1>1, <1>2 DEF Taken
  <2>6. InStepClocking'
    BY <1>1, <1>2, <1>3, <2>2, <2>3, <2>5 DEF InStepClocking, Receiver
  <2> QED BY <1>1, <2>2, <2>3, <2>4, <2>6 DEF InStep, InStepBetween, InStepEdges, SendsBit
<1> QED BY <1>4, <1>5

LEMMA FallLines ==
    ASSUME BusInv, Bus, Fall, Live' => Live, ~slave'.low \/ Live'
    PROVE  Lines'
<1> USE DEF Starting, Clocking, Stopping, Between, At
<1>1. /\ pc = "fall" /\ pc' \in {"bit", "stop", "done"}
      /\ scl_low' /\ UNCHANGED <<sda_low, started, op>>
  BY DEF Fall, SetSCL, Goto, AfterBit
<1>2. started
  BY <1>1 DEF BusInv, Lines
<1> QED BY <1>1, <1>2, BusFrame DEF BusInv, Lines

LEMMA StepFall == ASSUME BusInv, Bus, Fall PROVE Lines' /\ InStep'
<1> USE DEF Starting, Clocking, Stopping, Between, At
<1>1. /\ pc = "fall" /\ SCL /\ pc' = AfterBit /\ cycle' = cycle + 1
      /\ byte' = IF Looks THEN Append(byte, SDA) ELSE byte
      /\ scl_low' /\ UNCHANGED <<sda_low, started, op>> /\ Follow
  BY DEF Fall, SetSCL, Goto
<1>2. /\ cycle \in 0..Width /\ slave \in Slaves /\ started /\ op \in Ops
      /\ pc' = IF cycle < Width THEN "bit" ELSE IF op.stop THEN "stop" ELSE "done"
  BY <1>1 DEF BusInv, Lines, MagTypes, AfterBit
<1>3. CASE ~Live
  <2>1. slave'.mode = slave.mode /\ slave'.low = slave.low
    BY <1>1, <1>3, FallsUnheard
  <2>2. ~Live' /\ ~slave'.low /\ slave'.mode # "send"
    BY <1>3, <2>1 DEF BusInv, Lines, Live, Joined, Receiver
  <2>3. Lines'
    BY <2>2, FallLines
  <2> QED BY <2>2, <2>3 DEF InStep, InStepBetween, InStepEdges, InStepClocking, SendsBit
<1>4. CASE Live
  <2>1. /\ slave.mode = ModeIn /\ slave.n = cycle
        /\ Receiver(slave) =>
              /\ slave.low <=> cycle = Width
              /\ Len(slave.shift) = Taken
              /\ \A i \in 1..Taken : slave.shift[i] = op.data[i]
        /\ slave.mode = "send" /\ cycle = Width => ~op.nack
        /\ slave.mode = "send" => Len(slave.shift) = Width
    BY <1>1, <1>4 DEF BusInv, InStep, InStepClocking, SendsBit
  <2>2. PICK s \in Shifted(slave) :
              /\ slave'.mode = s.mode /\ slave'.n = s.n /\ slave'.shift = s.shift
              /\ slave'.low = s.low
    BY <1>1, <1>4, FallsHeard
  <2>3. Taken = IF cycle < Width THEN cycle + 1 ELSE cycle
    BY <1>1 DEF Taken
  <2>4. cycle < Width => Taken' = cycle + 1
    BY <1>1, <1>2 DEF Taken
  <2>5. CASE cycle < Width - 1
    <3>1. /\ s.mode = slave.mode /\ s.n = cycle + 1 /\ s.shift = slave.shift
          /\ s.low <=> slave.mode = "send" /\ ~slave.shift[slave.n + 2]
      BY <1>2, <1>4, <2>1, <2>5, BitFields DEF Live
    <3>2. Lines'
      BY <1>4, <2>2, <3>1, FallLines DEF Live, Joined, Receiver
    <3>3. InStepClocking'
      BY <1>1, <1>2, <2>1, <2>2, <2>3, <2>4, <2>5, <3>1, BusFrame DEF InStepClocking, Receiver
    <3>4. SendsBit'
      BY <1>2, <2>1, <2>2, <2>5, <3>1 DEF SendsBit
    <3> QED BY <1>2, <2>5, <3>2, <3>3, <3>4 DEF InStep, InStepBetween, InStepEdges
  <2>6. CASE cycle = Width - 1
    <3>1. /\ s.mode = "idle" => ~s.low
          /\ s.mode # "idle" => /\ s.mode = slave.mode /\ s.n = Width /\ s.shift = slave.shift
                                /\ s.low <=> Receiver(slave)
      BY <1>2, <1>4, <2>1, <2>6, LastBitFields DEF Live
    <3>2. Lines'
      BY <1>4, <2>2, <3>1, FallLines DEF Live, Joined, Receiver
    <3>3. CASE s.mode = "idle"
      BY <2>2, <3>2, <3>3
         DEF InStep, InStepBetween, InStepEdges, InStepClocking, SendsBit, Live, Joined, Receiver
    <3> SUFFICES ASSUME s.mode # "idle" PROVE InStep'
      BY <3>2, <3>3
    <3>4. /\ slave'.mode = slave.mode /\ slave'.n = Width /\ slave'.shift = slave.shift
          /\ slave'.low <=> Receiver(slave)
      BY <2>2, <3>1
    <3>5. Receiver(slave)' <=> Receiver(slave)
      BY <3>4 DEF Receiver
    <3>6. /\ pc' = "bit" /\ cycle' = Width /\ Taken' = Width
          /\ Receiver(slave) => Len(slave.shift) = Width /\ \A i \in 1..Width : slave.shift[i] = op.data[i]
      BY <1>1, <1>2, <2>1, <2>3, <2>4, <2>6
    <3>7. InStepClocking'
      BY <1>1, <2>1, <3>4, <3>5, <3>6, BusFrame DEF InStepClocking
    <3>8. SendsBit'
      BY <2>1, <3>4 DEF SendsBit, Receiver
    <3> QED BY <3>6, <3>7, <3>8 DEF InStep, InStepBetween, InStepEdges
  <2>7. CASE cycle = Width
    <3>1. /\ s.n = 0
          /\ slave.mode = "send" \/ Addressed(slave) =>
                s.mode = "send" /\ Len(s.shift) = Width /\ (s.low <=> ~s.shift[1])
          /\ slave.mode # "send" /\ ~Addressed(slave) =>
                /\ s.mode = IF slave.mode = "addr" THEN "reg" ELSE "data"
                /\ s.shift = <<>> /\ ~s.low
      BY <1>2, <1>4, <2>1, <2>7, NextByteFields DEF Live
    <3>2. /\ Nth \in 1..TotalOf(fn) /\ op = CallsOf(fn)[Nth] /\ fn \in Accesses
          /\ op.write <=> Nth <= 3
          /\ op.stop <=> Nth = TotalOf(fn)
          /\ ~op.write => (op.nack <=> Nth = TotalOf(fn))
          /\ TotalOf(fn) >= 3 /\ TotalOf(fn) \in Nat /\ (fn # "read" => TotalOf(fn) = 3)
      BY <1>1, Position, TotalType DEF BusInv
    <3>3. fn = "read" => TotalOf(fn) > 3
      BY DEF TotalOf
    <3>4. Receiver(slave) => ~Nack'
      <4>1. Receiver(slave) => op.write /\ slave.low
        BY <2>1, <2>7, <3>2 DEF ModeIn, Receiver
      <4>2. op.write => byte = <<>>
        BY <1>1, <1>2 DEF BusInv, Bits, MagTypes
      <4>3. SDA \in BOOLEAN /\ (slave.low => ~SDA)
        BY DEF SDA
      <4>4. op.write => byte' = <<SDA>>
        BY <1>1, <2>7, <4>2, <4>3 DEF Looks
      <4> QED BY <1>1, <4>1, <4>3, <4>4 DEF Nack
    <3>5. slave.mode = "send" => ~Nack'
      BY <1>1, <2>1, <3>2 DEF Nack, ModeIn
    <3>6. Addressed(slave) <=> Nth = 3 /\ slave.mode = "addr"
      <4>1. slave.mode = "addr" => slave.shift[Width] = op.data[Width]
        BY <2>1, <2>3, <2>7 DEF Receiver
      <4>2. ModeIn = "addr" => Nth = 1 \/ (Nth = 3 /\ fn = "read")
        BY DEF ModeIn
      <4>3. (Nth = 1 => ~op.data[Width]) /\ (Nth = 3 /\ fn = "read" => op.data[Width])
        BY <3>2, CallsOfAccess
      <4> QED BY <2>1, <4>1, <4>2, <4>3 DEF Addressed
    <3>7. Lines'
      BY <1>4, <2>2, <2>1, <3>1, FallLines DEF Live, Joined, Receiver
    <3>8. SendsBit'
      BY <1>2, <2>2, <3>1 DEF SendsBit
    <3>9. CASE op.stop
      <4>1. Nth = 3 /\ fn # "read" /\ slave.mode = "data"
        <5>1. Nth = TotalOf(fn) /\ Nth \in Nat
          BY <3>2, <3>9
        <5>2. CASE fn = "read"
          <6>1. slave.mode = "send" /\ ~op.write /\ op.nack
            BY <2>1, <3>2, <3>3, <5>1, <5>2 DEF ModeIn
          <6> QED BY <2>1, <2>7, <6>1
        <5> QED BY <2>1, <3>2, <5>1, <5>2 DEF ModeIn
      <4>2. s.mode = "data" /\ ~s.low /\ ~Nack'
        BY <3>1, <3>4, <4>1 DEF Addressed, Receiver
      <4> QED BY <1>2, <2>2, <2>7, <3>1, <3>7, <3>8, <3>9, <4>2
              DEF InStep, InStepBetween, InStepEdges, InStepClocking
    <3>10. CASE ~op.stop
      <4>1. pc' = "done" /\ Nth \in 1..TotalOf(fn) - 1 /\ ~Nack'
        BY <1>2, <1>4, <2>7, <3>2, <3>4, <3>5, <3>10 DEF Live, Joined
      <4>2. s.mode = ModeAfter
        BY <1>4, <2>1, <3>1, <3>2, <3>6, <4>1 DEF ModeAfter, ModeIn, Live, Joined, Receiver
      <4>3. Receiver(s) => s.shift = <<>> /\ ~s.low
        BY <3>1 DEF Receiver
      <4>4. InStepBetween'
        BY <1>1, <1>2, <2>2, <3>1, <4>1, <4>2, <4>3, BusFrame DEF InStepBetween, Receiver
      <4> QED BY <3>7, <3>8, <4>1, <4>4 DEF InStep, InStepEdges, InStepClocking
    <3> QED BY <3>9, <3>10
  <2> QED BY <1>2, <2>5, <2>6, <2>7
<1> QED BY <1>3, <1>4

-----------------------------------------------------------------------------
(* The device by itself, and the driver.                                   *)

LEMMA StepRelease == ASSUME BusInv, World, Release PROVE Lines' /\ InStep'
<1> USE DEF Starting, Clocking, Stopping, Between, At
<1> DEFINE t == IF scl_low THEN slave ELSE Sampled(slave, SDA)
<1>1. /\ slave.stretch /\ slave' = [t EXCEPT !.stretch = FALSE]
      /\ UNCHANGED <<sda_low, scl_low, started, op, pc, cycle, byte>>
      /\ UNCHANGED <<timeout, fn, todo>>
  BY DEF Release, World
<1>2. SDA \in BOOLEAN
  BY DEF SDA
<1>3. slave \in Slaves /\ t \in Slaves
  BY <1>2, SampledFields DEF BusInv, MagTypes
<1> HIDE DEF t
<1>4. /\ slave'.mode = t.mode /\ slave'.n = t.n /\ slave'.shift = t.shift
      /\ slave'.low = t.low /\ ~slave'.stretch
  BY <1>1, <1>3, ReleasedFields
<1>5. started /\ pc \notin {"start_sda", "start_scl"}
  BY <1>1 DEF BusInv, Lines
<1>6. /\ Nth' = Nth /\ ModeIn' = ModeIn /\ ModeAfter' = ModeAfter /\ BitOut' = BitOut
      /\ InAccess' = InAccess /\ Nack' = Nack
  BY <1>1 DEF Nth, ModeIn, ModeAfter, BitOut, InAccess, Nack
<1>7. ASSUME Live' => Live, ~Live' => ~slave'.low PROVE Lines'
  BY <1>1, <1>4, <1>5, <1>6, <1>7 DEF BusInv, Lines
<1>8. CASE t = slave /\ ~At("fall")
  <2>1. Live' = Live /\ Receiver(slave)' = Receiver(slave)
    BY <1>4, <1>8 DEF Live, Joined, Receiver
  <2>2. Lines'
    BY <1>4, <1>7, <1>8, <2>1 DEF BusInv, Lines
  <2>3. Taken' = Taken
    BY <1>1, <1>8 DEF Taken
  <2>4. SendsBit'
    BY <1>4, <1>8 DEF BusInv, InStep, SendsBit
  <2>5. InStepClocking'
    BY <1>1, <1>4, <1>6, <1>8, <2>1, <2>3 DEF BusInv, InStep, InStepClocking
  <2>6. InStepBetween'
    BY <1>1, <1>4, <1>6, <1>8, <2>1 DEF BusInv, InStep, InStepBetween
  <2>7. InStepEdges'
    BY <1>1, <1>4, <1>6, <1>8, <2>1 DEF BusInv, InStep, InStepEdges
  <2> QED BY <2>2, <2>4, <2>5, <2>6, <2>7 DEF InStep
<1>9. CASE ~Live
  <2>1. t = slave
    BY <1>2, <1>9, SampledData DEF t
  <2>2. ~Live' /\ ~slave'.low /\ slave'.mode # "send"
    BY <1>4, <1>9, <2>1 DEF BusInv, Lines, Live, Joined, Receiver
  <2>3. Lines'
    BY <1>7, <2>2
  <2> QED BY <2>2, <2>3 DEF InStep, InStepBetween, InStepEdges, InStepClocking, SendsBit
<1>10. CASE Live /\ slave.mode = "data" /\ slave.n = 0 /\ ~slave.low /\ ~Between /\ ~Clocking
  <2>1. t.mode = "data" /\ t.n = 0 /\ t.low = slave.low
    BY <1>2, <1>10, SampledData DEF t
  <2>2. Live' /\ ~slave'.low
    BY <1>4, <1>10, <2>1 DEF Live, Joined, Receiver
  <2>3. Lines'
    BY <1>7, <1>10, <2>2
  <2>4. InStepEdges'
    BY <1>1, <1>4, <1>5, <1>6, <1>10, <2>1, <2>2 DEF BusInv, InStep, InStepEdges
  <2> QED BY <1>1, <1>4, <1>10, <2>1, <2>3, <2>4 DEF InStep, InStepBetween, InStepClocking, SendsBit
<1>11. CASE Live /\ pc = "fall"
  <2> DEFINE taken == IF cycle < Width THEN cycle + 1 ELSE cycle
  <2>1. ~scl_low /\ ~SCL /\ t = Sampled(slave, SDA)
    BY <1>1, <1>11 DEF BusInv, Lines, SCL, t
  <2>2. /\ Receiver(slave) =>
             /\ t.mode = slave.mode /\ t.n = slave.n /\ t.low = slave.low
             /\ Len(t.shift) = taken /\ \A i \in 1..taken : t.shift[i] = op.data[i]
        /\ slave.mode = "send" =>
             \/ t = slave /\ (cycle = Width => ~op.nack)
             \/ t.mode = "idle" /\ ~t.low
    BY <1>11, <2>1, SampledBit
  <2>3. Taken' = taken /\ SCL'
    BY <1>1, <1>4, <1>11, <2>1 DEF Taken, SCL
  <2> HIDE DEF taken
  <2>4. /\ slave.mode = ModeIn /\ slave.n = cycle
        /\ Receiver(slave) => (slave.low <=> cycle = Width)
    BY <1>11 DEF BusInv, InStep, InStepClocking
  <2>5. Receiver(slave) \/ slave.mode = "send"
    BY <1>11 DEF Live, Joined
  <2>6. CASE Receiver(slave)
    <3>1. /\ slave'.mode = slave.mode /\ slave'.n = cycle /\ slave'.low = slave.low
          /\ Len(slave'.shift) = taken /\ \A i \in 1..taken : slave'.shift[i] = op.data[i]
          /\ Live' /\ slave'.mode # "send"
      BY <1>4, <2>2, <2>4, <2>6 DEF Live, Joined, Receiver
    <3>2. Lines'
      BY <1>7, <1>11, <3>1
    <3>3. InStepClocking'
      BY <1>1, <1>6, <2>3, <2>4, <2>6, <3>1 DEF InStepClocking
    <3> QED BY <1>1, <1>11, <3>1, <3>2, <3>3 DEF InStep, InStepBetween, InStepEdges, SendsBit
  <2>7. CASE slave.mode = "send" /\ t = slave /\ (cycle = Width => ~op.nack)
    <3>1. /\ slave'.mode = "send" /\ slave'.n = cycle /\ slave'.low = slave.low
          /\ slave'.shift = slave.shift /\ Live'
      BY <1>4, <2>4, <2>7 DEF Live, Joined, Receiver
    <3>2. Lines'
      BY <1>7, <1>11, <3>1
    <3>3. InStepClocking'
      BY <1>1, <1>6, <2>3, <2>4, <2>7, <3>1 DEF InStepClocking, Receiver
    <3>4. SendsBit'
      BY <2>4, <2>7, <3>1 DEF BusInv, InStep, SendsBit
    <3> QED BY <1>1, <1>11, <3>2, <3>3, <3>4 DEF InStep, InStepBetween, InStepEdges
  <2>8. CASE slave.mode = "send" /\ t.mode = "idle" /\ ~t.low
    <3>1. ~Live' /\ ~slave'.low /\ slave'.mode # "send"
      BY <1>4, <2>8 DEF Live, Joined, Receiver
    <3> QED BY <1>7, <3>1 DEF InStep, InStepBetween, InStepEdges, InStepClocking, SendsBit
  <2> QED BY <2>2, <2>5, <2>6, <2>7, <2>8
<1>12. Live => \/ scl_low /\ ~At("fall")
               \/ pc = "fall"
               \/ slave.mode = "data" /\ slave.n = 0 /\ ~slave.low /\ ~Between /\ ~Clocking
  <2>1. Starting \/ Clocking \/ Stopping \/ Between
    BY DEF BusInv, MagTypes
  <2>2. Live /\ Between => scl_low
    BY DEF BusInv, InStep, InStepBetween, Lines
  <2>3. pc \in {"bit", "raise"} => scl_low
    BY DEF BusInv, Lines
  <2> QED BY <1>5, <2>1, <2>2, <2>3 DEF BusInv, InStep, InStepEdges
<1> QED BY <1>8, <1>9, <1>10, <1>11, <1>12 DEF t

\* The device is blank or waits: nothing is asked of it.
LEMMA NotLive ==
    ASSUME ~Live', ~slave'.low, Lines' PROVE Lines' /\ InStep'
  BY DEF InStep, InStepBetween, InStepEdges, InStepClocking, SendsBit, Live, Joined

LEMMA BlankNotLive ==
    ASSUME NEW mode \in {Off, Boot, "idle"}, slave' = Blank(mode)
    PROVE  ~Live' /\ ~slave'.low /\ ~slave'.stretch
  BY BlankFields DEF Off, Boot, Live, Joined, Receiver

LEMMA StepUp == ASSUME BusInv, World, Up \/ Upset PROVE Lines' /\ InStep'
<1>1. /\ slave' = Blank("idle") \/ slave' = Blank(Boot)
      /\ UNCHANGED <<sda_low, scl_low, started, op, pc, cycle, byte, timeout, fn, todo>>
  BY DEF Up, Upset, World
<1>2. ~Live' /\ ~slave'.low /\ ~slave'.stretch
  BY <1>1, BlankNotLive
<1>3. Lines'
  BY <1>1, <1>2 DEF BusInv, Lines, Initialised, InAccess, BitOut, Nth, Between, At
<1> QED BY <1>2, <1>3, NotLive

LEMMA StepNextByte == ASSUME BusInv, NextByte PROVE Lines' /\ InStep'
<1> USE DEF Starting, Clocking, Stopping, Between, At
<1>1. /\ pc = "ready" /\ InAccess /\ todo # <<>>
      /\ op' = Head(todo) /\ todo' = Tail(todo) /\ cycle' = 0 /\ byte' = <<>>
      /\ pc' = IF op'.start THEN "start" ELSE "bit"
      /\ UNCHANGED <<sda_low, scl_low, started, slave, timeout, fn>>
  BY DEF NextByte, Call, Goto
<1>2. /\ fn \in Accesses /\ InAccess' /\ fn' = fn
      /\ MagTypes' /\ Order' /\ ~GivenUp' /\ ~At("ready")' /\ Len(todo') \in Nat
  BY <1>1, TypesNextByte, OrderNextByte DEF BusInv, InAccess, Accesses, GivenUp, MagTypes
<1>3. /\ InAccess' /\ fn \in Accesses /\ Nth' \in 1..TotalOf(fn)
      /\ op'.start <=> Nth' = 1 \/ (Nth' = 3 /\ fn = "read")
  <2>1. Nth' \in 1..TotalOf(fn) /\ op' = CallsOf(fn)[Nth']
    BY <1>2, TotalType DEF Order, Nth
  <2> QED BY <1>2, <2>1, CallAt
<1>4. Nth' = Nth + 1 /\ Nth \in Int /\ TotalOf(fn) \in Nat /\ (fn # "read" => TotalOf(fn) = 3)
  <2>1. Len(todo) \in Nat \ {0} /\ Len(todo') = Len(todo) - 1
    BY <1>1 DEF BusInv, MagTypes
  <2> QED BY <1>1, <2>1, TotalType DEF Nth
<1>5. Live' = Live /\ Receiver(slave)' = Receiver(slave) /\ Initialised /\ Initialised'
  BY <1>1, <1>3 DEF Live, Joined, Receiver, Initialised
<1>6. Live => Nth \in 1..TotalOf(fn) - 1 /\ started /\ scl_low /\ slave.mode = ModeAfter /\ slave.n = 0
              /\ (Receiver(slave) => slave.shift = <<>> /\ ~slave.low)
  BY <1>1 DEF BusInv, Lines, InStep, InStepBetween
<1>7. CASE op'.start
  <2>1. pc' = "start"
    BY <1>1, <1>7
  <2>2. Live => slave.mode = "data" /\ slave.n = 0 /\ ~slave.low
    <3>1. Live => Nth = 2
      BY <1>3, <1>4, <1>6, <1>7
    <3> QED BY <1>6, <3>1 DEF ModeAfter, Receiver
  <2>3. Lines'
    BY <1>1, <1>3, <1>5, <1>6, <2>1 DEF BusInv, Lines, InAccess
  <2> QED BY <1>1, <1>5, <2>1, <2>2, <2>3
          DEF BusInv, InStep, InStepBetween, InStepEdges, InStepClocking, SendsBit
<1>8. CASE ~op'.start
  <2>1. pc' = "bit"
    BY <1>1, <1>8
  <2>2. Nth \in 1..TotalOf(fn) - 1 /\ Nth # 0
    BY <1>3, <1>4, <1>8
  <2>3. started /\ scl_low
    BY <1>1, <2>2 DEF BusInv, Lines
  <2>4. Lines'
    BY <1>1, <1>5, <2>1, <2>3 DEF BusInv, Lines, InAccess
  <2>5. ModeIn' = ModeAfter
    BY <1>1, <1>3, <1>4, <1>8, <2>2 DEF ModeIn, ModeAfter
  <2>6. Taken' = 0 /\ 0 # Width
    BY <1>1, <2>1 DEF Taken
  <2>7. InStepClocking'
    BY <1>1, <1>5, <1>6, <2>1, <2>5, <2>6 DEF InStepClocking
  <2>8. SendsBit'
    BY <1>1 DEF BusInv, InStep, SendsBit
  <2> QED BY <2>1, <2>4, <2>7, <2>8 DEF InStep, InStepBetween, InStepEdges
<1> QED BY <1>7, <1>8

LEMMA StepEndByte == ASSUME BusInv, EndByte PROVE Lines' /\ InStep'
<1> USE DEF Starting, Clocking, Stopping, Between, At
<1>1. /\ pc = "done" /\ pc' = "ready"
      /\ IF Nack THEN todo' = <<>> ELSE todo' = todo
      /\ UNCHANGED <<sda_low, scl_low, started, op, cycle, byte, slave, timeout, fn>>
  BY DEF EndByte, Goto, Refused
<1>2. InAccess /\ InAccess' /\ Initialised
  BY <1>1 DEF BusInv, Order, InAccess, Initialised
<1>3. Live' = Live /\ Receiver(slave)' = Receiver(slave) /\ Nack' = Nack
  BY <1>1 DEF Live, Joined, Receiver, Nack
<1>4. CASE Nack
  <2>1. ~Live
    BY <1>1, <1>4 DEF BusInv, InStep, InStepBetween
  <2>2. Nth' = TotalOf(fn)
    BY <1>1, <1>4, TotalType DEF Nth
  <2>3. Lines'
    BY <1>1, <1>2, <2>1, <2>2, <1>3, TotalType DEF BusInv, Lines, InAccess
  <2> QED BY <1>3, <1>1, <2>1, <2>3, NotLive DEF BusInv, Lines
<1>5. CASE ~Nack
  <2>1. Nth' = Nth /\ ModeAfter' = ModeAfter
    BY <1>1, <1>5 DEF Nth, ModeAfter
  <2>2. Lines'
    BY <1>1, <1>2, <1>3, <2>1 DEF BusInv, Lines, InAccess
  <2> QED BY <1>1, <1>2, <1>3, <1>5, <2>1, <2>2
          DEF BusInv, InStep, InStepBetween, InStepEdges, InStepClocking, SendsBit
<1> QED BY <1>4, <1>5

\* Before a new access, and where there is none, the device is in none.
LEMMA StepFresh ==
    ASSUME BusInv, ~Live, At("ready"), At("ready")', fn' \in Accesses,
           todo' = CallsOf(fn'), Initialised,
           UNCHANGED <<sda_low, scl_low, started, slave>>
    PROVE  Lines' /\ InStep'
<1>1. Nth' = 0
  <2>1. Len(todo') = TotalOf(fn') /\ TotalOf(fn') \in Nat
    BY CallsOfAccess
  <2> QED BY <2>1 DEF Nth
<1>2. ~Live' /\ ~slave'.low
  BY DEF BusInv, Lines, Live
<1>3. Lines'
  BY <1>1, <1>2 DEF BusInv, Lines, At, Initialised, Accesses, Between
<1> QED BY <1>2, <1>3, NotLive

LEMMA StepNextAccess == ASSUME BusInv, NextAccess PROVE Lines' /\ InStep'
<1>1. /\ fn' \in Accesses /\ todo' = CallsOf(fn')
      /\ UNCHANGED i2c_vars /\ (fn = "init" \/ Ended)
  BY DEF NextAccess, WriteCtrlReg1, WriteCtrlReg2, ReadOut, AfterCtrl1, Access, CallsOf, Accesses
<1>2. At("ready") /\ Initialised
  BY <1>1 DEF Ended, BusInv, Order, Initialised, InAccess
<1>3. ~Live
  <2>1. InAccess => todo = <<>>
    BY <1>1 DEF Ended, InAccess
  <2>2. todo = <<>> => Nth = TotalOf(fn)
    BY TotalType DEF Nth
  <2> QED BY <1>2, <2>1, <2>2, TotalType DEF BusInv, InStep, InStepBetween, Between, At
<1> QED BY <1>1, <1>2, <1>3, StepFresh DEF i2c_vars, At

LEMMA EndedNotLive == ASSUME BusInv, Ended PROVE ~Live
<1>1. todo = <<>> => Nth = TotalOf(fn)
  BY TotalType DEF Nth
<1> QED BY <1>1, TotalType DEF Ended, BusInv, InStep, InStepBetween, Between, At

LEMMA NoneNotLive == ASSUME BusInv, ~InAccess PROVE At("ready") /\ ~Live
  BY DEF BusInv, Order, InStep, InStepBetween, Between, At

LEMMA StepEndRead == ASSUME BusInv, EndRead PROVE Lines' /\ InStep'
<1>1. ~Live /\ At("ready") /\ InAccess /\ fn' = "none" /\ UNCHANGED i2c_vars
  BY EndedNotLive DEF EndRead, Ended
<1>2. ~Live' /\ ~slave'.low
  BY <1>1 DEF i2c_vars, BusInv, Lines, Live
<1>3. Lines'
  BY <1>1, <1>2 DEF BusInv, Lines, Initialised, At, i2c_vars, InAccess
<1> QED BY <1>2, <1>3, NotLive

LEMMA StepInitSCL == ASSUME BusInv, InitSCL PROVE Lines' /\ InStep'
<1>1. /\ fn = "init_scl" /\ fn' = "init_sda" /\ ~scl_low' /\ UNCHANGED <<sda_low, started, pc>> /\ Follow
  BY DEF InitSCL, SetSCL
<1>2. At("ready") /\ ~Live
  BY <1>1, NoneNotLive DEF InAccess
<1>3. SDA \in BOOLEAN
  BY DEF SDA
<1>4. slave' = slave
  BY <1>1, <1>2, <1>3, ClockRises, SampledData DEF BusInv, MagTypes
<1>5. ~Live' /\ ~slave'.low
  BY <1>2, <1>4 DEF BusInv, Lines, Live
<1>6. Lines'
  BY <1>1, <1>2, <1>4, <1>5 DEF BusInv, Lines, Initialised, At, InAccess
<1> QED BY <1>5, <1>6, NotLive

LEMMA StepInitSDA == ASSUME BusInv, InitSDA PROVE Lines' /\ InStep'
<1>1. /\ fn = "init_sda" /\ fn' = "init" /\ ~sda_low' /\ UNCHANGED <<scl_low, started, pc>> /\ Follow
  BY DEF InitSDA, SetSDA
<1>2. At("ready") /\ ~Live /\ ~scl_low /\ ~slave.low
  BY <1>1, NoneNotLive DEF InAccess, BusInv, Lines
<1>3. slave' = slave \/ slave' = Idle(slave)
  <2>1. SDA_next
    BY <1>1, <1>2 DEF SDA_next
  <2> QED BY <1>1, <2>1, DataMoves DEF BusInv, MagTypes
<1>4. ~Live' /\ ~slave'.low /\ slave'.stretch = slave.stretch
  BY <1>2, <1>3, IdleFields DEF BusInv, MagTypes, Live, Joined, Receiver, Kept
<1>5. Lines'
  BY <1>1, <1>2, <1>4 DEF BusInv, Lines, Initialised, At, InAccess
<1> QED BY <1>4, <1>5, NotLive

LEMMA StepRead == ASSUME BusInv, svc_compass_read PROVE Lines' /\ InStep'
<1>1. /\ At("ready") /\ fn = "none" /\ ~Live
      /\ UNCHANGED <<sda_low, scl_low, started, pc>>
  BY NoneNotLive DEF svc_compass_read, InAccess
<1>2. CASE timeout = 0
  <2>1. fn' = "init_scl" /\ (slave' = slave \/ slave' = Blank(Boot))
    BY <1>2 DEF svc_compass_read
  <2>2. ~Live' /\ ~slave'.low /\ (~started => ~slave'.stretch)
    BY <1>1, <2>1, BlankNotLive DEF BusInv, Lines, Live
  <2>3. Lines'
    BY <1>1, <2>1, <2>2 DEF BusInv, Lines, Initialised, At, InAccess
  <2> QED BY <2>2, <2>3, NotLive
<1>3. CASE timeout # 0
  <2>1. fn' = "read" /\ todo' = CallsOf("read") /\ UNCHANGED slave
    BY <1>3 DEF svc_compass_read, ReadOut, Access, CallsOf
  <2>2. Initialised
    BY <1>1, <1>3 DEF Initialised, BusInv, MagTypes
  <2> QED BY <1>1, <2>1, <2>2, StepFresh DEF At, Accesses
<1> QED BY <1>2, <1>3

LEMMA StepProcess == ASSUME BusInv, svc_compass_process PROVE Lines' /\ InStep'
<1>1. /\ At("ready") /\ fn = "none" /\ ~Live
      /\ UNCHANGED <<started, pc, fn>>
  BY NoneNotLive DEF svc_compass_process, InAccess
<1>2. CASE timeout > 0
  <2>1. UNCHANGED <<sda_low, scl_low, slave>>
    BY <1>2 DEF svc_compass_process
  <2>2. ~Live' /\ ~slave'.low
    BY <1>1, <2>1 DEF BusInv, Lines, Live
  <2>3. Lines'
    BY <1>1, <1>2, <2>1, <2>2 DEF BusInv, Lines, Initialised, At, InAccess
  <2> QED BY <2>2, <2>3, NotLive
<1>3. CASE ~(timeout > 0)
  <2>1. slave' = Blank(Off) /\ UNCHANGED timeout
    BY <1>3 DEF svc_compass_process
  <2>2. ~Live' /\ ~slave'.low /\ ~slave'.stretch
    BY <2>1, BlankNotLive
  <2>3. Lines'
    BY <1>1, <1>3, <2>1, <2>2 DEF BusInv, Lines, Initialised, At, InAccess
  <2> QED BY <2>2, <2>3, NotLive
<1> QED BY <1>2, <1>3

LEMMA StepReset == ASSUME BusInv, Reset PROVE Lines' /\ InStep'
<1>1. slave' = Blank(Off) /\ pc' = "ready" /\ fn' = "none" /\ timeout' = 0
  BY DEF Reset
<1>2. ~Live' /\ ~slave'.low /\ ~slave'.stretch
  BY <1>1, BlankNotLive
<1>3. Lines'
  BY <1>1, <1>2 DEF Lines, Initialised, At, InAccess
<1> QED BY <1>2, <1>3, NotLive

-----------------------------------------------------------------------------
(* The invariant of the two lines.                                         *)

LEMMA BusInvInit == Init => BusInv
<1> SUFFICES ASSUME Init PROVE BusInv
  OBVIOUS
<1>1. /\ slave = Blank(Off) /\ pc = "ready" /\ fn = "none" /\ timeout = 0 /\ todo = <<>>
  BY DEF Init
<1>2. ~Live /\ ~slave.low /\ ~slave.stretch
  BY <1>1, BlankFields DEF Off, Boot, Live, Joined, Receiver
<1>3. Lines
  BY <1>1, <1>2 DEF Lines, Initialised, At, InAccess
<1>4. InStep
  BY <1>2 DEF InStep, InStepBetween, InStepEdges, InStepClocking, SendsBit, Live, Joined
<1>5. Order /\ Bits
  BY <1>1 DEF Order, Bits, InAccess, At, Starting, Stopping, Clocking
<1> QED BY <1>3, <1>4, <1>5, TypesInit DEF BusInv

LEMMA BusInvStep == BusInv /\ [Next]_vars => BusInv'
<1> SUFFICES ASSUME BusInv, [Next]_vars PROVE BusInv'
  OBVIOUS
<1>1. MagTypes' /\ Order' /\ Bits'
  BY TypesStep, OrderStep, BitsStep DEF BusInv
<1>2. Lines' /\ InStep'
  <2>1. CASE Bus
    BY <2>1, StepReleaseSDA, StepReleaseSCL, StepWaitSCL, StepStartCondition, StepStartDone,
       StepDriveBit, StepRaise, StepFall, StepStopLow, StepStopRaise, StepStopCondition
       DEF Bus, Transfer
  <2>2. CASE Driver
    BY <2>2, StepNextByte, StepEndByte, StepInitSCL, StepInitSDA, StepNextAccess, StepEndRead
       DEF Driver
  <2>3. CASE World
    BY <2>3, StepRelease, StepUp DEF World, External
  <2>4. CASE UNCHANGED vars
    BY <2>4 DEF vars, i2c_vars, mag_vars, BusInv, Lines, InStep, InStepBetween, InStepEdges,
       InStepClocking, SendsBit, Live, Initialised, InAccess, Nth, ModeIn, ModeAfter, Taken,
       BitOut, Nack, SCL, Starting, Clocking, Stopping, Between, At
  <2> QED BY <2>1, <2>2, <2>3, <2>4, StepRead, StepProcess, StepReset DEF Next
<1> QED BY <1>1, <1>2 DEF BusInv

\* A device that takes part in a transfer is in step with the master, to the
\* bit, whatever was given up, reset or powered down before: the master's and
\* the device's idea of the transfer never come apart.
THEOREM DeviceInStep == Spec => []BusInv
  BY BusInvInit, BusInvStep, PTL DEF Spec

\* i2c_start_cond pulls the data line low, to start or to start again, only when
\* both lines are high: that it does not wait for the clock when "started" is
\* clear does no harm, and the device never holds the data line then.
THEOREM StartsOnFreeBus == Spec => []StartOnFreeBus
  BY DeviceInStep, FreeBus, PTL

-----------------------------------------------------------------------------
(* What the device does in a step that is not a falling clock.             *)

Hears ==
    /\ slave'.reg = slave.reg /\ slave'.written = slave.written /\ slave'.sent = slave.sent
    /\ ~Deaf => slave'.mode \notin {Off, Boot}
    /\ \/ /\ slave'.mode = slave.mode /\ slave'.n = slave.n
          /\ slave'.shift = slave.shift \/ (Receiver(slave) /\ slave.n < Width)
       \/ slave'.mode = "idle" /\ slave.mode = "send" /\ slave.n = Width /\ SDA
       \/ slave'.mode = "idle" /\ pc \in {"start", "stop_sda"}
       \/ slave'.mode = "addr" /\ pc = "start_sda"

LEMMA SampledHears ==
    ASSUME slave \in Slaves, NEW t, t = Sampled(slave, SDA),
           slave'.mode = t.mode, slave'.n = t.n, slave'.shift = t.shift,
           slave'.reg = t.reg, slave'.written = t.written, slave'.sent = t.sent
    PROVE  Hears
<1>1. SDA \in BOOLEAN
  BY DEF SDA
<1>2. CASE Receiver(slave) /\ slave.n < Width
  <2>1. t.mode = slave.mode /\ t.n = slave.n /\ Kept(slave, t)
    BY <1>1, <1>2, SampledFields
  <2> QED BY <1>2, <2>1 DEF Hears, Kept, Deaf
<1>3. CASE slave.mode = "send" /\ slave.n = Width /\ SDA
  <2>1. t = Idle(slave)
    BY <1>1, <1>3, SampledFields
  <2>2. t.mode = "idle" /\ Kept(slave, t)
    BY <2>1, IdleFields
  <2> QED BY <1>3, <2>2 DEF Hears, Kept, Off, Boot
<1>4. CASE ~(Receiver(slave) /\ slave.n < Width) /\ ~(slave.mode = "send" /\ slave.n = Width /\ SDA)
  <2>1. t = slave
    BY <1>1, <1>4, SampledFields
  <2> QED BY <2>1 DEF Hears, Deaf
<1> QED BY <1>2, <1>3, <1>4

LEMMA BusHears == ASSUME BusInv, Bus, ~Fall, ~StartDone PROVE Hears
<1> USE DEF At, Goto
<1>1. slave \in Slaves
  BY DEF BusInv, MagTypes
<1>2. ASSUME slave' = slave PROVE Hears
  BY <1>2 DEF Hears, Deaf
<1>3. ASSUME slave' = Sampled(slave, SDA) PROVE Hears
  BY <1>1, <1>3, SampledHears
<1>4. CASE ReleaseSDA
  <2>1. pc = "start" /\ ~sda_low' /\ UNCHANGED scl_low /\ Follow
    BY <1>4 DEF ReleaseSDA, SetSDA
  <2>2. ~(SDA /\ ~SDA_next)
    BY <2>1 DEF SDA, SDA_next
  <2>3. slave' = slave \/ slave' = Idle(slave)
    BY <1>1, <2>1, <2>2, DataMoves
  <2>4. Idle(slave).mode = "idle" /\ Kept(slave, Idle(slave))
    BY <1>1, IdleFields
  <2> QED BY <1>2, <2>1, <2>3, <2>4 DEF Hears, Kept, Off, Boot
<1>5. CASE ReleaseSCL \/ Raise \/ StopRaise
  <2>1. ~scl_low' /\ UNCHANGED sda_low /\ Follow
    BY <1>5 DEF ReleaseSCL, Raise, StopRaise, SetSCL
  <2> QED BY <1>1, <1>2, <1>3, <2>1, ClockRises DEF BusInv, MagTypes
<1>6. CASE WaitSCL
  BY <1>2, <1>6 DEF WaitSCL
<1>7. CASE DriveBit \/ StopLow
  <2>1. scl_low /\ scl_low' /\ Follow
    BY <1>7 DEF DriveBit, StopLow, SetSDA, BusInv, Lines
  <2> QED BY <1>2, <2>1, ClockStaysLow
<1>8. CASE StartCondition
  <2>1. pc = "start_sda" /\ sda_low' /\ UNCHANGED scl_low /\ Follow
    BY <1>8 DEF StartCondition, SetSDA
  <2>2. ~SDA_next
    BY <2>1 DEF SDA_next
  <2>3. slave' = slave \/ slave' = Started(slave)
    BY <1>1, <2>1, <2>2, DataMoves
  <2>4. Started(slave).mode = "addr" /\ Kept(slave, Started(slave))
    BY <1>1, StartedFields
  <2> QED BY <1>2, <2>1, <2>3, <2>4 DEF Hears, Kept, Off, Boot
<1>9. CASE StopCondition
  <2>1. pc = "stop_sda" /\ ~sda_low' /\ UNCHANGED scl_low /\ Follow
    BY <1>9 DEF StopCondition, SetSDA
  <2>2. ~(SDA /\ ~SDA_next)
    BY <2>1 DEF SDA, SDA_next
  <2>3. slave' = slave \/ slave' = Idle(slave)
    BY <1>1, <2>1, <2>2, DataMoves
  <2>4. Idle(slave).mode = "idle" /\ Kept(slave, Idle(slave))
    BY <1>1, IdleFields
  <2> QED BY <1>2, <2>1, <2>3, <2>4 DEF Hears, Kept, Off, Boot
<1> QED BY <1>4, <1>5, <1>6, <1>7, <1>8, <1>9 DEF Bus, Transfer

LEMMA ReleaseHears == ASSUME BusInv, Release PROVE Hears
<1> DEFINE t == IF scl_low THEN slave ELSE Sampled(slave, SDA)
<1>1. slave' = [t EXCEPT !.stretch = FALSE] /\ slave \in Slaves
  BY DEF Release, BusInv, MagTypes
<1>2. SDA \in BOOLEAN
  BY DEF SDA
<1>3. t \in Slaves
  BY <1>1, <1>2, SampledFields
<1> HIDE DEF t
<1>4. /\ slave'.mode = t.mode /\ slave'.n = t.n /\ slave'.shift = t.shift
      /\ slave'.reg = t.reg /\ slave'.written = t.written /\ slave'.sent = t.sent
  BY <1>1, <1>3, ReleasedFields
<1>5. CASE t = slave
  BY <1>4, <1>5 DEF Hears, Deaf
<1>6. CASE t = Sampled(slave, SDA)
  BY <1>1, <1>4, <1>6, SampledHears
<1> QED BY <1>5, <1>6 DEF t

\* Outside the accesses, and before the first byte of one, the device is in no
\* transfer.
LEMMA Rests ==
    ASSUME BusInv', At("ready")', ~InAccess' \/ (fn' \in Accesses /\ todo' = CallsOf(fn'))
    PROVE  ~Live'
<1>1. fn' \in Accesses /\ todo' = CallsOf(fn') => Nth' = 0
  <2>1. fn' \in Accesses => Len(CallsOf(fn')) = TotalOf(fn') /\ TotalOf(fn') \in Nat
    BY CallsOfAccess
  <2> QED BY <2>1 DEF Nth
<1> QED BY <1>1 DEF BusInv, InStep, InStepBetween, Between, At

-----------------------------------------------------------------------------
(* What has been written.                                                  *)

\* The device knows the register from its acknowledgement on, and a value that
\* is acknowledged has been taken.
Remembered ==
    /\ slave.mode = "data" \/ (slave.mode = "reg" /\ slave.n = Width) =>
         slave.reg = RegisterOf(fn)
    /\ slave.mode = "data" /\ slave.n = Width =>
         slave.written = <<slave.reg, slave.shift>>

WriteInv == BusInv /\ Remembered

LEMMA RememberedHears ==
    ASSUME BusInv, Remembered, Hears, fn' = fn PROVE Remembered'
  BY DEF Remembered, Hears, Receiver

\* All the bits the device has taken are the byte that was sent.
LEMMA ShiftIsByte ==
    ASSUME BusInv, At("fall"), SCL, Live, Receiver(slave), cycle \in {Width - 1, Width}
    PROVE  slave.shift = op.data /\ Len(slave.shift) = Width
<1>1. Taken = Width
  BY DEF Taken
<1>2. slave.shift \in Seq(BOOLEAN) /\ op.data \in Seq(BOOLEAN) /\ Len(op.data) = Width
  BY ByteSeq DEF BusInv, MagTypes, Slaves, Ops
<1>3. Len(slave.shift) = Width /\ \A i \in 1..Width : slave.shift[i] = op.data[i]
  BY <1>1 DEF BusInv, InStep, InStepClocking, Clocking, At
<1> QED BY <1>2, <1>3

LEMMA RememberedFalls ==
    ASSUME BusInv, Remembered, BusInv', Bus, Fall \/ StartDone PROVE Remembered'
<1>1. /\ SCL /\ scl_low' /\ Follow /\ fn' = fn
      /\ At("fall") \/ At("start_scl")
  BY BusFrame DEF Fall, StartDone, SetSCL, At, BusInv, Lines, SCL
<1>2. CASE ~Live
  BY <1>1, <1>2, FallsUnheard DEF Remembered, Live, Joined, Receiver
<1>3. CASE Live /\ At("start_scl")
  <2>1. slave.mode = "addr" /\ slave.n = -1 /\ slave \in Slaves
    BY <1>3 DEF BusInv, InStep, InStepEdges, MagTypes
  <2>2. slave'.mode = "addr"
    BY <1>1, <1>3, <2>1, FallsHeard, BitFields DEF Live
  <2> QED BY <2>2 DEF Remembered
<1>4. CASE Live /\ At("fall")
  <2>1. PICK s \in Shifted(slave) :
              /\ slave'.mode = s.mode /\ slave'.n = s.n /\ slave'.shift = s.shift
              /\ slave'.reg = s.reg /\ slave'.written = s.written
    BY <1>1, <1>4, FallsHeard
  <2>2. slave.mode = ModeIn /\ slave.n = cycle /\ cycle \in 0..Width /\ slave \in Slaves
    BY <1>4 DEF BusInv, InStep, InStepClocking, Clocking, At, MagTypes
  <2>3. CASE cycle < Width - 1
    BY <1>1, <1>4, <2>1, <2>2, <2>3, BitFields DEF Live, Remembered, Kept
  <2>4. CASE cycle = Width - 1
    <3>1. /\ s.mode = "idle" \/ s.mode = slave.mode
          /\ s.mode # "idle" => s.n = Width /\ s.shift = slave.shift
          /\ s.reg = IF s.mode = "reg" THEN slave.shift ELSE slave.reg
          /\ s.mode = "data" => s.written = <<slave.reg, slave.shift>>
      BY <1>4, <2>2, <2>4, LastBitFields DEF Live
    <3>2. slave.mode = "reg" => slave.shift = RegisterOf(fn)
      <4>1. ModeIn = "reg" => Nth = 2
        BY DEF ModeIn
      <4>2. op = CallsOf(fn)[Nth] /\ fn \in Accesses
        BY <1>4, Position DEF BusInv, At
      <4>3. CallsOf(fn)[2].data = RegisterOf(fn)
        BY <4>2, CallsOfAccess
      <4> QED BY <1>1, <1>4, <2>2, <2>4, <4>1, <4>2, <4>3, ShiftIsByte DEF Receiver
    <3> QED BY <1>1, <2>1, <3>1, <3>2 DEF Remembered
  <2>5. CASE cycle = Width
    <3>1. /\ s.reg = slave.reg /\ s.n = 0
          /\ s.mode = "data" => slave.mode \in {"reg", "data"}
      BY <1>4, <2>2, <2>5, NextByteFields DEF Live, Joined, Receiver
    <3> QED BY <1>1, <2>1, <2>2, <2>5, <3>1 DEF Remembered
  <2> QED BY <2>2, <2>3, <2>4, <2>5
<1> QED BY <1>1, <1>2, <1>3, <1>4

LEMMA RememberedStep == WriteInv /\ [Next]_vars => WriteInv'
<1> SUFFICES ASSUME BusInv, Remembered, [Next]_vars PROVE BusInv' /\ Remembered'
  BY DEF WriteInv
<1>1. BusInv'
  BY BusInvStep
<1> SUFFICES Remembered'
  BY <1>1
<1>2. ASSUME ~Live' PROVE Remembered'
  BY <1>2 DEF Remembered, Live, Joined, Receiver
<1>3. ASSUME UNCHANGED <<slave, fn>> PROVE Remembered'
  BY <1>3 DEF Remembered
<1>4. CASE Bus
  BY <1>1, <1>4, BusHears, RememberedHears, RememberedFalls, BusFrame
<1>5. CASE NextByte \/ EndByte
  BY <1>3, <1>5 DEF NextByte, EndByte, Call
<1>6. CASE (Driver /\ ~NextByte /\ ~EndByte) \/ svc_compass_read \/ svc_compass_process \/ Reset
  <2>1. At("ready")' /\ (~InAccess' \/ (fn' \in Accesses /\ todo' = CallsOf(fn')))
    <3>1. CASE NextAccess
      BY <3>1 DEF NextAccess, WriteCtrlReg1, WriteCtrlReg2, ReadOut, AfterCtrl1, Access,
                  CallsOf, Accesses, i2c_vars, Ended, At, BusInv, Order, InAccess
    <3>2. CASE InitSCL \/ InitSDA
      BY <3>2 DEF InitSCL, InitSDA, BusInv, Order, InAccess, At
    <3>3. CASE EndRead
      BY <3>3 DEF EndRead, Ended, At, i2c_vars, InAccess
    <3>4. CASE svc_compass_read
      BY <3>4 DEF svc_compass_read, ReadOut, Access, CallsOf, Accesses, At, InAccess
    <3>5. CASE svc_compass_process \/ Reset
      BY <3>5 DEF svc_compass_process, Reset, At, InAccess
    <3> QED BY <1>6, <3>1, <3>2, <3>3, <3>4, <3>5 DEF Driver
  <2> QED BY <1>1, <1>2, <2>1, Rests
<1>7. CASE World
  <2>1. CASE Release
    BY <1>7, <2>1, ReleaseHears, RememberedHears DEF World
  <2>2. CASE Up \/ Upset
    BY <1>2, <2>2, BlankNotLive DEF Up, Upset
  <2> QED BY <1>7, <2>1, <2>2 DEF World, External
<1>8. CASE UNCHANGED vars
  BY <1>3, <1>8 DEF vars, i2c_vars, mag_vars
<1> QED BY <1>1, <1>4, <1>5, <1>6, <1>7, <1>8 DEF Next

LEMMA WriteInvAlways == Spec => []WriteInv
<1>1. Init => WriteInv
  <2> SUFFICES ASSUME Init PROVE Remembered
    BY BusInvInit DEF WriteInv
  <2>1. slave.mode = Off
    BY BlankFields DEF Init
  <2> QED BY <2>1 DEF Remembered, Off
<1> QED BY <1>1, RememberedStep, PTL DEF Spec

\* The acknowledgement hal_mag3110_init repeats its first write for is worth
\* something: the register has its value when it is seen.
THEOREM AcknowledgedIsWritten == Spec => []AckMeansWritten
<1>1. WriteInv => AckMeansWritten
  <2> SUFFICES ASSUME BusInv, Remembered, LastByteTaken
               PROVE  /\ fn = "ctrl1" => slave.written = <<CtrlReg1, Active>>
                      /\ fn = "ctrl2" => slave.written = <<CtrlReg2, Raw>>
    BY DEF WriteInv, AckMeansWritten
  <2>1. op.write /\ cycle = Width /\ todo = <<>> /\ At("fall") /\ SCL /\ ~SDA
    BY DEF LastByteTaken
  <2>2. /\ fn \in Accesses /\ op = CallsOf(fn)[Nth] /\ Nth <= 3 /\ Nth = TotalOf(fn)
        /\ TotalOf(fn) \in Nat
    BY <2>1, Position, TotalType DEF BusInv, Nth, At
  <2>3. fn # "read" /\ Nth = 3
    BY <2>2 DEF TotalOf
  <2>4. op.data = ValueOf(fn)
    BY <2>2, <2>3, CallsOfAccess
  <2>5. Live
    BY <2>1 DEF BusInv, Lines, SDA, BitOut, At
  <2>6. slave.mode = "data" /\ slave.n = Width
    BY <2>1, <2>3, <2>5 DEF BusInv, InStep, InStepClocking, Clocking, At, ModeIn
  <2>7. slave.shift = ValueOf(fn)
    BY <2>1, <2>4, <2>5, <2>6, ShiftIsByte DEF Receiver
  <2> QED BY <2>6, <2>7 DEF Remembered, RegisterOf, ValueOf
<1> QED BY <1>1, WriteInvAlways, PTL

-----------------------------------------------------------------------------
(* What has been read.                                                     *)

\* The bytes in the buffer, and the bits of the one under way, are what the
\* device sent and is sending.
Answer ==
    fn = "read" =>
      /\ ~GivenUp => Len(buf) = IF Nth < 4 THEN 0 ELSE IF At("ready") THEN Nth - 3 ELSE Nth - 4
      /\ slave.mode = "send" /\ Clocking =>
           /\ slave.sent = Append(buf, slave.shift)
           /\ \A i \in 1..Len(byte) : byte[i] = slave.shift[i]
      /\ slave.mode = "send" /\ Between =>
           slave.sent = Append(IF At("done") /\ Nth > 3 THEN Append(buf, byte) ELSE buf,
                               slave.shift)

\* A device that stays up stays in the transfer until the last byte is refused.
StaysUp ==
    fn = "read" /\ pure =>
      /\ ~Deaf /\ ~GivenUp
      /\ At("start_scl") => Live
      /\ Clocking => Live \/ (Nth = TotalOf(fn) /\ cycle = Width /\ At("fall"))
      /\ Between /\ Nth \in 1..TotalOf(fn) - 1 => Live
      /\ Nth > 2 \/ (Nth = 2 /\ Between) => slave.reg = OutX

\* Then it has sent what was read.
AllSent ==
    fn = "read" /\ pure /\ Nth = TotalOf(fn) =>
      /\ (Clocking /\ ~Live) \/ Stopping \/ At("done") =>
           ~Live /\ slave.sent = Append(buf, byte)
      /\ At("ready") => slave.sent = buf

ReadInv == WriteInv /\ Answer /\ StaysUp /\ AllSent

LEMMA ReadTotal == TotalOf("read") = 3 + NBytes /\ TotalOf("read") \in Nat /\ TotalOf("read") > 3
  BY DEF TotalOf

\* The whole byte has been seen when its acknowledgement is due.
LEMMA ByteIsShift ==
    ASSUME BusInv, Answer, fn = "read", slave.mode = "send", Clocking, cycle = Width
    PROVE  byte = slave.shift /\ ~op.write /\ Nth > 3
<1>1. Nth > 3 /\ ~op.write
  <2>1. ModeIn = "send" /\ pc # "ready"
    BY DEF BusInv, InStep, InStepClocking, Live, Joined, Clocking
  <2>2. ~(Nth <= 2) /\ Nth # 3
    <3>1. Nth \in 1..TotalOf(fn)
      BY <2>1, Position DEF BusInv, At
    <3> QED BY <2>1, <3>1 DEF ModeIn
  <2> QED BY <2>1, <2>2, Position, TotalType DEF BusInv, At
<1>2. Len(byte) = Width /\ byte \in Seq(BOOLEAN)
  BY <1>1 DEF BusInv, Bits, MagTypes
<1>3. Len(slave.shift) = Width /\ slave.shift \in Seq(BOOLEAN)
  BY DEF BusInv, InStep, SendsBit, MagTypes, Slaves
<1>4. \A i \in 1..Width : byte[i] = slave.shift[i]
  BY <1>2 DEF Answer
<1> QED BY <1>1, <1>2, <1>3, <1>4

\* A START is heard by every device that is up.
LEMMA StartHeard ==
    ASSUME BusInv, StartCondition, ~Deaf
    PROVE  slave'.mode = "addr"
<1>1. pc = "start_sda" /\ sda_low' /\ UNCHANGED scl_low /\ Follow /\ slave \in Slaves
  BY DEF StartCondition, SetSDA, At, BusInv, MagTypes
<1>2. SCL /\ SDA /\ ~SDA_next
  BY <1>1, FreeBus DEF StartOnFreeBus, SDA_next, At
<1>3. slave' = Started(slave)
  BY <1>1, <1>2, DataMoves
<1> QED BY <1>1, <1>3, StartedFields

LEMMA ReadUnclocked ==
    ASSUME ReadInv, BusInv', Bus, ~Fall, ~StartDone, fn = "read"
    PROVE  Answer' /\ StaysUp' /\ AllSent'
<1> USE DEF At
<1>1. BusInv /\ Answer /\ StaysUp /\ AllSent /\ Hears
  BY BusHears DEF ReadInv, WriteInv
<1>2. /\ Nth' = Nth /\ UNCHANGED <<op, fn, todo, buf, pure>> /\ pc # "ready" /\ pc' # "ready"
      /\ Nth \in 1..TotalOf("read")
      /\ op.stop <=> Nth = TotalOf("read")
      /\ ~op.write => (op.nack <=> Nth = TotalOf("read"))
  BY <1>1, BusLabels, BusFrame, Position DEF BusInv
<1>3. UNCHANGED <<byte, cycle>>
  BY DEF Bus, Transfer, ReleaseSDA, ReleaseSCL, WaitSCL, StartCondition, DriveBit, Raise,
         StopLow, StopRaise, StopCondition
<1>4. /\ Clocking' => DriveBit \/ Raise
      /\ Stopping' => Stopping
      /\ Between' => pc = "stop_sda" /\ pc' = "done" /\ started' = FALSE
      /\ pc' = "start_scl" => StartCondition
  BY DEF Bus, Transfer, ReleaseSDA, ReleaseSCL, WaitSCL, StartCondition, DriveBit, Raise,
         StopLow, StopRaise, StopCondition, Goto, Clocking, Stopping, Between
<1>5. Between' => op.stop /\ Nth = TotalOf("read") /\ Stopping /\ ~Live'
  BY <1>1, <1>2, <1>4 DEF BusInv, Order, Lines, Stopping
<1>6. Clocking' => Clocking /\ pc \in {"bit", "raise"}
  BY <1>4 DEF DriveBit, Raise, Clocking
<1>7. slave'.mode = "send" =>
         slave.mode = "send" /\ slave'.shift = slave.shift /\ slave'.sent = slave.sent
  BY <1>1 DEF Hears, Receiver
<1>8. Answer'
  <2>1. slave'.mode = "send" => Live'
    BY DEF Live, Joined
  <2> QED BY <1>1, <1>2, <1>3, <1>5, <1>6, <1>7, <2>1 DEF Answer, GivenUp
<1>9. ASSUME pure, Clocking', ~Live'
      PROVE  /\ Raise /\ Nth = TotalOf("read") /\ cycle = Width
             /\ slave.mode = "send" /\ slave.sent = Append(buf, byte)
  <2>1. Live /\ slave.mode = ModeIn /\ slave.n = cycle
    BY <1>1, <1>6, <1>9 DEF StaysUp, BusInv, InStep, InStepClocking
  <2>2. slave' # slave
    BY <1>9, <2>1 DEF Live
  <2>3. ~DriveBit
    <3>1. DriveBit => scl_low /\ scl_low' /\ Follow
      BY <1>1 DEF DriveBit, SetSDA, BusInv, Lines
    <3> QED BY <2>2, <3>1, ClockStaysLow
  <2>4. Raise /\ pc = "raise"
    BY <1>4, <1>9, <2>3 DEF Raise
  <2>5. slave.mode = "send" /\ slave.n = Width /\ SDA
    BY <1>1, <1>9, <2>1, <2>4 DEF Hears, Live, Joined, Receiver
  <2>6. byte = slave.shift /\ ~op.write
    BY <1>1, <1>6, <1>9, <2>1, <2>5, ByteIsShift
  <2>7. op.nack
    BY <1>1, <2>1, <2>4, <2>5, <2>6 DEF BusInv, Lines, SDA, BitOut
  <2>8. slave.sent = Append(buf, byte)
    BY <1>1, <1>6, <1>9, <2>5, <2>6 DEF Answer
  <2> QED BY <1>2, <2>1, <2>4, <2>5, <2>6, <2>7, <2>8
<1>10. StaysUp'
  <2> SUFFICES ASSUME pure PROVE StaysUp'
    BY <1>2 DEF StaysUp
  <2>1. ~Deaf /\ (Nth > 2 => slave.reg = OutX)
    BY <1>1 DEF StaysUp
  <2>2. ~Deaf' /\ slave'.reg = slave.reg
    BY <1>1, <2>1 DEF Hears, Deaf
  <2>3. pc' = "start_scl" => Live'
    BY <1>1, <1>4, <2>1, StartHeard DEF Live, Joined, Receiver
  <2>4. Clocking' => Live' \/ (Nth = TotalOf("read") /\ cycle = Width /\ pc' = "fall")
    BY <1>9 DEF Raise, Goto
  <2>5. ~(Between' /\ Nth \in 1..TotalOf("read") - 1) /\ ~(Nth = 2 /\ Between')
    BY <1>5, ReadTotal
  <2> QED BY <1>2, <1>3, <2>1, <2>2, <2>3, <2>4, <2>5 DEF StaysUp, GivenUp
<1>11. AllSent'
  <2> SUFFICES ASSUME pure, Nth = TotalOf("read")
               PROVE  (Clocking' /\ ~Live') \/ Stopping' \/ pc' = "done" =>
                        ~Live' /\ slave'.sent = Append(buf, byte)
    BY <1>2, <1>3 DEF AllSent
  <2>1. slave'.sent = slave.sent
    BY <1>1 DEF Hears
  <2>2. CASE Clocking' /\ ~Live'
    BY <1>9, <2>1, <2>2
  <2>3. CASE Stopping' \/ pc' = "done"
    <3>1. Stopping
      BY <1>4, <1>5, <2>3 DEF Between
    <3>2. ~Live /\ slave.sent = Append(buf, byte)
      BY <1>1, <3>1 DEF AllSent
    <3>3. ~Live'
      BY <1>1, <3>1, <3>2 DEF Hears, Live, Joined, Receiver, Stopping
    <3> QED BY <2>1, <3>2, <3>3
  <2> QED BY <2>2, <2>3 DEF Stopping, Clocking
<1> QED BY <1>8, <1>10, <1>11

LEMMA ReadStartDone ==
    ASSUME ReadInv, BusInv', Bus, StartDone, fn = "read"
    PROVE  Answer' /\ StaysUp' /\ AllSent'
<1> USE DEF At
<1>1. BusInv /\ Answer /\ StaysUp
  BY DEF ReadInv, WriteInv
<1>2. /\ pc = "start_scl" /\ pc' = "bit" /\ scl_low' /\ Follow
      /\ Nth' = Nth /\ UNCHANGED <<op, fn, todo, buf, pure>>
      /\ Nth = 1 \/ Nth = 3
      /\ ModeIn' = "addr"
  <2>1. pc = "start_scl" /\ pc' = "bit" /\ scl_low' /\ Follow
    BY DEF StartDone, SetSCL, Goto
  <2>2. Nth = 1 \/ Nth = 3
    BY <1>1, <2>1, Position DEF BusInv, Order, Starting
  <2> QED BY <1>1, <2>1, <2>2, BusLabels, BusFrame DEF ModeIn
<1>3. Clocking' /\ ~Between' /\ ~Stopping' /\ SCL
  BY <1>1, <1>2 DEF Clocking, Between, Stopping, BusInv, Lines, SCL
<1>4. slave'.mode # "send"
  BY <1>2, <1>3 DEF BusInv, InStep, InStepClocking, Live, Joined
<1>5. Answer'
  BY <1>1, <1>2, <1>4 DEF Answer, GivenUp
<1>6. ASSUME pure PROVE Live' /\ ~Deaf' /\ slave'.reg = slave.reg
  <2>1. Live
    BY <1>1, <1>2, <1>6 DEF StaysUp
  <2>2. slave.mode = "addr" /\ slave.n = -1 /\ slave \in Slaves
    BY <1>1, <1>2, <2>1 DEF BusInv, InStep, InStepEdges, MagTypes
  <2>3. slave'.mode = "addr" /\ slave'.reg = slave.reg
    BY <1>1, <1>2, <1>3, <2>1, <2>2, FallsHeard, BitFields DEF Live, Kept
  <2> QED BY <2>3 DEF Live, Joined, Receiver, Deaf, Off, Boot
<1>7. StaysUp'
  BY <1>1, <1>2, <1>3, <1>6, ReadTotal DEF StaysUp, GivenUp
<1>8. AllSent'
  BY <1>2, ReadTotal DEF AllSent
<1> QED BY <1>5, <1>7, <1>8

\* The device knows its address.
LEMMA Addresses ==
    ASSUME BusInv, At("fall"), SCL, Live, fn = "read", slave.mode = "addr", cycle = Width - 1
    PROVE  SubSeq(slave.shift, 1, Width - 1) = Device
<1>1. slave.shift = op.data /\ Len(slave.shift) = Width
  BY ShiftIsByte DEF Receiver
<1>2. op.data = DEVICE_ADDR \/ op.data = DEVICE_ADDR_READ
  <2>1. Nth = 1 \/ Nth = 3
    <3>1. ModeIn = "addr"
      BY DEF BusInv, InStep, InStepClocking, Clocking, At
    <3> QED BY <3>1 DEF ModeIn
  <2>2. op = hal_mag3110_reg_read_burst(OutX)[Nth]
    BY Position DEF BusInv, At, CallsOf
  <2> QED BY <2>1, <2>2, CallsOfRead
<1>3. ASSUME NEW b \in BOOLEAN PROVE SubSeq(Append(Device, b), 1, Width - 1) = Device
  <2>1. Device \in Seq(BOOLEAN) /\ Len(Device) = Width - 1
    OBVIOUS
  <2> QED BY <2>1
<1> QED BY <1>1, <1>2, <1>3 DEF DEVICE_ADDR, DEVICE_ADDR_READ

LEMMA ReadFall ==
    ASSUME ReadInv, BusInv', Bus, Fall, fn = "read"
    PROVE  Answer' /\ StaysUp' /\ AllSent'
<1> USE DEF At
<1>1. BusInv /\ Answer /\ StaysUp /\ AllSent /\ Remembered
  BY DEF ReadInv, WriteInv
<1>2. /\ pc = "fall" /\ SCL /\ scl_low' /\ Follow /\ cycle' = cycle + 1
      /\ byte' = IF Looks THEN Append(byte, SDA) ELSE byte
      /\ pc' = IF cycle < Width THEN "bit" ELSE IF op.stop THEN "stop" ELSE "done"
  BY DEF Fall, SetSCL, Goto, AfterBit
<1>3. /\ Nth' = Nth /\ UNCHANGED <<op, fn, todo, buf, pure>>
      /\ Nth \in 1..TotalOf("read")
      /\ op.write <=> Nth <= 3
      /\ op.stop <=> Nth = TotalOf("read")
      /\ ~op.write => (op.nack <=> Nth = TotalOf("read"))
  BY <1>1, <1>2, BusLabels, BusFrame, Position DEF BusInv
<1>4. /\ cycle \in 0..Width /\ slave \in Slaves /\ byte \in Seq(BOOLEAN) /\ Clocking
      /\ ~op.write => Len(byte) = cycle
  BY <1>1, <1>2 DEF BusInv, MagTypes, Bits, Clocking
<1>5. CASE ~Live
  <2>1. /\ slave'.mode = slave.mode /\ slave'.reg = slave.reg /\ slave'.sent = slave.sent
        /\ ~Live' /\ slave'.mode # "send"
    BY <1>1, <1>2, <1>5, FallsUnheard DEF Live, Joined, Receiver
  <2>2. Answer'
    BY <1>1, <1>2, <1>3, <2>1 DEF Answer, GivenUp
  <2>3. ASSUME pure
        PROVE  /\ Nth = TotalOf("read") /\ cycle = Width /\ pc' = "stop"
               /\ slave.sent = Append(buf, byte) /\ byte' = byte
    <3>1. Nth = TotalOf("read") /\ cycle = Width
      BY <1>1, <1>4, <1>5, <2>3 DEF StaysUp
    <3>2. byte' = byte
      BY <1>2, <1>3, <3>1, ReadTotal DEF Looks
    <3>3. slave.sent = Append(buf, byte)
      BY <1>1, <1>4, <1>5, <2>3, <3>1 DEF AllSent
    <3> QED BY <1>2, <1>3, <3>1, <3>2, <3>3
  <2>4. StaysUp'
    BY <1>1, <1>2, <1>3, <2>1, <2>3, ReadTotal DEF StaysUp, GivenUp, Clocking, Between, Deaf
  <2>5. AllSent'
    BY <1>2, <1>3, <2>1, <2>3 DEF AllSent
  <2> QED BY <2>2, <2>4, <2>5
<1>6. CASE Live
  <2>1. PICK s \in Shifted(slave) :
              /\ slave'.mode = s.mode /\ slave'.n = s.n /\ slave'.shift = s.shift
              /\ slave'.reg = s.reg /\ slave'.sent = s.sent
    BY <1>1, <1>2, <1>6, FallsHeard
  <2>2. /\ slave.mode = ModeIn /\ slave.n = cycle
        /\ slave.mode = "send" /\ cycle = Width => ~op.nack
        /\ slave.mode = "send" => Len(slave.shift) = Width /\ (slave.low <=> cycle < Width /\ ~slave.shift[cycle + 1])
    BY <1>1, <1>2, <1>4, <1>6 DEF BusInv, InStep, InStepClocking, SendsBit
  <2>3. slave.mode = "send" <=> Nth > 3
    BY <1>3, <2>2 DEF ModeIn
  <2>4. pure => ~Deaf /\ (Nth > 2 => slave.reg = OutX)
    BY <1>1 DEF StaysUp
  <2>5. CASE cycle < Width
    <3>1. pc' = "bit" /\ Clocking' /\ ~Between' /\ ~Stopping'
      BY <1>2, <2>5 DEF Clocking, Between, Stopping
    <3>2. /\ s.mode # "idle" => s.mode = slave.mode /\ s.shift = slave.shift
          /\ s.sent = slave.sent
          /\ slave.mode \in {"addr", "send"} => s.reg = slave.reg
          /\ s.mode = "idle" =>
               cycle = Width - 1 /\ slave.mode = "addr" /\ SubSeq(slave.shift, 1, Width - 1) # Device
      <4>1. CASE cycle < Width - 1
        BY <1>4, <1>6, <2>2, <4>1, BitFields DEF Live, Kept, Joined, Receiver
      <4>2. CASE cycle = Width - 1
        BY <1>4, <1>6, <2>2, <4>2, LastBitFields DEF Live, Joined, Receiver
      <4> QED BY <1>4, <2>5, <4>1, <4>2
    <3>3. s.mode = slave.mode /\ s.shift = slave.shift
      BY <1>1, <1>2, <1>6, <3>2, Addresses
    <3>4. Answer'
      <4>1. slave.mode = "send" => slave'.sent = Append(buf', slave'.shift)
        BY <1>1, <1>3, <1>4, <2>1, <3>2, <3>3 DEF Answer
      <4>2. slave.mode = "send" => SDA = slave.shift[cycle + 1]
        <5>1. slave.mode = "send" => ~sda_low
          BY <1>1, <1>2, <1>3, <2>3, <2>5 DEF BusInv, Lines, BitOut
        <5>2. slave.mode = "send" => slave.shift[cycle + 1] \in BOOLEAN
          BY <1>4, <2>2, <2>5 DEF Slaves
        <5>3. SDA \in BOOLEAN /\ (slave.mode = "send" => (SDA <=> slave.shift[cycle + 1]))
          BY <2>2, <2>5, <5>1 DEF SDA
        <5> QED BY <5>2, <5>3, Zenon
      <4>3. slave.mode = "send" => \A i \in 1..Len(byte') : byte'[i] = slave.shift[i]
        <5> SUFFICES ASSUME slave.mode = "send", NEW i \in 1..Len(byte') PROVE byte'[i] = slave.shift[i]
          OBVIOUS
        <5>1. byte' = Append(byte, SDA) /\ Len(byte) = cycle /\ SDA \in BOOLEAN
          BY <1>2, <1>3, <1>4, <2>3, <2>5 DEF Looks, SDA
        <5>2. \A j \in 1..cycle : byte[j] = slave.shift[j]
          BY <1>1, <1>4, <5>1 DEF Answer
        <5>3. i \in 1..cycle \/ i = cycle + 1
          BY <1>4, <5>1
        <5> QED BY <1>4, <4>2, <5>1, <5>2, <5>3
      <4> QED BY <1>1, <1>3, <1>2, <2>1, <3>1, <3>3, <4>1, <4>3 DEF Answer, GivenUp
    <3>5. Live' /\ slave'.mode = slave.mode
      BY <1>6, <2>1, <3>3 DEF Live, Joined, Receiver
    <3>6. Nth > 2 => slave'.reg = slave.reg
      <4>1. Nth > 2 => slave.mode \in {"addr", "send"}
        BY <1>3, <2>2, <2>3 DEF ModeIn
      <4> QED BY <2>1, <3>2, <4>1
    <3>7. StaysUp'
      BY <1>3, <2>4, <3>1, <3>5, <3>6 DEF StaysUp, GivenUp, Deaf
    <3>8. AllSent'
      BY <3>1, <3>5 DEF AllSent
    <3> QED BY <3>4, <3>7, <3>8
  <2>6. CASE cycle = Width
    <3>1. /\ s.reg = slave.reg /\ Joined(s)
          /\ slave.mode = "send" \/ Addressed(slave) =>
                s.mode = "send" /\ s.sent = IF slave.mode = "send" THEN Append(slave.sent, s.shift) ELSE <<s.shift>>
          /\ slave.mode # "send" /\ ~Addressed(slave) => s.mode # "send"
      BY <1>4, <1>6, <2>2, <2>6, NextByteFields DEF Live, Joined, Receiver
    <3>2. Nth < TotalOf("read")
      BY <1>3, <2>2, <2>3, <2>6, ReadTotal
    <3>3. pc' = "done" /\ Between' /\ ~Clocking' /\ ~Stopping'
      BY <1>2, <1>3, <2>6, <3>2, ReadTotal DEF Between, Clocking, Stopping
    <3>4. byte' = IF Nth > 3 THEN byte ELSE Append(byte, SDA)
      BY <1>2, <1>3, <2>6 DEF Looks
    <3>5. Answer'
      <4>1. Nth > 3 => slave.sent = Append(buf, byte)
        BY <1>1, <1>4, <2>3, <2>6, ByteIsShift DEF Answer
      <4>2. Nth < 4 => buf = <<>>
        <5>1. buf \in Seq(Seq(BOOLEAN)) /\ (Nth < 4 => Len(buf) = 0)
          BY <1>1, <1>2 DEF Answer, GivenUp, BusInv, MagTypes
        <5> QED BY <5>1
      <4>3. ASSUME slave'.mode = "send"
            PROVE  slave'.sent = Append(IF Nth > 3 THEN Append(buf, byte) ELSE buf, slave'.shift)
        <5>1. CASE Nth > 3
          BY <2>1, <2>3, <3>1, <4>1, <5>1
        <5>2. CASE ~(Nth > 3)
          <6>1. slave'.sent = <<slave'.shift>> /\ Nth < 4
            BY <1>3, <2>1, <2>3, <3>1, <4>3, <5>2
          <6> QED BY <4>2, <5>2, <6>1
        <5> QED BY <5>1, <5>2
      <4>4. Answer' <=>
              /\ Len(buf) = IF Nth < 4 THEN 0 ELSE Nth - 4
              /\ slave'.mode = "send" =>
                   slave'.sent = Append(IF Nth > 3 THEN Append(buf, byte') ELSE buf, slave'.shift)
        BY <1>3, <3>3 DEF Answer, GivenUp
      <4>5. Len(buf) = IF Nth < 4 THEN 0 ELSE Nth - 4
        BY <1>1, <1>2 DEF Answer, GivenUp
      <4> QED BY <3>4, <4>3, <4>4, <4>5
    <3>6. Live'
      BY <2>1, <3>1 DEF Live, Joined, Receiver
    <3>7. Nth = 2 => slave.reg = OutX
      <4>1. Nth = 2 => slave.mode = "reg"
        BY <2>2 DEF ModeIn
      <4> QED BY <1>1, <2>2, <2>6, <4>1 DEF Remembered, RegisterOf
    <3>8. StaysUp'
      BY <1>3, <2>1, <2>4, <3>1, <3>3, <3>6, <3>7 DEF StaysUp, GivenUp, Deaf, Live, Joined, Receiver, Off, Boot
    <3>9. AllSent'
      BY <1>3, <3>2, ReadTotal DEF AllSent
    <3> QED BY <3>5, <3>8, <3>9
  <2> QED BY <1>4, <2>5, <2>6
<1> QED BY <1>5, <1>6

LEMMA ReadNextByte ==
    ASSUME ReadInv, BusInv', NextByte, fn = "read"
    PROVE  Answer' /\ StaysUp' /\ AllSent'
<1> USE DEF At
<1>1. BusInv /\ Answer /\ StaysUp
  BY DEF ReadInv, WriteInv
<1>2. /\ pc = "ready" /\ todo # <<>> /\ todo' = Tail(todo) /\ byte' = <<>> /\ cycle' = 0
      /\ pc' \in {"start", "bit"} /\ (op'.start <=> pc' = "start") /\ op' = Head(todo)
      /\ UNCHANGED <<slave, fn, buf, pure>>
  BY DEF NextByte, Call, Goto
<1>3. Nth' = Nth + 1 /\ Nth \in Int
  <2>1. Len(todo) \in Nat \ {0} /\ Len(todo') = Len(todo) - 1
    BY <1>1, <1>2 DEF BusInv, MagTypes
  <2> QED BY <1>2, <2>1, TotalType DEF Nth
<1>4. /\ Nth' \in 1..TotalOf("read")
      /\ op'.start <=> Nth' = 1 \/ Nth' = 3
  <2>1. fn' \in Accesses /\ InAccess' /\ ~GivenUp' /\ Order' /\ Len(todo') \in Nat
    BY <1>2 DEF BusInv, MagTypes, Accesses, InAccess, GivenUp
  <2>2. Nth' \in 1..TotalOf(fn') /\ op' = CallsOf(fn')[Nth']
    BY <1>2, <2>1, TotalType DEF Order, Nth
  <2> QED BY <1>2, <2>1, <2>2, CallAt
<1>5. Live' = Live /\ Deaf' = Deaf /\ ~GivenUp /\ ~GivenUp'
  BY <1>2 DEF Live, Joined, Receiver, Deaf, GivenUp
<1>6. Between /\ ~Between' /\ ~Stopping' /\ (Clocking' <=> pc' = "bit")
  BY <1>2 DEF Between, Stopping, Clocking
<1>7. Answer'
  BY <1>1, <1>2, <1>3, <1>4, <1>5, <1>6 DEF Answer
<1>8. Clocking' /\ pure => Live'
  <2>1. Clocking' => Nth \in 1..TotalOf("read") - 1
    BY <1>2, <1>3, <1>4, <1>6, ReadTotal
  <2> QED BY <1>1, <1>5, <1>6, <2>1 DEF StaysUp
<1>9. StaysUp'
  BY <1>1, <1>2, <1>3, <1>4, <1>5, <1>6, <1>8 DEF StaysUp
<1>10. AllSent'
  BY <1>2, <1>6, <1>8 DEF AllSent
<1> QED BY <1>7, <1>9, <1>10

LEMMA ReadEndByte ==
    ASSUME ReadInv, BusInv', EndByte, fn = "read"
    PROVE  Answer' /\ StaysUp' /\ AllSent'
<1> USE DEF At
<1>1. BusInv /\ Answer /\ StaysUp /\ AllSent
  BY DEF ReadInv, WriteInv
<1>2. /\ pc = "done" /\ pc' = "ready"
      /\ buf' = IF op.write THEN buf ELSE Append(buf, byte)
      /\ IF Nack THEN todo' = <<>> ELSE UNCHANGED todo
      /\ UNCHANGED <<slave, op, byte, fn, pure>>
  BY DEF EndByte, Goto, Refused
<1>3. /\ Nth \in 1..TotalOf("read")
      /\ op.write <=> Nth <= 3
  BY <1>1, <1>2, Position DEF BusInv
<1>4. Live' = Live /\ Deaf' = Deaf /\ Nack' = Nack
  BY <1>2 DEF Live, Joined, Receiver, Deaf, Nack
<1>5. Between /\ Between' /\ ~Stopping' /\ ~Clocking'
  BY <1>2 DEF Between, Stopping, Clocking
<1>6. CASE Nack
  <2>1. ~Live /\ GivenUp' /\ ~pure
    <3>1. ~Live
      BY <1>1, <1>5, <1>6 DEF BusInv, InStep, InStepBetween
    <3>2. Nth \in 1..TotalOf("read") - 1
      BY <1>3, <1>6, ReadTotal DEF Nack
    <3> QED BY <1>1, <1>2, <1>4, <1>5, <1>6, <3>1, <3>2 DEF StaysUp, GivenUp
  <2>2. slave'.mode # "send"
    BY <1>4, <2>1 DEF Live, Joined
  <2> QED BY <1>2, <2>1, <2>2 DEF Answer, StaysUp, AllSent
<1>7. CASE ~Nack
  <2>1. Nth' = Nth /\ ~GivenUp /\ ~GivenUp'
    BY <1>2, <1>4, <1>7 DEF Nth, GivenUp
  <2>2. buf' = IF Nth <= 3 THEN buf ELSE Append(buf, byte)
    BY <1>2, <1>3
  <2>3. Len(buf') = IF Nth < 4 THEN 0 ELSE Nth - 3
    <3>1. buf \in Seq(Seq(BOOLEAN)) /\ byte \in Seq(BOOLEAN)
      BY <1>1 DEF BusInv, MagTypes
    <3>2. Len(Append(buf, byte)) = Len(buf) + 1
      BY <3>1
    <3>3. Len(buf) = IF Nth < 4 THEN 0 ELSE Nth - 4
      BY <1>1, <1>2, <2>1 DEF Answer
    <3> QED BY <1>3, <2>2, <3>2, <3>3
  <2>4. slave.mode = "send" => slave.sent = Append(buf', slave.shift)
    BY <1>1, <1>2, <1>3, <1>5, <2>2 DEF Answer
  <2>5. Answer'
    BY <1>2, <1>5, <2>1, <2>3, <2>4 DEF Answer
  <2>6. StaysUp'
    BY <1>1, <1>2, <1>4, <1>5, <2>1 DEF StaysUp
  <2>7. AllSent'
    <3> SUFFICES ASSUME pure, Nth = TotalOf("read") PROVE slave.sent = buf'
      BY <1>2, <1>5, <2>1 DEF AllSent
    <3>1. slave.sent = Append(buf, byte)
      BY <1>1, <1>2 DEF AllSent
    <3> QED BY <2>2, <3>1, ReadTotal
  <2> QED BY <2>5, <2>6, <2>7
<1> QED BY <1>6, <1>7

LEMMA ReadRelease ==
    ASSUME ReadInv, BusInv', World, Release, fn = "read"
    PROVE  Answer' /\ StaysUp' /\ AllSent'
<1> USE DEF At
<1>1. BusInv /\ Answer /\ StaysUp /\ AllSent /\ Hears
  BY ReleaseHears DEF ReadInv, WriteInv
<1>2. /\ UNCHANGED <<sda_low, scl_low, started, op, pc, cycle, byte>>
      /\ UNCHANGED <<timeout, fn, todo, buf>> /\ (pure' => pure)
      /\ slave.stretch
  BY DEF World, Release
<1>3. /\ Nth' = Nth /\ GivenUp' = GivenUp /\ Clocking' = Clocking /\ Between' = Between
      /\ Stopping' = Stopping
  BY <1>2 DEF Nth, GivenUp, Nack, Clocking, Between, Stopping
<1>4. pc \notin {"start_sda", "start_scl"}
  BY <1>1, <1>2 DEF BusInv, Lines
<1>5. slave'.mode = "send" =>
         slave.mode = "send" /\ slave'.shift = slave.shift /\ slave'.sent = slave.sent
  BY <1>1, <1>4 DEF Hears, Receiver
<1>6. Answer'
  BY <1>1, <1>2, <1>3, <1>5 DEF Answer
<1>7. ASSUME pure, Live, ~Live', Clocking \/ Between
      PROVE  /\ pc = "fall" /\ Nth = TotalOf("read") /\ cycle = Width
             /\ slave.sent = Append(buf, byte)
  <2>1. slave.mode = "send" /\ slave.n = Width /\ SDA
    BY <1>1, <1>4, <1>7 DEF Hears, Live, Joined, Receiver, Clocking, Between
  <2>2. Clocking
    <3>1. Between => slave.n = 0
      BY <1>1, <1>7 DEF BusInv, InStep, InStepBetween
    <3> QED BY <1>7, <2>1, <3>1
  <2>3. cycle = Width
    BY <1>1, <1>7, <2>1, <2>2 DEF BusInv, InStep, InStepClocking
  <2>4. byte = slave.shift /\ ~op.write
    BY <1>1, <2>1, <2>2, <2>3, ByteIsShift
  <2>5. pc = "fall"
    <3>1. slave' # slave /\ slave \in Slaves
      BY <1>1, <1>7 DEF Live, BusInv, MagTypes
    <3>2. ~scl_low
      <4>1. ASSUME scl_low PROVE slave'.mode = slave.mode
        <5>1. slave' = [slave EXCEPT !.stretch = FALSE]
          BY <4>1 DEF Release
        <5> QED BY <3>1, <5>1 DEF Slaves
      <4> QED BY <1>7, <4>1 DEF Live, Joined, Receiver
    <3> QED BY <1>1, <2>2, <3>2 DEF BusInv, Lines, Clocking
  <2>6. op.nack
    BY <1>1, <2>1, <2>3, <2>4, <2>5 DEF BusInv, Lines, SDA, BitOut
  <2>7. Nth = TotalOf("read")
    BY <1>1, <2>4, <2>5, <2>6, Position DEF BusInv
  <2>8. slave.sent = Append(buf, byte)
    BY <1>1, <2>1, <2>2, <2>4 DEF Answer
  <2> QED BY <2>3, <2>5, <2>7, <2>8
<1>8. ~Live => ~Live'
  BY <1>1, <1>4 DEF Hears, Live, Joined, Receiver
<1>9. StaysUp'
  <2> SUFFICES ASSUME pure PROVE StaysUp'
    BY <1>2 DEF StaysUp
  <2>1. ~Deaf' /\ slave'.reg = slave.reg
    BY <1>1, <1>2 DEF Hears, Deaf, StaysUp
  <2>2. Clocking => Live' \/ (Nth = TotalOf("read") /\ cycle = Width /\ pc = "fall")
    BY <1>1, <1>2, <1>7 DEF StaysUp
  <2>3. Between /\ Nth \in 1..TotalOf("read") - 1 => Live'
    BY <1>1, <1>2, <1>7 DEF StaysUp, Between
  <2> QED BY <1>1, <1>2, <1>3, <1>4, <2>1, <2>2, <2>3 DEF StaysUp
<1>10. AllSent'
  <2>1. slave'.sent = slave.sent
    BY <1>1 DEF Hears
  <2> QED BY <1>1, <1>2, <1>3, <1>7, <1>8, <2>1 DEF AllSent, Clocking, Stopping, Between
<1> QED BY <1>6, <1>9, <1>10

LEMMA ReadFresh ==
    ASSUME BusInv', fn' = "read", todo' = hal_mag3110_reg_read_burst(OutX), buf' = <<>>,
           pure' => ~(Deaf'), At("ready")'
    PROVE  Answer' /\ StaysUp' /\ AllSent'
<1> USE DEF At
<1>1. ~Live'
  BY Rests DEF Accesses, CallsOf
<1>2. Nth' = 0 /\ todo' # <<>>
  BY CallsOfRead, ReadTotal DEF Nth
<1>3. Answer'
  BY <1>1, <1>2 DEF Answer, Live, Joined, Clocking
<1>4. ~GivenUp' /\ ~Clocking'
  BY <1>2 DEF GivenUp, Clocking
<1>5. StaysUp'
  BY <1>2, <1>4 DEF StaysUp
<1>6. AllSent'
  BY <1>2, ReadTotal DEF AllSent
<1> QED BY <1>3, <1>5, <1>6

LEMMA ReadStep == ReadInv /\ [Next]_vars => ReadInv'
<1> SUFFICES ASSUME ReadInv, [Next]_vars PROVE ReadInv'
  OBVIOUS
<1>1. WriteInv' /\ BusInv' /\ BusInv
  BY RememberedStep DEF ReadInv, WriteInv
<1> SUFFICES ASSUME fn' = "read" PROVE Answer' /\ StaysUp' /\ AllSent'
  BY <1>1 DEF ReadInv, Answer, StaysUp, AllSent
<1>2. CASE Bus
  <2>1. fn = "read"
    BY <1>2, BusLabels
  <2> QED BY <1>1, <1>2, <2>1, ReadUnclocked, ReadStartDone, ReadFall
<1>3. CASE NextByte \/ EndByte
  <2>1. fn = "read"
    BY <1>3 DEF NextByte, EndByte
  <2> QED BY <1>1, <1>3, <2>1, ReadNextByte, ReadEndByte
<1>4. CASE NextAccess
  <2>1. /\ todo' = hal_mag3110_reg_read_burst(OutX) /\ buf' = <<>> /\ pure' = ~Deaf
        /\ UNCHANGED <<slave, pc>>
    BY <1>4 DEF NextAccess, WriteCtrlReg1, WriteCtrlReg2, ReadOut, AfterCtrl1, Access, i2c_vars
  <2>2. At("ready")' /\ (pure' => ~(Deaf'))
    BY <1>1, <1>4, <2>1 DEF NextAccess, Ended, At, BusInv, Order, InAccess, Deaf
  <2> QED BY <1>1, <2>1, <2>2, ReadFresh
<1>5. CASE svc_compass_read
  <2>1. /\ todo' = hal_mag3110_reg_read_burst(OutX) /\ buf' = <<>> /\ pure' = ~Deaf
        /\ UNCHANGED <<slave, pc>> /\ At("ready")
    BY <1>5 DEF svc_compass_read, ReadOut, Access
  <2>2. At("ready")' /\ (pure' => ~(Deaf'))
    BY <2>1 DEF At, Deaf
  <2> QED BY <1>1, <2>1, <2>2, ReadFresh
<1>6. CASE InitSCL \/ InitSDA \/ EndRead \/ svc_compass_process \/ Reset
  BY <1>6 DEF InitSCL, InitSDA, EndRead, svc_compass_process, Reset
<1>7. CASE World
  <2>1. fn = "read" /\ UNCHANGED <<op, pc, byte, todo, buf>>
    BY <1>7 DEF World, External, Release, Up, Upset
  <2>2. CASE Release
    BY <1>1, <1>7, <2>1, <2>2, ReadRelease
  <2>3. CASE Up \/ Upset
    <3>1. ~Live'
      BY <2>3, BlankNotLive DEF Up, Upset
    <3>2. ~pure'
      <4>1. CASE Upset
        BY <1>7, <4>1 DEF World
      <4>2. CASE Up
        BY <1>7, <2>1, <4>2 DEF World, Up, Deaf, ReadInv, StaysUp
      <4> QED BY <2>3, <4>1, <4>2
    <3>3. GivenUp' = GivenUp /\ Nth' = Nth /\ (At("ready")' = At("ready")) /\ slave'.mode # "send"
      BY <2>1, <3>1 DEF GivenUp, Nack, Nth, At, Live, Joined
    <3> QED BY <2>1, <3>2, <3>3 DEF ReadInv, Answer, StaysUp, AllSent
  <2> QED BY <1>7, <2>2, <2>3 DEF World, External
<1>8. CASE UNCHANGED vars
  BY <1>8 DEF vars, i2c_vars, mag_vars, ReadInv, Answer, StaysUp, AllSent, GivenUp, Nack, Nth,
     At, Clocking, Between, Stopping, Live, Joined, Receiver, Deaf
<1> QED BY <1>2, <1>3, <1>4, <1>5, <1>6, <1>7, <1>8 DEF Next, Driver

LEMMA ReadInvAlways == Spec => []ReadInv
<1>1. Init => ReadInv
  <2> SUFFICES ASSUME Init PROVE ReadInv
    OBVIOUS
  <2>1. slave.mode = Off /\ fn = "none"
    BY BlankFields DEF Init
  <2> QED BY <2>1, BusInvInit DEF ReadInv, WriteInv, Remembered, Off, Answer, StaysUp, AllSent
<1> QED BY <1>1, ReadStep, PTL DEF Spec

\* hal_mag3110_reg_read_burst fills the buffer with the bytes the device sent
\* from the register asked for, all of them and in order, if the device kept its
\* state.
THEOREM ReadsExactly == Spec => []ReadExact
<1>1. ReadInv => ReadExact
  <2> SUFFICES ASSUME ReadInv, Ended, fn = "read", ~Nack, pure
               PROVE  buf = slave.sent /\ Len(buf) = NBytes /\ slave.reg = OutX
    BY DEF ReadExact
  <2>1. At("ready") /\ todo = <<>> /\ Nth = TotalOf("read")
    BY ReadTotal DEF Ended, Nth
  <2>2. ~GivenUp /\ Nth = 3 + NBytes /\ Nth > 3
    BY <2>1, ReadTotal DEF GivenUp
  <2>3. buf = slave.sent /\ slave.reg = OutX
    BY <2>1, <2>2 DEF ReadInv, AllSent, StaysUp
  <2>4. Len(buf) = Nth - 3
    BY <2>1, <2>2 DEF ReadInv, Answer
  <2> QED BY <2>2, <2>3, <2>4
<1> QED BY <1>1, ReadInvAlways, PTL

\* hal_mag3110_read reports a failure only of a device that was down, or lost
\* its state, during the read: one that stays up acknowledges every byte.
THEOREM ReadIsAnswered == Spec => [](Ended /\ fn = "read" /\ pure => ~Nack)
<1>1. ReadInv => (Ended /\ fn = "read" /\ pure => ~Nack)
  BY DEF ReadInv, StaysUp, GivenUp, Ended
<1> QED BY <1>1, ReadInvAlways, PTL
=============================================================================
