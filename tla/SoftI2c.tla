------------------------------ MODULE SoftI2c ------------------------------
(***************************************************************************)
(* The software I2C master of components/soft_i2c_master, one write of a   *)
(* line at a time, with a device (external) on the bus that reacts to the  *)
(* edges.  The two lines are open-drain: a line is high unless a side      *)
(* pulls it low.  emulate_i2c_transfer() runs in a critical section, so    *)
(* calls do not overlap, and the device cannot stretch the clock, which    *)
(* the master never reads.                                                 *)
(***************************************************************************)
EXTENDS Naturals, SequencesExt

CONSTANTS
  Width,   \* bits of a byte: 8
  Device,  \* the address of the device, Width - 1 bits
  MaxOut,  \* bytes a call may write, a bound
  MaxIn    \* bytes a call may read, a bound

Bit  == {0, 1}
Byte == [1 .. Width -> Bit]

\* What the checks of soft_i2c_master_write(), _read() and _write_read() let
\* through: _read() accepts a read of no bytes.
Call == [addr : [1 .. Width - 1 -> Bit],
         out  : UNION {[1 .. k -> Byte] : k \in 0 .. MaxOut},
         n    : 0 .. MaxIn]

ASSUME WidthAssumption == Width \in Nat \ {0, 1}
ASSUME BoundsAssumption == MaxOut \in Nat /\ MaxIn \in Nat
ASSUME DeviceAssumption == Device \in [1 .. Width - 1 -> Bit]

VARIABLES
  call, got, ret,  \* the call, its read_buffer, its result
  at,              \* the part of emulate_i2c_transfer() under way
  pc,              \* the next line of the emulate_..() it is in, or "done"
  k, res,          \* bytes written, ret of emulate_i2c_transfer()
  i, acked, in,    \* the bit being written, the last ack, the bits read
  scl, sda,        \* the lines as the master drives them; 1 lets go
  dsda,            \* SDA as the device drives it
  dev, dir, dbits, \* the device, its direction and its shift register
  heard, shown     \* bytes it has taken and offered in this call

transfer == <<call, got, ret, at, k, res>>
local    == <<i, acked, in>>
device   == <<dsda, dev, dir, dbits, heard, shown>>
Bus      == <<scl, sda, device>>
vars     == <<transfer, pc, local, Bus>>

Both(x, y) == IF x = 1 /\ y = 1 THEN 1 ELSE 0
Sda == Both(sda, dsda)     \* the line

-----------------------------------------------------------------------------
(* The device: what it does on each edge.                                  *)

Ignore == UNCHANGED device

\* A byte of its own choice, its first bit on SDA.
Offer ==
  \E b \in Byte :
    /\ shown' = Append(shown, b)
    /\ dev' = "show" /\ dbits' = b /\ dsda' = b[1]
    /\ UNCHANGED <<dir, heard>>

Acknowledge == dev' = "ack" /\ dsda' = 0
TurnAway    == dev' = "idle" /\ dsda' = 1

OnStart ==
  /\ dev' = "address" /\ dbits' = <<>> /\ dsda' = 1
  /\ UNCHANGED <<dir, heard, shown>>

OnStop == TurnAway /\ UNCHANGED <<dir, dbits, heard, shown>>

OnRise(level) ==
  IF dev \in {"address", "hear", "acked"}
  THEN /\ dbits' = Append(dbits, level)
       /\ UNCHANGED <<dsda, dev, dir, heard, shown>>
  ELSE Ignore

OnFall ==
  \/ /\ dev = "address" /\ Len(dbits) = Width
     /\ (Front(dbits) = Device /\ Acknowledge) \/ TurnAway
     /\ dir' = IF Last(dbits) = 1 THEN "show" ELSE "hear"
     /\ UNCHANGED <<dbits, heard, shown>>
  \/ /\ dev = "hear" /\ Len(dbits) = Width
     /\ heard' = Append(heard, dbits)
     /\ Acknowledge \/ TurnAway
     /\ UNCHANGED <<dir, dbits, shown>>
  \/ /\ dev = "ack" /\ dir = "hear"
     /\ dev' = "hear" /\ dbits' = <<>> /\ dsda' = 1
     /\ UNCHANGED <<dir, heard, shown>>
  \/ dev = "ack" /\ dir = "show" /\ Offer
  \/ /\ dev = "show" /\ Len(dbits) > 1
     /\ dbits' = Tail(dbits) /\ dsda' = dbits[2]
     /\ UNCHANGED <<dev, dir, heard, shown>>
  \/ /\ dev = "show" /\ Len(dbits) = 1
     /\ dev' = "acked" /\ dbits' = <<>> /\ dsda' = 1
     /\ UNCHANGED <<dir, heard, shown>>
  \/ dev = "acked" /\ dbits = <<0>> /\ Offer
  \/ dev = "acked" /\ dbits = <<1>> /\ OnStop
  \/ /\ dev = "idle" \/ (dev \in {"address", "hear"} /\ Len(dbits) < Width)
     /\ Ignore

\* The master drives its lines to c and d.
Drive(c, d) ==
  LET line == Both(d, dsda)
  IN  /\ scl' = c /\ sda' = d
      /\ CASE scl = 1 /\ c = 1 /\ Sda = 1 /\ line = 0 -> OnStart
           [] scl = 1 /\ c = 1 /\ Sda = 0 /\ line = 1 -> OnStop
           [] scl = 0 /\ c = 1 -> OnRise(line)
           [] scl = 1 /\ c = 0 -> OnFall
           [] OTHER -> Ignore

-----------------------------------------------------------------------------
(* The emulate_..() functions, a line at a time.                           *)

Lines == {"start", "high", "fall", "low", "bit", "clock", "release", "let_go",
          "ack_clock", "ack", "ack_end", "take", "float", "next", "get", "tick",
          "answer", "set_ack", "set_clock", "stop", "down", "rise", "up",
          "done"}

\* The line of the code called `from` drives SCL and SDA; `to` comes next.
Line(from, to, c, d) ==
  pc = from /\ pc' = to /\ Drive(c, d) /\ UNCHANGED <<transfer, local>>

emulate_start ==
  \/ Line("start", "high", 1, sda)
  \/ Line("high", "fall", scl, 1)
  \/ Line("fall", "low", scl, 0)

\* Mutant: SDA is not pulled low first.
emulate_stop_short ==
  \/ Line("stop", "rise", 0, sda)
  \/ Line("rise", "up", 1, sda)
  \/ Line("up", "done", scl, 1)

emulate_stop ==
  \/ Line("stop", "down", 0, sda)
  \/ Line("down", "rise", scl, 0)
  \/ Line("rise", "up", 1, sda)
  \/ Line("up", "done", scl, 1)

\* The argument of emulate_write_byte(): an address with a write or a read
\* bit, or the byte of write_buffer.
Argument ==
  CASE at = "write" -> Append(call.addr, 0)
    [] at = "read"  -> Append(call.addr, 1)
    [] OTHER        -> call.out[k]

\* The end of a round of the loop over the bits.
Clock ==
  /\ pc = "clock" /\ Drive(1, sda)
  /\ IF i < Width THEN pc' = "low" /\ i' = i + 1 ELSE pc' = "release" /\ i' = 1
  /\ UNCHANGED <<transfer, acked, in>>

\* Mutant: SCL is not set to low before a bit is put on SDA.
WriteBitHigh ==
  \/ Line("low", "bit", scl, sda)
  \/ Line("bit", "clock", scl, Argument[i])
  \/ Clock

WriteBit ==
  \/ Line("low", "bit", 0, sda)
  \/ Line("bit", "clock", scl, Argument[i])
  \/ Clock

ReadAck ==
  /\ pc = "ack" /\ pc' = "ack_end"
  /\ acked' = (Sda = 0)
  /\ UNCHANGED <<transfer, i, in, Bus>>

emulate_write_byte ==
  \/ WriteBit
  \/ Line("release", "let_go", 0, sda)
  \/ Line("let_go", "ack_clock", scl, 1)
  \/ Line("ack_clock", "ack", 1, sda)
  \/ ReadAck
  \/ Line("ack_end", "done", 0, sda)

\* Mutant: one bit too many.
MoreToReadLate == Len(in) <= Width

\* The loop of emulate_read_byte() goes on.
MoreToRead == Len(in) < Width

\* Mutant: the last byte is acknowledged like the others.
SendAckAlways == TRUE

\* send_ack: a byte is acknowledged, except the last one.
SendAck == Len(got) # call.n - 1

\* get_sda() into the result.
ReadBit ==
  /\ pc = "get" /\ pc' = "tick"
  /\ in' = Append(in, Sda)
  /\ UNCHANGED <<transfer, i, acked, Bus>>

emulate_read_byte ==
  \/ Line("take", "float", 0, sda)
  \/ Line("float", "next", scl, 1)
  \/ Line("next", "get", 0, sda)
  \/ ReadBit
  \/ Line("tick", IF MoreToRead THEN "next" ELSE "answer", 1, sda)
  \/ Line("answer", "set_ack", 0, sda)
  \/ Line("set_ack", "set_clock", scl, IF SendAck THEN 0 ELSE 1)
  \/ Line("set_clock", "done", 1, sda)

-----------------------------------------------------------------------------
(* emulate_i2c_transfer().                                                 *)

\* soft_i2c_master_new() lets both lines go.
Init ==
  /\ call \in Call
  /\ got = <<>> /\ ret = "ready" /\ res = "OK"
  /\ at = "stop" /\ pc = "done" /\ k = 0 /\ i = 1 /\ acked = FALSE /\ in = <<>>
  /\ scl = 1 /\ sda = 1 /\ dsda = 1
  /\ dev = "idle" /\ dir = "hear" /\ dbits = <<>>
  /\ heard = <<>> /\ shown = <<>>

\* It is entered, and lets both lines go.
Begin(c) ==
  /\ ret # "busy" /\ ret' = "busy"
  /\ call' = c
  /\ got' = <<>> /\ k' = 0 /\ res' = "OK"
  /\ \/ c.out # <<>> /\ at' = "write" /\ pc' = "start"
     \/ c.out = <<>> /\ c.n > 0 /\ at' = "read" /\ pc' = "start"
     \/ c.out = <<>> /\ c.n = 0 /\ at' = "stop" /\ pc' = "stop"
  /\ scl' = 1 /\ sda' = 1
  /\ heard' = <<>> /\ shown' = <<>>
  /\ UNCHANGED <<local, dsda, dev, dir, dbits>>

\* One line of the emulate_..() function it is in.
Operate ==
  emulate_start \/ emulate_write_byte \/ emulate_read_byte \/ emulate_stop

Between == ret = "busy" /\ pc = "done"

\* Address and bytes so far acknowledged: the next byte.
WriteNext ==
  /\ Between /\ at \in {"write", "byte"} /\ acked /\ k < Len(call.out)
  /\ at' = "byte" /\ pc' = "low" /\ k' = k + 1
  /\ UNCHANGED <<call, got, ret, res, local, Bus>>

\* All written: a repeated start for the read, if there is one.
StartRead ==
  /\ Between /\ at = "byte" /\ acked /\ k = Len(call.out) /\ call.n > 0
  /\ at' = "read" /\ pc' = "start"
  /\ UNCHANGED <<call, got, ret, k, res, local, Bus>>

\* The read address is acknowledged: the first byte.
ReadFirst ==
  /\ Between /\ at = "read" /\ acked
  /\ at' = "fetch" /\ pc' = "take" /\ in' = <<>>
  /\ UNCHANGED <<call, got, ret, k, res, i, acked, Bus>>

\* A byte is in read_buffer: the next one, or stop.
ReadNext ==
  /\ Between /\ at = "fetch"
  /\ got' = Append(got, in) /\ in' = <<>>
  /\ IF Len(got) + 1 < call.n THEN at' = "fetch" /\ pc' = "take"
     ELSE at' = "stop" /\ pc' = "stop"
  /\ UNCHANGED <<call, ret, k, res, i, acked, Bus>>

\* Nothing is left to do, or a byte was not acknowledged: stop.
Stop ==
  /\ Between /\ at \in {"write", "byte", "read"}
  /\ (at = "byte" /\ k = Len(call.out) /\ call.n = 0) \/ ~ acked
  /\ res' = IF acked THEN "OK" ELSE IF at = "byte" THEN "FAIL" ELSE "NOT_FOUND"
  /\ at' = "stop" /\ pc' = "stop"
  /\ UNCHANGED <<call, got, ret, k, local, Bus>>

Return ==
  /\ Between /\ at = "stop"
  /\ ret' = res
  /\ UNCHANGED <<call, got, at, k, res, pc, local, Bus>>

Next ==
  \/ \E c \in Call : Begin(c)
  \/ Operate
  \/ WriteNext \/ StartRead \/ ReadFirst \/ ReadNext \/ Stop \/ Return

Spec == Init /\ [][Next]_vars

-----------------------------------------------------------------------------
(* Properties.                                                             *)

TypeOK ==
  /\ call \in Call
  /\ got \in Seq(Byte) /\ heard \in Seq(Byte) /\ shown \in Seq(Byte)
  /\ ret \in {"ready", "busy", "OK", "NOT_FOUND", "FAIL"}
  /\ res \in {"OK", "NOT_FOUND", "FAIL"}
  /\ at \in {"write", "byte", "read", "fetch", "stop"}
  /\ pc \in Lines
  /\ k \in 0 .. Len(call.out) /\ i \in 1 .. Width
  /\ acked \in BOOLEAN
  /\ in \in Seq(Bit) /\ Len(in) <= Width
  /\ {scl, sda, dsda} \subseteq Bit
  /\ dev \in {"idle", "address", "ack", "hear", "show", "acked"}
  /\ dir \in {"hear", "show"}
  /\ dbits \in Seq(Bit) /\ Len(dbits) <= Width

(***************************************************************************)
(* The bus carries out the transfer: what the device takes and offers at   *)
(* its end of the lines, and what the caller is told, is a behaviour of    *)
(* I2cTransfer for every call, device answer and address.                  *)
(***************************************************************************)
Transfer == INSTANCE I2cTransfer
              WITH taken <- heard, offered <- shown, read <- got, status <- ret
ImplementsTransfer == Transfer!Spec

(***************************************************************************)
(* A call returns the bus idle: both lines high, and the device waiting for*)
(* a start, whatever was acknowledged and even if nothing was started.     *)
(***************************************************************************)
BusIdleAtReturn ==
  ret # "busy" => scl = 1 /\ Sda = 1 /\ dev = "idle"

(***************************************************************************)
(* SDA changes under a high SCL only as a start or a stop of the master    *)
(* ("make sure it is not detected as a start", soft_i2c_master.c:234): in  *)
(* a start it falls, in a stop it rises, and within bytes it is still.     *)
(***************************************************************************)
DataStable ==
  [][scl = 1 /\ scl' = 1 /\ Sda' # Sda =>
       \/ Sda' = 0 /\ pc = "fall"
       \/ Sda' = 1 /\ pc = "up"]_vars
=============================================================================
