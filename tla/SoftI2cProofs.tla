--------------------------- MODULE SoftI2cProofs ---------------------------
(***************************************************************************)
(* SoftI2c implements I2cTransfer and leaves the bus idle, for bytes of    *)
(* any width, any calls and any device.  The invariant says, for each line *)
(* of the emulate_..() functions, how the lines of the bus are driven and  *)
(* how far the device has followed the bits; and, for each part of         *)
(* emulate_i2c_transfer(), what the device has taken and offered.          *)
(***************************************************************************)
EXTENDS SoftI2c, TLAPS

-----------------------------------------------------------------------------
(* The invariant.                                                          *)

\* Who holds SDA, and that only the addressed device says anything.
DeviceInv ==
  /\ dsda = CASE dev = "ack"  -> 0
              [] dev = "show" -> dbits[1]
              [] OTHER        -> 1
  /\ dev \in {"ack", "hear", "show", "acked"} => call.addr = Device
  /\ dev = "hear" => dir = "hear"

\* The device has the first n bits of the byte that is written.
Heard(n) ==
  /\ dev = IF at = "byte" THEN "hear" ELSE "address"
  /\ Len(dbits) = n
  /\ \A j \in 1 .. n : dbits[j] = Argument[j]

\* It has all of them, and acknowledges the byte or is gone.
Answered ==
  dev = "idle" \/ (dev = "ack" /\ dir = IF at = "read" THEN "show" ELSE "hear")

\* The device is at the last n bits of the byte it offers.
Offered    == Len(shown) = Len(got) + 1
Showing(n) ==
  /\ dev = "show" /\ Offered
  /\ Len(dbits) = n
  /\ \A j \in 1 .. n : dbits[j] = shown[Len(shown)][(Width - n) + j]

\* The master has the first bits of it.
Gathered == \A j \in 1 .. Len(in) : in[j] = shown[Len(shown)][j]

StartInv ==
  /\ pc \in {"start", "high", "fall"} => at \in {"write", "read"}
  /\ pc = "start" => sda = 1 /\ \/ scl = 1 /\ dev = "idle"
                                \/ scl = 0 /\ dev = "hear" /\ dbits = <<>>
  /\ pc \in {"high", "fall"} => scl = 1 /\ sda = 1 /\ dev \in {"idle", "hear"}

WriteInv ==
  /\ pc \in {"low", "bit", "clock", "release", "let_go", "ack_clock", "ack",
             "ack_end"} => at \in {"write", "byte", "read"}
  /\ pc = "low" => Heard(i - 1)
  /\ pc = "bit" => scl = 0 /\ Heard(i - 1)
  /\ pc = "clock" => scl = 0 /\ sda = Argument[i] /\ Heard(i - 1)
  /\ pc \notin {"low", "bit", "clock"} => i = 1
  /\ pc = "release" => scl = 1 /\ Heard(Width)
  /\ pc = "let_go" => scl = 0 /\ Answered
  /\ pc = "ack_clock" => scl = 0 /\ sda = 1 /\ Answered
  /\ pc = "ack" => scl = 1 /\ sda = 1 /\ Answered
  /\ pc = "ack_end" => /\ scl = 1 /\ sda = 1 /\ Answered
                       /\ acked <=> dev = "ack"

ReadInv ==
  /\ pc \in {"take", "float", "next", "get", "tick", "answer", "set_ack",
             "set_clock"} => at = "fetch"
  /\ pc = "take" => /\ in = <<>>
                    /\ \/ scl = 0 /\ Showing(Width)
                       \/ /\ scl = 1 /\ dev = "acked" /\ dbits = <<0>>
                          /\ Len(shown) = Len(got)
  /\ pc = "float" => in = <<>> /\ scl = 0 /\ Showing(Width)
  /\ pc = "next" => /\ sda = 1 /\ Len(in) < Width /\ Gathered
                    /\ \/ scl = 0 /\ in = <<>> /\ Showing(Width)
                       \/ scl = 1 /\ in # <<>> /\ Showing((Width - Len(in)) + 1)
  /\ pc = "get" => /\ scl = 0 /\ sda = 1 /\ Len(in) < Width /\ Gathered
                   /\ Showing(Width - Len(in))
  /\ pc = "tick" => /\ scl = 0 /\ sda = 1 /\ in # <<>> /\ Gathered
                    /\ Showing((Width - Len(in)) + 1)
  /\ pc = "answer" => /\ scl = 1 /\ Len(in) = Width /\ Gathered
                      /\ Showing(1)
  /\ pc \in {"set_ack", "set_clock"} =>
       /\ scl = 0 /\ Len(in) = Width /\ Gathered
       /\ dev = "acked" /\ dbits = <<>> /\ Offered
  /\ pc = "set_clock" => sda = IF SendAck THEN 0 ELSE 1

StopInv ==
  /\ pc \in {"stop", "down", "rise", "up"} => at = "stop"
  /\ pc = "stop" => \/ dev = "idle"
                    \/ scl = 0 /\ dev = "hear" /\ dbits = <<>>
                    \/ scl = 1 /\ dev = "acked" /\ dbits = <<1>>
  /\ pc \in {"down", "rise"} =>
       scl = 0 /\ (dev = "idle" \/ (dev = "hear" /\ dbits = <<>>))
  /\ pc = "rise" => sda = 0
  /\ pc = "up" => scl = 1 /\ sda = 0 /\ dev \in {"idle", "hear"}

\* Between two calls of the emulate_..() functions.
BetweenInv ==
  pc = "done" =>
    /\ at \in {"write", "byte", "read"} =>
         /\ scl = 0 /\ sda = 1
         /\ ~ acked => dev = "idle"
         /\ acked /\ at # "read" => dev = "hear" /\ dbits = <<>>
         /\ acked /\ at = "read" => Showing(Width)
    /\ at = "fetch" =>
         /\ scl = 1 /\ Len(in) = Width /\ Gathered
         /\ dev = "acked" /\ dbits = <<IF SendAck THEN 0 ELSE 1>> /\ Offered
    /\ at = "stop" => scl = 1 /\ sda = 1 /\ dev = "idle"

\* What the device has taken and offered, and the caller been given.
ByteInv ==
  /\ ret # "busy" => at = "stop" /\ pc = "done"
  /\ at = "write" => heard = <<>> /\ call.out # <<>> /\ k = 0
  /\ at = "byte" =>
       /\ 1 <= k
       /\ Len(heard) = IF pc \in {"low", "bit", "clock", "release"}
                       THEN k - 1 ELSE k
       /\ \A j \in 1 .. Len(heard) : heard[j] = call.out[j]
  /\ at \in {"write", "byte"} => shown = <<>>
  /\ at \in {"read", "fetch"} => heard = call.out
  /\ at = "read" => shown = <<>> \/ (pc = "done" /\ acked)
  /\ at \in {"write", "byte", "read"} => got = <<>>
  /\ at \in {"read", "fetch"} => Len(got) < call.n
  /\ at # "stop" => res = "OK"
  /\ at = "stop" /\ ret = "busy" =>
       CASE res = "OK"        -> heard = call.out /\ Len(got) = call.n
         [] res = "NOT_FOUND" -> heard \in {<<>>, call.out} /\ shown = <<>>
         [] res = "FAIL"      -> heard # <<>> /\ shown = <<>>

PositionInv == StartInv /\ WriteInv /\ ReadInv /\ StopInv /\ BetweenInv

Inv == TypeOK /\ DeviceInv /\ PositionInv /\ ByteInv

-----------------------------------------------------------------------------
(* What the steps are made of.                                             *)

LEMMA CallTyping ==
  ASSUME NEW c \in Call
  PROVE  /\ c.out \in Seq(Byte) /\ c.n \in Nat
         /\ c.addr \in [1 .. Width - 1 -> Bit]
<1>1. PICK m \in 0 .. MaxOut : c.out \in [1 .. m -> Byte]
  BY DEF Call
<1>2. m \in Nat
  BY BoundsAssumption
<1>3. c.out \in Seq(Byte)
  BY <1>1, <1>2
<1>4. c.n \in Nat
  BY BoundsAssumption DEF Call
<1> QED
  BY <1>3, <1>4 DEF Call

\* What the device makes of the lines when the master drives them.
LEMMA Driven ==
  ASSUME TypeOK, NEW c \in Bit, NEW d \in Bit, Drive(c, d)
  PROVE  /\ scl' = c /\ sda' = d
         /\ scl = 0 /\ c = 0 => Ignore
         /\ scl = 1 /\ c = 0 => OnFall
         /\ scl = 0 /\ c = 1 => OnRise(Both(d, dsda))
         /\ scl = 1 /\ c = 1 /\ d = sda => Ignore
         /\ scl = 1 /\ c = 1 /\ sda = 1 /\ d = 0 /\ dsda = 1 => OnStart
         /\ scl = 1 /\ c = 1 /\ sda = 0 /\ d = 1 /\ dsda = 1 => OnStop
<1>1. {scl, sda, dsda} \subseteq {0, 1} /\ c \in {0, 1} /\ d \in {0, 1}
  BY DEF TypeOK, Bit
<1>2. scl' = c /\ sda' = d
  BY DEF Drive
<1>3. scl = 0 /\ c = 0 => Ignore
  BY <1>1 DEF Drive, Both, Sda
<1>4. scl = 1 /\ c = 0 => OnFall
  BY <1>1 DEF Drive, Both, Sda
<1>5. scl = 0 /\ c = 1 => OnRise(Both(d, dsda))
  BY <1>1 DEF Drive, Both, Sda
<1>6. scl = 1 /\ c = 1 /\ d = sda => Ignore
  BY <1>1 DEF Drive, Both, Sda
<1>7. scl = 1 /\ c = 1 /\ sda = 1 /\ d = 0 /\ dsda = 1 => OnStart
  BY <1>1 DEF Drive, Both, Sda
<1>8. scl = 1 /\ c = 1 /\ sda = 0 /\ d = 1 /\ dsda = 1 => OnStop
  BY <1>1 DEF Drive, Both, Sda
<1> QED
  BY <1>2, <1>3, <1>4, <1>5, <1>6, <1>7, <1>8

(***************************************************************************)
(* A line in which the device takes and offers nothing leaves what it has  *)
(* taken and offered as it is, and is no step of I2cTransfer.              *)
(***************************************************************************)
Telling == {"low", "bit", "clock", "release"}

LEMMA BytesKept ==
  ASSUME Inv, UNCHANGED transfer, heard' = heard, shown' = shown,
         pc # "done", pc \in Telling <=> pc' \in Telling
  PROVE  ByteInv' /\ UNCHANGED Transfer!vars
<1>1. /\ call' = call /\ got' = got /\ ret' = ret /\ at' = at /\ k' = k
      /\ res' = res
  BY DEF transfer
<1>2. ByteInv'
  BY <1>1 DEF Inv, ByteInv, Telling
<1> QED
  BY <1>1, <1>2 DEF Transfer!vars

\* What a line leaves alone, in equations.
LEMMA LineKeeps ==
  ASSUME TypeOK, NEW from, NEW to, NEW c \in Bit, NEW d \in Bit,
         Line(from, to, c, d)
  PROVE  /\ pc = from /\ pc' = to /\ scl' = c /\ sda' = d
         /\ call' = call /\ got' = got /\ ret' = ret /\ at' = at /\ k' = k
         /\ res' = res /\ i' = i /\ acked' = acked /\ in' = in
         /\ UNCHANGED transfer
  BY Driven DEF Line, transfer, local

\* The device after a line, when it still is a device.
DeviceTypes ==
  /\ dsda \in Bit
  /\ dev \in {"idle", "address", "ack", "hear", "show", "acked"}
  /\ dir \in {"hear", "show"}
  /\ dbits \in Seq(Bit) /\ Len(dbits) <= Width
  /\ heard \in Seq(Byte) /\ shown \in Seq(Byte)

(***************************************************************************)
(* A line in which the device takes and offers nothing, and one to which it*)
(* does not react at all.                                                  *)
(***************************************************************************)
LEMMA MovedLine ==
  ASSUME Inv, NEW from, NEW to \in Lines, NEW c \in Bit, NEW d \in Bit,
         Line(from, to, c, d), from # "done",
         from \in Telling <=> to \in Telling,
         heard' = heard, shown' = shown,
         DeviceTypes', DeviceInv', PositionInv'
  PROVE  Inv' /\ UNCHANGED Transfer!vars
<1>1. TypeOK'
  BY LineKeeps DEF Inv, TypeOK, DeviceTypes
<1>2. ByteInv' /\ UNCHANGED Transfer!vars
  BY LineKeeps, BytesKept DEF Inv
<1> QED
  BY <1>1, <1>2 DEF Inv

LEMMA QuietLine ==
  ASSUME Inv, NEW from, NEW to \in Lines, NEW c \in Bit, NEW d \in Bit,
         Line(from, to, c, d), from # "done",
         from \in Telling <=> to \in Telling,
         Ignore, PositionInv'
  PROVE  Inv' /\ UNCHANGED Transfer!vars
<1>1. UNCHANGED <<call, dsda, dev, dir, dbits, heard, shown>>
  BY LineKeeps DEF Inv, Ignore, device
<1>2. DeviceTypes'
  BY <1>1 DEF Inv, TypeOK, DeviceTypes
<1>3. DeviceInv'
  BY <1>1 DEF Inv, DeviceInv
<1> QED
  BY <1>1, <1>2, <1>3, MovedLine

LEMMA Bits == 0 \in Bit /\ 1 \in Bit
  BY DEF Bit

-----------------------------------------------------------------------------
(* emulate_start().                                                        *)

LEMMA Start ==
  ASSUME Inv, Line("start", "high", 1, sda)
  PROVE  Inv' /\ UNCHANGED Transfer!vars
<1>1. TypeOK /\ sda \in Bit
  BY DEF Inv, TypeOK
<1>2. /\ pc = "start" /\ pc' = "high" /\ scl' = 1 /\ sda' = sda
      /\ call' = call /\ at' = at /\ i' = i
  BY <1>1, Bits, LineKeeps
<1>3. /\ at \in {"write", "read"} /\ sda = 1 /\ i = 1 /\ dsda = 1
      /\ \/ scl = 1 /\ dev = "idle"
         \/ scl = 0 /\ dev = "hear" /\ dbits = <<>>
  BY <1>2 DEF Inv, PositionInv, StartInv, WriteInv, DeviceInv
<1>4. /\ dev' = dev /\ dsda' = dsda /\ dir' = dir
      /\ heard' = heard /\ shown' = shown
      /\ dbits' = dbits \/ dbits' = <<1>>
  BY <1>1, <1>3, Bits, Driven DEF Line, Ignore, OnRise, device, Both
<1>5. <<1>> \in Seq(Bit) /\ Len(<<1>>) <= Width
  BY Bits, WidthAssumption
<1>6. DeviceTypes'
  BY <1>1, <1>4, <1>5 DEF TypeOK, DeviceTypes
<1>7. DeviceInv'
  BY <1>2, <1>3, <1>4 DEF Inv, DeviceInv
<1>8. PositionInv'
  BY <1>2, <1>3, <1>4
     DEF PositionInv, StartInv, WriteInv, ReadInv, StopInv, BetweenInv
<1> QED
  BY <1>1, <1>4, <1>6, <1>7, <1>8, Bits, MovedLine DEF Telling, Lines

LEMMA High ==
  ASSUME Inv, Line("high", "fall", scl, 1)
  PROVE  Inv' /\ UNCHANGED Transfer!vars
<1>1. TypeOK /\ scl \in Bit
  BY DEF Inv, TypeOK
<1>2. /\ pc = "high" /\ pc' = "fall" /\ scl' = scl /\ sda' = 1
      /\ at' = at /\ i' = i
  BY <1>1, Bits, LineKeeps
<1>3. /\ at \in {"write", "read"} /\ scl = 1 /\ sda = 1 /\ i = 1
      /\ dev \in {"idle", "hear"}
  BY <1>2 DEF Inv, PositionInv, StartInv, WriteInv
<1>4. Ignore
  BY <1>1, <1>3, Bits, Driven DEF Line
<1>5. PositionInv'
  BY <1>2, <1>3, <1>4
     DEF PositionInv, StartInv, WriteInv, ReadInv, StopInv, BetweenInv,
         Ignore, device
<1> QED
  BY <1>1, <1>4, <1>5, Bits, QuietLine DEF Telling, Lines

LEMMA Fall ==
  ASSUME Inv, Line("fall", "low", scl, 0)
  PROVE  Inv' /\ UNCHANGED Transfer!vars
<1>1. TypeOK /\ scl \in Bit
  BY DEF Inv, TypeOK
<1>2. /\ pc = "fall" /\ pc' = "low" /\ scl' = scl /\ sda' = 0
      /\ call' = call /\ at' = at /\ i' = i /\ UNCHANGED transfer
  BY <1>1, Bits, LineKeeps
<1>3. /\ at \in {"write", "read"} /\ scl = 1 /\ sda = 1 /\ i = 1
      /\ dsda = 1
  BY <1>2 DEF Inv, PositionInv, StartInv, WriteInv, DeviceInv
<1>4. OnStart
  BY <1>1, <1>3, Bits, Driven DEF Line
<1>5. /\ dev' = "address" /\ dsda' = 1 /\ dir' = dir /\ dbits' = <<>>
      /\ heard' = heard /\ shown' = shown
  BY <1>4 DEF OnStart
<1>6. TypeOK'
  BY <1>1, <1>5, Bits, LineKeeps, WidthAssumption DEF TypeOK, Lines
<1>7. DeviceInv'
  BY <1>5 DEF DeviceInv
<1>8. Heard(i - 1)'
  BY <1>2, <1>3, <1>5 DEF Heard
<1>9. PositionInv'
  BY <1>2, <1>3, <1>8
     DEF PositionInv, StartInv, WriteInv, ReadInv, StopInv, BetweenInv
<1>10. ByteInv' /\ UNCHANGED Transfer!vars
  <2>1. ByteInv'
    BY <1>2, <1>3, <1>5 DEF Inv, ByteInv, transfer
  <2> QED
    BY <1>2, <1>5, <2>1 DEF Transfer!vars, transfer
<1> QED
  BY <1>6, <1>7, <1>9, <1>10 DEF Inv

-----------------------------------------------------------------------------
(* emulate_write_byte().                                                   *)

LEMMA AddressArgument ==
  ASSUME NEW a \in [1 .. Width - 1 -> Bit], NEW b \in Bit, NEW j \in 1 .. Width
  PROVE  Append(a, b)[j] = IF j = Width THEN b ELSE a[j]
<1>1. a \in Seq(Bit) /\ Len(a) = Width - 1
  BY WidthAssumption
<1> QED
  BY <1>1, WidthAssumption

LEMMA ArgumentTyping ==
  ASSUME Inv, at \in {"write", "byte", "read"}, NEW j \in 1 .. Width
  PROVE  Argument[j] \in Bit
<1>1. call \in Call
  BY DEF Inv, TypeOK
<1>2. call.out \in Seq(Byte) /\ call.addr \in [1 .. Width - 1 -> Bit]
  BY <1>1, CallTyping
<1>3. CASE at = "byte"
  <2>1. k \in 1 .. Len(call.out)
    BY <1>2, <1>3 DEF Inv, TypeOK, ByteInv
  <2>2. call.out[k] \in Byte
    BY <1>2, <2>1
  <2> QED
    BY <1>3, <2>2 DEF Argument, Byte
<1>4. CASE at = "write"
  <2>0. 0 \in Bit
    BY DEF Bit
  <2>1. ASSUME NEW a \in [1 .. Width - 1 -> Bit]
        PROVE  Append(a, 0)[j] = IF j = Width THEN 0 ELSE a[j]
    BY <2>0, AddressArgument
  <2>2. j # Width => j \in 1 .. Width - 1
    BY WidthAssumption
  <2>3. Append(call.addr, 0)[j] \in Bit
    BY <1>2, <2>0, <2>1, <2>2
  <2> QED
    BY <1>4, <2>3 DEF Argument
<1>5. CASE at = "read"
  <2>0. 1 \in Bit
    BY DEF Bit
  <2>1. ASSUME NEW a \in [1 .. Width - 1 -> Bit]
        PROVE  Append(a, 1)[j] = IF j = Width THEN 1 ELSE a[j]
    BY <2>0, AddressArgument
  <2>2. j # Width => j \in 1 .. Width - 1
    BY WidthAssumption
  <2>3. Append(call.addr, 1)[j] \in Bit
    BY <1>2, <2>0, <2>1, <2>2
  <2> QED
    BY <1>5, <2>3 DEF Argument
<1> QED
  BY <1>3, <1>4, <1>5

LEMMA Low ==
  ASSUME Inv, Line("low", "bit", 0, sda)
  PROVE  Inv' /\ UNCHANGED Transfer!vars
<1>1. TypeOK /\ sda \in Bit /\ scl \in {0, 1} /\ i \in 1 .. Width
  BY DEF Inv, TypeOK, Bit
<1>2. /\ pc = "low" /\ pc' = "bit" /\ scl' = 0
      /\ call' = call /\ at' = at /\ i' = i /\ k' = k
  BY <1>1, Bits, LineKeeps
<1>3. at \in {"write", "byte", "read"} /\ Heard(i - 1)
  BY <1>2 DEF Inv, PositionInv, WriteInv
<1>4. dev \in {"address", "hear"} /\ Len(dbits) = i - 1 /\ i - 1 < Width
  <2>1. i - 1 < Width
    BY <1>1, WidthAssumption
  <2> QED
    BY <1>3, <2>1 DEF Heard
<1>5. Ignore
  <2>1. scl = 1 => OnFall
    BY <1>1, Bits, Driven DEF Line
  <2>2. scl = 0 => Ignore
    BY <1>1, Bits, Driven DEF Line
  <2>3. Len(dbits) # Width
    BY <1>1, <1>4, WidthAssumption
  <2> QED
    BY <1>1, <1>4, <2>1, <2>2, <2>3 DEF OnFall
<1>6. Heard(i - 1)'
  BY <1>2, <1>3, <1>5 DEF Heard, Ignore, device, Argument
<1>7. PositionInv'
  BY <1>2, <1>3, <1>6
     DEF PositionInv, StartInv, WriteInv, ReadInv, StopInv, BetweenInv
<1> QED
  BY <1>1, <1>5, <1>7, Bits, QuietLine DEF Telling, Lines

LEMMA PutBit ==
  ASSUME Inv, Line("bit", "clock", scl, Argument[i])
  PROVE  Inv' /\ UNCHANGED Transfer!vars
<1>1. TypeOK /\ scl \in Bit /\ i \in 1 .. Width
  BY DEF Inv, TypeOK
<1>2. /\ pc = "bit" /\ at \in {"write", "byte", "read"} /\ scl = 0
      /\ Heard(i - 1)
  BY DEF Line, Inv, PositionInv, WriteInv
<1>3. Argument[i] \in Bit
  BY <1>1, <1>2, ArgumentTyping
<1>4. /\ pc' = "clock" /\ scl' = scl /\ sda' = Argument[i]
      /\ call' = call /\ at' = at /\ i' = i /\ k' = k
  BY <1>1, <1>3, LineKeeps
<1>5. Ignore
  BY <1>1, <1>2, <1>3, Driven DEF Line
<1>6. Heard(i - 1)' /\ Argument' = Argument
  BY <1>2, <1>4, <1>5 DEF Heard, Ignore, device, Argument
<1>7. PositionInv'
  BY <1>2, <1>4, <1>6
     DEF PositionInv, StartInv, WriteInv, ReadInv, StopInv, BetweenInv
<1> QED
  BY <1>1, <1>3, <1>5, <1>7, QuietLine DEF Telling, Lines

\* The bit is in: another round, or all of them are.
LEMMA ClockBit ==
  ASSUME Inv, Clock
  PROVE  Inv' /\ UNCHANGED Transfer!vars
<1>1. /\ TypeOK /\ sda \in Bit /\ i \in 1 .. Width
      /\ dbits \in Seq(Bit)
  BY DEF Inv, TypeOK
<1>2. /\ pc = "clock" /\ at \in {"write", "byte", "read"} /\ scl = 0
      /\ sda = Argument[i] /\ Heard(i - 1)
  BY DEF Clock, Inv, PositionInv, WriteInv
<1>3. /\ scl' = 1 /\ sda' = sda
      /\ call' = call /\ got' = got /\ ret' = ret /\ at' = at /\ k' = k
      /\ res' = res /\ acked' = acked /\ in' = in /\ UNCHANGED transfer
      /\ \/ pc' = "low" /\ i' = i + 1 /\ i < Width
         \/ pc' = "release" /\ i' = 1 /\ i = Width
  <2>1. scl' = 1 /\ sda' = sda
    BY <1>1, Bits, Driven DEF Clock
  <2>2. i < Width \/ i = Width
    BY <1>1, WidthAssumption
  <2>3. \/ pc' = "low" /\ i' = i + 1 /\ i < Width
        \/ pc' = "release" /\ i' = 1 /\ i = Width
    BY <2>2 DEF Clock
  <2> QED
    BY <2>1, <2>3 DEF Clock, transfer
<1>4. OnRise(Both(sda, dsda))
  BY <1>1, <1>2, Bits, Driven DEF Clock
<1>5. dev = (IF at = "byte" THEN "hear" ELSE "address") /\ dsda = 1
  BY <1>2 DEF Heard, Inv, DeviceInv
<1>6. /\ dbits' = Append(dbits, Argument[i])
      /\ UNCHANGED <<dsda, dev, dir, heard, shown>>
  <2>1. Both(sda, dsda) = Argument[i]
    BY <1>1, <1>2, <1>5 DEF Both, Bit
  <2> QED
    BY <1>4, <1>5, <2>1 DEF OnRise
<1>7. Argument[i] \in Bit
  BY <1>1, <1>2
<1>8. /\ dbits' \in Seq(Bit) /\ Len(dbits') = i
      /\ \A j \in 1 .. i : dbits'[j] = Argument[j]
  <2>1. Len(dbits) = i - 1 /\ \A j \in 1 .. i - 1 : dbits[j] = Argument[j]
    BY <1>2 DEF Heard
  <2>2. dbits' \in Seq(Bit) /\ Len(dbits') = i
    BY <1>1, <1>6, <1>7, <2>1
  <2>3. ASSUME NEW j \in 1 .. i
        PROVE  dbits'[j] = Argument[j]
    BY <1>1, <1>6, <1>7, <2>1
  <2> QED
    BY <2>2, <2>3
<1>9. Argument' = Argument
  BY <1>3 DEF Argument
<1>10. TypeOK'
  <2>1. i' \in 1 .. Width /\ Len(dbits') <= Width /\ pc' \in Lines
    BY <1>1, <1>3, <1>8, WidthAssumption DEF Lines
  <2>2. {scl', sda'} \subseteq Bit
    BY <1>1, <1>3, Bits
  <2> QED
    BY <1>3, <1>6, <1>8, <2>1, <2>2 DEF Inv, TypeOK
<1>11. DeviceInv'
  BY <1>3, <1>5, <1>6 DEF Inv, DeviceInv
<1>12. pc' = "low" => Heard(i - 1)'
  BY <1>1, <1>3, <1>5, <1>6, <1>8, <1>9 DEF Heard
<1>13. pc' = "release" => Heard(Width)'
  BY <1>1, <1>3, <1>5, <1>6, <1>8, <1>9 DEF Heard
<1>14. PositionInv'
  BY <1>2, <1>3, <1>12, <1>13
     DEF PositionInv, StartInv, WriteInv, ReadInv, StopInv, BetweenInv
<1>15. ByteInv' /\ UNCHANGED Transfer!vars
  BY <1>2, <1>3, <1>6, BytesKept DEF Telling
<1> QED
  BY <1>10, <1>11, <1>14, <1>15 DEF Inv

\* The device that acknowledges an address has heard its own.
LEMMA AddressHeard ==
  ASSUME Inv, at \in {"write", "read"}, Heard(Width)
  PROVE  /\ Last(dbits) = IF at = "read" THEN 1 ELSE 0
         /\ Front(dbits) = Device => call.addr = Device
<1> DEFINE b == IF at = "read" THEN 1 ELSE 0
<1>1. call.addr \in [1 .. Width - 1 -> Bit] /\ dbits \in Seq(Bit) /\ b \in Bit
  BY Bits, CallTyping DEF Inv, TypeOK
<1>2. Argument = Append(call.addr, b)
  BY DEF Argument
<1>3. Len(dbits) = Width /\ \A j \in 1 .. Width : dbits[j] = Argument[j]
  BY DEF Heard
<1> HIDE DEF b
<1>4. \A j \in 1 .. Width : dbits[j] = IF j = Width THEN b ELSE call.addr[j]
  BY <1>1, <1>2, <1>3, AddressArgument
<1>5. Width \in 1 .. Width /\ Width \in Nat
  BY WidthAssumption
<1>6. Last(dbits) = b
  BY <1>3, <1>4, <1>5 DEF Last
<1>7. ASSUME Front(dbits) = Device
      PROVE  call.addr = Device
  <2>1. \A j \in 1 .. Width - 1 : SubSeq(dbits, 1, Width - 1)[j] = dbits[j]
    BY <1>1, <1>3, <1>5
  <2>2. Front(dbits) = SubSeq(dbits, 1, Width - 1)
    BY <1>3 DEF Front
  <2>3. \A j \in 1 .. Width - 1 : Device[j] = call.addr[j]
    <3> TAKE j \in 1 .. Width - 1
    <3>1. j \in 1 .. Width /\ j # Width
      BY <1>5
    <3> QED
      BY <1>4, <1>7, <2>1, <2>2, <3>1
  <2>4. /\ Device = [j \in 1 .. Width - 1 |-> Device[j]]
        /\ call.addr = [j \in 1 .. Width - 1 |-> call.addr[j]]
    BY <1>1, DeviceAssumption
  <2>5. [j \in 1 .. Width - 1 |-> Device[j]]
          = [j \in 1 .. Width - 1 |-> call.addr[j]]
    BY <2>3, Zenon
  <2> QED
    BY <2>4, <2>5
<1> QED
  BY <1>6, <1>7 DEF b

\* The device answers; the byte it answers is one it has taken.
LEMMA Release ==
  ASSUME Inv, Line("release", "let_go", 0, sda)
  PROVE  Inv' /\ (UNCHANGED Transfer!vars \/ Transfer!Hear)
<1>1. TypeOK /\ sda \in Bit /\ dbits \in Seq(Bit) /\ DeviceInv
  BY DEF Inv, TypeOK
<1>2. /\ pc = "release" /\ pc' = "let_go" /\ scl' = 0 /\ sda' = sda
      /\ call' = call /\ got' = got /\ ret' = ret /\ at' = at /\ k' = k
      /\ res' = res /\ i' = i /\ acked' = acked /\ in' = in
  BY <1>1, Bits, LineKeeps
<1>3. /\ at \in {"write", "byte", "read"} /\ scl = 1 /\ i = 1 /\ Heard(Width)
  BY <1>2 DEF Inv, PositionInv, WriteInv
<1>4. /\ dev = IF at = "byte" THEN "hear" ELSE "address"
      /\ Len(dbits) = Width
  BY <1>3 DEF Heard
<1>5. OnFall
  BY <1>1, <1>3, Bits, Driven DEF Line
<1>6. /\ dbits' = dbits /\ shown' = shown
      /\ dir' \in {"hear", "show"}
      /\ \/ dev' = "idle" /\ dsda' = 1
         \/ /\ dev' = "ack" /\ dsda' = 0
            /\ call.addr = Device /\ dir' = IF at = "read" THEN "show" ELSE "hear"
      /\ heard' = IF at = "byte" THEN Append(heard, dbits) ELSE heard
  <2>1. CASE at = "byte"
    <3>1. dir = "hear" /\ call.addr = Device
      BY <1>1, <1>4, <2>1 DEF DeviceInv
    <3> QED
      BY <1>4, <1>5, <2>1, <3>1, WidthAssumption
         DEF OnFall, Acknowledge, TurnAway
  <2>2. CASE at # "byte"
    <3>1. /\ \/ Front(dbits) = Device /\ Acknowledge
             \/ TurnAway
          /\ dir' = IF Last(dbits) = 1 THEN "show" ELSE "hear"
          /\ UNCHANGED <<dbits, heard, shown>>
      BY <1>4, <1>5, <2>2, WidthAssumption DEF OnFall
    <3>2. /\ Last(dbits) = IF at = "read" THEN 1 ELSE 0
          /\ Front(dbits) = Device => call.addr = Device
      BY <1>3, <2>2, AddressHeard
    <3> QED
      BY <2>2, <3>1, <3>2 DEF Acknowledge, TurnAway
  <2> QED
    BY <2>1, <2>2
<1>7. at = "byte" => /\ k \in 1 .. Len(call.out) /\ Len(heard) = k - 1
                     /\ dbits = call.out[k] /\ dbits \in Byte
                     /\ call.out \in Seq(Byte)
                     /\ \A j \in 1 .. k - 1 : heard[j] = call.out[j]
  <2> SUFFICES ASSUME at = "byte"
               PROVE  /\ k \in 1 .. Len(call.out) /\ Len(heard) = k - 1
                      /\ dbits = call.out[k] /\ dbits \in Byte
                      /\ call.out \in Seq(Byte)
                      /\ \A j \in 1 .. k - 1 : heard[j] = call.out[j]
    OBVIOUS
  <2>1. call.out \in Seq(Byte)
    BY CallTyping DEF Inv, TypeOK
  <2>2. /\ k \in 1 .. Len(call.out) /\ Len(heard) = k - 1
        /\ \A j \in 1 .. k - 1 : heard[j] = call.out[j]
    BY <1>2, <2>1 DEF Inv, TypeOK, ByteInv
  <2>3. call.out[k] \in [1 .. Width -> Bit]
    BY <2>1, <2>2 DEF Byte
  <2>4. dbits \in [1 .. Width -> Bit]
    BY <1>1, <1>4, WidthAssumption
  <2>5. \A j \in 1 .. Width : dbits[j] = call.out[k][j]
    BY <1>3 DEF Heard, Argument
  <2>6. dbits = call.out[k]
    <3>1. /\ dbits = [j \in 1 .. Width |-> dbits[j]]
          /\ call.out[k] = [j \in 1 .. Width |-> call.out[k][j]]
      BY <2>3, <2>4
    <3>2. [j \in 1 .. Width |-> dbits[j]] = [j \in 1 .. Width |-> call.out[k][j]]
      BY <2>5, Zenon
    <3> QED
      BY <3>1, <3>2
  <2> QED
    BY <2>1, <2>2, <2>4, <2>6 DEF Byte
<1>8. at = "byte" => /\ heard' \in Seq(Byte) /\ Len(heard') = k
                     /\ \A j \in 1 .. k : heard'[j] = call.out[j]
  <2> SUFFICES ASSUME at = "byte"
               PROVE  /\ heard' \in Seq(Byte) /\ Len(heard') = k
                      /\ \A j \in 1 .. k : heard'[j] = call.out[j]
    OBVIOUS
  <2>1. heard \in Seq(Byte) /\ Len(call.out) \in Nat
    BY <1>7 DEF Inv, TypeOK
  <2>2. heard' \in Seq(Byte) /\ Len(heard') = k
    BY <1>6, <1>7, <2>1
  <2>3. ASSUME NEW j \in 1 .. k
        PROVE  heard'[j] = call.out[j]
    BY <1>6, <1>7, <2>1
  <2> QED
    BY <2>2, <2>3
<1>9. TypeOK'
  <2>1. heard' \in Seq(Byte)
    BY <1>6, <1>8 DEF Inv, TypeOK
  <2> QED
    BY <1>1, <1>2, <1>6, <2>1, Bits DEF TypeOK, Lines
<1>10. DeviceInv'
  BY <1>2, <1>6 DEF DeviceInv
<1>11. PositionInv'
  BY <1>2, <1>3, <1>6
     DEF PositionInv, StartInv, WriteInv, ReadInv, StopInv, BetweenInv,
         Answered
<1>12. ByteInv'
  BY <1>2, <1>3, <1>6, <1>7, <1>8 DEF Inv, ByteInv
<1>13. CASE at = "byte"
  <2>1. call.addr = Device /\ ret = "busy"
    BY <1>1, <1>2, <1>4, <1>13 DEF DeviceInv, Inv, ByteInv
  <2>2. Len(heard) < Len(call.out) /\ heard' = Append(heard, call.out[Len(heard) + 1])
    BY <1>6, <1>7, <1>13
  <2>3. Transfer!Hear
    BY <1>2, <1>6, <2>1, <2>2 DEF Transfer!Hear
  <2> QED
    BY <1>9, <1>10, <1>11, <1>12, <2>3 DEF Inv
<1>14. CASE at # "byte"
  <2>1. UNCHANGED Transfer!vars
    BY <1>2, <1>6, <1>14 DEF Transfer!vars
  <2> QED
    BY <1>9, <1>10, <1>11, <1>12, <2>1 DEF Inv
<1> QED
  BY <1>13, <1>14

LEMMA LetGo ==
  ASSUME Inv, Line("let_go", "ack_clock", scl, 1)
  PROVE  Inv' /\ UNCHANGED Transfer!vars
<1>1. TypeOK /\ scl \in Bit
  BY DEF Inv, TypeOK
<1>2. /\ pc = "let_go" /\ pc' = "ack_clock" /\ scl' = scl /\ sda' = 1
      /\ at' = at /\ i' = i
  BY <1>1, Bits, LineKeeps
<1>3. at \in {"write", "byte", "read"} /\ scl = 0 /\ i = 1 /\ Answered
  BY <1>2 DEF Inv, PositionInv, WriteInv
<1>4. Ignore
  BY <1>1, <1>3, Bits, Driven DEF Line
<1>5. PositionInv'
  BY <1>2, <1>3, <1>4
     DEF PositionInv, StartInv, WriteInv, ReadInv, StopInv, BetweenInv,
         Answered, Ignore, device
<1> QED
  BY <1>1, <1>4, <1>5, Bits, QuietLine DEF Telling, Lines

LEMMA AckClock ==
  ASSUME Inv, Line("ack_clock", "ack", 1, sda)
  PROVE  Inv' /\ UNCHANGED Transfer!vars
<1>1. TypeOK /\ sda \in Bit
  BY DEF Inv, TypeOK
<1>2. /\ pc = "ack_clock" /\ pc' = "ack" /\ scl' = 1 /\ sda' = sda
      /\ at' = at /\ i' = i
  BY <1>1, Bits, LineKeeps
<1>3. /\ at \in {"write", "byte", "read"} /\ scl = 0 /\ sda = 1 /\ i = 1
      /\ Answered
  BY <1>2 DEF Inv, PositionInv, WriteInv
<1>4. Ignore
  BY <1>1, <1>3, Bits, Driven DEF Line, OnRise, Answered
<1>5. PositionInv'
  BY <1>2, <1>3, <1>4
     DEF PositionInv, StartInv, WriteInv, ReadInv, StopInv, BetweenInv,
         Answered, Ignore, device
<1> QED
  BY <1>1, <1>4, <1>5, Bits, QuietLine DEF Telling, Lines

LEMMA Ack ==
  ASSUME Inv, ReadAck
  PROVE  Inv' /\ UNCHANGED Transfer!vars
<1>1. /\ pc = "ack" /\ pc' = "ack_end"
      /\ call' = call /\ got' = got /\ ret' = ret /\ at' = at /\ k' = k
      /\ res' = res /\ i' = i /\ in' = in
      /\ scl' = scl /\ sda' = sda /\ dsda' = dsda /\ dev' = dev /\ dir' = dir
      /\ dbits' = dbits /\ heard' = heard /\ shown' = shown
      /\ UNCHANGED transfer
  BY DEF ReadAck, transfer, Bus, device
<1>2. /\ at \in {"write", "byte", "read"} /\ scl = 1 /\ sda = 1 /\ i = 1
      /\ Answered
  BY <1>1 DEF Inv, PositionInv, WriteInv
<1>3. acked' \in BOOLEAN /\ (acked' <=> dev = "ack")
  <2>1. dev = "ack" <=> dsda = 0
    BY <1>2 DEF Answered, Inv, DeviceInv
  <2>2. Sda = dsda
    BY <1>2, Bits DEF Sda, Both, Inv, TypeOK, Bit
  <2> QED
    BY <2>1, <2>2 DEF ReadAck
<1>4. TypeOK'
  BY <1>1, <1>3 DEF Inv, TypeOK, Lines
<1>5. DeviceInv'
  BY <1>1 DEF Inv, DeviceInv
<1>6. PositionInv'
  BY <1>1, <1>2, <1>3
     DEF PositionInv, StartInv, WriteInv, ReadInv, StopInv, BetweenInv,
         Answered
<1>7. ByteInv' /\ UNCHANGED Transfer!vars
  BY <1>1, BytesKept DEF Telling
<1> QED
  BY <1>4, <1>5, <1>6, <1>7 DEF Inv

\* What an offered byte looks like.
LEMMA OfferedByte ==
  ASSUME Inv, Offer, Len(shown) = Len(got), got' = got
  PROVE  /\ DeviceTypes'
         /\ dir' = dir /\ heard' = heard /\ Showing(Width)' /\ dsda' = dbits'[1]
         /\ \E b \in Byte : shown' = Append(shown, b)
<1>1. PICK b \in Byte : /\ shown' = Append(shown, b)
                        /\ dev' = "show" /\ dbits' = b /\ dsda' = b[1]
                        /\ UNCHANGED <<dir, heard>>
  BY DEF Offer
<1>2. b \in [1 .. Width -> Bit] /\ Width \in Nat /\ 1 \in 1 .. Width
  BY WidthAssumption DEF Byte
<1>3. b \in Seq(Bit) /\ Len(b) = Width /\ b[1] \in Bit
  BY <1>2
<1>4. /\ shown' \in Seq(Byte) /\ Len(shown') = Len(shown) + 1
      /\ shown'[Len(shown')] = b
  BY <1>1 DEF Inv, TypeOK
<1>5. Showing(Width)'
  <2>1. \A j \in 1 .. Width : b[j] = b[(Width - Width) + j]
    BY <1>2
  <2>2. Offered'
    BY <1>4 DEF Offered
  <2> QED
    BY <1>1, <1>3, <1>4, <2>1, <2>2 DEF Showing
<1>6. DeviceTypes'
  BY <1>1, <1>2, <1>3, <1>4 DEF DeviceTypes, Inv, TypeOK
<1> QED
  BY <1>1, <1>5, <1>6

\* The device listens on, offers its first byte or is gone.
LEMMA AckEnd ==
  ASSUME Inv, Line("ack_end", "done", 0, sda)
  PROVE  Inv' /\ (UNCHANGED Transfer!vars \/ \E b \in Byte : Transfer!Show(b))
<1>1. TypeOK /\ sda \in Bit /\ DeviceInv
  BY DEF Inv, TypeOK
<1>2. /\ pc = "ack_end" /\ pc' = "done" /\ scl' = 0 /\ sda' = sda
      /\ call' = call /\ got' = got /\ ret' = ret /\ at' = at /\ k' = k
      /\ res' = res /\ i' = i /\ acked' = acked /\ in' = in
  BY <1>1, Bits, LineKeeps
<1>3. /\ at \in {"write", "byte", "read"} /\ scl = 1 /\ sda = 1 /\ i = 1
      /\ Answered /\ (acked <=> dev = "ack")
  BY <1>2 DEF Inv, PositionInv, WriteInv
<1>4. /\ got = <<>> /\ shown = <<>> /\ ret = "busy"
      /\ at = "read" => heard = call.out /\ Len(got) < call.n
  BY <1>2, <1>3 DEF Inv, ByteInv
<1>5. OnFall
  BY <1>1, <1>3, Bits, Driven DEF Line
<1>6. CASE acked /\ at = "read"
  <2>1. Offer
    BY <1>3, <1>5, <1>6 DEF OnFall, Answered
  <2>2. call.addr = Device
    BY <1>1, <1>3, <1>6 DEF DeviceInv
  <2>3. /\ DeviceTypes' /\ dev' = "show" /\ Showing(Width)' /\ heard' = heard
        /\ dsda' = dbits'[1]
        /\ \E b \in Byte : shown' = Append(shown, b)
    BY <1>1, <1>2, <1>4, <2>1, OfferedByte DEF TypeOK, Showing
  <2>4. TypeOK'
    BY <1>1, <1>2, <2>3, Bits DEF TypeOK, DeviceTypes, Lines
  <2>5. DeviceInv'
    BY <1>2, <2>2, <2>3 DEF DeviceInv
  <2>6. PositionInv'
    BY <1>2, <1>3, <1>6, <2>3
       DEF PositionInv, StartInv, WriteInv, ReadInv, StopInv, BetweenInv
  <2>7. ByteInv'
    BY <1>2, <1>3, <1>6, <2>3 DEF Inv, ByteInv
  <2>8. \E b \in Byte : Transfer!Show(b)
    <3>1. PICK b \in Byte : shown' = Append(shown, b)
      BY <2>3
    <3>2. Len(shown) = Len(got) /\ Len(shown) < call.n
      BY <1>4, <1>6
    <3>3. Transfer!Show(b)
      BY <1>2, <1>4, <1>6, <2>2, <2>3, <3>1, <3>2 DEF Transfer!Show
    <3> QED
      BY <3>3
  <2> QED
    BY <2>4, <2>5, <2>6, <2>7, <2>8 DEF Inv
<1>7. CASE ~ (acked /\ at = "read")
  <2>1. /\ heard' = heard /\ shown' = shown /\ dir' = dir /\ dsda' = 1
        /\ \/ ~ acked /\ dev' = "idle" /\ dbits' = dbits
           \/ acked /\ dev' = "hear" /\ dir = "hear" /\ dbits' = <<>>
    BY <1>1, <1>3, <1>5, <1>7
       DEF OnFall, Answered, Ignore, device, DeviceInv
  <2>2. DeviceTypes'
    <3>1. dbits' \in Seq(Bit) /\ Len(dbits') <= Width
      <4>1. <<>> \in Seq(Bit) /\ Len(<<>>) <= Width
        BY WidthAssumption
      <4> QED
        BY <1>1, <2>1, <4>1 DEF TypeOK
    <3> QED
      BY <1>1, <2>1, <3>1, Bits DEF TypeOK, DeviceTypes
  <2>3. DeviceInv'
    BY <1>1, <1>2, <1>3, <2>1 DEF DeviceInv
  <2>4. PositionInv'
    BY <1>2, <1>3, <1>7, <2>1
       DEF PositionInv, StartInv, WriteInv, ReadInv, StopInv, BetweenInv
  <2> QED
    BY <1>1, <2>1, <2>2, <2>3, <2>4, Bits, MovedLine DEF Telling, Lines
<1> QED
  BY <1>6, <1>7

-----------------------------------------------------------------------------
(* emulate_read_byte().                                                    *)

\* The device is still at its byte, or it offers another one.
LEMMA Take ==
  ASSUME Inv, Line("take", "float", 0, sda)
  PROVE  Inv' /\ (UNCHANGED Transfer!vars \/ \E b \in Byte : Transfer!Show(b))
<1>1. TypeOK /\ sda \in Bit /\ scl \in {0, 1} /\ DeviceInv
  BY DEF Inv, TypeOK, Bit
<1>2. /\ pc = "take" /\ pc' = "float" /\ scl' = 0 /\ sda' = sda
      /\ call' = call /\ got' = got /\ ret' = ret /\ at' = at /\ k' = k
      /\ res' = res /\ i' = i /\ acked' = acked /\ in' = in
  BY <1>1, Bits, LineKeeps
<1>3. /\ at = "fetch" /\ in = <<>> /\ i = 1
      /\ \/ scl = 0 /\ Showing(Width)
         \/ scl = 1 /\ dev = "acked" /\ dbits = <<0>> /\ Len(shown) = Len(got)
  BY <1>2 DEF Inv, PositionInv, ReadInv, WriteInv
<1>4. ret = "busy" /\ heard = call.out /\ Len(got) < call.n
  BY <1>2, <1>3 DEF Inv, ByteInv
<1>5. CASE scl = 0
  <2>1. Showing(Width)
    BY <1>3, <1>5
  <2>2. Ignore
    BY <1>1, <1>5, Bits, Driven DEF Line
  <2>3. Showing(Width)'
    BY <1>2, <2>1, <2>2 DEF Showing, Offered, Ignore, device
  <2>4. PositionInv'
    BY <1>2, <1>3, <2>3
       DEF PositionInv, StartInv, WriteInv, ReadInv, StopInv, BetweenInv
  <2> QED
    BY <1>1, <2>2, <2>4, Bits, QuietLine DEF Telling, Lines
<1>6. CASE scl = 1
  <2>1. dev = "acked" /\ dbits = <<0>> /\ Len(shown) = Len(got)
    BY <1>3, <1>6
  <2>2. OnFall
    BY <1>1, <1>6, Bits, Driven DEF Line
  <2>3. Offer
    BY <2>1, <2>2 DEF OnFall
  <2>4. call.addr = Device
    BY <1>1, <2>1 DEF DeviceInv
  <2>5. /\ DeviceTypes' /\ dev' = "show" /\ Showing(Width)' /\ heard' = heard
        /\ dsda' = dbits'[1]
        /\ \E b \in Byte : shown' = Append(shown, b)
    BY <1>2, <2>1, <2>3, OfferedByte DEF Showing
  <2>6. TypeOK'
    BY <1>1, <1>2, <2>5, Bits DEF TypeOK, DeviceTypes, Lines
  <2>7. DeviceInv'
    BY <1>2, <2>4, <2>5 DEF DeviceInv
  <2>8. PositionInv'
    BY <1>2, <1>3, <2>5
       DEF PositionInv, StartInv, WriteInv, ReadInv, StopInv, BetweenInv
  <2>9. ByteInv'
    BY <1>2, <1>3, <2>5 DEF Inv, ByteInv
  <2>10. PICK b \in Byte : shown' = Append(shown, b)
    BY <2>5
  <2>11. Transfer!Show(b)
    BY <1>2, <1>4, <2>1, <2>4, <2>5, <2>10 DEF Transfer!Show
  <2> QED
    BY <2>6, <2>7, <2>8, <2>9, <2>11 DEF Inv
<1> QED
  BY <1>1, <1>5, <1>6

LEMMA Float ==
  ASSUME Inv, Line("float", "next", scl, 1)
  PROVE  Inv' /\ UNCHANGED Transfer!vars
<1>1. TypeOK /\ scl \in Bit
  BY DEF Inv, TypeOK
<1>2. /\ pc = "float" /\ pc' = "next" /\ scl' = scl /\ sda' = 1
      /\ at' = at /\ i' = i /\ in' = in /\ got' = got
  BY <1>1, Bits, LineKeeps
<1>3. at = "fetch" /\ in = <<>> /\ scl = 0 /\ i = 1 /\ Showing(Width)
  BY <1>2 DEF Inv, PositionInv, ReadInv, WriteInv
<1>4. Ignore
  BY <1>1, <1>3, Bits, Driven DEF Line
<1>5. Showing(Width)'
  BY <1>2, <1>3, <1>4 DEF Showing, Offered, Ignore, device
<1>6. Len(in') < Width /\ Gathered'
  BY <1>2, <1>3, WidthAssumption DEF Gathered
<1>7. PositionInv'
  BY <1>2, <1>3, <1>5, <1>6
     DEF PositionInv, StartInv, WriteInv, ReadInv, StopInv, BetweenInv
<1> QED
  BY <1>1, <1>4, <1>7, Bits, QuietLine DEF Telling, Lines

\* But before the first bit, the device goes on to the next one.
LEMMA NextBit ==
  ASSUME Inv, Line("next", "get", 0, sda)
  PROVE  Inv' /\ UNCHANGED Transfer!vars
<1>1. /\ TypeOK /\ sda \in Bit /\ scl \in {0, 1} /\ DeviceInv
      /\ dbits \in Seq(Bit)
  BY DEF Inv, TypeOK, Bit
<1>2. /\ pc = "next" /\ pc' = "get" /\ scl' = 0 /\ sda' = sda
      /\ call' = call /\ at' = at /\ i' = i /\ in' = in /\ got' = got
  BY <1>1, Bits, LineKeeps
<1>3. /\ at = "fetch" /\ sda = 1 /\ i = 1 /\ Gathered
      /\ \/ scl = 0 /\ in = <<>> /\ Showing(Width)
         \/ scl = 1 /\ in # <<>> /\ Showing((Width - Len(in)) + 1)
  BY <1>2 DEF Inv, PositionInv, ReadInv, WriteInv
<1>4. PICK n \in Nat : n = Len(in) /\ n < Width
  BY <1>1, <1>2 DEF TypeOK, Inv, PositionInv, ReadInv
<1>5. CASE scl = 0
  <2>1. Ignore
    BY <1>1, <1>5, Bits, Driven DEF Line
  <2>2. Width - Len(in) = Width /\ Showing(Width)
    BY <1>3, <1>5, WidthAssumption
  <2>3. Showing(Width - Len(in))' /\ Gathered'
    <3>1. (Width - Len(in))' = Width
      BY <1>2, <2>2
    <3>2. dev' = dev /\ dbits' = dbits /\ shown' = shown /\ got' = got
      BY <1>2, <2>1 DEF Ignore, device
    <3>3. Showing(Width)'
      BY <2>2, <3>2 DEF Showing, Offered
    <3>4. Gathered'
      BY <1>2, <1>3, <3>2 DEF Gathered
    <3> QED
      BY <3>1, <3>3, <3>4 DEF Showing
  <2>4. PositionInv'
    BY <1>2, <1>3, <1>4, <2>3
       DEF PositionInv, StartInv, WriteInv, ReadInv, StopInv, BetweenInv
  <2> QED
    BY <1>1, <2>1, <2>4, Bits, QuietLine DEF Telling, Lines
<1>6. CASE scl = 1
  <2>1. OnFall
    BY <1>1, <1>6, Bits, Driven DEF Line
  <2>2. /\ dev = "show" /\ Offered /\ Len(dbits) = (Width - n) + 1
        /\ \A j \in 1 .. (Width - n) + 1 :
             dbits[j] = shown[Len(shown)][(Width - ((Width - n) + 1)) + j]
    BY <1>3, <1>4, <1>6 DEF Showing
  <2>3. Len(dbits) > 1
    BY <1>4, <2>2, WidthAssumption
  <2>4. /\ dbits' = Tail(dbits) /\ dsda' = dbits[2]
        /\ UNCHANGED <<dev, dir, heard, shown>>
    BY <2>1, <2>2, <2>3 DEF OnFall
  <2>5. /\ dbits' \in Seq(Bit) /\ Len(dbits') = Width - n
        /\ \A j \in 1 .. Width - n : dbits'[j] = dbits[j + 1]
    BY <1>1, <1>4, <2>2, <2>3, <2>4, WidthAssumption
  <2>6. Showing(Width - n)'
    <3>1. ASSUME NEW j \in 1 .. Width - n
          PROVE  dbits'[j] = shown[Len(shown)][(Width - (Width - n)) + j]
      <4>1. /\ j + 1 \in 1 .. (Width - n) + 1
            /\ (Width - ((Width - n) + 1)) + (j + 1) = (Width - (Width - n)) + j
        BY <1>4, WidthAssumption
      <4>2. dbits[j + 1] = shown[Len(shown)][(Width - ((Width - n) + 1)) + (j + 1)]
        BY <2>2, <4>1
      <4> QED
        BY <2>5, <4>1, <4>2
    <3> QED
      BY <1>2, <2>2, <2>4, <2>5, <3>1 DEF Showing, Offered
  <2>7. dsda' = dbits'[1] /\ dsda' \in Bit /\ Len(dbits') <= Width
    <3>1. 1 \in 1 .. Width - n /\ 2 \in 1 .. Len(dbits) /\ Width - n <= Width
      BY <1>4, <2>2, <2>3, WidthAssumption
    <3> QED
      BY <1>1, <2>4, <2>5, <3>1
  <2>8. DeviceTypes'
    BY <1>1, <2>4, <2>5, <2>7 DEF TypeOK, DeviceTypes
  <2>9. DeviceInv'
    BY <1>1, <1>2, <2>2, <2>4, <2>7 DEF DeviceInv
  <2>10. Gathered' /\ Showing(Width - Len(in))'
    BY <1>2, <1>3, <1>4, <2>4, <2>6 DEF Gathered
  <2>11. PositionInv'
    BY <1>2, <1>3, <1>4, <2>10
       DEF PositionInv, StartInv, WriteInv, ReadInv, StopInv, BetweenInv
  <2> QED
    BY <1>1, <2>4, <2>8, <2>9, <2>11, Bits, MovedLine DEF Telling, Lines
<1> QED
  BY <1>1, <1>5, <1>6

\* The bit on the line is the next one of the byte that is offered.
LEMMA GetBit ==
  ASSUME Inv, ReadBit
  PROVE  Inv' /\ UNCHANGED Transfer!vars
<1>1. /\ pc = "get" /\ pc' = "tick"
      /\ call' = call /\ got' = got /\ ret' = ret /\ at' = at /\ k' = k
      /\ res' = res /\ i' = i /\ acked' = acked
      /\ scl' = scl /\ sda' = sda /\ dsda' = dsda /\ dev' = dev /\ dir' = dir
      /\ dbits' = dbits /\ heard' = heard /\ shown' = shown
      /\ in' = Append(in, Sda) /\ UNCHANGED transfer
  BY DEF ReadBit, transfer, Bus, device
<1>2. /\ at = "fetch" /\ scl = 0 /\ sda = 1 /\ i = 1 /\ Gathered
      /\ Showing(Width - Len(in))
  BY <1>1 DEF Inv, PositionInv, ReadInv, WriteInv
<1>3. TypeOK /\ in \in Seq(Bit) /\ dsda \in {0, 1}
  BY DEF Inv, TypeOK, Bit
<1>4. PICK n \in Nat : n = Len(in) /\ n < Width
  BY <1>1, <1>3 DEF Inv, PositionInv, ReadInv
<1>5. /\ Len(dbits) = Width - n
      /\ \A j \in 1 .. Width - n :
           dbits[j] = shown[Len(shown)][(Width - (Width - n)) + j]
  BY <1>2, <1>4 DEF Showing
<1>6. Sda = shown[Len(shown)][n + 1] /\ Sda \in Bit
  <2>1. 1 \in 1 .. Width - n /\ (Width - (Width - n)) + 1 = n + 1
    BY <1>4, WidthAssumption
  <2>2. dsda = dbits[1]
    BY <1>2 DEF Showing, Inv, DeviceInv
  <2>3. Sda = dsda
    BY <1>2, <1>3 DEF Sda, Both
  <2> QED
    BY <1>3, <1>5, <2>1, <2>2, <2>3 DEF Bit
<1>7. /\ in' \in Seq(Bit) /\ Len(in') = n + 1 /\ n + 1 <= Width
      /\ \A j \in 1 .. n + 1 : in'[j] = shown[Len(shown)][j]
  <2>1. in' \in Seq(Bit) /\ Len(in') = n + 1 /\ n + 1 <= Width
    BY <1>1, <1>3, <1>4, <1>6, WidthAssumption
  <2>2. ASSUME NEW j \in 1 .. n + 1
        PROVE  in'[j] = shown[Len(shown)][j]
    BY <1>1, <1>2, <1>3, <1>4, <1>6 DEF Gathered
  <2> QED
    BY <2>1, <2>2
<1>8. TypeOK'
  BY <1>1, <1>3, <1>7 DEF TypeOK, Lines
<1>9. DeviceInv'
  BY <1>1 DEF Inv, DeviceInv
<1>10. Gathered' /\ in' # <<>>
  BY <1>1, <1>4, <1>7 DEF Gathered
<1>11. Showing((Width - Len(in)) + 1)'
  <2>1. (Width - (n + 1)) + 1 = Width - n
    BY <1>4, WidthAssumption
  <2>2. Showing(Width - n)'
    BY <1>1, <1>2, <1>4 DEF Showing, Offered
  <2> QED
    BY <1>7, <2>1, <2>2
<1>12. PositionInv'
  BY <1>1, <1>2, <1>10, <1>11
     DEF PositionInv, StartInv, WriteInv, ReadInv, StopInv, BetweenInv
<1>13. ByteInv' /\ UNCHANGED Transfer!vars
  BY <1>1, BytesKept DEF Telling
<1> QED
  BY <1>8, <1>9, <1>12, <1>13 DEF Inv

LEMMA Tick ==
  ASSUME Inv, Line("tick", IF MoreToRead THEN "next" ELSE "answer", 1, sda)
  PROVE  Inv' /\ UNCHANGED Transfer!vars
<1> DEFINE to == IF MoreToRead THEN "next" ELSE "answer"
<1>1. TypeOK /\ sda \in Bit /\ in \in Seq(Bit) /\ Len(in) <= Width
  BY DEF Inv, TypeOK
<1>2. to \in Lines /\ to \notin Telling
  BY DEF Lines, Telling
<1>3. /\ pc = "tick" /\ pc' = to /\ scl' = 1 /\ sda' = sda
      /\ at' = at /\ i' = i /\ in' = in /\ got' = got
  BY <1>1, Bits, LineKeeps
<1>4. /\ at = "fetch" /\ in # <<>> /\ scl = 0 /\ sda = 1 /\ i = 1 /\ Gathered
      /\ Showing((Width - Len(in)) + 1)
  BY <1>3 DEF Inv, PositionInv, ReadInv, WriteInv
<1>5. Ignore
  BY <1>1, <1>4, Bits, Driven DEF Line, OnRise, Showing
<1>6. Showing((Width - Len(in)) + 1)' /\ Gathered'
  BY <1>3, <1>4, <1>5 DEF Showing, Offered, Gathered, Ignore, device
<1>7. \/ pc' = "next" /\ Len(in) < Width
      \/ pc' = "answer" /\ Len(in) = Width /\ (Width - Len(in)) + 1 = 1
  BY <1>1, <1>3, WidthAssumption DEF MoreToRead
<1>8. PositionInv'
  BY <1>3, <1>4, <1>6, <1>7
     DEF PositionInv, StartInv, WriteInv, ReadInv, StopInv, BetweenInv
<1>9. Line("tick", to, 1, sda)
  OBVIOUS
<1> HIDE DEF to
<1> QED
  BY <1>1, <1>2, <1>5, <1>8, <1>9, Bits, QuietLine DEF Telling

\* The device has shown its last bit and lets SDA go.
LEMMA AnswerLow ==
  ASSUME Inv, Line("answer", "set_ack", 0, sda)
  PROVE  Inv' /\ UNCHANGED Transfer!vars
<1>1. TypeOK /\ sda \in Bit /\ DeviceInv
  BY DEF Inv, TypeOK
<1>2. /\ pc = "answer" /\ pc' = "set_ack" /\ scl' = 0 /\ sda' = sda
      /\ call' = call /\ at' = at /\ i' = i /\ in' = in /\ got' = got
  BY <1>1, Bits, LineKeeps
<1>3. /\ at = "fetch" /\ scl = 1 /\ i = 1 /\ Len(in) = Width /\ Gathered
      /\ Showing(1)
  BY <1>2 DEF Inv, PositionInv, ReadInv, WriteInv
<1>4. OnFall
  BY <1>1, <1>3, Bits, Driven DEF Line
<1>5. /\ dev' = "acked" /\ dbits' = <<>> /\ dsda' = 1
      /\ UNCHANGED <<dir, heard, shown>>
  BY <1>3, <1>4 DEF OnFall, Showing
<1>6. DeviceTypes'
  <2>1. <<>> \in Seq(Bit) /\ Len(<<>>) <= Width
    BY WidthAssumption
  <2> QED
    BY <1>1, <1>5, <2>1, Bits DEF TypeOK, DeviceTypes
<1>7. DeviceInv'
  BY <1>1, <1>2, <1>3, <1>5 DEF DeviceInv, Showing
<1>8. PositionInv'
  BY <1>2, <1>3, <1>5
     DEF PositionInv, StartInv, WriteInv, ReadInv, StopInv, BetweenInv,
         Gathered, Showing, Offered
<1> QED
  BY <1>1, <1>5, <1>6, <1>7, <1>8, Bits, MovedLine DEF Telling, Lines

LEMMA SetAck ==
  ASSUME Inv, Line("set_ack", "set_clock", scl, IF SendAck THEN 0 ELSE 1)
  PROVE  Inv' /\ UNCHANGED Transfer!vars
<1> DEFINE d == IF SendAck THEN 0 ELSE 1
<1>1. TypeOK /\ scl \in Bit /\ d \in Bit
  BY Bits DEF Inv, TypeOK
<1>2. /\ pc = "set_ack" /\ pc' = "set_clock" /\ scl' = scl /\ sda' = d
      /\ call' = call /\ at' = at /\ i' = i /\ in' = in /\ got' = got
  BY <1>1, LineKeeps
<1>3. /\ at = "fetch" /\ scl = 0 /\ i = 1 /\ Len(in) = Width /\ Gathered
      /\ dev = "acked" /\ dbits = <<>> /\ Offered
  BY <1>2 DEF Inv, PositionInv, ReadInv, WriteInv
<1>4. Line("set_ack", "set_clock", scl, d)
  OBVIOUS
<1>5. SendAck' = SendAck /\ sda' = IF SendAck' THEN 0 ELSE 1
  BY <1>2 DEF SendAck
<1> HIDE DEF d
<1>6. Ignore
  BY <1>1, <1>3, <1>4, Driven DEF Line
<1>7. PositionInv'
  BY <1>2, <1>3, <1>5, <1>6
     DEF PositionInv, StartInv, WriteInv, ReadInv, StopInv, BetweenInv,
         Gathered, Offered, Ignore, device
<1> QED
  BY <1>1, <1>4, <1>6, <1>7, QuietLine DEF Telling, Lines

\* The device hears whether it is asked for more.
LEMMA SetClock ==
  ASSUME Inv, Line("set_clock", "done", 1, sda)
  PROVE  Inv' /\ UNCHANGED Transfer!vars
<1>1. TypeOK /\ sda \in Bit /\ DeviceInv
  BY DEF Inv, TypeOK
<1>2. /\ pc = "set_clock" /\ pc' = "done" /\ scl' = 1 /\ sda' = sda
      /\ call' = call /\ at' = at /\ i' = i /\ in' = in /\ got' = got
  BY <1>1, Bits, LineKeeps
<1>3. /\ at = "fetch" /\ scl = 0 /\ i = 1 /\ Len(in) = Width /\ Gathered
      /\ dev = "acked" /\ dbits = <<>> /\ Offered
      /\ sda = IF SendAck THEN 0 ELSE 1
  BY <1>2 DEF Inv, PositionInv, ReadInv, WriteInv
<1>4. OnRise(Both(sda, dsda)) /\ dsda = 1
  BY <1>1, <1>3, Bits, Driven DEF Line, DeviceInv
<1>5. /\ dbits' = <<IF SendAck THEN 0 ELSE 1>>
      /\ UNCHANGED <<dsda, dev, dir, heard, shown>>
  <2>1. Both(sda, dsda) = IF SendAck THEN 0 ELSE 1
    BY <1>3, <1>4 DEF Both
  <2>2. dbits' = Append(<<>>, IF SendAck THEN 0 ELSE 1)
    BY <1>3, <1>4, <2>1 DEF OnRise
  <2> QED
    BY <1>3, <1>4, <2>2 DEF OnRise
<1>6. DeviceTypes'
  <2>1. (IF SendAck THEN 0 ELSE 1) \in Bit
    BY Bits
  <2>2. dbits' \in Seq(Bit) /\ Len(dbits') <= Width
    BY <1>5, <2>1, WidthAssumption
  <2> QED
    BY <1>1, <1>5, <2>2 DEF TypeOK, DeviceTypes
<1>7. DeviceInv'
  BY <1>1, <1>2, <1>3, <1>5 DEF DeviceInv
<1>8. dbits' = <<IF SendAck' THEN 0 ELSE 1>>
  BY <1>2, <1>5 DEF SendAck
<1>9. PositionInv'
  BY <1>2, <1>3, <1>5, <1>8
     DEF PositionInv, StartInv, WriteInv, ReadInv, StopInv, BetweenInv,
         Gathered, Offered
<1> QED
  BY <1>1, <1>5, <1>6, <1>7, <1>9, Bits, MovedLine DEF Telling, Lines

-----------------------------------------------------------------------------
(* emulate_stop().                                                         *)

\* The device may see the end of its last byte.
LEMMA StopLow ==
  ASSUME Inv, Line("stop", "down", 0, sda)
  PROVE  Inv' /\ UNCHANGED Transfer!vars
<1>1. TypeOK /\ sda \in Bit /\ scl \in {0, 1} /\ DeviceInv
  BY DEF Inv, TypeOK, Bit
<1>2. /\ pc = "stop" /\ pc' = "down" /\ scl' = 0 /\ sda' = sda
      /\ call' = call /\ at' = at /\ i' = i
  BY <1>1, Bits, LineKeeps
<1>3. /\ at = "stop" /\ i = 1
      /\ \/ dev = "idle"
         \/ scl = 0 /\ dev = "hear" /\ dbits = <<>>
         \/ scl = 1 /\ dev = "acked" /\ dbits = <<1>>
  BY <1>2 DEF Inv, PositionInv, StopInv, WriteInv
<1>4. (scl = 1 => OnFall) /\ (scl = 0 => Ignore)
  BY <1>1, Bits, Driven DEF Line
<1>5. /\ UNCHANGED <<dir, dbits, heard, shown>> /\ dsda' = 1
      /\ dev' = "idle" \/ (dev' = "hear" /\ dev = "hear" /\ dbits = <<>>)
  <2>1. dev = "acked" \/ dsda = 1
    BY <1>1, <1>3 DEF DeviceInv
  <2> QED
    BY <1>1, <1>3, <1>4, <2>1
       DEF OnFall, OnStop, TurnAway, Ignore, device, DeviceInv
<1>6. DeviceTypes'
  BY <1>1, <1>5, Bits DEF TypeOK, DeviceTypes
<1>7. DeviceInv'
  BY <1>1, <1>2, <1>5 DEF DeviceInv
<1>8. PositionInv'
  BY <1>2, <1>3, <1>5
     DEF PositionInv, StartInv, WriteInv, ReadInv, StopInv, BetweenInv
<1> QED
  BY <1>1, <1>5, <1>6, <1>7, <1>8, Bits, MovedLine DEF Telling, Lines

LEMMA Down ==
  ASSUME Inv, Line("down", "rise", scl, 0)
  PROVE  Inv' /\ UNCHANGED Transfer!vars
<1>1. TypeOK /\ scl \in Bit
  BY DEF Inv, TypeOK
<1>2. /\ pc = "down" /\ pc' = "rise" /\ scl' = scl /\ sda' = 0
      /\ at' = at /\ i' = i
  BY <1>1, Bits, LineKeeps
<1>3. /\ at = "stop" /\ i = 1 /\ scl = 0
      /\ dev = "idle" \/ (dev = "hear" /\ dbits = <<>>)
  BY <1>2 DEF Inv, PositionInv, StopInv, WriteInv
<1>4. Ignore
  BY <1>1, <1>3, Bits, Driven DEF Line
<1>5. PositionInv'
  BY <1>2, <1>3, <1>4
     DEF PositionInv, StartInv, WriteInv, ReadInv, StopInv, BetweenInv,
         Ignore, device
<1> QED
  BY <1>1, <1>4, <1>5, Bits, QuietLine DEF Telling, Lines

LEMMA Rise ==
  ASSUME Inv, Line("rise", "up", 1, sda)
  PROVE  Inv' /\ UNCHANGED Transfer!vars
<1>1. TypeOK /\ sda \in Bit
  BY DEF Inv, TypeOK
<1>2. /\ pc = "rise" /\ pc' = "up" /\ scl' = 1 /\ sda' = sda
      /\ call' = call /\ at' = at /\ i' = i
  BY <1>1, Bits, LineKeeps
<1>3. /\ at = "stop" /\ i = 1 /\ scl = 0 /\ sda = 0
      /\ dev = "idle" \/ (dev = "hear" /\ dbits = <<>>)
  BY <1>2 DEF Inv, PositionInv, StopInv, WriteInv
<1>4. /\ UNCHANGED <<dsda, dev, dir, heard, shown>>
      /\ dbits' = dbits \/ dbits' = <<0>>
  <2>1. OnRise(Both(sda, dsda)) /\ Both(sda, dsda) = 0
    BY <1>1, <1>3, Bits, Driven DEF Line, Both
  <2>2. CASE dev = "idle"
    BY <2>1, <2>2 DEF OnRise, Ignore, device
  <2>3. CASE dev = "hear" /\ dbits = <<>>
    BY <2>1, <2>3 DEF OnRise
  <2> QED
    BY <1>3, <2>2, <2>3
<1>5. DeviceTypes'
  <2>1. <<0>> \in Seq(Bit) /\ Len(<<0>>) <= Width
    BY Bits, WidthAssumption
  <2> QED
    BY <1>1, <1>4, <2>1 DEF TypeOK, DeviceTypes
<1>6. DeviceInv'
  BY <1>2, <1>3, <1>4 DEF Inv, DeviceInv
<1>7. PositionInv'
  BY <1>2, <1>3, <1>4
     DEF PositionInv, StartInv, WriteInv, ReadInv, StopInv, BetweenInv
<1> QED
  BY <1>1, <1>4, <1>5, <1>6, <1>7, Bits, MovedLine DEF Telling, Lines

LEMMA Up ==
  ASSUME Inv, Line("up", "done", scl, 1)
  PROVE  Inv' /\ UNCHANGED Transfer!vars
<1>1. TypeOK /\ scl \in Bit
  BY DEF Inv, TypeOK
<1>2. /\ pc = "up" /\ pc' = "done" /\ scl' = scl /\ sda' = 1
      /\ call' = call /\ at' = at /\ i' = i
  BY <1>1, Bits, LineKeeps
<1>3. at = "stop" /\ i = 1 /\ scl = 1 /\ sda = 0 /\ dsda = 1
  BY <1>2 DEF Inv, PositionInv, StopInv, WriteInv, DeviceInv
<1>4. OnStop
  BY <1>1, <1>3, Bits, Driven DEF Line
<1>5. dev' = "idle" /\ dsda' = 1 /\ UNCHANGED <<dir, dbits, heard, shown>>
  BY <1>4 DEF OnStop, TurnAway
<1>6. DeviceTypes'
  BY <1>1, <1>5, Bits DEF TypeOK, DeviceTypes
<1>7. DeviceInv'
  BY <1>5 DEF DeviceInv
<1>8. PositionInv'
  BY <1>2, <1>3, <1>5
     DEF PositionInv, StartInv, WriteInv, ReadInv, StopInv, BetweenInv
<1> QED
  BY <1>1, <1>5, <1>6, <1>7, <1>8, Bits, MovedLine DEF Telling, Lines

-----------------------------------------------------------------------------
(* emulate_i2c_transfer().                                                 *)

LEMMA Operates ==
  ASSUME Inv, Operate
  PROVE  /\ Inv'
         /\ \/ UNCHANGED Transfer!vars
            \/ Transfer!Hear
            \/ \E b \in Byte : Transfer!Show(b)
<1>1. CASE emulate_start
  BY <1>1, Start, High, Fall DEF emulate_start
<1>2. CASE emulate_write_byte
  BY <1>2, Low, PutBit, ClockBit, Release, LetGo, AckClock, Ack, AckEnd
     DEF emulate_write_byte, WriteBit
<1>3. CASE emulate_read_byte
  BY <1>3, Take, Float, NextBit, GetBit, Tick, AnswerLow, SetAck, SetClock
     DEF emulate_read_byte
<1>4. CASE emulate_stop
  BY <1>4, StopLow, Down, Rise, Up DEF emulate_stop
<1> QED
  BY <1>1, <1>2, <1>3, <1>4 DEF Operate

LEMMA Begins ==
  ASSUME Inv, NEW c \in Call, Begin(c)
  PROVE  Inv' /\ Transfer!Begin(c)
<1>1. /\ TypeOK /\ ret # "busy" /\ at = "stop" /\ pc = "done" /\ i = 1
      /\ dev = "idle"
  BY DEF Begin, Inv, ByteInv, PositionInv, WriteInv, BetweenInv
<1>2. /\ ret' = "busy" /\ call' = c /\ got' = <<>> /\ k' = 0 /\ res' = "OK"
      /\ scl' = 1 /\ sda' = 1 /\ heard' = <<>> /\ shown' = <<>>
      /\ i' = i /\ acked' = acked /\ in' = in
      /\ dsda' = dsda /\ dev' = dev /\ dir' = dir /\ dbits' = dbits
      /\ \/ c.out # <<>> /\ at' = "write" /\ pc' = "start"
         \/ c.out = <<>> /\ c.n > 0 /\ at' = "read" /\ pc' = "start"
         \/ c.out = <<>> /\ c.n = 0 /\ at' = "stop" /\ pc' = "stop"
  BY DEF Begin, local
<1>3. c.out \in Seq(Byte) /\ c.n \in Nat
  BY CallTyping
<1>4. TypeOK'
  <2>1. 0 \in 0 .. Len(c.out) /\ <<>> \in Seq(Byte)
    BY <1>3
  <2> QED
    BY <1>1, <1>2, <2>1, Bits DEF TypeOK, Lines
<1>5. DeviceInv'
  BY <1>1, <1>2 DEF Inv, DeviceInv
<1>6. PositionInv'
  BY <1>1, <1>2
     DEF PositionInv, StartInv, WriteInv, ReadInv, StopInv, BetweenInv
<1>7. ByteInv'
  BY <1>2, <1>3 DEF ByteInv
<1>8. Transfer!Begin(c)
  BY <1>1, <1>2 DEF Transfer!Begin
<1> QED
  BY <1>4, <1>5, <1>6, <1>7, <1>8 DEF Inv

LEMMA WritesNext ==
  ASSUME Inv, WriteNext
  PROVE  Inv' /\ UNCHANGED Transfer!vars
<1>1. /\ ret = "busy" /\ pc = "done" /\ at \in {"write", "byte"} /\ acked
      /\ k < Len(call.out)
      /\ at' = "byte" /\ pc' = "low" /\ k' = k + 1
      /\ call' = call /\ got' = got /\ ret' = ret /\ res' = res
      /\ i' = i /\ acked' = acked /\ in' = in /\ scl' = scl /\ sda' = sda
      /\ dsda' = dsda /\ dev' = dev /\ dir' = dir /\ dbits' = dbits
      /\ heard' = heard /\ shown' = shown
  BY DEF WriteNext, Between, local, Bus, device
<1>2. TypeOK /\ call.out \in Seq(Byte)
  BY CallTyping DEF Inv, TypeOK
<1>3. i = 1 /\ dev = "hear" /\ dbits = <<>>
  BY <1>1 DEF Inv, PositionInv, WriteInv, BetweenInv
<1>4. TypeOK'
  <2>1. k + 1 \in 0 .. Len(call.out)
    BY <1>1, <1>2 DEF TypeOK
  <2> QED
    BY <1>1, <1>2, <2>1 DEF TypeOK, Lines
<1>5. DeviceInv'
  BY <1>1 DEF Inv, DeviceInv
<1>6. Heard(i - 1)'
  BY <1>1, <1>3 DEF Heard
<1>7. PositionInv'
  BY <1>1, <1>3, <1>6
     DEF PositionInv, StartInv, WriteInv, ReadInv, StopInv, BetweenInv
<1>8. ByteInv'
  <2>1. k \in Nat /\ Len(heard) = k
    BY <1>1, <1>2 DEF Inv, ByteInv, TypeOK
  <2>2. \A j \in 1 .. Len(heard) : heard[j] = call.out[j]
    BY <1>1 DEF Inv, ByteInv
  <2> QED
    BY <1>1, <2>1, <2>2 DEF Inv, ByteInv
<1>9. UNCHANGED Transfer!vars
  BY <1>1 DEF Transfer!vars
<1> QED
  BY <1>4, <1>5, <1>7, <1>8, <1>9 DEF Inv

\* All bytes are written: the device has taken what was to be written.
LEMMA AllHeard ==
  ASSUME Inv, pc = "done", at = "byte", k = Len(call.out)
  PROVE  heard = call.out
<1>1. heard \in Seq(Byte) /\ call.out \in Seq(Byte) /\ k \in Nat
  BY CallTyping DEF Inv, TypeOK
<1>2. /\ Len(heard) = k
      /\ \A j \in 1 .. k : heard[j] = call.out[j]
  BY DEF Inv, ByteInv
<1>3. \A s \in Seq(Byte) : s = [j \in 1 .. Len(s) |-> s[j]]
  OBVIOUS
<1>4. /\ heard = [j \in 1 .. k |-> heard[j]]
      /\ call.out = [j \in 1 .. k |-> call.out[j]]
  BY <1>1, <1>2, <1>3, Zenon
<1>5. [j \in 1 .. k |-> heard[j]] = [j \in 1 .. k |-> call.out[j]]
  BY <1>2, Zenon
<1> QED
  BY <1>4, <1>5, Zenon

LEMMA StartsRead ==
  ASSUME Inv, StartRead
  PROVE  Inv' /\ UNCHANGED Transfer!vars
<1>1. /\ ret = "busy" /\ pc = "done" /\ at = "byte" /\ acked
      /\ k = Len(call.out) /\ call.n > 0
      /\ at' = "read" /\ pc' = "start"
      /\ call' = call /\ got' = got /\ ret' = ret /\ k' = k /\ res' = res
      /\ i' = i /\ acked' = acked /\ in' = in /\ scl' = scl /\ sda' = sda
      /\ dsda' = dsda /\ dev' = dev /\ dir' = dir /\ dbits' = dbits
      /\ heard' = heard /\ shown' = shown
  BY DEF StartRead, Between, local, Bus, device
<1>2. i = 1 /\ scl = 0 /\ sda = 1 /\ dev = "hear" /\ dbits = <<>>
  BY <1>1 DEF Inv, PositionInv, WriteInv, BetweenInv
<1>3. TypeOK'
  BY <1>1 DEF Inv, TypeOK, Lines
<1>4. DeviceInv'
  BY <1>1 DEF Inv, DeviceInv
<1>5. PositionInv'
  BY <1>1, <1>2
     DEF PositionInv, StartInv, WriteInv, ReadInv, StopInv, BetweenInv
<1>6. ByteInv'
  <2>1. heard = call.out
    BY <1>1, AllHeard
  <2> QED
    BY <1>1, <2>1 DEF Inv, ByteInv
<1>7. UNCHANGED Transfer!vars
  BY <1>1 DEF Transfer!vars
<1> QED
  BY <1>3, <1>4, <1>5, <1>6, <1>7 DEF Inv

LEMMA ReadsFirst ==
  ASSUME Inv, ReadFirst
  PROVE  Inv' /\ UNCHANGED Transfer!vars
<1>1. /\ ret = "busy" /\ pc = "done" /\ at = "read" /\ acked
      /\ at' = "fetch" /\ pc' = "take" /\ in' = <<>>
      /\ call' = call /\ got' = got /\ ret' = ret /\ k' = k /\ res' = res
      /\ i' = i /\ acked' = acked /\ scl' = scl /\ sda' = sda
      /\ dsda' = dsda /\ dev' = dev /\ dir' = dir /\ dbits' = dbits
      /\ heard' = heard /\ shown' = shown
  BY DEF ReadFirst, Between, Bus, device
<1>2. i = 1 /\ scl = 0 /\ Showing(Width)
  BY <1>1 DEF Inv, PositionInv, WriteInv, BetweenInv
<1>3. TypeOK'
  <2>1. <<>> \in Seq(Bit) /\ Len(<<>>) <= Width
    BY WidthAssumption
  <2> QED
    BY <1>1, <2>1 DEF Inv, TypeOK, Lines
<1>4. DeviceInv'
  BY <1>1 DEF Inv, DeviceInv
<1>5. PositionInv'
  BY <1>1, <1>2
     DEF PositionInv, StartInv, WriteInv, ReadInv, StopInv, BetweenInv,
         Showing, Offered
<1>6. ByteInv'
  BY <1>1 DEF Inv, ByteInv
<1>7. UNCHANGED Transfer!vars
  BY <1>1 DEF Transfer!vars
<1> QED
  BY <1>3, <1>4, <1>5, <1>6, <1>7 DEF Inv

\* The byte in read_buffer is the one the device has offered.
LEMMA ReadsNext ==
  ASSUME Inv, ReadNext
  PROVE  Inv' /\ Transfer!Get
<1>1. /\ ret = "busy" /\ pc = "done" /\ at = "fetch"
      /\ got' = Append(got, in) /\ in' = <<>>
      /\ call' = call /\ ret' = ret /\ k' = k /\ res' = res
      /\ i' = i /\ acked' = acked /\ scl' = scl /\ sda' = sda
      /\ dsda' = dsda /\ dev' = dev /\ dir' = dir /\ dbits' = dbits
      /\ heard' = heard /\ shown' = shown
      /\ \/ Len(got) + 1 < call.n /\ at' = "fetch" /\ pc' = "take"
         \/ ~ (Len(got) + 1 < call.n) /\ at' = "stop" /\ pc' = "stop"
  BY DEF ReadNext, Between, Bus, device
<1>2. /\ i = 1 /\ scl = 1 /\ Len(in) = Width /\ Gathered
      /\ dev = "acked" /\ dbits = <<IF SendAck THEN 0 ELSE 1>> /\ Offered
  BY <1>1 DEF Inv, PositionInv, WriteInv, BetweenInv
<1>3. /\ TypeOK /\ got \in Seq(Byte) /\ shown \in Seq(Byte) /\ in \in Seq(Bit)
      /\ call.n \in Nat
  BY CallTyping DEF Inv, TypeOK
<1>4. heard = call.out /\ Len(got) < call.n /\ res = "OK"
  BY <1>1 DEF Inv, ByteInv
<1>5. in \in Byte /\ in = shown[Len(shown)]
  <2>1. Len(shown) \in 1 .. Len(shown)
    BY <1>2, <1>3 DEF Offered
  <2>2. shown[Len(shown)] \in [1 .. Width -> Bit]
    BY <1>3, <2>1 DEF Byte
  <2>3. in \in [1 .. Width -> Bit]
    BY <1>2, <1>3, WidthAssumption
  <2>4. \A j \in 1 .. Width : in[j] = shown[Len(shown)][j]
    BY <1>2 DEF Gathered
  <2>5. /\ in = [j \in 1 .. Width |-> in[j]]
        /\ shown[Len(shown)] = [j \in 1 .. Width |-> shown[Len(shown)][j]]
    BY <2>2, <2>3
  <2>6. [j \in 1 .. Width |-> in[j]]
          = [j \in 1 .. Width |-> shown[Len(shown)][j]]
    BY <2>4, Zenon
  <2> QED
    BY <2>3, <2>5, <2>6 DEF Byte
<1>6. got' \in Seq(Byte) /\ Len(got') = Len(got) + 1
  BY <1>1, <1>3, <1>5
<1>7. TypeOK'
  <2>1. <<>> \in Seq(Bit) /\ Len(<<>>) <= Width
    BY WidthAssumption
  <2> QED
    BY <1>1, <1>3, <1>6, <2>1 DEF TypeOK, Lines
<1>8. DeviceInv'
  BY <1>1 DEF Inv, DeviceInv
<1>9. \/ pc' = "take" /\ at' = "fetch" /\ dbits' = <<0>> /\ Len(got') < call.n
      \/ pc' = "stop" /\ at' = "stop" /\ dbits' = <<1>> /\ Len(got') = call.n
  <2>1. PICK n \in Nat : n = Len(got)
    BY <1>3
  <2>2. CASE n + 1 < call.n
    <3>1. SendAck
      BY <1>3, <2>1, <2>2 DEF SendAck
    <3> QED
      BY <1>1, <1>2, <1>6, <2>1, <2>2, <3>1
  <2>3. CASE ~ (n + 1 < call.n)
    <3>1. n = call.n - 1 /\ n + 1 = call.n
      BY <1>3, <1>4, <2>1, <2>3
    <3>2. ~ SendAck
      BY <2>1, <3>1 DEF SendAck
    <3> QED
      BY <1>1, <1>2, <1>6, <2>1, <2>3, <3>1, <3>2
  <2> QED
    BY <2>2, <2>3
<1>10. Len(shown') = Len(got')
  BY <1>1, <1>2, <1>6 DEF Offered
<1>11. PositionInv'
  BY <1>1, <1>2, <1>9, <1>10
     DEF PositionInv, StartInv, WriteInv, ReadInv, StopInv, BetweenInv
<1>12. ByteInv'
  BY <1>1, <1>4, <1>9 DEF ByteInv
<1>13. Transfer!Get
  <2>1. Len(got) < Len(shown)
    BY <1>2, <1>3 DEF Offered
  <2> QED
    BY <1>1, <1>5, <2>1 DEF Transfer!Get
<1> QED
  BY <1>7, <1>8, <1>11, <1>12, <1>13 DEF Inv

LEMMA Stops ==
  ASSUME Inv, Stop
  PROVE  Inv' /\ UNCHANGED Transfer!vars
<1>1. /\ ret = "busy" /\ pc = "done" /\ at \in {"write", "byte", "read"}
      /\ (at = "byte" /\ k = Len(call.out) /\ call.n = 0) \/ ~ acked
      /\ res' = IF acked THEN "OK"
                ELSE IF at = "byte" THEN "FAIL" ELSE "NOT_FOUND"
      /\ at' = "stop" /\ pc' = "stop"
      /\ call' = call /\ got' = got /\ ret' = ret /\ k' = k
      /\ i' = i /\ acked' = acked /\ in' = in /\ scl' = scl /\ sda' = sda
      /\ dsda' = dsda /\ dev' = dev /\ dir' = dir /\ dbits' = dbits
      /\ heard' = heard /\ shown' = shown
  BY DEF Stop, Between, local, Bus, device
<1>2. /\ i = 1 /\ scl = 0
      /\ ~ acked => dev = "idle"
      /\ acked /\ at # "read" => dev = "hear" /\ dbits = <<>>
  BY <1>1 DEF Inv, PositionInv, WriteInv, BetweenInv
<1>3. TypeOK'
  BY <1>1 DEF Inv, TypeOK, Lines
<1>4. DeviceInv'
  BY <1>1 DEF Inv, DeviceInv
<1>5. PositionInv'
  BY <1>1, <1>2
     DEF PositionInv, StartInv, WriteInv, ReadInv, StopInv, BetweenInv
<1>6. ByteInv'
  <2>1. CASE acked
    <3>1. heard = call.out /\ got = <<>> /\ call.n = 0
      BY <1>1, <2>1, AllHeard DEF Inv, ByteInv
    <3> QED
      BY <1>1, <2>1, <3>1 DEF ByteInv
  <2>2. CASE ~ acked /\ at = "byte"
    <3>1. Len(heard) = k /\ 1 <= k /\ shown = <<>>
      BY <1>1, <2>2 DEF Inv, ByteInv
    <3>2. heard # <<>>
      BY <3>1
    <3> QED
      BY <1>1, <2>2, <3>1, <3>2 DEF ByteInv
  <2>3. CASE ~ acked /\ at # "byte"
    <3>1. heard \in {<<>>, call.out} /\ shown = <<>>
      BY <1>1, <2>3 DEF Inv, ByteInv
    <3> QED
      BY <1>1, <2>3, <3>1 DEF ByteInv
  <2> QED
    BY <2>1, <2>2, <2>3
<1>7. UNCHANGED Transfer!vars
  BY <1>1 DEF Transfer!vars
<1> QED
  BY <1>3, <1>4, <1>5, <1>6, <1>7 DEF Inv

LEMMA Returns ==
  ASSUME Inv, Return
  PROVE  Inv' /\ Transfer!End
<1>1. /\ ret = "busy" /\ pc = "done" /\ at = "stop" /\ ret' = res
      /\ call' = call /\ got' = got /\ at' = at /\ k' = k /\ res' = res
      /\ pc' = pc /\ i' = i /\ acked' = acked /\ in' = in
      /\ scl' = scl /\ sda' = sda
      /\ dsda' = dsda /\ dev' = dev /\ dir' = dir /\ dbits' = dbits
      /\ heard' = heard /\ shown' = shown
  BY DEF Return, Between, local, Bus, device
<1>2. res \in {"OK", "NOT_FOUND", "FAIL"}
  BY DEF Inv, TypeOK
<1>3. TypeOK'
  BY <1>1, <1>2 DEF Inv, TypeOK
<1>4. DeviceInv'
  BY <1>1 DEF Inv, DeviceInv
<1>5. PositionInv'
  BY <1>1
     DEF Inv, PositionInv, StartInv, WriteInv, ReadInv, StopInv, BetweenInv
<1>6. ByteInv'
  BY <1>1, <1>2 DEF ByteInv
<1>7. Transfer!End
  BY <1>1, <1>2 DEF Inv, ByteInv, Transfer!End
<1> QED
  BY <1>3, <1>4, <1>5, <1>6, <1>7 DEF Inv

-----------------------------------------------------------------------------
(* The theorems.                                                           *)

LEMMA Initially == Init => Inv /\ Transfer!Init
<1> SUFFICES ASSUME Init
             PROVE  Inv /\ Transfer!Init
  OBVIOUS
<1>1. TypeOK
  <2>1. call.out \in Seq(Byte)
    BY CallTyping DEF Init
  <2>2. 0 \in 0 .. Len(call.out) /\ 1 \in 1 .. Width /\ Len(<<>>) <= Width
    BY <2>1, WidthAssumption
  <2>3. <<>> \in Seq(Byte) /\ <<>> \in Seq(Bit) /\ Len(<<>>) = 0
    OBVIOUS
  <2> QED
    BY <2>2, <2>3, Bits DEF Init, TypeOK, Lines
<1>2. DeviceInv /\ PositionInv /\ ByteInv
  BY DEF Init, DeviceInv, PositionInv, StartInv, WriteInv, ReadInv, StopInv,
         BetweenInv, ByteInv
<1>3. Transfer!Init
  BY DEF Init, Transfer!Init
<1> QED
  BY <1>1, <1>2, <1>3 DEF Inv

\* Every step keeps the invariant and is a step of I2cTransfer, or none.
LEMMA Stepwise ==
  ASSUME Inv, [Next]_vars
  PROVE  Inv' /\ [Transfer!Next]_Transfer!vars
<1>1. CASE \E c \in Call : Begin(c)
  BY <1>1, Begins DEF Transfer!Next
<1>2. CASE Operate
  BY <1>2, Operates DEF Transfer!Next
<1>3. CASE WriteNext
  BY <1>3, WritesNext
<1>4. CASE StartRead
  BY <1>4, StartsRead
<1>5. CASE ReadFirst
  BY <1>5, ReadsFirst
<1>6. CASE ReadNext
  BY <1>6, ReadsNext DEF Transfer!Next
<1>7. CASE Stop
  BY <1>7, Stops
<1>8. CASE Return
  BY <1>8, Returns DEF Transfer!Next
<1>9. CASE UNCHANGED vars
  <2>1. /\ call' = call /\ got' = got /\ ret' = ret /\ at' = at /\ k' = k
        /\ res' = res /\ pc' = pc /\ i' = i /\ acked' = acked /\ in' = in
        /\ scl' = scl /\ sda' = sda
        /\ dsda' = dsda /\ dev' = dev /\ dir' = dir /\ dbits' = dbits
        /\ heard' = heard /\ shown' = shown
    BY <1>9 DEF vars, transfer, local, Bus, device
  <2>2. TypeOK' /\ DeviceInv'
    BY <2>1 DEF Inv, TypeOK, DeviceInv
  <2>3. StartInv'
    BY <2>1 DEF Inv, PositionInv, StartInv
  <2>7. WriteInv'
    <3>1. \A n : Heard(n)' <=> Heard(n)
      BY <2>1 DEF Heard, Argument
    <3>2. Argument' = Argument /\ (Answered' <=> Answered)
      BY <2>1 DEF Answered, Argument
    <3> QED
      BY <2>1, <3>1, <3>2 DEF Inv, PositionInv, WriteInv
  <2>4. ReadInv' /\ StopInv' /\ BetweenInv'
    BY <2>1 DEF Inv, PositionInv, ReadInv, StopInv, BetweenInv, Showing,
                Offered, Gathered, SendAck
  <2>5. ByteInv'
    BY <2>1 DEF Inv, ByteInv
  <2>6. UNCHANGED Transfer!vars
    BY <2>1 DEF Transfer!vars
  <2> QED
    BY <2>2, <2>3, <2>4, <2>5, <2>6, <2>7 DEF Inv, PositionInv
<1> QED
  BY <1>1, <1>2, <1>3, <1>4, <1>5, <1>6, <1>7, <1>8, <1>9 DEF Next

LEMMA Invariance == Spec => []Inv
<1>1. Init => Inv
  BY Initially
<1>2. Inv /\ [Next]_vars => Inv'
  BY Stepwise
<1> QED
  BY <1>1, <1>2, PTL DEF Spec

\* The types; no byte is read with a bit too many.
THEOREM Typing == Spec => []TypeOK
<1>1. Inv => TypeOK
  BY DEF Inv
<1> QED
  BY Invariance, <1>1, PTL

(***************************************************************************)
(* emulate_i2c_transfer() carries out the transfer it is asked for: the    *)
(* device takes the bytes to write and the caller gets the bytes offered,  *)
(* and the result tells how far it went.                                   *)
(***************************************************************************)
THEOREM TransferCarriedOut == Spec => ImplementsTransfer
<1>1. Init => Transfer!Init
  BY Initially
<1>2. Inv /\ [Next]_vars => [Transfer!Next]_Transfer!vars
  BY Stepwise
<1> QED
  BY <1>1, <1>2, Invariance, PTL DEF Spec, ImplementsTransfer, Transfer!Spec

\* emulate_i2c_transfer() ends in a stop the device hears.
THEOREM ReturnsIdle == Spec => []BusIdleAtReturn
<1>1. Inv => BusIdleAtReturn
  <2> SUFFICES ASSUME Inv, ret # "busy"
               PROVE  scl = 1 /\ Sda = 1 /\ dev = "idle"
    BY DEF BusIdleAtReturn
  <2>1. scl = 1 /\ sda = 1 /\ dev = "idle"
    BY DEF Inv, ByteInv, PositionInv, BetweenInv
  <2>2. dsda = 1
    BY <2>1 DEF Inv, DeviceInv
  <2> QED
    BY <2>1, <2>2 DEF Sda, Both
<1> QED
  BY Invariance, <1>1, PTL

LEMMA StillUnderHighClock ==
  ASSUME Inv, Next, scl = 1, scl' = 1, pc \notin {"fall", "up"}
  PROVE  Sda' = Sda
<1>1. TypeOK /\ sda \in Bit /\ dsda \in Bit
  BY DEF Inv, TypeOK
<1>2. ASSUME UNCHANGED Bus
      PROVE  Sda' = Sda
  BY <1>2 DEF Bus, device, Sda
<1>3. CASE Operate
  <2>1. pc \notin {"bit", "clock", "let_go", "ack_clock", "float", "get", "tick",
                   "set_ack", "set_clock", "down", "rise"}
    BY DEF Inv, PositionInv, WriteInv, ReadInv, StopInv
  <2>2. ASSUME NEW from, NEW to, Line(from, to, 0, sda)
        PROVE  FALSE
    BY <1>1, <2>2, Bits, LineKeeps
  <2>3. ASSUME NEW from, NEW to, NEW d \in Bit, Line(from, to, 1, d), d = sda
        PROVE  Sda' = Sda
    <3>1. Ignore /\ sda' = sda
      BY <1>1, <2>3, Bits, Driven DEF Line
    <3> QED
      BY <3>1 DEF Ignore, device, Sda
  <2>4. CASE emulate_start
    <3>1. pc = "high" => sda = 1
      BY DEF Inv, PositionInv, StartInv
    <3> QED
      BY <1>1, <2>3, <2>4, <3>1, Bits DEF emulate_start, Line
  <2>5. CASE emulate_write_byte
    <3>1. CASE WriteBit
      BY <2>1, <2>2, <3>1 DEF WriteBit, Clock, Line
    <3>2. CASE ReadAck
      BY <1>2, <3>2 DEF ReadAck
    <3> QED
      BY <2>1, <2>2, <2>5, <3>1, <3>2 DEF emulate_write_byte, Line
  <2>6. CASE emulate_read_byte
    BY <2>1, <2>2, <2>6 DEF emulate_read_byte, ReadBit, Line
  <2>7. CASE emulate_stop
    BY <2>1, <2>2, <2>7 DEF emulate_stop, Line
  <2> QED
    BY <1>3, <2>4, <2>5, <2>6, <2>7 DEF Operate
<1>4. CASE \E c \in Call : Begin(c)
  <2>1. sda' = 1 /\ dsda' = dsda /\ ret # "busy"
    BY <1>4 DEF Begin
  <2>2. sda = 1
    BY <2>1 DEF Inv, ByteInv, PositionInv, BetweenInv
  <2> QED
    BY <2>1, <2>2 DEF Sda
<1> QED
  BY <1>2, <1>3, <1>4
     DEF Next, WriteNext, StartRead, ReadFirst, ReadNext, Stop, Return

(***************************************************************************)
(* Within bytes SDA is still while SCL is high; it falls there only in     *)
(* emulate_start() and rises there only in emulate_stop().                 *)
(***************************************************************************)
THEOREM StartsAndStopsOnly == Spec => DataStable
<1> DEFINE A == scl = 1 /\ scl' = 1 /\ Sda' # Sda =>
                  (Sda' = 0 /\ pc = "fall") \/ (Sda' = 1 /\ pc = "up")
<1>1. ASSUME Inv, [Next]_vars
      PROVE  [A]_vars
  <2> SUFFICES ASSUME Next, scl = 1, scl' = 1, Sda' # Sda
               PROVE  (Sda' = 0 /\ pc = "fall") \/ (Sda' = 1 /\ pc = "up")
    BY <1>1
  <2>1. pc \in {"fall", "up"}
    BY <1>1, StillUnderHighClock
  <2>2. Inv' /\ Sda' \in Bit /\ sda' \in Bit /\ dsda' \in Bit
    BY <1>1, Stepwise, Bits DEF Inv, TypeOK, Sda, Both
  <2>3. Line("fall", "low", scl, 0) \/ Line("up", "done", scl, 1)
    <3>1. ret = "busy" /\ pc # "done"
      BY <1>1, <2>1 DEF Inv, ByteInv
    <3>2. Operate
      BY <3>1 DEF Next, Begin, WriteNext, StartRead, ReadFirst, ReadNext, Stop,
                  Return, Between
    <3> QED
      BY <2>1, <3>2
         DEF Operate, emulate_start, emulate_write_byte, WriteBit, Clock,
             ReadAck, emulate_read_byte, ReadBit, emulate_stop, Line
  <2>4. CASE Line("fall", "low", scl, 0)
    <3>1. pc = "fall" /\ sda' = 0
      BY <1>1, <2>4, Bits, LineKeeps DEF Inv
    <3> QED
      BY <3>1 DEF Sda, Both
  <2>5. CASE Line("up", "done", scl, 1)
    <3>1. pc = "up" /\ sda' = 1 /\ pc' = "done" /\ at' = at /\ at = "stop"
      BY <1>1, <2>5, Bits, LineKeeps DEF Inv, PositionInv, StopInv
    <3>2. dsda' = 1
      BY <2>2, <3>1 DEF Inv, PositionInv, BetweenInv, DeviceInv
    <3> QED
      BY <3>1, <3>2 DEF Sda, Both
  <2> QED
    BY <2>3, <2>4, <2>5
<1> QED
  BY <1>1, Invariance, PTL DEF Spec, DataStable

=============================================================================
