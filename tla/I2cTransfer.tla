---------------------------- MODULE I2cTransfer ----------------------------
(***************************************************************************)
(* What a call of soft_i2c_master_write(), _read() or _write_read()        *)
(* promises (components/soft_i2c_master), in bytes and without a bus: the  *)
(* addressed device hears the bytes to write, in order, and then shows the *)
(* bytes to read, no more of them than asked for; the caller is told how   *)
(* far it went.                                                            *)
(***************************************************************************)
EXTENDS Naturals, Sequences

CONSTANTS
  Byte,   \* values of a byte
  Call,   \* calls: [addr, out : bytes to write, n : bytes to read]
  Device  \* the address of the device on the bus

VARIABLES
  call,    \* the last call
  taken,   \* bytes the device has taken since it began
  offered, \* bytes the device has offered
  read,    \* bytes the caller has been given
  status   \* "ready" before the first call, "busy", or the result of the last

vars == <<call, taken, offered, read, status>>

Init ==
  /\ call \in Call
  /\ taken = <<>> /\ offered = <<>> /\ read = <<>>
  /\ status = "ready"

Begin(c) ==
  /\ status # "busy" /\ status' = "busy"
  /\ call' = c
  /\ taken' = <<>> /\ offered' = <<>> /\ read' = <<>>

Hear ==
  /\ status = "busy" /\ call.addr = Device /\ Len(taken) < Len(call.out)
  /\ taken' = Append(taken, call.out[Len(taken) + 1])
  /\ UNCHANGED <<call, offered, read, status>>

Show(b) ==
  /\ status = "busy" /\ call.addr = Device /\ taken = call.out
  /\ Len(offered) = Len(read) /\ Len(offered) < call.n
  /\ offered' = Append(offered, b)
  /\ UNCHANGED <<call, taken, read, status>>

Get ==
  /\ status = "busy" /\ Len(read) < Len(offered)
  /\ read' = Append(read, offered[Len(offered)])
  /\ UNCHANGED <<call, taken, offered, status>>

End ==
  /\ status = "busy"
  /\ \/ status' = "OK" /\ taken = call.out /\ Len(read) = call.n
     \/ status' = "NOT_FOUND" /\ taken \in {<<>>, call.out} /\ offered = <<>>
     \/ status' = "FAIL" /\ taken # <<>> /\ offered = <<>>
  /\ UNCHANGED <<call, taken, offered, read>>

Next ==
  (\E c \in Call : Begin(c)) \/ Hear \/ (\E b \in Byte : Show(b)) \/ Get \/ End

Spec == Init /\ [][Next]_vars
=============================================================================
