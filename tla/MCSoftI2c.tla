----------------------------- MODULE MCSoftI2c -----------------------------
(***************************************************************************)
(* A small instance of SoftI2c: bytes of two bits, so one bit of address.  *)
(***************************************************************************)
EXTENDS SoftI2c

MCDevice == <<1>>
=============================================================================
