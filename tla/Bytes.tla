------------------------------- MODULE Bytes --------------------------------
(***************************************************************************)
(* Words of four bytes.  A byte has B values, so that a word fits TLC's    *)
(* integers; the code has B = 256.  Bytes are counted from the low end.    *)
(***************************************************************************)
EXTENDS Integers, Sequences

CONSTANT B

ASSUME ByteAssumption == B \in Nat /\ B > 1 /\ B % 2 = 0

W == B * B * B * B
Word == 0..(W - 1)

Scale(k) == IF k = 0 THEN 1 ELSE IF k = 1 THEN B ELSE IF k = 2 THEN B * B ELSE B * B * B

Byte(x, k) == (x \div Scale(k)) % B

\* juniper_fpga_pack_int and the _show functions of the driver; then
\* juniper_fpga_unpack_int and the _store functions with an unsigned buffer.
Pack(x) == [k \in 1..4 |-> Byte(x, k - 1)]

Unpack(b) == b[1] + b[2] * Scale(1) + b[3] * Scale(2) + b[4] * Scale(3)

\* accel_syscall_args_store joins plain chars: where char is signed, one of
\* the upper half sets every bit above its own.
High(x) == {k \in 0..2 : Byte(x, k) >= B \div 2}

Joined_Negative(x, signed) ==
  IF signed /\ High(x) # {}
    THEN LET k == CHOOSE k \in High(x) : \A j \in High(x) : k <= j
         IN (x % Scale(k + 1)) - Scale(k + 1)
    ELSE Unpack(Pack(x))

Joined(x, signed) ==
  IF signed /\ High(x) # {}
    THEN LET k == CHOOSE k \in High(x) : \A j \in High(x) : k <= j
         IN (W - Scale(k + 1)) + (x % Scale(k + 1))
    ELSE Unpack(Pack(x))

\* The loops of juniper_interp_accel_read and _write.
Swap(x) == Unpack([k \in 1..4 |-> Byte(x, 4 - k)])
=============================================================================
