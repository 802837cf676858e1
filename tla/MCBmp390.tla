------------------------------ MODULE MCBmp390 ------------------------------
(***************************************************************************)
(* Small instances of Bmp390.  Bytes have two bits; two sets of            *)
(* coefficients, all bits set and a different value in each neighbouring   *)
(* register; samples that differ in every byte, sample 0 being the reset   *)
(* value 0x800000.                                                         *)
(***************************************************************************)
EXTENDS Bmp390

MCFactories ==
  {[r \in CoeffRegs |-> Byte - 1], [r \in CoeffRegs |-> (r + r \div 4) % Byte]}

MCPressureOf    == [n \in Samples |-> CASE n = 0 -> 32 [] n = 1 -> 6 [] n = 2 -> 27 [] OTHER -> 63]
MCTemperatureOf == [n \in Samples |-> CASE n = 0 -> 32 [] n = 1 -> 57 [] n = 2 -> 30 [] OTHER -> 5]
=============================================================================
