---------------------------- MODULE Bmp390Device ----------------------------
(***************************************************************************)
(* The BMP390 as its driver sees it: external to the repository, modelled  *)
(* from how services/bmp390/bmp390.c uses it.  In normal mode it makes a   *)
(* sample every period, which replaces the one in its data registers, and, *)
(* when told to, pulses its interrupt pin.  Its calibration coefficients   *)
(* are burnt in.  What it holds outlives a restart of the program.         *)
(*                                                                         *)
(* Assumed of it: a reset stops it and puts the reset value, sample 0, in  *)
(* the data registers; each register is read by a transfer of its own, so  *)
(* a new sample may come between two of them.                              *)
(***************************************************************************)
EXTENDS Integers, Sequences

CONSTANTS
  Byte,           \* stands for 256
  Factories,      \* the coefficients the device may have, as bytes
  PressureOf, TemperatureOf,   \* raw value of each sample, three bytes
  MaxSamples      \* bound: the samples made in a behaviour

CoeffRegs == 0 .. 20          \* 0x31 .. 0x45
Samples   == 0 .. MaxSamples
RawValues == 0 .. Byte * Byte * Byte - 1

ASSUME Bmp390DeviceAssumption ==
  /\ Byte \in Nat \ {0} /\ MaxSamples \in Nat
  /\ Factories \subseteq [CoeffRegs -> 0 .. Byte - 1]
  /\ PressureOf \in [Samples -> RawValues]
  /\ TemperatureOf \in [Samples -> RawValues]

VARIABLES measuring,    \* PWRCTRL: normal mode
          drdyEnabled,  \* INT_CTRL: DRDY_EN
          sample,       \* whose bytes the data registers hold
          made,         \* samples made so far
          factory

bmpDevice == <<measuring, drdyEnabled, sample, made, factory>>

BmpDeviceInit ==
  /\ measuring = FALSE /\ drdyEnabled = FALSE
  /\ sample = 0 /\ made = 0
  /\ factory \in Factories

\* A write to a register; those not named configure what is not modelled.
takeWrite(reg) ==
  /\ measuring' = IF reg = "SOFT_RESET" THEN FALSE
                  ELSE measuring \/ reg = "PWRCTRL"
  /\ drdyEnabled' = IF reg = "SOFT_RESET" THEN FALSE
                    ELSE drdyEnabled \/ reg = "INT_CTRL"
  /\ sample' = IF reg = "SOFT_RESET" THEN 0 ELSE sample
  /\ UNCHANGED <<made, factory>>

\* The weight of each byte of a value, the low one (xlsb) first.
ByteWeight == <<1, Byte, Byte * Byte>>

\* Byte number i (0: xlsb, 1: lsb, 2: msb) of a raw value.
byteOf(value, i) == (value \div ByteWeight[i + 1]) % Byte

makeSample ==
  /\ measuring /\ made < MaxSamples
  /\ made' = made + 1 /\ sample' = made + 1
  /\ UNCHANGED <<measuring, drdyEnabled, factory>>

BmpDeviceTypeOK ==
  /\ measuring \in BOOLEAN /\ drdyEnabled \in BOOLEAN
  /\ sample \in Samples /\ made \in Samples
  /\ factory \in Factories
=============================================================================
