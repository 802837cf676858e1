---------------------------- MODULE Bmp390Proofs ----------------------------
(***************************************************************************)
(* Proofs about Bmp390: for every number of slots, size of a byte, set of  *)
(* coefficients, raw values, delays and clock.                             *)
(***************************************************************************)
EXTENDS Bmp390, DataLemmas

-----------------------------------------------------------------------------
(***************************************************************************)
(* The inductive invariant.                                                *)
(***************************************************************************)
\* Where bmp390Init reads the chip id and writes PWRCTRL and INT_CTRL.
ChipIdAt  == 7
PwrCtrlAt == 11
IntCtrlAt == 12

\* A slot that holds the barometer keeps it: the count has run past the
\* devices there are.  A handle is obtained, and the pin attached, together.
PortInv ==
  /\ \A h \in Slots : s_spiHandles[h] = "bmp390" => s_spiDevCount \notin DOMAIN DeviceOfCount
  /\ p_spi # NULL => isrAttached

\* What the part of bmp390Init that is over has established.
StartInv ==
  /\ phase = "delay" => operation.do = "delay"
  /\ phase \in {"starting", "delay"} /\ pc > ChipIdAt => reached = "bmp390"
  /\ phase \in {"starting", "delay"} /\ pc > PwrCtrlAt => measuring

\* The bytes received so far are the first of these.
Received(bytes, all) == \A i \in 1 .. Len(bytes) : bytes[i] = all[i]

\* The registers are read in order, and s_inited covers both calibrations.
TempRight  == s_tempParams = parameters(tempCoeffBytes, tempCalib)
PressRight == s_pressParams = parameters(pressCoeffBytes, pressCalib)

CalibInv ==
  /\ phase \in Measuring \union {"deliver"} => s_inited
  /\ s_inited => TempRight /\ PressRight
  /\ phase = "pressCoeffs" => TempRight
  /\ phase = "tempCoeffs" =>
       Len(rx) < TempRegs /\ Received(rx, tempCoeffBytes)
  /\ phase = "pressCoeffs" => Received(rx, pressCoeffBytes)
  /\ phase \in Measuring => Len(rx) < 3
  /\ phase \notin Reading => rx = <<>>

\* While a reading is under way all of it is of the sample that is there, or
\* the interrupt has set the flag, which nobody clears before the end.
BytesOf(value) == [i \in 1 .. 3 |-> byteOf(value, i - 1)]

OneSample ==
  /\ from \subseteq {sample}
  /\ phase = "rawTemp" => Received(rx, BytesOf(TemperatureOf[sample]))
  /\ phase \in {"rawPress", "deliver"} =>
       from = {sample} /\ s_rawTemp = TemperatureOf[sample]
  /\ phase = "rawPress" => Received(rx, BytesOf(PressureOf[sample]))
  /\ phase = "deliver" => s_rawPress = PressureOf[sample]

WholeInv == phase \in Reading \union {"deliver"} => drdyFlag \/ OneSample

\* Deliveries of the reset values: those that were, and the one that the
\* flag or the reading under way may still lead to while no sample was made.
StaleInv ==
  /\ phase \in {"starting", "delay"} => stale = 0
  /\ stale \in 0 .. 1
  /\ from # {} => phase \in Reading \union {"deliver"}
  /\ 0 \in from => stale = 0
  /\ Started /\ sample = 0 /\ stale = 1 =>
       ~drdyFlag /\ phase \notin Reading \union {"deliver"}
  /\ Started /\ sample = 0 /\ drdyFlag => phase \notin Reading \union {"deliver"}

BmpInv ==
  /\ BmpTypeOK /\ PortInv /\ StartInv /\ StartedMeasures
  /\ CalibInv /\ WholeInv /\ StaleInv
-----------------------------------------------------------------------------
(***************************************************************************)
(* The program and the operators.                                          *)
(***************************************************************************)
Writes(reg) == [do |-> "write", reg |-> reg]
Reads(reg)  == [do |-> "read", reg |-> reg]
Delays      == [do |-> "delay"]

Regs  == {"SOFT_RESET", "IF_CONF", "CHIP_ID", "OSR", "ODR", "IIR", "PWRCTRL", "INT_CTRL"}
Steps == {Writes(reg) : reg \in Regs} \union {Reads(reg) : reg \in Regs} \union {Delays}

LEMMA StepTypes ==
  /\ Delays \in Steps
  /\ \A reg \in Regs : Writes(reg) \in Steps /\ Reads(reg) \in Steps
  BY DEF Steps

\* The transfers and delays of bmp390Init, in order.
LEMMA Program ==
  /\ Len(bmp390Init) = IntCtrlAt
  /\ bmp390Init[1] = Writes("SOFT_RESET") /\ bmp390Init[2] = Delays
  /\ bmp390Init[3] = Writes("IF_CONF") /\ bmp390Init[4] = Delays
  /\ bmp390Init[5] = Reads("IF_CONF") /\ bmp390Init[6] = Reads("SOFT_RESET")
  /\ bmp390Init[ChipIdAt] = Reads("CHIP_ID")
  /\ bmp390Init[8] = Writes("OSR") /\ bmp390Init[9] = Writes("ODR")
  /\ bmp390Init[10] = Writes("IIR") /\ bmp390Init[PwrCtrlAt] = Writes("PWRCTRL")
  /\ bmp390Init[IntCtrlAt] = Writes("INT_CTRL")
<1> DEFINE a1 == softReset
           a2 == enableSpiMode
           a3 == configCheck
           a4 == prepareMeasure
           a5 == intEnableDrdy
           b2 == a1 \o a2
           b3 == b2 \o a3
           b4 == b3 \o a4
           b5 == b4 \o a5
<1>1. SeqOf(Steps, 2, a1) /\ a1[1] = Writes("SOFT_RESET") /\ a1[2] = Delays
  BY StepTypes DEF softReset, write, delay, Writes, Delays, Regs, SeqOf
<1>2. SeqOf(Steps, 2, a2) /\ a2[1] = Writes("IF_CONF") /\ a2[2] = Delays
  BY StepTypes DEF enableSpiMode, write, delay, Writes, Delays, Regs, SeqOf
<1>3. /\ SeqOf(Steps, 3, a3) /\ a3[1] = Reads("IF_CONF")
      /\ a3[2] = Reads("SOFT_RESET") /\ a3[3] = Reads("CHIP_ID")
  BY StepTypes DEF configCheck, read, Reads, Regs, SeqOf
<1>4. /\ SeqOf(Steps, 4, a4) /\ a4[1] = Writes("OSR") /\ a4[2] = Writes("ODR")
      /\ a4[3] = Writes("IIR") /\ a4[4] = Writes("PWRCTRL")
  BY StepTypes DEF prepareMeasure, write, Writes, Regs, SeqOf
<1>5. SeqOf(Steps, 1, a5) /\ a5[1] = Writes("INT_CTRL")
  BY StepTypes DEF intEnableDrdy, write, Writes, Regs, SeqOf
<1>6. bmp390Init = b5
  BY DEF bmp390Init, auxConfig
<1> HIDE DEF a1, a2, a3, a4, a5
<1>7. SeqOf(Steps, 2 + 2, b2) /\ Joins(b2, 2, a1, 2, a2)
  BY <1>1, <1>2, Joined
<1> HIDE DEF b2
<1>8. SeqOf(Steps, 2 + 2 + 3, b3) /\ Joins(b3, 2 + 2, b2, 3, a3)
  BY <1>3, <1>7, Joined
<1> HIDE DEF b3
<1>9. SeqOf(Steps, 2 + 2 + 3 + 4, b4) /\ Joins(b4, 2 + 2 + 3, b3, 4, a4)
  BY <1>4, <1>8, Joined
<1> HIDE DEF b4
<1>10. SeqOf(Steps, 2 + 2 + 3 + 4 + 1, b5) /\ Joins(b5, 2 + 2 + 3 + 4, b4, 1, a5)
  BY <1>5, <1>9, Joined
<1> HIDE DEF b5
<1>11. Len(b5) = IntCtrlAt
  BY <1>10 DEF SeqOf, IntCtrlAt
<1>12. b2[1] = a1[1] /\ b2[2] = a1[2] /\ b2[3] = a2[1] /\ b2[4] = a2[2]
  BY <1>7 DEF Joins
<1>13. /\ \A i \in 1 .. 4 : b3[i] = b2[i]
       /\ b3[5] = a3[1] /\ b3[6] = a3[2] /\ b3[7] = a3[3]
  BY <1>8 DEF Joins
<1>14. /\ \A i \in 1 .. 7 : b4[i] = b3[i]
       /\ b4[8] = a4[1] /\ b4[9] = a4[2] /\ b4[10] = a4[3] /\ b4[11] = a4[4]
  BY <1>9 DEF Joins
<1>15. (\A i \in 1 .. 11 : b5[i] = b4[i]) /\ b5[12] = a5[1]
  BY <1>10 DEF Joins
<1>16. /\ b5[1] = a1[1] /\ b5[2] = a1[2] /\ b5[3] = a2[1] /\ b5[4] = a2[2]
       /\ b5[5] = a3[1] /\ b5[6] = a3[2] /\ b5[7] = a3[3]
       /\ b5[8] = a4[1] /\ b5[9] = a4[2] /\ b5[10] = a4[3] /\ b5[11] = a4[4]
  BY <1>12, <1>13, <1>14, <1>15
<1>17. QED
  BY <1>1, <1>2, <1>3, <1>4, <1>5, <1>6, <1>11, <1>15, <1>16
     DEF ChipIdAt, PwrCtrlAt, IntCtrlAt
-----------------------------------------------------------------------------
\* The values read.
Octets == 0 .. Byte - 1

LEMMA NextByte ==
  ASSUME NEW bytes \in Seq(Octets), NEW all, Received(bytes, all),
         NEW byte \in Octets, byte = all[Len(bytes) + 1]
  PROVE  LET next == Append(bytes, byte)
         IN  /\ next \in Seq(Octets) /\ Len(next) = Len(bytes) + 1
             /\ Received(next, all)
<1> DEFINE next == Append(bytes, byte)
<1>1. /\ next \in Seq(Octets) /\ Len(next) = Len(bytes) + 1
      /\ \A i \in 1 .. Len(bytes) : next[i] = bytes[i]
      /\ next[Len(bytes) + 1] = byte
  BY AppendProperties
<1> HIDE DEF next
<1>2. ASSUME NEW i \in 1 .. Len(next) PROVE next[i] = all[i]
  <2>1. CASE i = Len(bytes) + 1
    BY <1>1, <2>1
  <2>2. CASE i # Len(bytes) + 1
    <3>1. i \in 1 .. Len(bytes)
      BY <1>1, <2>2
    <3>2. QED
      BY <1>1, <3>1 DEF Received
  <2>3. QED
    BY <2>1, <2>2
<1>3. QED
  BY <1>1, <1>2 DEF Received, next

LEMMA ByteTypes ==
  /\ Byte \in Nat \ {0} /\ Byte * Byte \in Nat \ {0} /\ Byte * Byte * Byte \in Nat
  /\ ByteWeight[1] = 1 /\ ByteWeight[2] = Byte /\ ByteWeight[3] = Byte * Byte
  /\ 0 \in Octets
  BY Bmp390DeviceAssumption DEF ByteWeight, Octets

\* Taking a raw value apart and putting it together again.
LEMMA RawBytes ==
  ASSUME NEW value \in RawValues
  PROVE  /\ \A i \in 0 .. 2 : byteOf(value, i) \in Octets
         /\ \A bytes \in Seq(Octets) :
              Len(bytes) = 3 /\ Received(bytes, BytesOf(value)) =>
                littleEndian(bytes) = value
<1>1. value \in Nat
  BY ByteTypes DEF RawValues
<1>2. ASSUME NEW i \in 0 .. 2 PROVE byteOf(value, i) \in Octets
  <2>1. ByteWeight[i + 1] \in Nat \ {0}
    BY ByteTypes
  <2>2. value \div ByteWeight[i + 1] \in Nat
    BY <1>1, <2>1, DivMod
  <2>3. QED
    BY <2>2, ByteTypes, DivMod DEF byteOf, Octets
<1>3. ASSUME NEW bytes \in Seq(Octets), Len(bytes) = 3, Received(bytes, BytesOf(value))
      PROVE  littleEndian(bytes) = value
  <2>1. /\ bytes[1] = byteOf(value, 0) /\ bytes[2] = byteOf(value, 1)
        /\ bytes[3] = byteOf(value, 2)
    BY <1>3 DEF Received, BytesOf
  <2>2. DOMAIN bytes = 1 .. 3
    BY <1>3
  <2>3. littleEndian(bytes) =
          1 * bytes[1] + Byte * bytes[2] + (Byte * Byte) * bytes[3]
    BY <2>2, ByteTypes DEF littleEndian, shifted
  <2>4. /\ byteOf(value, 0) = value % Byte
        /\ byteOf(value, 1) = (value \div Byte) % Byte
        /\ byteOf(value, 2) = (value \div (Byte * Byte)) % Byte
    <3>1. value \div 1 = value
      BY <1>1
    <3>2. QED
      BY <3>1, ByteTypes DEF byteOf
  <2>5. value = (value % Byte) + Byte * ((value \div Byte) % Byte)
                  + (Byte * Byte) * ((value \div (Byte * Byte)) % Byte)
    BY ByteTypes, Digits DEF RawValues
  <2>6. value % Byte \in Int
    BY <1>1, ByteTypes
  <2>7. QED
    BY <2>1, <2>3, <2>4, <2>5, <2>6
<1>4. QED
  BY <1>2, <1>3
\* A coefficient that lies in the first n bytes.
Fits(c, n) == c.at \in Nat /\ c.bytes \in 1 .. 2 /\ c.at + c.bytes <= n

LEMMA CoefficientType ==
  ASSUME NEW bytes \in Seq(Octets), NEW c, Fits(c, Len(bytes))
  PROVE  coefficient(bytes, c) \in Int
<1> DEFINE own == SubSeq(bytes, c.at + 1, c.at + c.bytes)
           range == Byte * ByteWeight[c.bytes]
<1>1. own \in Seq(Octets)
  BY SubSeqProperties DEF Fits
<1> HIDE DEF own
<1>2. ASSUME NEW i \in 1 .. 3 PROVE shifted(own, i) \in Int
  <2>1. ByteWeight[i] \in Nat
    BY ByteTypes
  <2>2. CASE i \in DOMAIN own
    <3>1. own[i] \in Nat
      BY <1>1, <2>2, ByteTypes DEF Octets
    <3>2. ByteWeight[i] * own[i] \in Int
      BY <2>1, <3>1
    <3>3. QED
      BY <2>2, <3>2 DEF shifted
  <2>3. CASE i \notin DOMAIN own
    BY <2>3 DEF shifted
  <2>4. QED
    BY <2>2, <2>3
<1>3. littleEndian(own) \in Int
  BY <1>2 DEF littleEndian
<1>4. range \in Int
  BY ByteTypes DEF Fits
<1> HIDE DEF range
<1>5. coefficient(bytes, c) =
        IF c.signed /\ littleEndian(own) >= range \div 2
        THEN littleEndian(own) - range ELSE littleEndian(own)
  BY DEF coefficient, own, range
<1>6. QED
  BY <1>3, <1>4, <1>5

\* Every coefficient lies in the bytes read.
LEMMA CalibInBytes ==
  /\ \A k \in DOMAIN tempCalib : Fits(tempCalib[k], TempRegs)
  /\ \A k \in DOMAIN pressCalib : Fits(pressCalib[k], PressRegs)
<1>1. ASSUME NEW k \in DOMAIN tempCalib PROVE Fits(tempCalib[k], TempRegs)
  <2>1. k \in 1 .. 3
    BY DEF tempCalib
  <2>2. /\ tempCalib[1] = Coeff(0, 2, FALSE) /\ tempCalib[2] = Coeff(2, 2, TRUE)
        /\ tempCalib[3] = Coeff(4, 1, TRUE)
    BY DEF tempCalib
  <2>3. Fits(tempCalib[1], 5) /\ Fits(tempCalib[2], 5) /\ Fits(tempCalib[3], 5)
    BY <2>2 DEF Fits, Coeff
  <2>4. QED
    BY <2>1, <2>3 DEF TempRegs
<1>2. ASSUME NEW k \in DOMAIN pressCalib PROVE Fits(pressCalib[k], PressRegs)
  <2>1. k \in 1 .. 11
    BY DEF pressCalib
  <2>2. /\ pressCalib[1] = Coeff(0, 2, FALSE) /\ pressCalib[2] = Coeff(2, 2, FALSE)
        /\ pressCalib[3] = Coeff(4, 1, TRUE) /\ pressCalib[4] = Coeff(5, 1, TRUE)
        /\ pressCalib[5] = Coeff(6, 2, FALSE) /\ pressCalib[6] = Coeff(8, 2, FALSE)
    BY DEF pressCalib
  <2>3. /\ pressCalib[7] = Coeff(10, 1, TRUE) /\ pressCalib[8] = Coeff(11, 1, TRUE)
        /\ pressCalib[9] = Coeff(12, 2, TRUE) /\ pressCalib[10] = Coeff(14, 1, TRUE)
        /\ pressCalib[11] = Coeff(15, 1, TRUE)
    BY DEF pressCalib
  <2>4. /\ Fits(pressCalib[1], 16) /\ Fits(pressCalib[2], 16) /\ Fits(pressCalib[3], 16)
        /\ Fits(pressCalib[4], 16) /\ Fits(pressCalib[5], 16) /\ Fits(pressCalib[6], 16)
    BY <2>2 DEF Fits, Coeff
  <2>5. /\ Fits(pressCalib[7], 16) /\ Fits(pressCalib[8], 16) /\ Fits(pressCalib[9], 16)
        /\ Fits(pressCalib[10], 16) /\ Fits(pressCalib[11], 16)
    BY <2>3 DEF Fits, Coeff
  <2>6. QED
    BY <2>1, <2>4, <2>5 DEF PressRegs
<1>3. QED
  BY <1>1, <1>2

\* All bytes of a calibration read: the parameters are the device's, and of
\* their type.
LEMMA CalibrationRead ==
  ASSUME factory \in Factories
  PROVE  /\ \A i \in 1 .. TempRegs : tempCoeffBytes[i] \in Octets
         /\ \A i \in 1 .. PressRegs : pressCoeffBytes[i] \in Octets
         /\ \A bytes \in Seq(Octets) :
              Len(bytes) = TempRegs /\ Received(bytes, tempCoeffBytes) =>
                /\ bytes = tempCoeffBytes
                /\ parameters(bytes, tempCalib) \in [DOMAIN tempCalib -> Int]
         /\ \A bytes \in Seq(Octets) :
              Len(bytes) = PressRegs /\ Received(bytes, pressCoeffBytes) =>
                /\ bytes = pressCoeffBytes
                /\ parameters(bytes, pressCalib) \in [DOMAIN pressCalib -> Int]
<1>1. factory \in [CoeffRegs -> Octets]
  BY Bmp390DeviceAssumption DEF Octets
<1>2. \A i \in 1 .. TempRegs : tempCoeffBytes[i] \in Octets
  BY <1>1 DEF tempCoeffBytes, TempRegs, CoeffRegs
<1>3. \A i \in 1 .. PressRegs : pressCoeffBytes[i] \in Octets
  BY <1>1 DEF pressCoeffBytes, TempRegs, PressRegs, CoeffRegs
<1>4. ASSUME NEW bytes \in Seq(Octets),
             Len(bytes) = TempRegs, Received(bytes, tempCoeffBytes)
      PROVE  /\ bytes = tempCoeffBytes
             /\ parameters(bytes, tempCalib) \in [DOMAIN tempCalib -> Int]
  <2>1. bytes = tempCoeffBytes
    BY <1>4 DEF Received, tempCoeffBytes, TempRegs
  <2>2. ASSUME NEW k \in DOMAIN tempCalib PROVE coefficient(bytes, tempCalib[k]) \in Int
    <3>1. Fits(tempCalib[k], TempRegs)
      BY CalibInBytes
    <3>2. QED
      BY <1>4, <3>1, CoefficientType
  <2>3. QED
    BY <2>1, <2>2 DEF parameters
<1>5. ASSUME NEW bytes \in Seq(Octets),
             Len(bytes) = PressRegs, Received(bytes, pressCoeffBytes)
      PROVE  /\ bytes = pressCoeffBytes
             /\ parameters(bytes, pressCalib) \in [DOMAIN pressCalib -> Int]
  <2>1. bytes = pressCoeffBytes
    BY <1>5 DEF Received, pressCoeffBytes, PressRegs
  <2>2. ASSUME NEW k \in DOMAIN pressCalib PROVE coefficient(bytes, pressCalib[k]) \in Int
    <3>1. Fits(pressCalib[k], PressRegs)
      BY CalibInBytes
    <3>2. QED
      BY <1>5, <3>1, CoefficientType
  <2>3. QED
    BY <2>1, <2>2 DEF parameters
<1>6. QED
  BY <1>2, <1>3, <1>4, <1>5
-----------------------------------------------------------------------------
(***************************************************************************)
(* The inductive invariant holds.                                          *)
(***************************************************************************)
USE HalAssumption, Bmp390DeviceAssumption, Bmp390Assumption
    DEF Resting, Waiting, Calibrating, Measuring, Reading, Started

LEMMA BmpInitInv == BmpInit => BmpInv
<1> SUFFICES ASSUME BmpInit PROVE BmpInv
  OBVIOUS
<1>1. BmpTypeOK
  <2>1. HalTypeOK
    <3>1. 0 \in 0 .. MaxSpiDevices
      OBVIOUS
    <3>2. QED
      BY <3>1 DEF BmpInit, HalInit, HalTypeOK
  <2>2. BmpDeviceTypeOK
    <3>1. 0 \in Samples
      BY DEF Samples
    <3>2. QED
      BY <3>1 DEF BmpInit, BmpDeviceInit, BmpDeviceTypeOK
  <2>3. pc \in 1 .. Len(bmp390Init)
    BY Program DEF BmpInit, IntCtrlAt
  <2>4. 0 \in RawValues
    BY ByteTypes DEF RawValues
  <2>5. rx \in Seq(0 .. Byte - 1) /\ Len(rx) < PressRegs
    BY DEF BmpInit, PressRegs
  <2>6. start \in 0 .. TimeMod - 1 /\ waited \in 0 .. TimeMod - 1
    BY DEF BmpInit
  <2>7. drdyFlag \in BOOLEAN /\ s_inited \in BOOLEAN
    BY Zenon DEF BmpInit
  <2>8. /\ phase \in Resting
        /\ s_tempParams = Zeroed /\ s_pressParams = Zeroed /\ p_spi = NULL
        /\ s_rawTemp \in RawValues /\ s_rawPress \in RawValues
        /\ from \subseteq Samples /\ stale \in 0 .. 2
    BY <2>4 DEF BmpInit
  <2>9. QED
    BY <2>1, <2>2, <2>3, <2>5, <2>6, <2>7, <2>8 DEF BmpTypeOK
<1>2. PortInv
  <2>1. \A h \in Slots : s_spiHandles[h] = NULL
    BY DEF BmpInit, HalInit
  <2>2. QED
    BY <2>1 DEF BmpInit, PortInv
<1>3. StartInv /\ StartedMeasures /\ CalibInv /\ WholeInv /\ StaleInv
  BY DEF BmpInit, StartInv, StartedMeasures, CalibInv, WholeInv, StaleInv
<1>4. QED
  BY <1>1, <1>2, <1>3 DEF BmpInv

\* Parts of the invariant are about parts of the state.
LEMMA PortKept ==
  ASSUME PortInv, UNCHANGED <<halVars, p_spi>>
  PROVE  PortInv' /\ reached' = reached
  BY DEF PortInv, halVars, spiVars, reached, halTransmitsTo, espTransmitsTo

LEMMA MeasuresKept ==
  ASSUME StartedMeasures, Started' => Started, reached' = reached,
         UNCHANGED <<measuring, drdyEnabled, isrAttached>>
  PROVE  StartedMeasures'
  BY DEF StartedMeasures

LEMMA StartKept ==
  ASSUME StartInv, UNCHANGED <<pc, measuring>>, reached' = reached,
         phase' \notin {"starting", "delay"} \/ phase' = phase
  PROVE  StartInv'
  BY DEF StartInv, operation

LEMMA CalibKept ==
  ASSUME CalibInv, UNCHANGED <<calibVars, factory>>,
         \/ UNCHANGED <<phase, rx>>
         \/ phase' \notin Reading \union {"deliver"} /\ rx' = <<>>
         \/ phase' = "tempCoeffs" /\ rx' = <<>>
         \/ phase' = "rawTemp" /\ rx' = <<>> /\ s_inited
  PROVE  CalibInv'
<1>1. TempRight' = TempRight /\ PressRight' = PressRight
  BY DEF calibVars, TempRight, PressRight, tempCoeffBytes, pressCoeffBytes
<1>2. tempCoeffBytes' = tempCoeffBytes /\ pressCoeffBytes' = pressCoeffBytes
  BY DEF tempCoeffBytes, pressCoeffBytes
<1>3. Len(<<>>) = 0
  OBVIOUS
<1>4. QED
  BY <1>1, <1>2, <1>3 DEF CalibInv, calibVars, Received, TempRegs

\* Setting the port up disturbs no handle in use.
LEMMA SetUpStep ==
  ASSUME BmpInv, setUp
  PROVE  BmpInv'
<1>1. UNCHANGED bmpDriver /\ UNCHANGED bmpDevice /\ phase \in Resting
  BY DEF setUp
<1>2. UNCHANGED <<phase, pc, p_spi, drdyFlag, start, waited, rx, s_inited, s_tempParams,
                  s_pressParams, s_rawTemp, s_rawPress, from, stale>>
  BY <1>1 DEF bmpDriver, clockVars, calibVars, rawVars
<1>3. UNCHANGED <<measuring, drdyEnabled, sample, made, factory>>
  BY <1>1 DEF bmpDevice
<1>4. /\ HalTypeOK' /\ PortInv' /\ isrAttached' = isrAttached
      /\ reached = "bmp390" => reached' = "bmp390"
  <2> USE <1>2 DEF BmpInv, BmpTypeOK, HalTypeOK, PortInv, reached, halTransmitsTo,
      espTransmitsTo
  <2>1. CASE setHalPort
    BY <2>1 DEF setHalPort, spiVars
  <2>2. CASE halSpiBusInit
    BY <2>2 DEF halSpiBusInit, espSpiBusInit
  <2>3. ASSUME NEW idx \in 0 .. MaxSpiDevices, halSpiDeviceInit(halSpiGetHandle(idx))
        PROVE  /\ HalTypeOK' /\ PortInv' /\ isrAttached' = isrAttached
               /\ reached = "bmp390" => reached' = "bmp390"
    <3> DEFINE h == halSpiGetHandle(idx)
               d == DeviceOfCount[s_spiDevCount]
    <3>1. /\ h # NULL /\ s_spiDevCount < MaxSpiDevices /\ s_spiDevCount \in {0, 1}
          /\ s_spiHandles' = [s_spiHandles EXCEPT ![h] = d]
          /\ s_spiDevCount' = s_spiDevCount + 1
          /\ UNCHANGED <<s_busInitialized, s_p_halPort, isrAttached>>
      BY <2>3 DEF halSpiDeviceInit, espSpiDeviceInit, DeviceOfCount
    <3>2. h \in Slots
      BY <3>1 DEF halSpiGetHandle, espSpiGetHandle, Slots
    <3>3. d \in SpiDevices /\ d = IF s_spiDevCount = 0 THEN "icm20948" ELSE "bmp390"
      BY <3>1 DEF SpiDevices, DeviceOfCount
    <3> HIDE DEF h, d
    <3>4. \A g \in Slots : s_spiHandles[g] # "bmp390"
      BY <3>1 DEF DeviceOfCount
    <3>5. HalTypeOK'
      BY <3>1, <3>2, <3>3
    <3>6. PortInv'
      <4>1. ASSUME NEW g \in Slots, s_spiHandles'[g] = "bmp390"
            PROVE  s_spiDevCount' \notin DOMAIN DeviceOfCount
        BY <3>1, <3>2, <3>3, <3>4, <4>1 DEF DeviceOfCount
      <4>2. QED
        BY <3>1, <4>1
    <3>7. reached # "bmp390"
      <4>1. p_spi \in Slots \/ p_spi = NULL
        OBVIOUS
      <4>2. NULL # "bmp390"
        OBVIOUS
      <4>3. QED
        BY <3>4, <4>1, <4>2
    <3>8. QED
      BY <3>1, <3>5, <3>6, <3>7
  <2>4. QED
    BY <2>1, <2>2, <2>3 DEF setUp
<1>5. BmpTypeOK'
  BY <1>2, <1>3, <1>4 DEF BmpInv, BmpTypeOK, BmpDeviceTypeOK
<1>6. StartInv'
  BY <1>1, <1>2 DEF StartInv
<1>7. StartedMeasures'
  BY <1>2, <1>3, <1>4 DEF BmpInv, StartedMeasures
<1>8. CalibInv'
  BY <1>2, <1>3, CalibKept DEF BmpInv, calibVars
<1>9. WholeInv' /\ StaleInv'
  BY <1>2, <1>3 DEF BmpInv, WholeInv, OneSample, Received, BytesOf, StaleInv
<1>10. QED
  BY <1>4, <1>5, <1>6, <1>7, <1>8, <1>9 DEF BmpInv
LEMMA RegisterStep ==
  ASSUME BmpInv, register
  PROVE  BmpInv'
<1>1. /\ phase' = "starting" /\ pc' = 1 /\ p_spi' = halSpiGetHandle(SpiDevIdx)
      /\ drdyFlag' = FALSE /\ stale' = 0 /\ phase = "off"
      /\ UNCHANGED <<s_p_halPort, s_busInitialized, s_spiDevCount, s_spiHandles>>
      /\ UNCHANGED <<measuring, drdyEnabled, sample, made, factory, start, waited, rx,
                     s_inited, s_tempParams, s_pressParams, s_rawTemp, s_rawPress, from>>
  BY DEF register, spiVars, bmpDevice, clockVars, calibVars, rawVars
<1>2. /\ isrAttached' \in BOOLEAN /\ p_spi' \in Slots \union {NULL}
      /\ p_spi' # NULL => isrAttached'
  <2>1. isrAttached \in BOOLEAN
    BY DEF BmpInv, BmpTypeOK, HalTypeOK
  <2>2. CASE s_p_halPort
    BY <1>1, <2>2 DEF register, halAttachIsr, espAttachIsr, halSpiGetHandle,
       espSpiGetHandle, Slots
  <2>3. CASE ~s_p_halPort
    BY <1>1, <2>1, <2>3 DEF register, halAttachIsr, halSpiGetHandle
  <2>4. QED
    BY <2>2, <2>3
<1>3. BmpTypeOK'
  <2>1. HalTypeOK' /\ BmpDeviceTypeOK'
    BY <1>1, <1>2 DEF BmpInv, BmpTypeOK, HalTypeOK, BmpDeviceTypeOK
  <2>2. pc' \in 1 .. Len(bmp390Init)
    BY <1>1, Program DEF IntCtrlAt
  <2>3. stale' \in 0 .. 2
    BY <1>1
  <2>4. drdyFlag' \in BOOLEAN
    BY <1>1, Zenon
  <2>5. QED
    BY <1>1, <1>2, <2>1, <2>2, <2>3, <2>4 DEF BmpInv, BmpTypeOK
<1>4. PortInv'
  BY <1>1, <1>2 DEF BmpInv, PortInv
<1>5. StartInv' /\ StartedMeasures'
  BY <1>1 DEF StartInv, StartedMeasures, ChipIdAt, PwrCtrlAt
<1>6. CalibInv'
  BY <1>1, CalibKept DEF BmpInv, CalibInv, calibVars
<1>7. WholeInv' /\ StaleInv'
  BY <1>1 DEF BmpInv, WholeInv, StaleInv
<1>8. QED
  BY <1>3, <1>4, <1>5, <1>6, <1>7 DEF BmpInv

\* What initTransfer, delayBegin and delayEnd leave alone.
LEMMA InitFrame ==
  ASSUME initUnchanged
  PROVE  /\ UNCHANGED halVars
         /\ UNCHANGED <<isrAttached, p_spi, drdyFlag, rx, from, stale>>
         /\ UNCHANGED <<s_inited, s_tempParams, s_pressParams, s_rawTemp, s_rawPress>>
  BY DEF initUnchanged, halVars, calibVars, rawVars

\* A step of bmp390Init: the next operation, none, or the end of it.
LEMMA StartsOn ==
  ASSUME BmpInv, phase \in {"starting", "delay"}, initUnchanged,
         goOn \/ giveUp \/ (phase' = "delay" /\ pc' = pc /\ operation.do = "delay"),
         UNCHANGED <<made, factory>>, measuring' \in BOOLEAN, drdyEnabled' \in BOOLEAN,
         sample' \in {sample, 0},
         start' \in 0 .. TimeMod - 1, waited' \in 0 .. TimeMod - 1,
         goOn /\ pc >= ChipIdAt => reached = "bmp390",
         goOn /\ pc >= PwrCtrlAt => measuring',
         goOn /\ pc = IntCtrlAt => drdyEnabled',
         phase' = "delay" => measuring' = measuring
  PROVE  BmpInv'
<1>1. /\ UNCHANGED halVars
      /\ UNCHANGED <<isrAttached, p_spi, drdyFlag, rx, from, stale>>
      /\ UNCHANGED <<s_inited, s_tempParams, s_pressParams, s_rawTemp, s_rawPress>>
  BY InitFrame
<1>2. Len(bmp390Init) = IntCtrlAt /\ pc \in 1 .. IntCtrlAt
  BY Program DEF BmpInv, BmpTypeOK
<1>3. /\ goOn => \/ pc = IntCtrlAt /\ phase' = "idle" /\ pc' = 1
                 \/ pc < IntCtrlAt /\ phase' = "starting" /\ pc' = pc + 1
      /\ giveUp => phase' = "off" /\ pc' = 1
  BY <1>2 DEF goOn, giveUp, IntCtrlAt
<1>4. phase' \in {"off", "idle", "starting", "delay"} /\ pc' \in 1 .. IntCtrlAt
  BY <1>2, <1>3 DEF IntCtrlAt
<1>5. BmpTypeOK'
  <2>1. HalTypeOK'
    BY <1>1 DEF BmpInv, BmpTypeOK, HalTypeOK, halVars, spiVars
  <2>2. BmpDeviceTypeOK'
    BY DEF BmpInv, BmpTypeOK, BmpDeviceTypeOK, Samples
  <2>3. QED
    BY <1>1, <1>2, <1>4, <2>1, <2>2 DEF BmpInv, BmpTypeOK
<1>6. PortInv' /\ reached' = reached
  BY <1>1, PortKept DEF BmpInv
<1>7. StartInv'
  <2>1. CASE goOn
    BY <1>2, <1>3, <1>6, <2>1 DEF StartInv, PwrCtrlAt, ChipIdAt, IntCtrlAt
  <2>2. CASE giveUp
    BY <1>3, <2>2 DEF StartInv
  <2>3. CASE phase' = "delay" /\ pc' = pc /\ operation.do = "delay"
    BY <1>6, <2>3 DEF BmpInv, StartInv, operation
  <2>4. QED
    BY <2>1, <2>2, <2>3
<1>8. StartedMeasures'
  <2>1. CASE phase' = "idle"
    <3>1. goOn /\ pc = IntCtrlAt
      BY <1>3, <2>1
    <3>2. reached' = "bmp390" /\ measuring' /\ drdyEnabled'
      BY <1>6, <3>1 DEF IntCtrlAt, PwrCtrlAt, ChipIdAt
    <3>3. p_spi # NULL
      BY <1>6, <3>2 DEF reached, halTransmitsTo, espTransmitsTo
    <3>4. QED
      BY <1>1, <3>2, <3>3 DEF BmpInv, PortInv, StartedMeasures
  <2>2. CASE phase' # "idle"
    BY <1>4, <2>2 DEF StartedMeasures
  <2>3. QED
    BY <2>1, <2>2
<1>9. CalibInv'
  BY <1>1, <1>4, CalibKept DEF BmpInv, CalibInv, calibVars
<1>10. WholeInv'
  BY <1>4 DEF WholeInv
<1>11. StaleInv'
  BY <1>1, <1>4 DEF BmpInv, StaleInv
<1>12. QED
  BY <1>5, <1>6, <1>7, <1>8, <1>9, <1>10, <1>11 DEF BmpInv
LEMMA TransferStep ==
  ASSUME BmpInv, initTransfer
  PROVE  BmpInv'
<1>1. /\ phase = "starting" /\ operation.do \in {"write", "read"}
      /\ initUnchanged /\ UNCHANGED <<start, waited>>
      /\ \/ reached # NULL /\ identified /\ takeFrame /\ goOn
         \/ (takeFrame \/ UNCHANGED bmpDevice) /\ giveUp
  BY DEF initTransfer, clockVars
<1>2. BmpTypeOK /\ BmpDeviceTypeOK /\ pc \in 1 .. IntCtrlAt
  BY Program DEF BmpInv, BmpTypeOK
<1>3. /\ takeFrame \/ UNCHANGED bmpDevice
      /\ UNCHANGED <<made, factory>> /\ sample' \in {sample, 0}
      /\ measuring' \in BOOLEAN /\ drdyEnabled' \in BOOLEAN
  <2>1. CASE UNCHANGED bmpDevice
    BY <1>2, <2>1 DEF bmpDevice, BmpDeviceTypeOK
  <2>2. CASE takeWrite(operation.reg)
    <3>1. UNCHANGED <<made, factory>> /\ sample' \in {sample, 0}
      BY <2>2 DEF takeWrite
    <3>2. measuring' \in BOOLEAN /\ drdyEnabled' \in BOOLEAN
      BY <2>2, Zenon DEF takeWrite
    <3>3. QED
      BY <1>1, <3>1, <3>2
  <2>3. QED
    BY <1>1, <2>1, <2>2 DEF takeFrame
<1>4. start' \in 0 .. TimeMod - 1 /\ waited' \in 0 .. TimeMod - 1
  BY <1>1, <1>2 DEF BmpTypeOK
<1>5. /\ goOn \/ giveUp
      /\ phase' # "delay"
  BY <1>1 DEF goOn, giveUp
<1>6. ASSUME goOn, pc >= ChipIdAt PROVE reached = "bmp390"
  <2>1. CASE pc = ChipIdAt
    <3>1. operation = Reads("CHIP_ID")
      BY <2>1, Program DEF operation
    <3>2. CASE identified
      BY <3>1, <3>2 DEF identified, Reads
    <3>3. CASE giveUp
      BY <1>1, <1>6, <3>3 DEF goOn, giveUp
    <3>4. QED
      BY <1>1, <3>2, <3>3
  <2>2. CASE pc > ChipIdAt
    BY <1>1, <2>2 DEF BmpInv, StartInv
  <2>3. QED
    BY <1>2, <1>6, <2>1, <2>2 DEF ChipIdAt
<1>7. ASSUME goOn PROVE takeFrame
  BY <1>1, <1>7 DEF goOn, giveUp
<1>8. ASSUME goOn, pc >= PwrCtrlAt
      PROVE  takeWrite(operation.reg) /\ operation.reg \in {"PWRCTRL", "INT_CTRL"}
  <2>1. pc \in {PwrCtrlAt, IntCtrlAt}
    BY <1>2, <1>8 DEF PwrCtrlAt, IntCtrlAt
  <2>2. operation \in {Writes("PWRCTRL"), Writes("INT_CTRL")}
    BY <2>1, Program DEF operation
  <2>3. operation.do = "write" /\ operation.reg \in {"PWRCTRL", "INT_CTRL"}
    BY <2>2 DEF Writes
  <2>4. reached = "bmp390"
    BY <1>2, <1>6, <1>8 DEF ChipIdAt, PwrCtrlAt
  <2>5. QED
    BY <1>7, <1>8, <2>3, <2>4 DEF takeFrame
<1>9. ASSUME goOn, pc >= PwrCtrlAt PROVE measuring'
  <2>1. takeWrite(operation.reg) /\ operation.reg # "SOFT_RESET"
    BY <1>8, <1>9
  <2>2. CASE pc = PwrCtrlAt
    <3>1. operation.reg = "PWRCTRL"
      BY <2>2, Program DEF operation, Writes
    <3>2. QED
      BY <2>1, <3>1 DEF takeWrite
  <2>3. CASE pc > PwrCtrlAt
    <3>1. measuring
      BY <1>1, <2>3 DEF BmpInv, StartInv
    <3>2. QED
      BY <2>1, <3>1 DEF takeWrite
  <2>4. QED
    BY <1>2, <1>9, <2>2, <2>3 DEF PwrCtrlAt
<1>10. ASSUME goOn, pc = IntCtrlAt PROVE drdyEnabled'
  <2>1. operation.reg = "INT_CTRL"
    BY <1>10, Program DEF operation, Writes
  <2>2. takeWrite(operation.reg)
    BY <1>8, <1>10 DEF IntCtrlAt, PwrCtrlAt
  <2>3. QED
    BY <2>1, <2>2 DEF takeWrite
<1>11. QED
  BY <1>1, <1>3, <1>4, <1>5, <1>6, <1>9, <1>10, StartsOn

LEMMA DelayStep ==
  ASSUME BmpInv, delayBegin \/ delayEnd
  PROVE  BmpInv'
<1>1. /\ initUnchanged /\ phase \in {"starting", "delay"} /\ operation.do = "delay"
      /\ goOn \/ (phase' = "delay" /\ pc' = pc)
  <2>1. CASE delayBegin
    BY <2>1 DEF delayBegin
  <2>2. CASE delayEnd
    BY <2>2 DEF delayEnd, BmpInv, StartInv
  <2>3. QED
    BY <2>1, <2>2
<1>2. UNCHANGED <<measuring, drdyEnabled, sample, made, factory>>
  BY DEF delayBegin, delayEnd, bmpDevice
<1>3. start' \in 0 .. TimeMod - 1 /\ waited' \in 0 .. TimeMod - 1
  BY DEF delayBegin, delayEnd
<1>4. pc < ChipIdAt
  <2>1. pc \in 1 .. IntCtrlAt
    BY Program DEF BmpInv, BmpTypeOK
  <2>2. \A k \in 7 .. 12 : bmp390Init[k].do # "delay"
    BY Program DEF Writes, Reads, ChipIdAt, PwrCtrlAt, IntCtrlAt
  <2>3. QED
    BY <1>1, <2>1, <2>2 DEF operation, ChipIdAt, IntCtrlAt
<1>5. measuring \in BOOLEAN /\ drdyEnabled \in BOOLEAN
  BY DEF BmpInv, BmpTypeOK, BmpDeviceTypeOK
<1>6. /\ ~ (pc >= ChipIdAt) /\ ~ (pc >= PwrCtrlAt) /\ pc # IntCtrlAt
  <2>1. pc \in 1 .. IntCtrlAt
    BY Program DEF BmpInv, BmpTypeOK
  <2>2. QED
    BY <1>4, <2>1 DEF ChipIdAt, PwrCtrlAt, IntCtrlAt
<1>7. QED
  BY <1>1, <1>2, <1>3, <1>5, <1>6, StartsOn
-----------------------------------------------------------------------------
\* What the steps after the start leave alone, and keep of the invariant.
Resumed ==
  /\ UNCHANGED halVars /\ UNCHANGED <<p_spi, pc>>
  /\ UNCHANGED <<measuring, drdyEnabled, sample, made, factory>>

LEMMA ResumedKeeps ==
  ASSUME BmpInv, Resumed, Started, Started'
  PROVE  PortInv' /\ StartInv' /\ StartedMeasures'
<1>1. PortInv' /\ reached' = reached
  BY PortKept DEF BmpInv, Resumed
<1>2. StartInv'
  BY <1>1, StartKept DEF BmpInv, Resumed
<1>3. StartedMeasures'
  BY <1>1, MeasuresKept DEF BmpInv, Resumed, halVars
<1>4. QED
  BY <1>1, <1>2, <1>3

LEMMA ResumedTypes ==
  ASSUME BmpInv, Resumed
  PROVE  /\ BmpTypeOK /\ HalTypeOK' /\ BmpDeviceTypeOK' /\ pc' \in 1 .. Len(bmp390Init)
         /\ p_spi' \in Slots \union {NULL}
<1>1. BmpTypeOK
  BY DEF BmpInv
<1>2. HalTypeOK'
  BY <1>1 DEF Resumed, BmpTypeOK, HalTypeOK, halVars, spiVars
<1>3. BmpDeviceTypeOK'
  BY <1>1 DEF Resumed, BmpTypeOK, BmpDeviceTypeOK
<1>4. QED
  BY <1>1, <1>2, <1>3 DEF Resumed, BmpTypeOK

LEMMA TickStep ==
  ASSUME BmpInv, clockTick
  PROVE  BmpInv'
<1>1. /\ UNCHANGED halVars /\ UNCHANGED bmpDevice
      /\ UNCHANGED <<phase, pc, p_spi, drdyFlag, start, rx, from, stale>>
      /\ UNCHANGED <<s_inited, s_tempParams, s_pressParams, s_rawTemp, s_rawPress>>
  BY DEF clockTick, calibVars, rawVars
<1>2. waited' \in 0 .. TimeMod - 1
  BY DEF clockTick, BmpInv, BmpTypeOK
<1>3. Resumed
  BY <1>1 DEF Resumed, bmpDevice
<1>4. BmpTypeOK'
  BY <1>1, <1>2, <1>3, ResumedTypes DEF BmpTypeOK
<1>5. PortInv' /\ reached' = reached
  BY <1>1, PortKept DEF BmpInv
<1>6. StartInv' /\ StartedMeasures'
  BY <1>1, <1>3, <1>5, StartKept, MeasuresKept DEF BmpInv, Resumed, halVars
<1>7. CalibInv'
  BY <1>1, <1>3, CalibKept DEF BmpInv, Resumed, calibVars
<1>8. WholeInv' /\ StaleInv'
  BY <1>1, <1>3 DEF BmpInv, Resumed, WholeInv, OneSample, Received, BytesOf, StaleInv
<1>9. QED
  BY <1>4, <1>5, <1>6, <1>7, <1>8 DEF BmpInv

\* The flag is taken, by the task or by waitDrdy, or looked for.
LEMMA WaitingStep ==
  ASSUME BmpInv, Resumed, phase \in {"idle"} \union Waiting,
         UNCHANGED <<s_inited, s_tempParams, s_pressParams, s_rawTemp, s_rawPress, stale>>,
         start' \in 0 .. TimeMod - 1, waited' \in 0 .. TimeMod - 1,
         \/ drdyFlag /\ drdyFlag' = FALSE /\ beginReading
         \/ /\ phase' \in {"idle"} \union Waiting /\ UNCHANGED <<rx, from>>
            /\ drdyFlag' = drdyFlag \/ drdyFlag' = FALSE
  PROVE  BmpInv'
<1>1. /\ rx' = <<>> \/ UNCHANGED rx
      /\ phase' \in {"idle", "tempCoeffs", "rawTemp"} \union Waiting
      /\ from' \subseteq from
  BY DEF beginReading
<1>2. drdyFlag' \in BOOLEAN
  <2>1. CASE drdyFlag' = FALSE
    BY <2>1, Zenon
  <2>2. CASE drdyFlag' = drdyFlag
    BY <2>2 DEF BmpInv, BmpTypeOK
  <2>3. QED
    BY <2>1, <2>2
<1>3. BmpTypeOK'
  <2>1. rx' \in Seq(0 .. Byte - 1) /\ Len(rx') < PressRegs
    <3>1. <<>> \in Seq(0 .. Byte - 1) /\ Len(<<>>) = 0
      OBVIOUS
    <3>2. CASE rx' = <<>>
      <4>1. Len(rx') = 0
        BY <3>1, <3>2
      <4>2. QED
        BY <3>1, <3>2, <4>1 DEF PressRegs
    <3>3. CASE UNCHANGED rx
      BY <3>3 DEF BmpInv, BmpTypeOK
    <3>4. QED
      BY <1>1, <3>2, <3>3
  <2>2. QED
    BY <1>1, <1>2, <2>1, ResumedTypes DEF BmpTypeOK
<1>4. PortInv' /\ StartInv' /\ StartedMeasures'
  BY <1>1, ResumedKeeps
<1>5. CalibInv'
  <2>1. CASE beginReading
    BY <2>1, CalibKept DEF BmpInv, beginReading, calibVars, Resumed
  <2>2. CASE phase' \in {"idle"} \union Waiting /\ UNCHANGED <<rx, from>>
    <3>1. rx' = <<>>
      BY <2>2 DEF BmpInv, CalibInv
    <3>2. QED
      BY <2>2, <3>1, CalibKept DEF BmpInv, calibVars, Resumed
  <2>3. QED
    BY <2>1, <2>2
<1>6. WholeInv'
  <2>1. CASE beginReading
    <3>1. Len(<<>>) = 0
      OBVIOUS
    <3>2. QED
      BY <2>1, <3>1 DEF beginReading, WholeInv, OneSample, Received
  <2>2. CASE phase' \in {"idle"} \union Waiting
    BY <2>2 DEF WholeInv
  <2>3. QED
    BY <2>1, <2>2
<1>7. StaleInv'
  <2>1. CASE drdyFlag /\ drdyFlag' = FALSE /\ beginReading
    BY <2>1 DEF BmpInv, StaleInv, beginReading, Resumed
  <2>2. CASE phase' \in {"idle"} \union Waiting /\ UNCHANGED <<rx, from>>
    BY <2>2 DEF BmpInv, StaleInv, Resumed
  <2>3. QED
    BY <2>1, <2>2
<1>8. QED
  BY <1>3, <1>4, <1>5, <1>6, <1>7 DEF BmpInv

LEMMA WaitSteps ==
  ASSUME BmpInv, taskBegin \/ waitDrdy \/ WaitStep
  PROVE  BmpInv'
<1>1. Resumed /\ phase \in {"idle"} \union Waiting
  BY DEF taskBegin, waitDrdy, WaitStep, waitTakesFlag, waitNoFlag, waitLooksAtClock,
     waitUnchanged, Resumed, bmpDevice
<1>2. UNCHANGED <<s_inited, s_tempParams, s_pressParams, s_rawTemp, s_rawPress, stale>>
  BY DEF taskBegin, waitDrdy, WaitStep, waitTakesFlag, waitNoFlag, waitLooksAtClock,
     waitUnchanged, calibVars, rawVars
<1>3. start' \in 0 .. TimeMod - 1 /\ waited' \in 0 .. TimeMod - 1
  <2>1. start \in 0 .. TimeMod - 1 /\ waited \in 0 .. TimeMod - 1 /\ 0 \in 0 .. TimeMod - 1
    BY DEF BmpInv, BmpTypeOK
  <2>2. QED
    BY <2>1 DEF taskBegin, waitDrdy, WaitStep, waitTakesFlag, waitNoFlag,
       waitLooksAtClock, clockVars
<1>4. \/ drdyFlag /\ drdyFlag' = FALSE /\ beginReading
      \/ /\ phase' \in {"idle"} \union Waiting /\ UNCHANGED <<rx, from>>
         /\ drdyFlag' = drdyFlag \/ drdyFlag' = FALSE
  BY DEF taskBegin, waitDrdy, WaitStep, waitTakesFlag, waitNoFlag, waitLooksAtClock
<1>5. QED
  BY <1>1, <1>2, <1>3, <1>4, WaitingStep
-----------------------------------------------------------------------------
LEMMA ReadFrame ==
  ASSUME readUnchanged
  PROVE  Resumed /\ UNCHANGED <<drdyFlag, start, waited>>
  BY DEF readUnchanged, Resumed, bmpDevice, clockVars

LEMMA EmptyBytes ==
  /\ <<>> \in Seq(0 .. Byte - 1) /\ Len(<<>>) = 0
  /\ \A all : Received(<<>>, all)
<1>1. <<>> \in Seq(0 .. Byte - 1) /\ Len(<<>>) = 0
  OBVIOUS
<1>2. QED
  BY <1>1 DEF Received

\* A byte that is not the last of n.
LEMMA MoreBytes ==
  ASSUME BmpInv, readUnchanged, UNCHANGED <<phase, calibVars, rawVars, stale>>,
         phase \in Reading,
         NEW byte \in Octets, rx' = Append(rx, byte), Len(rx) + 1 < PressRegs,
         phase = "tempCoeffs" => byte = tempCoeffBytes[Len(rx) + 1] /\ Len(rx) + 1 < TempRegs,
         phase = "pressCoeffs" => byte = pressCoeffBytes[Len(rx) + 1],
         phase \in Measuring => Len(rx) + 1 < 3,
         phase = "rawTemp" => byte = BytesOf(TemperatureOf[sample])[Len(rx) + 1],
         phase = "rawPress" => byte = BytesOf(PressureOf[sample])[Len(rx) + 1],
         from' = IF phase \in Measuring THEN from \union {sample} ELSE from
  PROVE  BmpInv'
<1>1. Resumed /\ UNCHANGED <<drdyFlag, start, waited>>
  BY ReadFrame
<1>2. /\ UNCHANGED <<s_inited, s_tempParams, s_pressParams, s_rawTemp, s_rawPress>>
      /\ phase' = phase /\ stale' = stale
  BY DEF calibVars, rawVars
<1>3. rx \in Seq(Octets)
  BY DEF BmpInv, BmpTypeOK, Octets
<1>4. /\ rx' \in Seq(Octets) /\ Len(rx') = Len(rx) + 1
      /\ \A all : Received(rx, all) /\ byte = all[Len(rx) + 1] => Received(rx', all)
  <2>1. rx' \in Seq(Octets) /\ Len(rx') = Len(rx) + 1
    BY <1>3
  <2>2. QED
    BY <1>3, <2>1, NextByte
<1>5. sample \in Samples
  BY DEF BmpInv, BmpTypeOK, BmpDeviceTypeOK
<1>6. BmpTypeOK'
  BY <1>1, <1>2, <1>4, <1>5, ResumedTypes DEF BmpTypeOK, Octets
<1>7. PortInv' /\ StartInv' /\ StartedMeasures'
  BY <1>1, <1>2, ResumedKeeps
<1>8. CalibInv'
  <2>1. /\ TempRight' = TempRight /\ PressRight' = PressRight
        /\ tempCoeffBytes' = tempCoeffBytes /\ pressCoeffBytes' = pressCoeffBytes
    BY <1>1, <1>2 DEF Resumed, TempRight, PressRight, tempCoeffBytes, pressCoeffBytes
  <2>2. CalibInv
    BY DEF BmpInv
  <2>3. phase = "tempCoeffs" => Len(rx') < TempRegs /\ Received(rx', tempCoeffBytes)
    BY <1>4, <2>2 DEF CalibInv
  <2>4. phase = "pressCoeffs" => Received(rx', pressCoeffBytes)
    BY <1>4, <2>2 DEF CalibInv
  <2>5. QED
    BY <1>2, <1>4, <2>1, <2>2, <2>3, <2>4 DEF CalibInv
<1>9. WholeInv'
  <2>1. CASE drdyFlag
    BY <1>1, <2>1 DEF WholeInv
  <2>2. CASE ~drdyFlag
    <3>1. OneSample
      BY <2>2 DEF BmpInv, WholeInv
    <3>2. from' \subseteq {sample} /\ sample' = sample
      BY <1>1, <3>1 DEF OneSample, Resumed
    <3>3. /\ phase = "rawTemp" => Received(rx', BytesOf(TemperatureOf[sample]))
          /\ phase = "rawPress" => Received(rx', BytesOf(PressureOf[sample]))
      BY <1>4, <3>1 DEF OneSample
    <3>4. OneSample'
      BY <1>2, <3>1, <3>2, <3>3 DEF OneSample, BytesOf
    <3>5. QED
      BY <3>4 DEF WholeInv
  <2>3. QED
    BY <2>1, <2>2
<1>10. StaleInv'
  BY <1>1, <1>2 DEF BmpInv, StaleInv, Resumed
<1>11. QED
  BY <1>6, <1>7, <1>8, <1>9, <1>10 DEF BmpInv
LEMMA TempCoeffsStep ==
  ASSUME BmpInv, readTempCoeffs
  PROVE  BmpInv'
<1> DEFINE byte == tempCoeffBytes[Len(rx) + 1]
           bytes == Append(rx, byte)
<1>1. /\ phase = "tempCoeffs" /\ readUnchanged /\ UNCHANGED <<from, stale>>
      /\ IF Len(bytes) = TempRegs
         THEN rx' = <<>> /\ calibrateTemp(bytes)
         ELSE rx' = bytes /\ UNCHANGED <<phase, calibVars, rawVars>>
  BY DEF readTempCoeffs, receive
<1>2. /\ BmpTypeOK /\ CalibInv /\ factory \in Factories
      /\ rx \in Seq(Octets) /\ Len(rx) < TempRegs /\ Len(rx) \in Nat
  BY <1>1 DEF BmpInv, BmpTypeOK, BmpDeviceTypeOK, CalibInv, Octets
<1>3. byte \in Octets
  <2>1. Len(rx) + 1 \in 1 .. TempRegs
    BY <1>2 DEF TempRegs
  <2>2. QED
    BY <1>2, <2>1, CalibrationRead
<1>4. /\ bytes \in Seq(Octets) /\ Len(bytes) = Len(rx) + 1
      /\ Received(bytes, tempCoeffBytes)
  BY <1>1, <1>2, <1>3, NextByte DEF CalibInv
<1> HIDE DEF bytes
<1>5. CASE Len(bytes) = TempRegs
  <2>1. /\ rx' = <<>> /\ s_tempParams' = parameters(bytes, tempCalib)
        /\ phase' = "pressCoeffs"
        /\ UNCHANGED <<s_inited, s_pressParams, s_rawTemp, s_rawPress>>
    BY <1>1, <1>5 DEF calibrateTemp, rawVars
  <2>2. /\ bytes = tempCoeffBytes
        /\ parameters(bytes, tempCalib) \in [DOMAIN tempCalib -> Int]
    BY <1>2, <1>4, <1>5, CalibrationRead
  <2>3. Resumed /\ UNCHANGED <<drdyFlag, start, waited>>
    BY <1>1, ReadFrame
  <2>4. /\ rx' \in Seq(0 .. Byte - 1) /\ Len(rx') = 0
        /\ \A all : Received(rx', all)
    BY <2>1, EmptyBytes
  <2>5. BmpTypeOK'
    BY <1>1, <2>1, <2>2, <2>3, <2>4, ResumedTypes DEF BmpTypeOK, PressRegs
  <2>6. PortInv' /\ StartInv' /\ StartedMeasures'
    BY <1>1, <2>1, <2>3, ResumedKeeps
  <2>7. CalibInv'
    <3>1. TempRight'
      BY <2>1, <2>2, <2>3 DEF TempRight, Resumed, tempCoeffBytes
    <3>2. PressRight' = PressRight
      BY <2>1, <2>3 DEF PressRight, Resumed, pressCoeffBytes
    <3>3. QED
      BY <1>2, <2>1, <2>4, <3>1, <3>2 DEF CalibInv
  <2>8. WholeInv'
    BY <1>1, <2>1, <2>3 DEF BmpInv, WholeInv, OneSample, Resumed
  <2>9. StaleInv'
    BY <1>1, <2>1, <2>3 DEF BmpInv, StaleInv, Resumed
  <2>10. QED
    BY <2>5, <2>6, <2>7, <2>8, <2>9 DEF BmpInv
<1>6. CASE Len(bytes) # TempRegs
  <2>1. rx' = Append(rx, byte) /\ UNCHANGED <<phase, calibVars, rawVars, stale>>
    BY <1>1, <1>6 DEF bytes
  <2>2. Len(rx) + 1 < TempRegs /\ Len(rx) + 1 < PressRegs
    BY <1>2, <1>4, <1>6 DEF TempRegs, PressRegs
  <2>3. from' = from
    BY <1>1
  <2> HIDE DEF byte
  <2>4. QED
    BY <1>1, <1>3, <2>1, <2>2, <2>3, MoreBytes DEF byte
<1>7. QED
  BY <1>5, <1>6

LEMMA PressCoeffsStep ==
  ASSUME BmpInv, readPressCoeffs
  PROVE  BmpInv'
<1> DEFINE byte == pressCoeffBytes[Len(rx) + 1]
           bytes == Append(rx, byte)
<1>1. /\ phase = "pressCoeffs" /\ readUnchanged /\ UNCHANGED <<from, stale>>
      /\ IF Len(bytes) = PressRegs
         THEN rx' = <<>> /\ calibratePress(bytes)
         ELSE rx' = bytes /\ UNCHANGED <<phase, calibVars, rawVars>>
  BY DEF readPressCoeffs, receive
<1>2. /\ BmpTypeOK /\ CalibInv /\ factory \in Factories
      /\ rx \in Seq(Octets) /\ Len(rx) < PressRegs /\ Len(rx) \in Nat
  BY <1>1 DEF BmpInv, BmpTypeOK, BmpDeviceTypeOK, Octets
<1>3. byte \in Octets
  <2>1. Len(rx) + 1 \in 1 .. PressRegs
    BY <1>2 DEF PressRegs
  <2>2. QED
    BY <1>2, <2>1, CalibrationRead
<1>4. /\ bytes \in Seq(Octets) /\ Len(bytes) = Len(rx) + 1
      /\ Received(bytes, pressCoeffBytes)
  BY <1>1, <1>2, <1>3, NextByte DEF CalibInv
<1> HIDE DEF bytes
<1>5. CASE Len(bytes) = PressRegs
  <2>1. /\ rx' = <<>> /\ s_pressParams' = parameters(bytes, pressCalib)
        /\ s_inited' = TRUE /\ phase' = "rawTemp"
        /\ UNCHANGED <<s_tempParams, s_rawTemp, s_rawPress>>
    BY <1>1, <1>5 DEF calibratePress, rawVars
  <2>2. /\ bytes = pressCoeffBytes
        /\ parameters(bytes, pressCalib) \in [DOMAIN pressCalib -> Int]
    BY <1>2, <1>4, <1>5, CalibrationRead
  <2>3. Resumed /\ UNCHANGED <<drdyFlag, start, waited>>
    BY <1>1, ReadFrame
  <2>4. /\ rx' \in Seq(0 .. Byte - 1) /\ Len(rx') = 0
        /\ \A all : Received(rx', all)
    BY <2>1, EmptyBytes
  <2>5. BmpTypeOK'
    <3>1. s_inited' \in BOOLEAN
      BY <2>1, Zenon
    <3>2. QED
      BY <1>1, <2>1, <2>2, <2>3, <2>4, <3>1, ResumedTypes DEF BmpTypeOK, PressRegs
  <2>6. PortInv' /\ StartInv' /\ StartedMeasures'
    BY <1>1, <2>1, <2>3, ResumedKeeps
  <2>7. CalibInv'
    <3>1. PressRight'
      BY <2>1, <2>2, <2>3 DEF PressRight, Resumed, pressCoeffBytes
    <3>2. TempRight' /\ s_inited'
      BY <1>1, <1>2, <2>1, <2>3 DEF CalibInv, TempRight, Resumed, tempCoeffBytes
    <3>3. QED
      BY <2>1, <2>4, <3>1, <3>2 DEF CalibInv
  <2>8. WholeInv'
    <3>1. from' = from /\ sample' = sample /\ drdyFlag' = drdyFlag
      BY <1>1, <2>3 DEF Resumed
    <3>2. QED
      BY <1>1, <2>1, <2>4, <3>1 DEF BmpInv, WholeInv, OneSample
  <2>9. StaleInv'
    BY <1>1, <2>1, <2>3 DEF BmpInv, StaleInv, Resumed
  <2>10. QED
    BY <2>5, <2>6, <2>7, <2>8, <2>9 DEF BmpInv
<1>6. CASE Len(bytes) # PressRegs
  <2>1. rx' = Append(rx, byte) /\ UNCHANGED <<phase, calibVars, rawVars, stale>>
    BY <1>1, <1>6 DEF bytes
  <2>2. Len(rx) + 1 < PressRegs
    BY <1>2, <1>4, <1>6 DEF PressRegs
  <2>3. from' = from
    BY <1>1
  <2> HIDE DEF byte
  <2>4. QED
    BY <1>1, <1>3, <2>1, <2>2, <2>3, MoreBytes DEF byte
<1>7. QED
  BY <1>5, <1>6
\* Three bytes make a raw value.
LEMMA RawType ==
  ASSUME NEW bytes \in [1 .. 3 -> Octets]
  PROVE  littleEndian(bytes) \in RawValues
<1>1. /\ bytes[1] \in 0 .. Byte - 1 /\ bytes[2] \in 0 .. Byte - 1
      /\ bytes[3] \in 0 .. Byte - 1 /\ DOMAIN bytes = 1 .. 3
  BY DEF Octets
<1>2. littleEndian(bytes) = 1 * bytes[1] + Byte * bytes[2] + (Byte * Byte) * bytes[3]
  BY <1>1, ByteTypes DEF littleEndian, shifted
<1>3. \A a, b, c \in 0 .. Byte - 1 :
        a + Byte * b + (Byte * Byte) * c \in 0 .. Byte * Byte * Byte - 1
  <2> SUFFICES ASSUME NEW a \in 0 .. Byte - 1, NEW b \in 0 .. Byte - 1,
                      NEW c \in 0 .. Byte - 1
               PROVE  a + Byte * b + (Byte * Byte) * c \in 0 .. Byte * Byte * Byte - 1
    OBVIOUS
  <2>1. Byte * b \in Nat /\ Byte * b <= Byte * (Byte - 1)
    BY ByteTypes
  <2>2. (Byte * Byte) * c \in Nat /\ (Byte * Byte) * c <= (Byte * Byte) * (Byte - 1)
    BY ByteTypes
  <2>3. Byte * (Byte - 1) = Byte * Byte - Byte
    BY ByteTypes
  <2>4. (Byte * Byte) * (Byte - 1) = Byte * Byte * Byte - Byte * Byte
    BY ByteTypes
  <2>5. QED
    BY <2>1, <2>2, <2>3, <2>4, ByteTypes
<1>4. QED
  BY <1>1, <1>2, <1>3 DEF RawValues

LEMMA RawTempStep ==
  ASSUME BmpInv, readRawTemp
  PROVE  BmpInv'
<1> DEFINE value == TemperatureOf[sample]
           byte == byteOf(value, Len(rx))
           bytes == Append(rx, byte)
<1>1. /\ phase = "rawTemp" /\ readUnchanged /\ stale' = stale
      /\ from' = from \union {sample}
      /\ IF Len(bytes) = 3
         THEN rx' = <<>> /\ keepTemp(bytes)
         ELSE rx' = bytes /\ UNCHANGED <<phase, calibVars, rawVars>>
  BY DEF readRawTemp, receive
<1>2. /\ BmpTypeOK /\ CalibInv /\ sample \in Samples
      /\ rx \in Seq(Octets) /\ Len(rx) \in 0 .. 2
  <2>1. BmpTypeOK /\ CalibInv /\ sample \in Samples
    BY DEF BmpInv, BmpTypeOK, BmpDeviceTypeOK
  <2>2. rx \in Seq(Octets)
    BY <2>1 DEF BmpTypeOK, Octets
  <2>3. Len(rx) < 3
    BY <1>1, <2>1 DEF CalibInv
  <2>4. Len(rx) \in 0 .. 3 - 1
    BY <2>2, <2>3, LengthBelow
  <2>5. QED
    BY <2>1, <2>2, <2>4
<1>3. value \in RawValues
  BY <1>2
<1>4. byte \in Octets /\ byte = BytesOf(value)[Len(rx) + 1]
  <2>1. byte \in Octets
    BY <1>2, <1>3, RawBytes
  <2>2. \A k \in 0 .. 2 : k + 1 \in 1 .. 3 /\ (k + 1) - 1 = k
    OBVIOUS
  <2>3. QED
    BY <1>2, <2>1, <2>2 DEF BytesOf
<1> HIDE DEF byte
<1>5. Resumed /\ UNCHANGED <<drdyFlag, start, waited>>
  BY <1>1, ReadFrame
<1>6. CASE Len(bytes) = 3
  <2>1. /\ rx' = <<>> /\ s_rawTemp' = littleEndian(bytes) /\ phase' = "rawPress"
        /\ UNCHANGED <<s_inited, s_tempParams, s_pressParams, s_rawPress>>
    BY <1>1, <1>6 DEF keepTemp, calibVars
  <2>2. bytes \in Seq(Octets) /\ DOMAIN bytes = 1 .. 3
    BY <1>2, <1>4, <1>6
  <2>3. Received(rx, BytesOf(value)) => littleEndian(bytes) = value
    <3>1. SUFFICES ASSUME Received(rx, BytesOf(value)) PROVE littleEndian(bytes) = value
      OBVIOUS
    <3>2. Received(bytes, BytesOf(value))
      BY <1>2, <1>4, <3>1, NextByte
    <3> HIDE DEF bytes, value
    <3>3. QED
      BY <1>3, <1>6, <2>2, <3>2, RawBytes
  <2> HIDE DEF bytes
  <2>4. littleEndian(bytes) \in RawValues
    <3>1. bytes \in [1 .. 3 -> Octets]
      BY <2>2
    <3>2. QED
      BY <3>1, RawType
  <2>5. /\ rx' \in Seq(0 .. Byte - 1) /\ Len(rx') = 0
        /\ \A all : Received(rx', all)
    BY <2>1, EmptyBytes
  <2>6. BmpTypeOK'
    BY <1>1, <1>2, <1>5, <2>1, <2>4, <2>5, ResumedTypes DEF BmpTypeOK, PressRegs
  <2>7. PortInv' /\ StartInv' /\ StartedMeasures'
    BY <1>1, <1>5, <2>1, ResumedKeeps
  <2>8. CalibInv'
    <3>1. TempRight' = TempRight /\ PressRight' = PressRight
      BY <1>5, <2>1 DEF Resumed, TempRight, PressRight, tempCoeffBytes, pressCoeffBytes
    <3>2. QED
      BY <1>1, <1>2, <2>1, <2>5, <3>1 DEF CalibInv
  <2>9. WholeInv'
    <3>1. CASE drdyFlag
      BY <1>5, <3>1 DEF WholeInv
    <3>2. CASE ~drdyFlag
      <4>1. OneSample
        BY <1>1, <3>2 DEF BmpInv, WholeInv
      <4>2. littleEndian(bytes) = value /\ from' = {sample}
        BY <1>1, <2>3, <4>1 DEF OneSample
      <4>3. OneSample'
        BY <1>1, <1>5, <2>1, <2>5, <4>1, <4>2 DEF OneSample, Resumed
      <4>4. QED
        BY <4>3 DEF WholeInv
    <3>3. QED
      BY <3>1, <3>2
  <2>10. StaleInv'
    BY <1>1, <1>5, <2>1 DEF BmpInv, StaleInv, Resumed
  <2>11. QED
    BY <2>6, <2>7, <2>8, <2>9, <2>10 DEF BmpInv
<1>7. CASE Len(bytes) # 3
  <2>1. rx' = Append(rx, byte) /\ UNCHANGED <<phase, calibVars, rawVars, stale>>
    BY <1>1, <1>7
  <2>2. Len(bytes) = Len(rx) + 1
    BY <1>2, <1>4, AppendProperties
  <2> HIDE DEF bytes
  <2> DEFINE l == Len(rx)
  <2>3. l \in 0 .. 2 /\ l + 1 # 3
    BY <1>2, <1>7, <2>2
  <2> HIDE DEF l
  <2>4. l + 1 < 3 /\ l + 1 < PressRegs
    BY <2>3 DEF PressRegs
  <2>5. Len(rx) + 1 < 3 /\ Len(rx) + 1 < PressRegs
    BY <2>4 DEF l
  <2>6. QED
    BY <1>1, <1>4, <2>1, <2>5, MoreBytes
<1>8. QED
  BY <1>6, <1>7

LEMMA RawPressStep ==
  ASSUME BmpInv, readRawPress
  PROVE  BmpInv'
<1> DEFINE value == PressureOf[sample]
           byte == byteOf(value, Len(rx))
           bytes == Append(rx, byte)
<1>1. /\ phase = "rawPress" /\ readUnchanged /\ stale' = stale
      /\ from' = from \union {sample}
      /\ IF Len(bytes) = 3
         THEN rx' = <<>> /\ keepPress(bytes)
         ELSE rx' = bytes /\ UNCHANGED <<phase, calibVars, rawVars>>
  BY DEF readRawPress, receive
<1>2. /\ BmpTypeOK /\ CalibInv /\ sample \in Samples
      /\ rx \in Seq(Octets) /\ Len(rx) \in 0 .. 2
  <2>1. BmpTypeOK /\ CalibInv /\ sample \in Samples
    BY DEF BmpInv, BmpTypeOK, BmpDeviceTypeOK
  <2>2. rx \in Seq(Octets)
    BY <2>1 DEF BmpTypeOK, Octets
  <2>3. Len(rx) < 3
    BY <1>1, <2>1 DEF CalibInv
  <2>4. Len(rx) \in 0 .. 3 - 1
    BY <2>2, <2>3, LengthBelow
  <2>5. QED
    BY <2>1, <2>2, <2>4
<1>3. value \in RawValues
  BY <1>2
<1>4. byte \in Octets /\ byte = BytesOf(value)[Len(rx) + 1]
  <2>1. byte \in Octets
    BY <1>2, <1>3, RawBytes
  <2>2. \A k \in 0 .. 2 : k + 1 \in 1 .. 3 /\ (k + 1) - 1 = k
    OBVIOUS
  <2>3. QED
    BY <1>2, <2>1, <2>2 DEF BytesOf
<1> HIDE DEF byte
<1>5. Resumed /\ UNCHANGED <<drdyFlag, start, waited>>
  BY <1>1, ReadFrame
<1>6. CASE Len(bytes) = 3
  <2>1. /\ rx' = <<>> /\ s_rawPress' = littleEndian(bytes) /\ phase' = "deliver"
        /\ UNCHANGED <<s_inited, s_tempParams, s_pressParams, s_rawTemp>>
    BY <1>1, <1>6 DEF keepPress, calibVars
  <2>2. bytes \in Seq(Octets) /\ DOMAIN bytes = 1 .. 3
    BY <1>2, <1>4, <1>6
  <2>3. Received(rx, BytesOf(value)) => littleEndian(bytes) = value
    <3>1. SUFFICES ASSUME Received(rx, BytesOf(value)) PROVE littleEndian(bytes) = value
      OBVIOUS
    <3>2. Received(bytes, BytesOf(value))
      BY <1>2, <1>4, <3>1, NextByte
    <3> HIDE DEF bytes, value
    <3>3. QED
      BY <1>3, <1>6, <2>2, <3>2, RawBytes
  <2> HIDE DEF bytes
  <2>4. littleEndian(bytes) \in RawValues
    <3>1. bytes \in [1 .. 3 -> Octets]
      BY <2>2
    <3>2. QED
      BY <3>1, RawType
  <2>5. /\ rx' \in Seq(0 .. Byte - 1) /\ Len(rx') = 0
        /\ \A all : Received(rx', all)
    BY <2>1, EmptyBytes
  <2>6. BmpTypeOK'
    BY <1>1, <1>2, <1>5, <2>1, <2>4, <2>5, ResumedTypes DEF BmpTypeOK, PressRegs
  <2>7. PortInv' /\ StartInv' /\ StartedMeasures'
    BY <1>1, <1>5, <2>1, ResumedKeeps
  <2>8. CalibInv'
    <3>1. TempRight' = TempRight /\ PressRight' = PressRight
      BY <1>5, <2>1 DEF Resumed, TempRight, PressRight, tempCoeffBytes, pressCoeffBytes
    <3>2. QED
      BY <1>1, <1>2, <2>1, <2>5, <3>1 DEF CalibInv
  <2>9. WholeInv'
    <3>1. CASE drdyFlag
      BY <1>5, <3>1 DEF WholeInv
    <3>2. CASE ~drdyFlag
      <4>1. OneSample
        BY <1>1, <3>2 DEF BmpInv, WholeInv
      <4>2. littleEndian(bytes) = value /\ from' = {sample}
        BY <1>1, <2>3, <4>1 DEF OneSample
      <4>3. OneSample'
        BY <1>1, <1>5, <2>1, <2>5, <4>1, <4>2 DEF OneSample, Resumed
      <4>4. QED
        BY <4>3 DEF WholeInv
    <3>3. QED
      BY <3>1, <3>2
  <2>10. StaleInv'
    BY <1>1, <1>5, <2>1 DEF BmpInv, StaleInv, Resumed
  <2>11. QED
    BY <2>6, <2>7, <2>8, <2>9, <2>10 DEF BmpInv
<1>7. CASE Len(bytes) # 3
  <2>1. rx' = Append(rx, byte) /\ UNCHANGED <<phase, calibVars, rawVars, stale>>
    BY <1>1, <1>7
  <2>2. Len(bytes) = Len(rx) + 1
    BY <1>2, <1>4, AppendProperties
  <2> HIDE DEF bytes
  <2> DEFINE l == Len(rx)
  <2>3. l \in 0 .. 2 /\ l + 1 # 3
    BY <1>2, <1>7, <2>2
  <2> HIDE DEF l
  <2>4. l + 1 < 3 /\ l + 1 < PressRegs
    BY <2>3 DEF PressRegs
  <2>5. Len(rx) + 1 < 3 /\ Len(rx) + 1 < PressRegs
    BY <2>4 DEF l
  <2>6. QED
    BY <1>1, <1>4, <2>1, <2>5, MoreBytes
<1>8. QED
  BY <1>6, <1>7

LEMMA FailsStep ==
  ASSUME BmpInv, readFails
  PROVE  BmpInv'
<1>1. /\ phase' = "idle" /\ rx' = <<>> /\ from' = {} /\ stale' = stale
      /\ phase \in Reading /\ readUnchanged
      /\ UNCHANGED <<s_inited, s_tempParams, s_pressParams, s_rawTemp, s_rawPress>>
  BY DEF readFails, calibVars, rawVars
<1>2. Resumed /\ UNCHANGED <<drdyFlag, start, waited>>
  BY <1>1, ReadFrame
<1>3. rx' \in Seq(0 .. Byte - 1) /\ Len(rx') = 0
  BY <1>1, EmptyBytes
<1>4. BmpTypeOK'
  BY <1>1, <1>2, <1>3, ResumedTypes DEF BmpTypeOK, PressRegs
<1>5. PortInv' /\ StartInv' /\ StartedMeasures'
  BY <1>1, <1>2, ResumedKeeps
<1>6. CalibInv'
  BY <1>1, <1>2, CalibKept DEF BmpInv, calibVars, Resumed
<1>7. WholeInv' /\ StaleInv'
  BY <1>1, <1>2 DEF BmpInv, WholeInv, StaleInv, Resumed
<1>8. QED
  BY <1>4, <1>5, <1>6, <1>7 DEF BmpInv

LEMMA DeliverStep ==
  ASSUME BmpInv, deliver
  PROVE  BmpInv'
<1>1. /\ phase = "deliver" /\ phase' = "idle" /\ from' = {} /\ rx' = rx
      /\ readUnchanged
      /\ UNCHANGED <<s_inited, s_tempParams, s_pressParams, s_rawTemp, s_rawPress>>
      /\ stale' = IF 0 \in from THEN Min({stale + 1, 2}) ELSE stale
  BY DEF deliver, calibVars, rawVars
<1>2. Resumed /\ UNCHANGED <<drdyFlag, start, waited>>
  BY <1>1, ReadFrame
<1>3. stale \in 0 .. 1 /\ (0 \in from => stale = 0)
  BY DEF BmpInv, StaleInv
<1>4. stale' = IF 0 \in from THEN 1 ELSE stale
  <2>1. CASE 0 \in from
    <3>1. Min({0 + 1, 2}) = 1
      BY MinOfTwo
    <3>2. QED
      BY <1>1, <1>3, <2>1, <3>1
  <2>2. QED
    BY <1>1, <2>1
<1>5. BmpTypeOK'
  BY <1>1, <1>2, <1>3, <1>4, ResumedTypes DEF BmpTypeOK
<1>6. PortInv' /\ StartInv' /\ StartedMeasures'
  BY <1>1, <1>2, ResumedKeeps
<1>7. CalibInv'
  <2>1. rx' = <<>>
    BY <1>1 DEF BmpInv, CalibInv
  <2>2. QED
    BY <1>1, <1>2, <2>1, CalibKept DEF BmpInv, calibVars, Resumed
<1>8. WholeInv'
  BY <1>1 DEF WholeInv
<1>9. StaleInv'
  <2>1. sample = 0 /\ drdyFlag => FALSE
    BY <1>1 DEF BmpInv, StaleInv
  <2>2. stale' \in 0 .. 1
    BY <1>3, <1>4
  <2>3. QED
    BY <1>1, <1>2, <2>1, <2>2 DEF StaleInv, Resumed
<1>10. QED
  BY <1>5, <1>6, <1>7, <1>8, <1>9 DEF BmpInv
-----------------------------------------------------------------------------
\* A sample made while a reading is under way sets the flag.
LEMMA SampleReadyStep ==
  ASSUME BmpInv, sampleReady
  PROVE  BmpInv'
<1>1. /\ UNCHANGED halVars /\ UNCHANGED <<isrAttached, phase, pc, p_spi, start, waited, rx>>
      /\ UNCHANGED <<from, stale, measuring, drdyEnabled, factory>>
      /\ UNCHANGED <<s_inited, s_tempParams, s_pressParams, s_rawTemp, s_rawPress>>
      /\ made < MaxSamples /\ made' = made + 1 /\ sample' = made + 1
      /\ drdyFlag' = IF drdyEnabled THEN drdyFlag \/ isrAttached ELSE drdyFlag
  BY DEF sampleReady, makeSample, espGpioIsr, halVars, clockVars, calibVars, rawVars
<1>2. sample' \in Samples /\ made' \in Samples /\ sample' # 0
  BY <1>1 DEF BmpInv, BmpTypeOK, BmpDeviceTypeOK, Samples
<1>3. Started => drdyFlag' = TRUE
  BY <1>1 DEF BmpInv, StartedMeasures
<1>4. BmpTypeOK'
  <2>1. drdyFlag' \in BOOLEAN
    <3>1. drdyFlag \in BOOLEAN /\ isrAttached \in BOOLEAN
      BY DEF BmpInv, BmpTypeOK, HalTypeOK
    <3>2. (drdyFlag \/ isrAttached) \in BOOLEAN
      BY <3>1, Zenon
    <3>3. CASE drdyEnabled
      BY <1>1, <3>2, <3>3
    <3>4. CASE ~drdyEnabled
      BY <1>1, <3>1, <3>4
    <3>5. QED
      BY <3>3, <3>4
  <2>2. HalTypeOK'
    BY <1>1 DEF BmpInv, BmpTypeOK, HalTypeOK, halVars, spiVars
  <2>3. BmpDeviceTypeOK'
    BY <1>1, <1>2 DEF BmpInv, BmpTypeOK, BmpDeviceTypeOK
  <2>4. QED
    BY <1>1, <2>1, <2>2, <2>3 DEF BmpInv, BmpTypeOK
<1>5. PortInv' /\ reached' = reached
  BY <1>1, PortKept DEF BmpInv
<1>6. StartInv' /\ StartedMeasures'
  BY <1>1, <1>5, StartKept, MeasuresKept DEF BmpInv
<1>7. CalibInv'
  BY <1>1, CalibKept DEF BmpInv, calibVars
<1>8. WholeInv'
  BY <1>1, <1>3 DEF WholeInv
<1>9. StaleInv'
  BY <1>1, <1>2 DEF BmpInv, StaleInv
<1>10. QED
  BY <1>4, <1>5, <1>6, <1>7, <1>8, <1>9 DEF BmpInv

LEMMA RestartStep ==
  ASSUME BmpInv, restart
  PROVE  BmpInv'
<1>1. /\ phase' = "off" /\ pc' = 1 /\ p_spi' = NULL /\ drdyFlag' = FALSE
      /\ start' = 0 /\ waited' = 0 /\ rx' = <<>>
      /\ s_inited' = FALSE /\ s_tempParams' = Zeroed /\ s_pressParams' = Zeroed
      /\ s_rawTemp' = 0 /\ s_rawPress' = 0 /\ from' = {} /\ stale' = 0
      /\ halReset /\ UNCHANGED <<measuring, drdyEnabled, sample, made, factory>>
  BY DEF restart, bmpDevice
<1>2. BmpTypeOK'
  <2>1. HalTypeOK'
    <3>1. s_p_halPort' \in BOOLEAN /\ s_busInitialized' \in BOOLEAN /\ isrAttached' \in BOOLEAN
      BY <1>1, Zenon DEF halReset
    <3>2. s_spiDevCount' \in 0 .. MaxSpiDevices
      BY <1>1 DEF halReset
    <3>3. s_spiHandles' \in [Slots -> SpiDevices \union {NULL}]
      BY <1>1 DEF halReset
    <3>4. QED
      BY <3>1, <3>2, <3>3 DEF HalTypeOK
  <2>2. BmpDeviceTypeOK'
    BY <1>1 DEF BmpInv, BmpTypeOK, BmpDeviceTypeOK
  <2>3. pc' \in 1 .. Len(bmp390Init)
    BY <1>1, Program DEF IntCtrlAt
  <2>4. drdyFlag' \in BOOLEAN /\ s_inited' \in BOOLEAN
    BY <1>1, Zenon
  <2>5. rx' \in Seq(0 .. Byte - 1) /\ Len(rx') = 0
    BY <1>1, EmptyBytes
  <2>6. 0 \in RawValues /\ 0 \in 0 .. TimeMod - 1 /\ 0 \in 0 .. 2
    BY ByteTypes DEF RawValues
  <2>7. QED
    BY <1>1, <2>1, <2>2, <2>3, <2>4, <2>5, <2>6 DEF BmpTypeOK, PressRegs
<1>3. PortInv'
  <2>1. \A h \in Slots : s_spiHandles'[h] = NULL
    BY <1>1 DEF halReset
  <2>2. QED
    BY <1>1, <2>1 DEF PortInv
<1>4. StartInv' /\ StartedMeasures' /\ CalibInv' /\ WholeInv' /\ StaleInv'
  BY <1>1 DEF StartInv, StartedMeasures, CalibInv, WholeInv, StaleInv
<1>5. QED
  BY <1>2, <1>3, <1>4 DEF BmpInv

LEMMA BmpStutter ==
  ASSUME BmpInv, UNCHANGED bmpVars
  PROVE  BmpInv'
<1>1. /\ Resumed /\ UNCHANGED <<phase, drdyFlag, start, waited, rx, from, stale>>
      /\ UNCHANGED <<s_inited, s_tempParams, s_pressParams, s_rawTemp, s_rawPress>>
  BY DEF bmpVars, bmpDevice, bmpDriver, clockVars, calibVars, rawVars, Resumed
<1>2. BmpTypeOK'
  BY <1>1, ResumedTypes DEF BmpTypeOK
<1>3. PortInv' /\ reached' = reached
  BY <1>1, PortKept DEF BmpInv, Resumed
<1>4. StartInv' /\ StartedMeasures'
  BY <1>1, <1>3, StartKept, MeasuresKept DEF BmpInv, Resumed, halVars
<1>5. CalibInv'
  BY <1>1, CalibKept DEF BmpInv, Resumed, calibVars
<1>6. WholeInv' /\ StaleInv'
  BY <1>1 DEF BmpInv, Resumed, WholeInv, OneSample, Received, BytesOf, StaleInv
<1>7. QED
  BY <1>2, <1>3, <1>4, <1>5, <1>6 DEF BmpInv

LEMMA BmpNextInv ==
  ASSUME BmpInv, [BmpNext]_bmpVars
  PROVE  BmpInv'
<1>1. CASE setUp \/ register
  BY <1>1, SetUpStep, RegisterStep
<1>2. CASE taskBegin \/ waitDrdy \/ WaitStep
  BY <1>2, WaitSteps
<1>3. CASE InitStep
  BY <1>3, TransferStep, DelayStep DEF InitStep
<1>4. CASE ReadStep
  BY <1>4, TempCoeffsStep, PressCoeffsStep, RawTempStep, RawPressStep, FailsStep,
     DeliverStep DEF ReadStep
<1>5. CASE clockTick \/ sampleReady \/ restart
  BY <1>5, TickStep, SampleReadyStep, RestartStep
<1>6. CASE UNCHANGED bmpVars
  BY <1>6, BmpStutter
<1>7. QED
  BY <1>1, <1>2, <1>3, <1>4, <1>5, <1>6 DEF BmpNext, DriverStep

LEMMA BmpInductive == BmpSpec => []BmpInv
  BY BmpInitInv, BmpNextInv, PTL DEF BmpSpec
-----------------------------------------------------------------------------
(***************************************************************************)
(* The theorems.                                                           *)
(***************************************************************************)
\* The driver's state keeps its type: the parameters are zero or complete,
\* every raw value put together of three bytes is one, the clock and the
\* bytes received stay in their bounds.
THEOREM BmpTyped == BmpSpec => []BmpTypeOK
<1>1. BmpInv => BmpTypeOK
  BY DEF BmpInv
<1>2. QED
  BY <1>1, BmpInductive, PTL

\* Whatever the order and the failures of the set-up of the bus, a driver
\* whose init has returned OK talks to a BMP390 that measures and interrupts.
THEOREM RegisteredMeasures == BmpSpec => []StartedMeasures
<1>1. BmpInv => StartedMeasures
  BY DEF BmpInv
<1>2. QED
  BY <1>1, BmpInductive, PTL

\* No reading is compensated with parameters other than all coefficients of
\* this sensor, for every sensor and every history of failed calibrations.
THEOREM CompensationCalibrated == BmpSpec => []Calibrated
<1>1. BmpInv => Calibrated
  BY DEF BmpInv, CalibInv, Calibrated, TempRight, PressRight
<1>2. QED
  BY <1>1, BmpInductive, PTL

\* A reading handed over is of one sample, byte for byte, or the interrupt
\* has set the flag again.
THEOREM ReadingsWhole == BmpSpec => []WholeOrFlagged
<1>1. BmpInv => WholeOrFlagged
  <2>1. SUFFICES ASSUME BmpInv, phase = "deliver", ~drdyFlag
                 PROVE  \E n \in Samples : from = {n} /\ s_rawTemp = TemperatureOf[n]
                                                     /\ s_rawPress = PressureOf[n]
    BY DEF WholeOrFlagged
  <2>2. /\ from = {sample} /\ s_rawTemp = TemperatureOf[sample]
        /\ s_rawPress = PressureOf[sample] /\ sample \in Samples
    BY <2>1 DEF BmpInv, WholeInv, OneSample, BmpTypeOK, BmpDeviceTypeOK
  <2>3. QED
    BY <2>2
<1>2. QED
  BY <1>1, BmpInductive, PTL

\* The reset values are delivered at most once for each registration.
THEOREM ResetValuesOnce == BmpSpec => []StaleOnce
<1>1. BmpInv => StaleOnce
  BY DEF BmpInv, StaleInv, StaleOnce
<1>2. QED
  BY <1>1, BmpInductive, PTL

\* No delay and no wait for the sensor is cut short by the clock's wrap, for
\* every width of the clock and every time at which the wait begins.
THEOREM WaitsNotCutShort == BmpSpec => WaitsInFull
<1>1. ASSUME BmpInv PROVE elapsedMs(now, start) = waited
  <2>1. start \in 0 .. TimeMod - 1 /\ waited \in 0 .. TimeMod - 1 /\ TimeMod \in Nat \ {0}
    BY <1>1 DEF BmpInv, BmpTypeOK
  <2>2. QED
    BY <2>1, Elapsed DEF elapsedMs, now
<1>2. ASSUME BmpInv
      PROVE  /\ delayEnd => waited >= DelayMs
             /\ waitLooksAtClock /\ phase' = "idle" => waited >= Timeout
  BY <1>1, <1>2 DEF delayEnd, waitLooksAtClock, timedOut
<1>3. BmpInv =>
        [/\ delayEnd => waited >= DelayMs
         /\ waitLooksAtClock /\ phase' = "idle" => waited >= Timeout]_bmpVars
  BY <1>2
<1>4. QED
  BY <1>3, BmpInductive, PTL DEF WaitsInFull
=============================================================================
