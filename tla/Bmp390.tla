------------------------------- MODULE Bmp390 -------------------------------
(***************************************************************************)
(* services/bmp390/bmp390.c: the driver of the pressure sensor, over the   *)
(* SPI slots and the clock of HalEsp32 and the device of Bmp390Device.     *)
(*                                                                         *)
(* The application sets the bus and its devices up, in any order and with  *)
(* failures, and registers the service: bmp390Init.  Then bmp390Task reads *)
(* a sample when the interrupt has set the flag; an application that uses  *)
(* the driver by itself calls waitDrdy instead.  getAltitude reads the     *)
(* coefficients the first time and the two raw values every time, a        *)
(* register per transfer.  A transfer that fails may or may not have       *)
(* reached the device.  The processor may restart between any two steps;   *)
(* the device does not.                                                    *)
(*                                                                         *)
(* "waited" is the time since "start" was read from the clock; the clock   *)
(* itself is start + waited, wrapped.  History variables: "from", the      *)
(* samples whose bytes are in the reading; "stale", how many readings with *)
(* reset values were delivered since the registration.                     *)
(***************************************************************************)
EXTENDS HalEsp32, Bmp390Device, FiniteSetsExt

CONSTANTS
  SpiDevIdx,      \* spiDevIdx of the BMP390_t
  DelayMs,        \* 100, the delays of softReset and enableSpiMode
  Timeout,        \* timeout_ms of waitDrdy
  PollGap         \* bound: a loop reads the clock at least this often

ASSUME Bmp390Assumption ==
  /\ SpiDevIdx \in Nat /\ DelayMs \in Nat /\ Timeout \in Nat
  /\ PollGap \in Nat \ {0}
  /\ DelayMs + PollGap < TimeMod /\ Timeout + PollGap < TimeMod

VARIABLES phase,       \* where the driver is
          pc,          \* the next operation of bmp390Init
          p_spi,
          drdyFlag,
          start, waited,
          rx,          \* bytes received so far by the spiTransmit under way
          s_inited, s_tempParams, s_pressParams,
          s_rawTemp, s_rawPress,
          from, stale

clockVars == <<start, waited>>
calibVars == <<s_inited, s_tempParams, s_pressParams>>
rawVars   == <<s_rawTemp, s_rawPress>>
bmpDriver == <<phase, pc, p_spi, drdyFlag, clockVars, rx, calibVars, rawVars,
               from, stale>>
bmpVars   == <<halVars, bmpDevice, bmpDriver>>

Calibrating == {"tempCoeffs", "pressCoeffs"}
Measuring   == {"rawTemp", "rawPress"}
Reading     == Calibrating \union Measuring
Waiting     == {"waitFlag", "waitClock"}
Resting     == {"off", "idle"}

\* What a parameter is before calibration: the static zero.
Zeroed == <<>>

BmpInit ==
  /\ HalInit /\ BmpDeviceInit
  /\ phase = "off" /\ pc = 1 /\ p_spi = NULL
  /\ drdyFlag = FALSE
  /\ start = 0 /\ waited = 0
  /\ rx = <<>>
  /\ s_inited = FALSE /\ s_tempParams = Zeroed /\ s_pressParams = Zeroed
  /\ s_rawTemp = 0 /\ s_rawPress = 0
  /\ from = {} /\ stale = 0

-----------------------------------------------------------------------------
(***************************************************************************)
(* bmp390Init as the sequence of its transfers and delays.                 *)
(***************************************************************************)
write(reg) == <<[do |-> "write", reg |-> reg]>>
read(reg)  == <<[do |-> "read", reg |-> reg]>>
delay      == <<[do |-> "delay"]>>

softReset     == write("SOFT_RESET") \o delay
enableSpiMode == write("IF_CONF") \o delay
configCheck   == read("IF_CONF") \o read("SOFT_RESET") \o read("CHIP_ID")
auxConfig     == softReset \o enableSpiMode \o configCheck

prepareMeasure ==
  write("OSR") \o write("ODR") \o write("IIR") \o write("PWRCTRL")

intEnableDrdy == write("INT_CTRL")

bmp390Init == auxConfig \o prepareMeasure \o intEnableDrdy

(***************************************************************************)
(* The coefficients in the bytes read: offset, length, sign.               *)
(***************************************************************************)
Coeff(at, bytes, signed) == [at |-> at, bytes |-> bytes, signed |-> signed]

tempCalib == <<Coeff(0, 2, FALSE), Coeff(2, 2, TRUE), Coeff(4, 1, TRUE)>>

pressCalib ==
  <<Coeff(0, 2, FALSE), Coeff(2, 2, FALSE), Coeff(4, 1, TRUE), Coeff(5, 1, TRUE),
    Coeff(6, 2, FALSE), Coeff(8, 2, FALSE), Coeff(10, 1, TRUE), Coeff(11, 1, TRUE),
    Coeff(12, 2, TRUE), Coeff(14, 1, TRUE), Coeff(15, 1, TRUE)>>

TempRegs  == 5
PressRegs == 16

\* The byte in place i of a value of up to three, shifted to where it belongs.
shifted(bytes, i) == IF i \in DOMAIN bytes THEN ByteWeight[i] * bytes[i] ELSE 0

\* Fault: the second byte is shifted like the third.
littleEndian_shift(bytes) == shifted(bytes, 1) + Byte * shifted(bytes, 2) + shifted(bytes, 3)

littleEndian(bytes) == shifted(bytes, 1) + shifted(bytes, 2) + shifted(bytes, 3)

coefficient(bytes, c) ==
  LET value == littleEndian(SubSeq(bytes, c.at + 1, c.at + c.bytes))
      range == Byte * ByteWeight[c.bytes]
  IN IF c.signed /\ value >= range \div 2 THEN value - range ELSE value

\* The scaling to floats is left out.
parameters(bytes, calib) == [k \in DOMAIN calib |-> coefficient(bytes, calib[k])]

tempCoeffBytes  == [i \in 1 .. TempRegs |-> factory[i - 1]]
pressCoeffBytes == [i \in 1 .. PressRegs |-> factory[TempRegs + i - 1]]

-----------------------------------------------------------------------------
(***************************************************************************)
(* The application sets the port up.                                       *)
(***************************************************************************)
setUp ==
  /\ phase \in Resting
  /\ \/ setHalPort
     \/ halSpiBusInit
     \/ \E idx \in 0 .. MaxSpiDevices : halSpiDeviceInit(halSpiGetHandle(idx))
  /\ UNCHANGED <<bmpDevice, bmpDriver>>

(***************************************************************************)
(* bmp390Init, called by register.                                         *)
(***************************************************************************)
register ==
  /\ phase = "off"
  /\ phase' = "starting" /\ pc' = 1
  /\ p_spi' = halSpiGetHandle(SpiDevIdx)
  /\ drdyFlag' = FALSE
  /\ halAttachIsr
  /\ stale' = 0
  /\ UNCHANGED <<s_p_halPort, spiVars, bmpDevice, clockVars, rx, calibVars,
                 rawVars, from>>

operation == bmp390Init[pc]

goOn ==
  IF pc = Len(bmp390Init)
  THEN phase' = "idle" /\ pc' = 1
  ELSE phase' = "starting" /\ pc' = pc + 1

giveUp == phase' = "off" /\ pc' = 1

initUnchanged ==
  UNCHANGED <<halVars, p_spi, drdyFlag, rx, calibVars, rawVars, from, stale>>

reached == halTransmitsTo(p_spi)

\* A frame at the device the handle stands for; another one is not modelled.
takeFrame ==
  IF operation.do = "write" /\ reached = "bmp390"
  THEN takeWrite(operation.reg)
  ELSE UNCHANGED bmpDevice

\* Fault: configCheck does not compare the chip id.
identified_any == TRUE

\* buf[8] = 0x60, which is what the chip id register of a BMP390 holds.
identified == operation.reg = "CHIP_ID" => reached = "bmp390"

initTransfer ==
  /\ phase = "starting" /\ operation.do \in {"write", "read"}
  /\ \/ reached # NULL /\ identified /\ takeFrame /\ goOn
     \/ (takeFrame \/ UNCHANGED bmpDevice) /\ giveUp
  /\ UNCHANGED clockVars /\ initUnchanged

delayBegin ==
  /\ phase = "starting" /\ operation.do = "delay"
  /\ phase' = "delay"
  /\ start' \in 0 .. TimeMod - 1 /\ waited' = 0
  /\ UNCHANGED <<bmpDevice, pc>> /\ initUnchanged

now == (start + waited) % TimeMod

delayEnd ==
  /\ phase = "delay"
  /\ elapsedMs(now, start) >= DelayMs
  /\ goOn
  /\ start' = 0 /\ waited' = 0
  /\ UNCHANGED bmpDevice /\ initUnchanged

clockTick ==
  /\ phase \in {"delay"} \union Waiting
  /\ waited < PollGap + (IF phase = "delay" THEN DelayMs ELSE Timeout)
  /\ waited' = waited + 1
  /\ UNCHANGED <<halVars, bmpDevice, phase, pc, p_spi, drdyFlag, start, rx,
                 calibVars, rawVars, from, stale>>

-----------------------------------------------------------------------------
(***************************************************************************)
(* bmp390Task up to its read, and waitDrdy.                                *)
(***************************************************************************)
beginReading ==
  /\ phase' = IF s_inited THEN "rawTemp" ELSE "tempCoeffs"
  /\ rx' = <<>> /\ from' = {}

\* Fault: the task does not clear the flag.
taskBegin_keepsFlag ==
  /\ phase = "idle" /\ drdyFlag
  /\ beginReading
  /\ UNCHANGED <<halVars, bmpDevice, pc, p_spi, drdyFlag, clockVars, calibVars,
                 rawVars, stale>>

\* The flag is cleared first; without a packet of the pool that is all.
taskBegin ==
  /\ phase = "idle" /\ drdyFlag
  /\ drdyFlag' = FALSE
  /\ beginReading \/ UNCHANGED <<phase, rx, from>>
  /\ UNCHANGED <<halVars, bmpDevice, pc, p_spi, clockVars, calibVars, rawVars,
                 stale>>

waitUnchanged ==
  UNCHANGED <<halVars, bmpDevice, pc, p_spi, calibVars, rawVars, stale>>

waitDrdy ==
  /\ phase = "idle"
  /\ phase' = "waitFlag"
  /\ start' \in 0 .. TimeMod - 1 /\ waited' = 0
  /\ UNCHANGED <<drdyFlag, rx, from>> /\ waitUnchanged

waitTakesFlag ==
  /\ phase = "waitFlag" /\ drdyFlag
  /\ drdyFlag' = FALSE
  /\ start' = 0 /\ waited' = 0
  /\ beginReading
  /\ waitUnchanged

waitNoFlag ==
  /\ phase = "waitFlag" /\ ~drdyFlag
  /\ phase' = "waitClock"
  /\ UNCHANGED <<drdyFlag, clockVars, rx, from>> /\ waitUnchanged

timedOut == elapsedMs(now, start) >= Timeout

waitLooksAtClock ==
  /\ phase = "waitClock"
  /\ IF timedOut
     THEN phase' = "idle" /\ start' = 0 /\ waited' = 0
     ELSE phase' = "waitFlag" /\ UNCHANGED clockVars
  /\ UNCHANGED <<drdyFlag, rx, from>> /\ waitUnchanged

-----------------------------------------------------------------------------
(***************************************************************************)
(* getAltitude.                                                            *)
(***************************************************************************)
readUnchanged == UNCHANGED <<halVars, bmpDevice, pc, p_spi, drdyFlag, clockVars>>

\* One more byte; with the last of n, "then" says what becomes of them.
receive(byte, n, then(_)) ==
  LET bytes == Append(rx, byte)
  IN IF Len(bytes) = n
     THEN rx' = <<>> /\ then(bytes)
     ELSE rx' = bytes /\ UNCHANGED <<phase, calibVars, rawVars>>

\* Fault: the calibration counts as done with its first half.
calibrateTemp_inits(bytes) ==
  /\ s_tempParams' = parameters(bytes, tempCalib)
  /\ s_inited' = TRUE
  /\ phase' = "pressCoeffs"
  /\ UNCHANGED <<s_pressParams, rawVars>>

calibrateTemp(bytes) ==
  /\ s_tempParams' = parameters(bytes, tempCalib)
  /\ phase' = "pressCoeffs"
  /\ UNCHANGED <<s_inited, s_pressParams, rawVars>>

readTempCoeffs ==
  /\ phase = "tempCoeffs" /\ reached # NULL
  /\ receive(tempCoeffBytes[Len(rx) + 1], TempRegs, calibrateTemp)
  /\ UNCHANGED <<from, stale>> /\ readUnchanged

calibratePress(bytes) ==
  /\ s_pressParams' = parameters(bytes, pressCalib)
  /\ s_inited' = TRUE
  /\ phase' = "rawTemp"
  /\ UNCHANGED <<s_tempParams, rawVars>>

readPressCoeffs ==
  /\ phase = "pressCoeffs" /\ reached # NULL
  /\ receive(pressCoeffBytes[Len(rx) + 1], PressRegs, calibratePress)
  /\ UNCHANGED <<from, stale>> /\ readUnchanged

keepTemp(bytes) ==
  /\ s_rawTemp' = littleEndian(bytes)
  /\ phase' = "rawPress"
  /\ UNCHANGED <<calibVars, s_rawPress>>

readRawTemp ==
  /\ phase = "rawTemp" /\ reached # NULL
  /\ receive(byteOf(TemperatureOf[sample], Len(rx)), 3, keepTemp)
  /\ from' = from \union {sample}
  /\ UNCHANGED stale /\ readUnchanged

keepPress(bytes) ==
  /\ s_rawPress' = littleEndian(bytes)
  /\ phase' = "deliver"
  /\ UNCHANGED <<calibVars, s_rawTemp>>

\* Fault: the flag is cleared when the reading is complete.
readRawPress_clears ==
  /\ phase = "rawPress" /\ reached # NULL
  /\ receive(byteOf(PressureOf[sample], Len(rx)), 3, keepPress)
  /\ from' = from \union {sample}
  /\ drdyFlag' = (drdyFlag /\ phase' # "deliver")
  /\ UNCHANGED <<stale, halVars, bmpDevice, pc, p_spi, clockVars>>

readRawPress ==
  /\ phase = "rawPress" /\ reached # NULL
  /\ receive(byteOf(PressureOf[sample], Len(rx)), 3, keepPress)
  /\ from' = from \union {sample}
  /\ UNCHANGED stale /\ readUnchanged

\* A transfer fails: getAltitude returns, what it has learnt stays.
readFails ==
  /\ phase \in Reading
  /\ phase' = "idle" /\ rx' = <<>> /\ from' = {}
  /\ UNCHANGED <<calibVars, rawVars, stale>> /\ readUnchanged

\* The reading is published, or returned to the caller of getAltitude.
deliver ==
  /\ phase = "deliver"
  /\ phase' = "idle" /\ from' = {}
  /\ stale' = IF 0 \in from THEN Min({stale + 1, 2}) ELSE stale
  /\ UNCHANGED <<rx, calibVars, rawVars>> /\ readUnchanged

\* The powers compensatePressure takes of raw_press, in 32 bits.
pressurePowers ==
  LET word == Byte ^ 4
  IN <<(s_rawPress ^ 2) % word, (s_rawPress ^ 3) % word>>

-----------------------------------------------------------------------------
sampleReady ==
  /\ makeSample
  /\ drdyFlag' = IF drdyEnabled THEN espGpioIsr(drdyFlag) ELSE drdyFlag
  /\ UNCHANGED <<halVars, phase, pc, p_spi, clockVars, rx, calibVars, rawVars,
                 from, stale>>

restart ==
  /\ phase' = "off" /\ pc' = 1 /\ p_spi' = NULL
  /\ drdyFlag' = FALSE
  /\ start' = 0 /\ waited' = 0 /\ rx' = <<>>
  /\ s_inited' = FALSE /\ s_tempParams' = Zeroed /\ s_pressParams' = Zeroed
  /\ s_rawTemp' = 0 /\ s_rawPress' = 0
  /\ from' = {} /\ stale' = 0
  /\ halReset
  /\ UNCHANGED bmpDevice

InitStep == initTransfer \/ delayBegin \/ delayEnd

WaitStep == waitTakesFlag \/ waitNoFlag \/ waitLooksAtClock

ReadStep ==
  \/ readTempCoeffs \/ readPressCoeffs \/ readRawTemp \/ readRawPress
  \/ readFails \/ deliver

\* What the processor goes on with by itself.
DriverStep == InitStep \/ WaitStep \/ ReadStep

BmpNext ==
  \/ setUp \/ register \/ taskBegin \/ waitDrdy
  \/ DriverStep \/ clockTick
  \/ sampleReady \/ restart

BmpSpec ==
  BmpInit /\ [][BmpNext]_bmpVars /\ WF_bmpVars(DriverStep) /\ WF_bmpVars(clockTick)

-----------------------------------------------------------------------------
BmpTypeOK ==
  /\ HalTypeOK /\ BmpDeviceTypeOK
  /\ phase \in Resting \union {"starting", "delay", "deliver"} \union Waiting \union Reading
  /\ pc \in 1 .. Len(bmp390Init)
  /\ p_spi \in Slots \union {NULL}
  /\ drdyFlag \in BOOLEAN /\ s_inited \in BOOLEAN
  /\ start \in 0 .. TimeMod - 1 /\ waited \in 0 .. TimeMod - 1
  /\ rx \in Seq(0 .. Byte - 1) /\ Len(rx) < PressRegs
  /\ s_tempParams = Zeroed \/ s_tempParams \in [DOMAIN tempCalib -> Int]
  /\ s_pressParams = Zeroed \/ s_pressParams \in [DOMAIN pressCalib -> Int]
  /\ s_rawTemp \in RawValues /\ s_rawPress \in RawValues
  /\ from \subseteq Samples /\ stale \in 0 .. 2

Started == phase \in {"idle", "deliver"} \union Waiting \union Reading

\* A registered barometer is one: whatever the order in which the devices of
\* the bus were set up, and whichever of them failed, once init has returned
\* OK the handle leads to a BMP390 that measures and interrupts.  Crossed
\* handles, which the port cannot notice, are stopped by the chip id.
StartedMeasures ==
  Started => reached = "bmp390" /\ measuring /\ drdyEnabled /\ isrAttached

\* No reading is compensated with parameters that are not, all of them, the
\* coefficients of this sensor: not after a calibration that failed half way
\* and was tried again, nor after a restart.
Calibrated ==
  phase \in Measuring \union {"deliver"} =>
    /\ s_tempParams = parameters(tempCoeffBytes, tempCalib)
    /\ s_pressParams = parameters(pressCoeffBytes, pressCalib)

\* A reading whose bytes come from two samples is never the last the task
\* knows of: a reading handed over is whole, the raw values of one sample, or
\* the flag is set again and another reading will be tried.
WholeOrFlagged ==
  phase = "deliver" =>
    \/ drdyFlag
    \/ \E n \in Samples : from = {n} /\ s_rawTemp = TemperatureOf[n]
                                     /\ s_rawPress = PressureOf[n]

\* The reset values of the data registers are taken for a sample at most
\* once for each registration (an interrupt between the flag's clearing and
\* the reset of a sensor that was still measuring leaves the flag set).
StaleOnce == stale <= 1

\* No wait is cut short by the clock's wrap-around: the delays of the
\* configuration and the timeout of waitDrdy last as long as they say.
WaitsInFull ==
  [][/\ delayEnd => waited >= DelayMs
     /\ waitLooksAtClock /\ phase' = "idle" => waited >= Timeout]_bmpVars

\* Every configuration, wait and reading ends, with or without the sensor.
CallsEnd == phase \notin Resting ~> phase \in Resting

\* services/bmp390/README.md:3: the service "reads raw ADC data over SPI,
\* compensates it": the powers in its polynomial are those of the raw value.
PowersExact ==
  phase = "deliver" => pressurePowers = <<s_rawPress ^ 2, s_rawPress ^ 3>>
=============================================================================
