------------------------------ MODULE Icm20948 ------------------------------
(***************************************************************************)
(* services/icm20948/icm20948.c: the driver of the motion sensor, over the *)
(* device of Icm20948Device.  SPP_SERVICES_register calls init and start;  *)
(* start runs configDmpInit and gives up at the first transfer that fails, *)
(* which the application may answer by registering again.  Once started,   *)
(* the superloop calls icm20948Task, which reads the FIFO when the         *)
(* interrupt has set its flag.                                             *)
(*                                                                         *)
(* A transfer that fails may or may not have reached the device.  The      *)
(* processor may restart between any two steps: the driver then begins     *)
(* again with a device that is as it was.                                  *)
(*                                                                         *)
(* "sent" is a history variable, the samples handed to publish.  "cut" is  *)
(* one too: a transfer failed inside a packet and the FIFO has not been    *)
(* empty since.  "skipped": a task has ended early at a failed transfer    *)
(* and none has come to the end of the FIFO since.  "stuck": a reset of    *)
(* the FIFO has stopped half way since the sensor was registered.          *)
(***************************************************************************)
EXTENDS Icm20948Device

CONSTANT ResetThreshold     \* K_ICM20948_FIFO_RESET_THRESHOLD

ASSUME ThresholdAssumption == ResetThreshold \in Nat

VARIABLES phase,            \* where the driver is
          pc,               \* the next operation of configDmpInit
          done, lastBank,   \* of loadDmp: bytes written, memory bank selected
          drdyFlag, isrAttached,
          packetsLeft,      \* numPackets less those parsed, in checkFifoData
          fifoBuffer,       \* bytes of the packet being read
          lastData,         \* the packet last parsed, as its bytes
          dataReady,        \* lastData.dataReady
          sent, cut, skipped, stuck

startVars == <<pc, done, lastBank>>
readVars  == <<packetsLeft, fifoBuffer, lastData, dataReady>>
history   == <<sent, cut, skipped, stuck>>
driver    == <<phase, startVars, drdyFlag, isrAttached, readVars, history>>
icmVars   == <<device, driver>>

NoBank  == MemBanks                                   \* lastBank = 0xFF
Loading == {"loadBank", "loadAddr", "loadData", "loadPrime"}
Tasking == {"intStatus", "intStatusSet", "dmpIntStatus", "fifoCount",
            "fifoReset", "fifoResetEnd", "burst", "publish"}

IcmInit ==
  /\ DeviceInit
  /\ phase = "off" /\ pc = 1 /\ done = 0 /\ lastBank = NoBank
  /\ drdyFlag = FALSE /\ isrAttached = FALSE
  /\ packetsLeft = 0 /\ fifoBuffer = <<>> /\ lastData = <<>> /\ dataReady = FALSE
  /\ sent = <<>> /\ cut = FALSE /\ skipped = FALSE /\ stuck = FALSE

noteFifo == cut' = (cut /\ fifo' # <<>>)

-----------------------------------------------------------------------------
\* icm20948Init, then icm20948Start.
register ==
  /\ phase = "off"
  /\ phase' = "starting" /\ pc' = 1
  /\ drdyFlag' = FALSE /\ isrAttached' = TRUE
  /\ skipped' = FALSE /\ stuck' = FALSE
  /\ UNCHANGED <<device, done, lastBank, readVars, sent, cut>>

operation == configDmpInit[pc]

\* The next operation; after the last one register has succeeded.
goOn ==
  IF pc = Len(configDmpInit)
  THEN phase' = "idle" /\ pc' = 1
  ELSE phase' = "starting" /\ pc' = pc + 1

giveUp == phase' = "off" /\ pc' = 1

takeOperation ==
  \/ operation.do = "bank" /\ takeBank(operation.bank)
  \/ operation.do = "write" /\ takeWrite(operation.reg, operation.bits)
  \/ operation.do = "read" /\ UNCHANGED device

startUnchanged ==
  UNCHANGED <<drdyFlag, isrAttached, readVars, sent, skipped, stuck>>

\* A register written or read: setBank, writeReg, readReg.  A wrong
\* WHO_AM_I ends the attempt like a read that fails.
registerAccess ==
  /\ phase = "starting" /\ operation.do \in {"bank", "write", "read"}
  /\ \/ takeOperation /\ goOn
     \/ (takeOperation \/ UNCHANGED device) /\ giveUp
  /\ noteFifo
  /\ UNCHANGED <<done, lastBank>> /\ startUnchanged

\* dmpWrite16 or dmpWrite32: bank, address and data are written; of a
\* sequence that fails the device has taken the first k.
dmpWriteBytes ==
  /\ phase = "starting" /\ operation.do = "param"
  /\ \E k \in 0 .. 3 :
       /\ memBank' = IF k >= 1 THEN operation.cell \div MemBankSize ELSE memBank
       /\ memAddr' = IF k >= 2 THEN operation.cell % MemBankSize ELSE memAddr
       /\ sram' = IF k = 3 /\ memWritable
                  THEN [sram EXCEPT ![operation.cell] = operation.value] ELSE sram
       /\ (k = 3 /\ goOn) \/ giveUp
  /\ UNCHANGED <<bank, power, userCtrl, fifoVars, dmpInt, produced>>
  /\ UNCHANGED <<done, lastBank, cut>> /\ startUnchanged

\* loadDmp, byte by byte.
loadBegin ==
  /\ phase = "starting" /\ operation.do = "load"
  /\ phase' = "loadBank" /\ done' = 0 /\ lastBank' = NoBank
  /\ UNCHANGED <<device, pc, cut>> /\ startUnchanged

loadAddress == LoadStart + done

\* Fault: the memory bank is selected for the first byte only.
bankChanges_once == lastBank = NoBank

bankChanges == lastBank # loadAddress \div MemBankSize

loadBankSel ==
  /\ phase = "loadBank"
  /\ LET b == loadAddress \div MemBankSize
     IN IF bankChanges
        THEN \/ takeMemBank(b) /\ lastBank' = b /\ phase' = "loadAddr" /\ UNCHANGED pc
             \/ (takeMemBank(b) \/ UNCHANGED device) /\ giveUp /\ UNCHANGED lastBank
        ELSE phase' = "loadAddr" /\ UNCHANGED <<device, lastBank, pc>>
  /\ UNCHANGED <<done, cut>> /\ startUnchanged

loadStartAddr ==
  /\ phase = "loadAddr"
  /\ LET take == takeMemAddr(loadAddress % MemBankSize)
     IN \/ take /\ phase' = "loadData" /\ UNCHANGED pc
        \/ (take \/ UNCHANGED device) /\ giveUp
  /\ UNCHANGED <<done, lastBank, cut>> /\ startUnchanged

loadData ==
  /\ phase = "loadData"
  /\ LET take == takeMemData(done + 1)
     IN \/ /\ take /\ done' = done + 1 /\ UNCHANGED pc
           /\ phase' = IF done' < ImageSize THEN "loadBank" ELSE "loadPrime"
        \/ (take \/ UNCHANGED device) /\ giveUp /\ UNCHANGED done
  /\ UNCHANGED <<lastBank, cut>> /\ startUnchanged

\* One read to settle the memory's read path; its transfers are not checked.
loadPrime ==
  /\ phase = "loadPrime"
  /\ memBank' \in {memBank, 0}
  /\ memAddr' \in {memAddr, (LoadStart + 1) % MemBankSize}
  /\ goOn
  /\ UNCHANGED <<bank, power, userCtrl, sram, fifoVars, dmpInt, produced>>
  /\ UNCHANGED <<done, lastBank, cut>> /\ startUnchanged

-----------------------------------------------------------------------------
\* icm20948Task and checkFifoData.
\* Fault: the sample of an earlier call counts as new.
taskBegin_keepsReady ==
  /\ phase = "idle" /\ drdyFlag
  /\ drdyFlag' = FALSE
  /\ phase' = "intStatus"
  /\ UNCHANGED <<device, startVars, isrAttached, readVars, history>>

taskBegin ==
  /\ phase = "idle" /\ drdyFlag
  /\ drdyFlag' = FALSE /\ dataReady' = FALSE
  /\ phase' = "intStatus"
  /\ UNCHANGED <<device, startVars, isrAttached, packetsLeft, fifoBuffer,
                 lastData, history>>

\* checkFifoData returns; the task goes on if a packet was parsed.
checked == phase' = IF dataReady' THEN "publish" ELSE "idle"


\* The end of the FIFO, or a failed transfer.
finished == checked /\ skipped' = FALSE
endEarly == checked /\ skipped' = TRUE

taskUnchanged == UNCHANGED <<startVars, drdyFlag, isrAttached, sent, stuck>>
noParse       == UNCHANGED <<packetsLeft, fifoBuffer, lastData, dataReady>>

readIntStatus ==
  /\ phase = "intStatus" /\ noParse
  /\ \/ /\ takeReadIntStatus /\ UNCHANGED skipped
        /\ phase' = IF dmpInt THEN "intStatusSet" ELSE "dmpIntStatus"
     \/ (takeReadIntStatus \/ UNCHANGED device) /\ endEarly
  /\ UNCHANGED cut /\ taskUnchanged

\* DMP_INT_STATUS is read in either case, its value not used.
readDmpIntStatus ==
  /\ phase \in {"intStatusSet", "dmpIntStatus"} /\ noParse
  /\ \/ phase = "intStatusSet" /\ phase' = "fifoCount" /\ UNCHANGED skipped
     \/ phase = "dmpIntStatus" /\ checked /\ UNCHANGED skipped
     \/ endEarly
  /\ UNCHANGED <<device, cut>> /\ taskUnchanged

\* Fault: one packet is read for each interrupt.
numPackets_one(count) == IF count < PacketSize THEN 0 ELSE 1

numPackets(count) == count \div PacketSize

readFifoCount ==
  /\ phase = "fifoCount" /\ UNCHANGED <<fifoBuffer, lastData, dataReady>>
  /\ \/ /\ Len(fifo) > ResetThreshold
        /\ phase' = "fifoReset" /\ UNCHANGED <<packetsLeft, skipped>>
     \/ /\ Len(fifo) <= ResetThreshold
        /\ packetsLeft' = numPackets(Len(fifo))
        /\ IF packetsLeft' > 0 THEN phase' = "burst" /\ UNCHANGED skipped ELSE finished
     \/ endEarly /\ UNCHANGED packetsLeft
  /\ UNCHANGED <<device, cut>> /\ taskUnchanged

\* Too many bytes are waiting: resetFifo, in two writes, its result ignored.
fifoReset ==
  /\ phase = "fifoReset" /\ noParse
  /\ LET take == takeWrite("FIFO_RST", {"FIFO_RST0"})
     IN \/ take /\ phase' = "fifoResetEnd" /\ UNCHANGED <<skipped, stuck>>
        \/ (take \/ UNCHANGED device) /\ endEarly /\ stuck' = TRUE
  /\ noteFifo /\ UNCHANGED <<startVars, drdyFlag, isrAttached, sent>>

fifoResetEnd ==
  /\ phase = "fifoResetEnd" /\ noParse
  /\ LET take == takeWrite("FIFO_RST", {})
     IN \/ take /\ finished /\ UNCHANGED stuck
        \/ (take \/ UNCHANGED device) /\ endEarly /\ stuck' = TRUE
  /\ noteFifo /\ UNCHANGED <<startVars, drdyFlag, isrAttached, sent>>

\* Fault: the last frame of a packet is not read.
burstOver_short(buf) == Len(buf) >= PacketSize - 2

burstOver(buf) == Len(buf) = PacketSize

twoBytes == SubSeq(fifo, 1, 2)

\* One frame of readFifoBurst; with the last one the packet is parsed.
burstFrame ==
  /\ phase = "burst"
  /\ takeReadFifo
  /\ LET buf == fifoBuffer \o twoBytes
     IN IF burstOver(buf)
        THEN /\ lastData' = buf /\ dataReady' = TRUE
             /\ fifoBuffer' = <<>> /\ packetsLeft' = packetsLeft - 1
             /\ IF packetsLeft' > 0
                THEN UNCHANGED <<phase, skipped>> ELSE finished
        ELSE /\ fifoBuffer' = buf
             /\ UNCHANGED <<phase, skipped, packetsLeft, lastData, dataReady>>
  /\ noteFifo /\ taskUnchanged

burstFails ==
  /\ phase = "burst"
  /\ takeReadFifo \/ UNCHANGED device
  /\ cut' = ((cut \/ fifo' # fifo \/ fifoBuffer # <<>>) /\ fifo' # <<>>)
  /\ fifoBuffer' = <<>> /\ packetsLeft' = 0
  /\ UNCHANGED <<lastData, dataReady>>
  /\ endEarly /\ taskUnchanged

\* With a packet of the pool the sample is published, without one lost.
publishSample ==
  /\ phase = "publish"
  /\ sent' = Append(sent, Head(lastData)[1]) \/ UNCHANGED sent
  /\ phase' = "idle"
  /\ UNCHANGED <<device, startVars, drdyFlag, isrAttached, readVars, cut, skipped, stuck>>

-----------------------------------------------------------------------------
\* The DMP makes a packet; its interrupt sets the flag, gpioIsr.
sampleReady ==
  /\ dmpPush
  /\ drdyFlag' = (drdyFlag \/ isrAttached)
  /\ UNCHANGED <<phase, startVars, isrAttached, readVars, history>>

\* The processor restarts; the device does not.
restart ==
  /\ phase # "off"
  /\ phase' = "off" /\ pc' = 1 /\ done' = 0 /\ lastBank' = NoBank
  /\ drdyFlag' = FALSE /\ isrAttached' = FALSE
  /\ packetsLeft' = 0 /\ fifoBuffer' = <<>> /\ lastData' = <<>> /\ dataReady' = FALSE
  /\ UNCHANGED <<device, history>>

StartNext ==
  \/ register \/ registerAccess \/ dmpWriteBytes
  \/ loadBegin \/ loadBankSel \/ loadStartAddr \/ loadData \/ loadPrime

TaskNext ==
  \/ taskBegin \/ readIntStatus \/ readDmpIntStatus \/ readFifoCount
  \/ fifoReset \/ fifoResetEnd \/ burstFrame \/ burstFails \/ publishSample

IcmNext == StartNext \/ TaskNext \/ sampleReady \/ restart

IcmSpec == IcmInit /\ [][IcmNext]_icmVars

-----------------------------------------------------------------------------
IcmTypeOK ==
  /\ DeviceTypeOK
  /\ phase \in {"off", "starting", "idle"} \union Loading \union Tasking
  /\ pc \in 1 .. Len(configDmpInit)
  /\ done \in 0 .. ImageSize /\ lastBank \in 0 .. NoBank
  /\ drdyFlag \in BOOLEAN /\ isrAttached \in BOOLEAN /\ dataReady \in BOOLEAN
  /\ packetsLeft \in 0 .. ResetThreshold \div PacketSize
  /\ fifoBuffer \in Seq(Bytes) /\ Len(fifoBuffer) < PacketSize
  /\ lastData = <<>> \/ lastData \in [1 .. PacketSize -> Bytes]
  /\ cut \in BOOLEAN /\ skipped \in BOOLEAN /\ stuck \in BOOLEAN

\* Every register is accessed with its own bank selected, whichever bank an
\* earlier attempt or the time before a restart has left: configDmpInit, the
\* DMP memory accesses and the reads of the task.
BankRight ==
  /\ phase = "starting" /\ operation.do \in {"write", "read"}
       => operation.reg \in BankRegs[bank]
  /\ phase = "starting" /\ operation.do = "param" => bank = 0
  /\ phase \in Loading \union Tasking => bank = 0

\* The bytes of the image a parameter does not cover.
FirmwareLoaded ==
  \A i \in 1 .. ImageSize :
    LoadStart + i - 1 # TunedCell => sram[LoadStart + i - 1] = i

\* The DMP never runs without its firmware: through failed loads, retries
\* and restarts, an enabled DMP has every byte of the image in its place.
DmpHasFirmware == "DMP_EN" \in userCtrl => FirmwareLoaded

\* A registered sensor is delivering: when start has returned OK the DMP
\* runs, with output on, into a FIFO that takes its packets, and bank 0 is
\* selected.  Only a reset of the FIFO that has failed half way may leave it
\* held: nothing but registering again releases it.
StartedDelivers ==
  phase \in {"idle"} \union Tasking =>
    /\ dmpRuns /\ bank = 0 /\ isrAttached
    /\ fifoRst => phase = "fifoResetEnd" \/ stuck

\* No sample waits unannounced: between two tasks, unless a failed transfer
\* has left samples behind, a packet in the FIFO has the flag and INT_STATUS
\* set, wherever in the task it was made.
NoLostWakeup ==
  phase = "idle" /\ ~skipped /\ Len(fifo) >= PacketSize => drdyFlag /\ dmpInt

\* A sample is published at most once, and in the order the DMP made them,
\* whatever fails and over restarts.
SentOnce == \A i, j \in DOMAIN sent : i < j => sent[i] < sent[j]

\* The bytes of one packet, in their places.
Framed(buf) ==
  \E n \in 1 .. MaxSamples : buf = [i \in 1 .. PacketSize |-> <<n, i>>]

\* What is parsed as a packet is one, unless a transfer has failed inside a
\* packet since the FIFO was last empty; a reset of the FIFO, a drained FIFO
\* and a restart all heal.
FramedUnlessCut ==
  [][lastData' # lastData /\ lastData' # <<>> => cut \/ Framed(lastData')]_icmVars

\* icm20948.c:1406-1407: "fifoBuffer[0..23]: DMP packet", "[0-1]=header1":
\* the bytes that are parsed begin with the header of a packet.
PacketsFramed == lastData # <<>> => Framed(lastData)
=============================================================================
