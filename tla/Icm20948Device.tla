--------------------------- MODULE Icm20948Device ---------------------------
(***************************************************************************)
(* The ICM20948 as its driver sees it: external to the repository, and     *)
(* modelled from how services/icm20948/icm20948.c uses it.  Registers are  *)
(* in four banks.  The DMP, a processor of its own, runs the firmware in   *)
(* its memory; once it is enabled, awake and told to output, it appends a  *)
(* packet to the FIFO every period and raises the interrupt.  What the     *)
(* device holds outlives a restart of the program.                         *)
(*                                                                         *)
(* Assumed of it: a reset puts it to sleep with nothing in its memory and  *)
(* FIFO; its memory takes no writes while it sleeps or LP_EN is set (the   *)
(* comment at line 422); a packet is appended as a whole, or lost while    *)
(* FIFO_RST holds the FIFO empty.                                          *)
(***************************************************************************)
EXTENDS Icm20948Init

CONSTANTS
  PacketSize,     \* K_ICM20948_DMP_PACKET_SIZE_BYTES
  MaxSamples      \* bound: the packets the DMP makes in a behaviour

ASSUME DeviceAssumption ==
  /\ PacketSize \in Nat \ {0} /\ PacketSize % 2 = 0
  /\ MaxSamples \in Nat

VARIABLES bank,         \* the selected bank of registers
          power,        \* bits of PWR_MGMT_1
          userCtrl,     \* bits of USER_CTRL
          memBank, memAddr, sram,   \* the DMP memory and where it is accessed
          fifo,         \* bytes, each with its packet and its place in it
          fifoRst,      \* FIFO_RST0: the FIFO is held empty
          dmpInt,       \* the DMP bit of INT_STATUS, cleared by reading it
          produced      \* packets made so far

memVars    == <<memBank, memAddr, sram>>
fifoVars   == <<fifo, fifoRst>>
device     == <<bank, power, userCtrl, memVars, fifoVars, dmpInt, produced>>

Bytes == (0 .. MaxSamples) \X (1 .. PacketSize)

DeviceInit ==
  /\ bank = 0 /\ power = {"SLEEP"} /\ userCtrl = {}
  /\ memBank = 0 /\ memAddr = 0 /\ sram = [c \in Cells |-> 0]
  /\ fifo = <<>> /\ fifoRst = FALSE /\ dmpInt = FALSE /\ produced = 0

powerOnReset ==
  /\ bank' = 0 /\ power' = {"SLEEP"} /\ userCtrl' = {}
  /\ memBank' = 0 /\ memAddr' = 0 /\ sram' = [c \in Cells |-> 0]
  /\ fifo' = <<>> /\ fifoRst' = FALSE /\ dmpInt' = FALSE
  /\ UNCHANGED produced

\* A register written with these bits, in whatever bank is selected.
takeWrite(reg, bits) ==
  LET mine == reg \in BankRegs[bank]
  IN IF mine /\ reg = "PWR_MGMT_1" /\ "DEVICE_RESET" \in bits
     THEN powerOnReset
     ELSE /\ power' = IF mine /\ reg = "PWR_MGMT_1" THEN bits ELSE power
          /\ userCtrl' = IF mine /\ reg = "USER_CTRL" THEN bits \ {"DMP_RST"}
                         ELSE userCtrl
          /\ fifoRst' = IF mine /\ reg = "FIFO_RST" THEN "FIFO_RST0" \in bits
                        ELSE fifoRst
          /\ fifo' = IF fifoRst' THEN <<>> ELSE fifo
          /\ UNCHANGED <<bank, memVars, dmpInt, produced>>

takeBank(b) ==
  bank' = b /\ UNCHANGED <<power, userCtrl, memVars, fifoVars, dmpInt, produced>>

memWritable == power \intersect {"SLEEP", "LP_EN"} = {}

memCell == memBank * MemBankSize + memAddr

takeMemBank(b) ==
  memBank' = b /\ UNCHANGED <<bank, power, userCtrl, memAddr, sram, fifoVars, dmpInt, produced>>

takeMemAddr(a) ==
  memAddr' = a /\ UNCHANGED <<bank, power, userCtrl, memBank, sram, fifoVars, dmpInt, produced>>

takeMemData(v) ==
  /\ sram' = IF memWritable THEN [sram EXCEPT ![memCell] = v] ELSE sram
  /\ UNCHANGED <<bank, power, userCtrl, memBank, memAddr, fifoVars, dmpInt, produced>>

takeReadIntStatus ==
  dmpInt' = FALSE /\ UNCHANGED <<bank, power, userCtrl, memVars, fifoVars, produced>>

\* Two bytes leave the FIFO in each frame read from it.
takeReadFifo ==
  fifo' = SubSeq(fifo, 3, Len(fifo))
  /\ UNCHANGED <<bank, power, userCtrl, memVars, fifoRst, dmpInt, produced>>

\* The DMP has the packet of a new sample.
dmpRuns ==
  /\ {"DMP_EN", "FIFO_EN"} \subseteq userCtrl
  /\ "SLEEP" \notin power
  /\ sram[OutputCell] = OutputOn

dmpPush ==
  /\ dmpRuns /\ produced < MaxSamples
  /\ produced' = produced + 1
  /\ fifo' = IF fifoRst THEN <<>>
             ELSE fifo \o [i \in 1 .. PacketSize |-> <<produced + 1, i>>]
  /\ dmpInt' = TRUE
  /\ UNCHANGED <<bank, power, userCtrl, memVars, fifoRst>>

DeviceTypeOK ==
  /\ bank \in 0 .. 3 /\ power \subseteq Bits /\ userCtrl \subseteq Bits
  /\ memBank \in 0 .. MemBanks - 1 /\ memAddr \in 0 .. MemBankSize - 1
  /\ sram \in [Cells -> CellValues]
  /\ fifo \in Seq(Bytes) /\ Len(fifo) <= MaxSamples * PacketSize
  /\ fifoRst \in BOOLEAN
  /\ dmpInt \in BOOLEAN /\ produced \in 0 .. MaxSamples
=============================================================================
