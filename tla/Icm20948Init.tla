---------------------------- MODULE Icm20948Init ----------------------------
(***************************************************************************)
(* The transfers of SPP_SERVICES_ICM20948_configDmpInit                    *)
(* (services/icm20948/icm20948.c:362-1334) as a program: the sequence of   *)
(* operations the driver performs on the ICM20948, in order, when all of   *)
(* them succeed.  The module Icm20948 runs it, with failures.              *)
(*                                                                         *)
(* Kept of a register write: the register and the bits that say whether    *)
(* the device sleeps, runs its motion processor (the DMP) and fills its    *)
(* FIFO.  Kept of the DMP parameters: which cell of the DMP memory is      *)
(* written, and whether output is switched on.  Rates, scales, matrices,   *)
(* the magnetometer's settings and the delays are left out.                *)
(***************************************************************************)
EXTENDS Integers, Sequences

CONSTANTS
  ImageSize,      \* bytes of the DMP firmware, sizeof(s_dmp3Image)
  LoadStart,      \* K_ICM20948_DMP_LOAD_START
  MemBankSize     \* stands for the 256 bytes of a bank of the DMP memory

ASSUME MemoryAssumption ==
  /\ ImageSize \in Nat \ {0} /\ MemBankSize \in Nat \ {0}
  /\ LoadStart \in Nat \ {0}      \* room for a cell below the image

(***************************************************************************)
(* The DMP memory.  A cell holds 0 after a reset, a byte of the image (its *)
(* place, from 1) or the value of a parameter.  Two cells stand for all    *)
(* parameters: DATA_OUT_CTL1, below the image, and one the image covers,   *)
(* like most of the others.                                                *)
(***************************************************************************)
OutputCell == 0
TunedCell  == LoadStart + ImageSize - 1
MemBanks   == TunedCell \div MemBankSize + 1
Cells      == 0 .. MemBanks * MemBankSize - 1
OutputOff  == ImageSize + 1
OutputOn   == ImageSize + 2
Tuned      == ImageSize + 3
CellValues == 0 .. Tuned

\* The bank of registers each register belongs to.
BankRegs ==
  [b \in 0 .. 3 |->
     CASE b = 0 -> {"WHO_AM_I", "USER_CTRL", "LP_CONF", "PWR_MGMT_1", "PWR_MGMT_2",
                    "INT_ENABLE", "INT_ENABLE_2", "DMP_INT_STATUS", "INT_STATUS",
                    "SINGLE_FIFO_PRIORITY_SEL", "FIFO_EN_1", "FIFO_EN_2",
                    "FIFO_RST", "FIFO_COUNTH", "FIFO_R_W", "HW_FIX_DISABLE",
                    "FIFO_CFG", "MEM_START_ADDR", "MEM_R_W", "MEM_BANK_SEL"}
       [] b = 1 -> {"TIMEBASE_CORRECTION_PLL"}
       [] b = 2 -> {"GYRO_SMPLRT_DIV", "GYRO_CONFIG", "0x02", "ACCEL_SMPLRT_DIV_1",
                    "ACCEL_SMPLRT_DIV_2", "ACCEL_CONFIG", "ACCEL_CONFIG_2",
                    "DMP_ADDR_MSB", "DMP_ADDR_LSB"}
       [] b = 3 -> {"I2C_MST_ODR_CONFIG", "I2C_CTRL", "0x0D", "0x11",
                    "SLV0_ADDR", "SLV0_REG", "SLV0_CTRL",
                    "SLV1_ADDR", "SLV1_REG", "SLV1_CTRL", "SLV1_DO"}]

Bits == {"DEVICE_RESET", "SLEEP", "LP_EN",                       \* PWR_MGMT_1
         "DMP_EN", "FIFO_EN", "I2C_MST_EN", "DMP_RST",           \* USER_CTRL
         "FIFO_RST0"}                                            \* FIFO_RST

-----------------------------------------------------------------------------
\* The operations, each a program of one step ...
setBank(b)      == <<[do |-> "bank", bank |-> b]>>
write(reg, bits) == <<[do |-> "write", reg |-> reg, bits |-> bits]>>
read(reg)       == <<[do |-> "read", reg |-> reg]>>
dmpWrite(cell, value) == <<[do |-> "param", cell |-> cell, value |-> value]>>
loadImage       == <<[do |-> "load"]>>

\* ... and those made of others.
times(n, steps) ==
  [i \in 1 .. n * Len(steps) |-> steps[((i - 1) % Len(steps)) + 1]]
writes(regs) ==
  [i \in DOMAIN regs |-> [do |-> "write", reg |-> regs[i], bits |-> {}]]
tune            == dmpWrite(TunedCell, Tuned)
resetFifo       == write("FIFO_RST", {"FIFO_RST0"}) \o write("FIFO_RST", {})
lpWakeCycle     == write("PWR_MGMT_1", {"LP_EN"}) \o write("PWR_MGMT_1", {})
outputConfig(value) == dmpWrite(OutputCell, value) \o times(3, tune)

\* Fault: the bank an earlier attempt has left selected is trusted.
identify_trustsBank == read("WHO_AM_I")

identify == setBank(0) \o read("WHO_AM_I")

resetAndWake ==
  write("PWR_MGMT_1", {"DEVICE_RESET"})
  \o writes(<<"PWR_MGMT_1", "USER_CTRL", "PWR_MGMT_2", "LP_CONF", "USER_CTRL">>)

loadDmp == setBank(0) \o loadImage

startAddressAndInterrupts ==
  setBank(2) \o writes(<<"DMP_ADDR_MSB", "DMP_ADDR_LSB">>) \o setBank(0)
  \o outputConfig(OutputOff) \o times(2, tune)
  \o writes(<<"INT_ENABLE", "INT_ENABLE_2", "SINGLE_FIFO_PRIORITY_SEL",
              "HW_FIX_DISABLE">>)

ratesAndFifo ==
  setBank(2)
  \o writes(<<"GYRO_SMPLRT_DIV", "ACCEL_SMPLRT_DIV_1", "ACCEL_SMPLRT_DIV_2">>)
  \o setBank(0) \o times(2, tune)
  \o writes(<<"FIFO_CFG">>) \o resetFifo \o writes(<<"FIFO_EN_1", "FIFO_EN_2">>)

powerCycle ==
  write("PWR_MGMT_1", {"LP_EN"}) \o writes(<<"PWR_MGMT_2">>)
  \o write("PWR_MGMT_1", {"LP_EN", "SLEEP"})
  \o write("PWR_MGMT_1", {"LP_EN"}) \o write("PWR_MGMT_1", {})

magnetometerReset ==
  setBank(3)
  \o writes(<<"SLV0_CTRL", "SLV1_CTRL", "0x0D", "0x11", "I2C_CTRL",
              "I2C_MST_ODR_CONFIG", "SLV1_ADDR", "SLV1_REG", "SLV1_DO", "SLV1_CTRL">>)
  \o setBank(0) \o write("USER_CTRL", {"I2C_MST_EN"}) \o write("USER_CTRL", {})
  \o setBank(3) \o writes(<<"SLV0_CTRL", "SLV1_CTRL">>)
  \o setBank(0) \o write("USER_CTRL", {})

matrices == times(18, tune \o lpWakeCycle)

scales ==
  setBank(2) \o writes(<<"ACCEL_CONFIG", "ACCEL_CONFIG_2">>)
  \o setBank(0) \o lpWakeCycle \o times(2, tune) \o lpWakeCycle
  \o setBank(2) \o writes(<<"GYRO_CONFIG", "0x02">>)
  \o setBank(0) \o lpWakeCycle \o tune \o lpWakeCycle
  \o setBank(1) \o read("TIMEBASE_CORRECTION_PLL")
  \o setBank(0) \o lpWakeCycle \o tune \o lpWakeCycle
  \o writes(<<"LP_CONF", "PWR_MGMT_1">>)

\* One round of the loop that enables the DMP; all but the last put the
\* device to sleep once more.
enableRound(seq) ==
  write("USER_CTRL", IF seq = 0 THEN {} ELSE {"FIFO_EN", "DMP_EN"})
  \o writes(<<"PWR_MGMT_2">>) \o write("USER_CTRL", {"FIFO_EN", "DMP_EN"})
  \o outputConfig(OutputOff)
  \o (IF seq < 2
      THEN writes(<<"PWR_MGMT_2">>)
           \o write("PWR_MGMT_1", {"SLEEP"}) \o write("PWR_MGMT_1", {})
           \o writes(<<"PWR_MGMT_2">>) \o tune \o lpWakeCycle
      ELSE <<>>)

finalOutput ==
  outputConfig(OutputOn) \o times(5, tune)
  \o setBank(2)
  \o writes(<<"ACCEL_SMPLRT_DIV_1", "ACCEL_SMPLRT_DIV_2", "GYRO_SMPLRT_DIV">>)
  \o setBank(0) \o times(6, tune)

startMagnetometer ==
  writes(<<"PWR_MGMT_2">>) \o tune
  \o setBank(3)
  \o writes(<<"SLV0_ADDR", "SLV0_REG", "SLV0_CTRL", "SLV1_ADDR", "SLV1_REG",
              "SLV1_DO", "SLV1_CTRL", "I2C_MST_ODR_CONFIG">>)
  \o setBank(0)

\* Fault: the USER_CTRL write that starts the DMP leaves the FIFO off.
startDmp_fifoOff ==
  write("USER_CTRL", {"I2C_MST_EN", "DMP_EN"})
  \o write("USER_CTRL", {"I2C_MST_EN", "DMP_EN", "DMP_RST"})
  \o resetFifo \o write("PWR_MGMT_1", {"LP_EN"})
  \o outputConfig(OutputOn) \o tune \o resetFifo

startDmp ==
  write("USER_CTRL", {"I2C_MST_EN", "FIFO_EN", "DMP_EN"})
  \o write("USER_CTRL", {"I2C_MST_EN", "FIFO_EN", "DMP_EN", "DMP_RST"})
  \o resetFifo \o write("PWR_MGMT_1", {"LP_EN"})
  \o outputConfig(OutputOn) \o tune \o resetFifo

configDmpInit ==
  identify \o resetAndWake \o loadDmp
  \o startAddressAndInterrupts \o ratesAndFifo \o powerCycle
  \o magnetometerReset \o matrices \o scales
  \o enableRound(0) \o enableRound(1) \o enableRound(2)
  \o finalOutput \o startMagnetometer \o startDmp
=============================================================================
