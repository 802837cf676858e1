--------------------------- MODULE Icm20948Proofs ---------------------------
(***************************************************************************)
(* Proofs about Icm20948: for every size of the image and of its memory,   *)
(* of the packets, the FIFO threshold and the number of samples.           *)
(*                                                                         *)
(* The configuration is a program of some 250 transfers.  What is known of *)
(* the device at each of them is followed in the parts of the program, one *)
(* lemma for each (Runs), and put together by RunsOn.                      *)
(***************************************************************************)
EXTENDS Icm20948, DataLemmas

-----------------------------------------------------------------------------
(***************************************************************************)
(* What the program knows of the device between two of its operations.     *)
(* known: 0, nothing yet; 1, the bank; 2, all since the reset.  output is  *)
(* the cell that switches the output on, loaded whether the image is in.   *)
(***************************************************************************)
AllRegs == UNION {BankRegs[b] : b \in 0 .. 3}

Operations ==
  [do : {"bank"}, bank : 0 .. 3]
    \union [do : {"write"}, reg : AllRegs, bits : SUBSET Bits]
    \union [do : {"read"}, reg : AllRegs]
    \union [do : {"param"}, cell : {OutputCell, TunedCell}, value : CellValues]
    \union [do : {"load"}]

Knowledge(k, b, p, u, o, l) ==
  [known |-> k, bank |-> b, power |-> p, userCtrl |-> u, output |-> o, loaded |-> l]

Resets(op) == op.do = "write" /\ op.reg = "PWR_MGMT_1" /\ "DEVICE_RESET" \in op.bits

Writable(p) == p \intersect {"SLEEP", "LP_EN"} = {}

After(s, op) ==
  CASE op.do = "bank" ->
         Knowledge(IF s.known = 0 THEN 1 ELSE s.known, op.bank,
                   s.power, s.userCtrl, s.output, s.loaded)
    [] Resets(op) -> Knowledge(2, 0, {"SLEEP"}, {}, 0, FALSE)
    [] op.do = "write" /\ ~ Resets(op) ->
         Knowledge(s.known, s.bank,
                   IF op.reg = "PWR_MGMT_1" THEN op.bits ELSE s.power,
                   IF op.reg = "USER_CTRL" THEN op.bits \ {"DMP_RST"} ELSE s.userCtrl,
                   s.output, s.loaded)
    [] op.do = "read" -> s
    [] op.do = "param" ->
         Knowledge(s.known, s.bank, s.power, s.userCtrl,
                   IF op.cell = OutputCell /\ Writable(s.power) THEN op.value ELSE s.output,
                   s.loaded)
    [] op.do = "load" ->
         Knowledge(s.known, s.bank, s.power, s.userCtrl, s.output, TRUE)

\* What makes the operation one that the properties allow.
Allowed(s, op) ==
  CASE op.do = "bank" -> TRUE
    [] Resets(op) -> s.known > 0 /\ op.reg \in BankRegs[s.bank]
    [] op.do = "write" /\ ~ Resets(op) ->
         /\ s.known = 2 /\ op.reg \in BankRegs[s.bank]
         /\ op.reg = "USER_CTRL" /\ "DMP_EN" \in op.bits => s.loaded
    [] op.do = "read" -> s.known > 0 /\ op.reg \in BankRegs[s.bank]
    [] op.do = "param" -> s.known = 2 /\ s.bank = 0
    [] op.do = "load" ->
         s.known = 2 /\ s.bank = 0 /\ Writable(s.power) /\ "DMP_EN" \notin s.userCtrl

Beginning == Knowledge(0, 0, {}, {}, 0, FALSE)

\* Known before each operation of the program, and after the last.
At[n \in 1 .. Len(configDmpInit) + 1] ==
  IF n = 1 THEN Beginning ELSE After(At[n - 1], configDmpInit[n - 1])

-----------------------------------------------------------------------------
(***************************************************************************)
(* The inductive invariant.                                                *)
(***************************************************************************)
\* The device is as the knowledge says.
Holds(s) ==
  /\ s.known > 0 => bank = s.bank
  /\ s.known = 2 => /\ power = s.power /\ userCtrl = s.userCtrl
                    /\ sram[OutputCell] = s.output
                    /\ s.loaded => FirmwareLoaded

Starting == phase \in {"starting"} \union Loading
Running  == phase \in {"idle"} \union Tasking

KnownInv ==
  /\ Starting => Holds(At[pc]) /\ isrAttached
  /\ phase \in Loading => operation.do = "load"

\* loadDmp: what is in place, and where the next byte goes.
LoadInv ==
  phase \in Loading =>
    /\ IF phase = "loadPrime" THEN done = ImageSize ELSE done < ImageSize
    /\ \A i \in 1 .. done : sram[LoadStart + i - 1] = i
    /\ lastBank # NoBank => memBank = lastBank
    /\ phase \in {"loadAddr", "loadData"} => lastBank = loadAddress \div MemBankSize
    /\ phase = "loadData" => memAddr = loadAddress % MemBankSize

\* Nothing is kept in a FIFO that is held.
HeldInv == fifoRst => fifo = <<>>

\* The FIFO and the packet being read are a piece of the stream of bytes the
\* DMP has made, which ends with the last of them.
Consumed == produced * PacketSize - Len(fifo) - Len(fifoBuffer)

ByteAt(n) == <<(n \div PacketSize) + 1, (n % PacketSize) + 1>>

StreamInv ==
  /\ Consumed \in Nat
  /\ \A i \in 1 .. Len(fifoBuffer) : fifoBuffer[i] = ByteAt(Consumed + i - 1)
  /\ \A i \in 1 .. Len(fifo) : fifo[i] = ByteAt(Consumed + Len(fifoBuffer) + i - 1)

\* In a burst the packets that were counted are there; outside no packet is
\* being read.
Remaining == packetsLeft * PacketSize - Len(fifoBuffer)

BurstInv ==
  /\ phase # "burst" => fifoBuffer = <<>>
  /\ phase = "burst" =>
       /\ packetsLeft > 0 /\ Remaining <= Len(fifo)
       /\ Len(fifoBuffer) < PacketSize /\ Len(fifoBuffer) % 2 = 0

\* Outside of the bytes a burst will still read, a packet is announced.
Fresh == phase \in Tasking \union {"idle"} \/ (Starting /\ At[pc].known = 2)

Announced == Len(fifo) >= PacketSize => drdyFlag /\ dmpInt

AnnouncedInv ==
  /\ Starting /\ At[pc].known = 2 => (fifo # <<>> => drdyFlag /\ dmpInt)
  /\ phase \in {"idle", "dmpIntStatus", "publish"} /\ ~skipped => Announced
  /\ phase = "intStatus" /\ ~skipped => (Len(fifo) >= PacketSize => dmpInt)
  /\ phase = "fifoResetEnd" => Announced
  /\ phase = "burst" =>
       (Len(fifo) - Remaining >= PacketSize => drdyFlag /\ dmpInt)

\* Every sample published lies before what is left of the stream, and one
\* that was parsed and not yet published lies after them.
SentInv ==
  /\ sent \in Seq(1 .. MaxSamples)
  /\ SentOnce
  /\ \A i \in DOMAIN sent : sent[i] * PacketSize <= Consumed
  /\ phase = "publish" => dataReady
  /\ phase \in Tasking /\ dataReady =>
       /\ lastData # <<>> /\ Head(lastData)[1] \in 1 .. MaxSamples
       /\ Head(lastData)[1] * PacketSize <= Consumed
       /\ \A i \in DOMAIN sent : sent[i] < Head(lastData)[1]

\* What is left of the stream begins with a packet.
AlignedInv ==
  Fresh /\ ~cut => \E n \in Nat : Consumed = n * PacketSize

IcmInv ==
  /\ IcmTypeOK /\ KnownInv /\ StartedDelivers /\ DmpHasFirmware /\ HeldInv
  /\ LoadInv /\ StreamInv /\ BurstInv /\ AnnouncedInv /\ SentInv /\ AlignedInv
-----------------------------------------------------------------------------
(***************************************************************************)
(* Programs: Runs(p, s, t) says that every operation of p is allowed by    *)
(* what is known before it, from s before the first to t after the last.   *)
(***************************************************************************)
Follows(p, n, tau) ==
  \A i \in 1 .. n : Allowed(tau[i], p[i]) /\ tau[i + 1] = After(tau[i], p[i])

Over(tau, n) == tau = [i \in 1 .. n |-> tau[i]]

Runs(p, s, t) ==
  \E n \in Nat : /\ SeqOf(Operations, n, p)
                 /\ \E tau : /\ Over(tau, n + 1)
                              /\ tau[1] = s /\ tau[n + 1] = t /\ Follows(p, n, tau)

\* One program after another.
LEMMA RunsOn ==
  ASSUME NEW p, NEW q, NEW s, NEW t, NEW u, Runs(p, s, t), Runs(q, t, u)
  PROVE  Runs(p \o q, s, u)
<1>1. PICK m \in Nat : /\ SeqOf(Operations, m, p)
                       /\ \E tau : /\ Over(tau, m + 1)
                                    /\ tau[1] = s /\ tau[m + 1] = t /\ Follows(p, m, tau)
  BY DEF Runs
<1>2. PICK a : a[1] = s /\ a[m + 1] = t /\ Follows(p, m, a)
  BY <1>1
<1>3. PICK n \in Nat : /\ SeqOf(Operations, n, q)
                       /\ \E tau : /\ Over(tau, n + 1)
                                    /\ tau[1] = t /\ tau[n + 1] = u /\ Follows(q, n, tau)
  BY DEF Runs
<1>4. PICK b : b[1] = t /\ b[n + 1] = u /\ Follows(q, n, b)
  BY <1>3
<1> DEFINE c == [i \in 1 .. m + n + 1 |-> IF i <= m THEN a[i] ELSE b[i - m]]
           r == p \o q
<1>5. SeqOf(Operations, m + n, r) /\ Joins(r, m, p, n, q)
  BY <1>1, <1>3, Joined
<1> HIDE DEF r
<1>6. Over(c, m + n + 1)
  BY DEF Over
<1>7. c[1] = s
  <2>1. CASE m = 0
    BY <1>2, <1>4, <2>1
  <2>2. CASE m # 0
    <3>1. 1 <= m /\ 1 \in 1 .. m + n + 1
      BY <2>2
    <3>2. QED
      BY <1>2, <3>1
  <2>3. QED
    BY <2>1, <2>2
<1>8. c[m + n + 1] = u
  <2>1. ~ (m + n + 1 <= m) /\ m + n + 1 - m = n + 1 /\ m + n + 1 \in 1 .. m + n + 1
    OBVIOUS
  <2>2. QED
    BY <1>4, <2>1
<1>9. ASSUME NEW i \in 1 .. m + n
      PROVE  Allowed(c[i], r[i]) /\ c[i + 1] = After(c[i], r[i])
  <2>1. CASE i < m
    <3>1. i \in 1 .. m /\ i <= m /\ i + 1 <= m /\ i \in 1 .. m + n + 1 /\ i + 1 \in 1 .. m + n + 1
      BY <2>1
    <3>2. c[i] = a[i] /\ c[i + 1] = a[i + 1] /\ r[i] = p[i]
      BY <1>5, <3>1 DEF Joins
    <3>3. QED
      BY <1>2, <3>1, <3>2 DEF Follows
  <2>2. CASE i = m
    <3>1. /\ i \in 1 .. m /\ i <= m /\ ~ (i + 1 <= m) /\ i + 1 - m = 1
          /\ i \in 1 .. m + n + 1 /\ i + 1 \in 1 .. m + n + 1
      BY <2>2
    <3>2. c[i] = a[i] /\ c[i + 1] = b[1] /\ r[i] = p[i]
      BY <1>5, <3>1 DEF Joins
    <3>3. b[1] = a[i + 1]
      BY <1>2, <1>4, <2>2
    <3>4. QED
      BY <1>2, <3>1, <3>2, <3>3 DEF Follows
  <2>3. CASE i > m
    <3>1. PICK j \in 1 .. n : i = m + j
      <4>1. i - m \in 1 .. n /\ i = m + (i - m)
        BY <2>3
      <4>2. QED
        BY <4>1
    <3>2. /\ ~ (m + j <= m) /\ ~ (m + j + 1 <= m) /\ m + j - m = j /\ m + j + 1 - m = j + 1
          /\ m + j \in 1 .. m + n + 1 /\ m + j + 1 \in 1 .. m + n + 1
      OBVIOUS
    <3>3. c[m + j] = b[j] /\ c[m + j + 1] = b[j + 1]
      BY <3>2
    <3>4. r[m + j] = q[j]
      BY <1>5 DEF Joins
    <3>5. QED
      BY <1>4, <3>1, <3>3, <3>4 DEF Follows
  <2>4. QED
    BY <2>1, <2>2, <2>3
<1> HIDE DEF c
<1>10. Follows(r, m + n, c)
  BY <1>9 DEF Follows
<1>11. Runs(r, s, u)
  BY <1>5, <1>6, <1>7, <1>8, <1>10 DEF Runs
<1>12. QED
  BY <1>11 DEF r
\* One operation, by itself.
LEMMA RunsOne ==
  ASSUME NEW op \in Operations, NEW s, NEW t, Allowed(s, op), t = After(s, op)
  PROVE  Runs(<<op>>, s, t)
<1> DEFINE p == <<op>>
           tau == [i \in 1 .. 1 + 1 |-> IF i = 1 THEN s ELSE t]
<1>1. SeqOf(Operations, 1, p) /\ p[1] = op
  BY DEF SeqOf
<1>2. tau[1] = s /\ tau[1 + 1] = t /\ Over(tau, 1 + 1)
  BY DEF Over
<1> HIDE DEF p, tau
<1>3. Follows(p, 1, tau)
  BY <1>1, <1>2 DEF Follows
<1>4. Runs(p, s, t)
  BY <1>1, <1>2, <1>3 DEF Runs
<1>5. QED
  BY <1>4 DEF p

\* The same program again and again: first, one that is not empty.
LEMMA TimesOnce ==
  ASSUME NEW n \in Nat, NEW p, NEW s, NEW m \in Nat \ {0}, SeqOf(Operations, m, p),
         NEW a, a[1] = s, a[m + 1] = s, Follows(p, m, a)
  PROVE  Runs(times(n, p), s, s)
<1>1. SeqOf(Operations, m, p)
  OBVIOUS
<1>2. a[1] = s /\ a[m + 1] = s /\ Follows(p, m, a)
  OBVIOUS
<1>3. p \in Seq(Operations) /\ Len(p) = m /\ m \in Nat \ {0}
  BY <1>1 DEF SeqOf
<1> DEFINE k == n * m
           q == times(n, p)
           tau == [i \in 1 .. k + 1 |-> a[((i - 1) % m) + 1]]
<1>4. k \in Nat
  BY <1>3
<1>5. q = [i \in 1 .. k |-> p[((i - 1) % m) + 1]]
  BY <1>3 DEF times
<1>6. \A i \in 1 .. k + 1 : i - 1 \in Nat /\ ((i - 1) % m) + 1 \in 1 .. m
  <2>1. ASSUME NEW i \in 1 .. k + 1 PROVE i - 1 \in Nat /\ ((i - 1) % m) + 1 \in 1 .. m
    <3>1. i - 1 \in Nat
      BY <1>4
    <3>2. (i - 1) % m \in 0 .. m - 1
      BY <1>3, <3>1
    <3>3. QED
      BY <1>3, <3>1, <3>2
  <2>2. QED
    BY <2>1
<1>7. \A i \in 1 .. m : p[i] \in Operations
  BY <1>3
<1>8. SeqOf(Operations, k, q)
  <2>1. \A i \in 1 .. k : p[((i - 1) % m) + 1] \in Operations
    BY <1>4, <1>6, <1>7
  <2> HIDE DEF q, k
  <2>2. q \in [1 .. k -> Operations]
    BY <1>5, <2>1
  <2>3. QED
    BY <1>4, <2>2 DEF SeqOf
<1>9. tau[1] = s
  <2>1. ((1 - 1) % m) + 1 = 1
    BY <1>3
  <2>2. 1 \in 1 .. k + 1
    BY <1>4
  <2> HIDE DEF k
  <2>3. QED
    BY <1>2, <2>1, <2>2
<1>10. tau[k + 1] = s
  <2>1. k % m = 0
    <3>1. k = m * n + 0
      BY <1>3
    <3> HIDE DEF k
    <3>2. QED
      BY <1>3, <1>4, <3>1, DivUnique
  <2> DEFINE j == k + 1
  <2>2. ((j - 1) % m) + 1 = 1 /\ j \in 1 .. j
    <3> HIDE DEF k
    <3>1. j - 1 = k
      BY <1>4
    <3> HIDE DEF j
    <3>2. (j - 1) % m = 0
      BY <2>1, <3>1
    <3>3. QED
      BY <1>4, <3>2 DEF j
  <2>3. tau = [i \in 1 .. j |-> a[((i - 1) % m) + 1]]
    OBVIOUS
  <2> HIDE DEF tau, j
  <2>4. tau[j] = a[1]
    BY <2>2, <2>3
  <2>5. QED
    BY <1>2, <2>4 DEF j
<1>11. ASSUME NEW i \in 1 .. k
       PROVE  Allowed(tau[i], q[i]) /\ tau[i + 1] = After(tau[i], q[i])
  <2> HIDE DEF k
  <2> DEFINE r == (i - 1) % m
  <2>1. i \in 1 .. k + 1 /\ i + 1 \in 1 .. k + 1 /\ i - 1 \in Nat
    BY <1>4
  <2>2. r \in 0 .. m - 1
    BY <1>3, <2>1
  <2>3. a[(((i + 1) - 1) % m) + 1] = a[r + 2]
    <3>1. ((i + 1) - 1) % m = IF r = m - 1 THEN 0 ELSE r + 1
      <4>1. ((i - 1) + 1) % m = IF r = m - 1 THEN 0 ELSE r + 1
        BY <1>3, <2>1, ModNext
      <4>2. (i - 1) + 1 = (i + 1) - 1
        BY <2>1
      <4> HIDE DEF r
      <4>3. QED
        BY <4>1, <4>2
    <3> HIDE DEF r
    <3>2. CASE r = m - 1
      <4>1. r + 2 = m + 1
        BY <1>3, <3>2
      <4>2. QED
        BY <1>2, <3>1, <3>2, <4>1
    <3>3. CASE r # m - 1
      <4>1. r + 2 = (r + 1) + 1
        BY <2>2
      <4>2. QED
        BY <3>1, <3>3, <4>1
    <3>4. QED
      BY <3>2, <3>3
  <2>4. q[i] = p[r + 1] /\ tau[i] = a[r + 1] /\ tau[i + 1] = a[r + 2]
    BY <1>5, <2>1, <2>3
  <2> HIDE DEF r
  <2>5. r + 1 \in 1 .. m /\ (r + 1) + 1 = r + 2
    BY <2>2
  <2>6. QED
    BY <1>2, <2>4, <2>5 DEF Follows
<1> HIDE DEF q, tau, k
<1>12. Over(tau, k + 1)
  BY DEF tau, Over
<1>13. Follows(q, k, tau)
  BY <1>11 DEF Follows
<1>14. Runs(q, s, s)
  BY <1>4, <1>8, <1>9, <1>10, <1>12, <1>13 DEF Runs
<1>15. QED
  BY <1>14 DEF q

LEMMA RunsTimes ==
  ASSUME NEW n \in Nat, NEW p, NEW s, Runs(p, s, s)
  PROVE  Runs(times(n, p), s, s)
<1>1. PICK m \in Nat : /\ SeqOf(Operations, m, p)
                       /\ \E tau : /\ Over(tau, m + 1)
                                    /\ tau[1] = s /\ tau[m + 1] = s /\ Follows(p, m, tau)
  BY DEF Runs
<1>2. PICK a : a[1] = s /\ a[m + 1] = s /\ Follows(p, m, a)
  BY <1>1
<1>3. p \in Seq(Operations) /\ Len(p) = m
  BY <1>1 DEF SeqOf
<1>4. CASE m = 0
  <2> DEFINE q == times(n, p)
             tau == [i \in 1 .. 0 + 1 |-> s]
  <2>1. SeqOf(Operations, 0, q)
    <3>1. n * Len(p) = 0
      BY <1>3, <1>4
    <3>2. q = << >>
      BY <3>1 DEF times
    <3>3. QED
      BY <3>2 DEF SeqOf
  <2>2. Over(tau, 0 + 1) /\ tau[1] = s /\ tau[0 + 1] = s /\ Follows(q, 0, tau)
    BY DEF Over, Follows
  <2> HIDE DEF q, tau
  <2>3. Runs(q, s, s)
    BY <2>1, <2>2 DEF Runs
  <2>4. QED
    BY <2>3 DEF q
<1>5. CASE m # 0
  <2>1. m \in Nat \ {0}
    BY <1>5
  <2>2. QED
    BY <1>1, <1>2, <2>1, TimesOnce
<1>6. QED
  BY <1>4, <1>5
-----------------------------------------------------------------------------
(***************************************************************************)
(* The operations and the small programs, once everything is known.        *)
(***************************************************************************)
Known(b, p, u, o, l) == Knowledge(2, b, p, u, o, l)

LEMMA RegsInBanks ==
  /\ \A b \in 0 .. 3 : BankRegs[b] \subseteq AllRegs
  /\ {"WHO_AM_I", "USER_CTRL", "LP_CONF", "PWR_MGMT_1", "PWR_MGMT_2",
      "INT_ENABLE", "INT_ENABLE_2", "DMP_INT_STATUS", "INT_STATUS",
      "SINGLE_FIFO_PRIORITY_SEL", "FIFO_EN_1", "FIFO_EN_2", "FIFO_RST",
      "HW_FIX_DISABLE", "FIFO_CFG"} \subseteq BankRegs[0]
  /\ "TIMEBASE_CORRECTION_PLL" \in BankRegs[1]
  /\ {"GYRO_SMPLRT_DIV", "GYRO_CONFIG", "0x02", "ACCEL_SMPLRT_DIV_1",
      "ACCEL_SMPLRT_DIV_2", "ACCEL_CONFIG", "ACCEL_CONFIG_2",
      "DMP_ADDR_MSB", "DMP_ADDR_LSB"} \subseteq BankRegs[2]
  /\ {"I2C_MST_ODR_CONFIG", "I2C_CTRL", "0x0D", "0x11", "SLV0_ADDR", "SLV0_REG",
      "SLV0_CTRL", "SLV1_ADDR", "SLV1_REG", "SLV1_CTRL", "SLV1_DO"} \subseteq BankRegs[3]
  /\ \A b \in 1 .. 3 : "PWR_MGMT_1" \notin BankRegs[b] /\ "USER_CTRL" \notin BankRegs[b]
<1>1. \A b \in 0 .. 3 : BankRegs[b] \subseteq AllRegs
  BY DEF AllRegs
<1>2. 0 \in 0 .. 3 /\ 1 \in 0 .. 3 /\ 2 \in 0 .. 3 /\ 3 \in 0 .. 3
  OBVIOUS
<1>3. /\ BankRegs[0] = {"WHO_AM_I", "USER_CTRL", "LP_CONF", "PWR_MGMT_1", "PWR_MGMT_2",
                        "INT_ENABLE", "INT_ENABLE_2", "DMP_INT_STATUS", "INT_STATUS",
                        "SINGLE_FIFO_PRIORITY_SEL", "FIFO_EN_1", "FIFO_EN_2",
                        "FIFO_RST", "FIFO_COUNTH", "FIFO_R_W", "HW_FIX_DISABLE",
                        "FIFO_CFG", "MEM_START_ADDR", "MEM_R_W", "MEM_BANK_SEL"}
  BY <1>2 DEF BankRegs
<1>4. BankRegs[1] = {"TIMEBASE_CORRECTION_PLL"}
  BY <1>2 DEF BankRegs
<1>5. BankRegs[2] = {"GYRO_SMPLRT_DIV", "GYRO_CONFIG", "0x02", "ACCEL_SMPLRT_DIV_1",
                     "ACCEL_SMPLRT_DIV_2", "ACCEL_CONFIG", "ACCEL_CONFIG_2",
                     "DMP_ADDR_MSB", "DMP_ADDR_LSB"}
  BY <1>2 DEF BankRegs
<1>6. BankRegs[3] = {"I2C_MST_ODR_CONFIG", "I2C_CTRL", "0x0D", "0x11",
                     "SLV0_ADDR", "SLV0_REG", "SLV0_CTRL",
                     "SLV1_ADDR", "SLV1_REG", "SLV1_CTRL", "SLV1_DO"}
  BY <1>2 DEF BankRegs
<1>7. \A b \in 1 .. 3 : b = 1 \/ b = 2 \/ b = 3
  OBVIOUS
<1>8. QED
  BY <1>1, <1>3, <1>4, <1>5, <1>6, <1>7

LEMMA BankRuns ==
  ASSUME NEW c \in 0 .. 3, NEW b, NEW p, NEW u, NEW o, NEW l
  PROVE  Runs(setBank(c), Known(b, p, u, o, l), Known(c, p, u, o, l))
<1> DEFINE op == [do |-> "bank", bank |-> c]
           s == Known(b, p, u, o, l)
<1>1. op \in Operations
  BY DEF Operations
<1>2. Allowed(s, op)
  BY DEF Allowed, Resets
<1>3. Known(c, p, u, o, l) = After(s, op)
  BY DEF After, Resets, Known, Knowledge
<1> HIDE DEF op, s
<1>4. Runs(<<op>>, s, Known(c, p, u, o, l))
  BY <1>1, <1>2, <1>3, RunsOne
<1>5. QED
  BY <1>4 DEF op, s, setBank

LEMMA ReadRuns ==
  ASSUME NEW b \in 0 .. 3, NEW reg \in BankRegs[b], NEW p, NEW u, NEW o, NEW l
  PROVE  Runs(read(reg), Known(b, p, u, o, l), Known(b, p, u, o, l))
<1> DEFINE op == [do |-> "read", reg |-> reg]
           s == Known(b, p, u, o, l)
<1>1. op \in Operations
  BY RegsInBanks DEF Operations
<1>2. Allowed(s, op)
  BY DEF Allowed, Resets, Known, Knowledge
<1>3. s = After(s, op)
  BY DEF After, Resets
<1> HIDE DEF op, s
<1>4. Runs(<<op>>, s, s)
  BY <1>1, <1>2, <1>3, RunsOne
<1>5. QED
  BY <1>4 DEF op, s, read

LEMMA PowerRuns ==
  ASSUME NEW bits \in SUBSET Bits, "DEVICE_RESET" \notin bits,
         NEW p, NEW u, NEW o, NEW l
  PROVE  Runs(write("PWR_MGMT_1", bits), Known(0, p, u, o, l), Known(0, bits, u, o, l))
<1> DEFINE op == [do |-> "write", reg |-> "PWR_MGMT_1", bits |-> bits]
           s == Known(0, p, u, o, l)
<1>1. op \in Operations
  BY RegsInBanks DEF Operations
<1>2. Allowed(s, op)
  BY RegsInBanks DEF Allowed, Resets, Known, Knowledge
<1>3. Known(0, bits, u, o, l) = After(s, op)
  BY DEF After, Resets, Known, Knowledge
<1> HIDE DEF op, s
<1>4. Runs(<<op>>, s, Known(0, bits, u, o, l))
  BY <1>1, <1>2, <1>3, RunsOne
<1>5. QED
  BY <1>4 DEF op, s, write

LEMMA UserRuns ==
  ASSUME NEW bits \in SUBSET Bits, NEW p, NEW u, NEW o, NEW l \in BOOLEAN,
         "DMP_EN" \in bits => l
  PROVE  Runs(write("USER_CTRL", bits), Known(0, p, u, o, l),
              Known(0, p, bits \ {"DMP_RST"}, o, l))
<1> DEFINE op == [do |-> "write", reg |-> "USER_CTRL", bits |-> bits]
           s == Known(0, p, u, o, l)
           t == Known(0, p, bits \ {"DMP_RST"}, o, l)
<1>1. op \in Operations
  BY RegsInBanks DEF Operations
<1>2. Allowed(s, op)
  BY RegsInBanks DEF Allowed, Resets, Known, Knowledge
<1>3. t = After(s, op)
  BY DEF After, Resets, Known, Knowledge
<1> HIDE DEF op, s, t
<1>4. Runs(<<op>>, s, t)
  BY <1>1, <1>2, <1>3, RunsOne
<1>5. QED
  BY <1>4 DEF op, s, t, write

LEMMA ParamRuns ==
  ASSUME NEW cell \in {OutputCell, TunedCell}, NEW value \in CellValues,
         NEW p, NEW u, NEW o, NEW l
  PROVE  Runs(dmpWrite(cell, value), Known(0, p, u, o, l),
              Known(0, p, u, IF cell = OutputCell /\ Writable(p) THEN value ELSE o, l))
<1> DEFINE op == [do |-> "param", cell |-> cell, value |-> value]
           s == Known(0, p, u, o, l)
           t == Known(0, p, u, IF cell = OutputCell /\ Writable(p) THEN value ELSE o, l)
<1>1. op \in Operations
  BY DEF Operations
<1>2. Allowed(s, op)
  BY DEF Allowed, Resets, Known, Knowledge
<1>3. t = After(s, op)
  BY DEF After, Resets, Known, Knowledge
<1> HIDE DEF op, s, t
<1>4. Runs(<<op>>, s, t)
  BY <1>1, <1>2, <1>3, RunsOne
<1>5. QED
  BY <1>4 DEF op, s, t, dmpWrite

LEMMA LoadRuns ==
  ASSUME NEW p, Writable(p), NEW u, "DMP_EN" \notin u, NEW o, NEW l
  PROVE  Runs(loadImage, Known(0, p, u, o, l), Known(0, p, u, o, TRUE))
<1> DEFINE op == [do |-> "load"]
           s == Known(0, p, u, o, l)
           t == Known(0, p, u, o, TRUE)
<1>1. op \in Operations
  BY DEF Operations
<1>2. Allowed(s, op)
  BY DEF Allowed, Resets, Known, Knowledge
<1>3. t = After(s, op)
  BY DEF After, Resets, Known, Knowledge
<1> HIDE DEF op, s, t
<1>4. Runs(<<op>>, s, t)
  BY <1>1, <1>2, <1>3, RunsOne
<1>5. QED
  BY <1>4 DEF op, s, t, loadImage

\* Writes of zero that change nothing the properties tell apart: to registers
\* not modelled, or to one that is zero.
Still(b, p, u) ==
  {reg \in BankRegs[b] : (reg = "PWR_MGMT_1" => p = {}) /\ (reg = "USER_CTRL" => u = {})}

Plain(b) == BankRegs[b] \ {"PWR_MGMT_1", "USER_CTRL"}

LEMMA WritesRun ==
  ASSUME NEW b \in 0 .. 3, NEW n \in Nat, NEW p, NEW u, NEW o, NEW l,
         NEW regs \in [1 .. n -> Still(b, p, u)]
  PROVE  Runs(writes(regs), Known(b, p, u, o, l), Known(b, p, u, o, l))
<1> DEFINE s == Known(b, p, u, o, l)
           q == writes(regs)
           tau == [i \in 1 .. n + 1 |-> s]
<1>1. q = [i \in 1 .. n |-> [do |-> "write", reg |-> regs[i], bits |-> {}]]
  BY DEF writes
<1>2. ASSUME NEW i \in 1 .. n
      PROVE  q[i] \in Operations /\ Allowed(s, q[i]) /\ s = After(s, q[i])
  <2> DEFINE op == [do |-> "write", reg |-> regs[i], bits |-> {}]
  <2>1. /\ regs[i] \in BankRegs[b]
        /\ regs[i] = "PWR_MGMT_1" => p = {}
        /\ regs[i] = "USER_CTRL" => u = {}
    BY DEF Still
  <2>2. op \in Operations
    BY <2>1, RegsInBanks DEF Operations
  <2>3. Allowed(s, op)
    BY <2>1 DEF Allowed, Resets, Known, Knowledge
  <2>4. s = After(s, op)
    BY <2>1 DEF After, Resets, Known, Knowledge
  <2>5. QED
    BY <1>1, <2>2, <2>3, <2>4
<1> HIDE DEF s, q
<1>3. SeqOf(Operations, n, q)
  BY <1>1, <1>2 DEF SeqOf
<1>4. Over(tau, n + 1) /\ tau[1] = s /\ tau[n + 1] = s
  BY DEF Over
<1>5. Follows(q, n, tau)
  BY <1>2 DEF Follows
<1> HIDE DEF tau
<1>6. Runs(q, s, s)
  BY <1>3, <1>4, <1>5 DEF Runs
<1>7. QED
  BY <1>6 DEF q, s
LEMMA TuneRuns ==
  ASSUME NEW p, NEW u, NEW o, NEW l
  PROVE  /\ Runs(tune, Known(0, p, u, o, l), Known(0, p, u, o, l))
         /\ \A n \in Nat :
              Runs(times(n, tune), Known(0, p, u, o, l), Known(0, p, u, o, l))
<1>1. TunedCell # OutputCell /\ Tuned \in CellValues
  BY MemoryAssumption DEF TunedCell, OutputCell, Tuned, CellValues
<1>2. Runs(dmpWrite(TunedCell, Tuned), Known(0, p, u, o, l),
           Known(0, p, u, IF TunedCell = OutputCell /\ Writable(p) THEN Tuned ELSE o, l))
  BY <1>1, ParamRuns
<1>3. Runs(tune, Known(0, p, u, o, l), Known(0, p, u, o, l))
  BY <1>1, <1>2 DEF tune
<1>4. QED
  BY <1>3, RunsTimes

\* The output switched, if the memory takes the write.
LEMMA OutputRuns ==
  ASSUME NEW value \in CellValues, NEW p, NEW u, NEW o, NEW l
  PROVE  Runs(outputConfig(value), Known(0, p, u, o, l),
              Known(0, p, u, IF Writable(p) THEN value ELSE o, l))
<1> DEFINE v == IF Writable(p) THEN value ELSE o
<1>1. Runs(dmpWrite(OutputCell, value), Known(0, p, u, o, l), Known(0, p, u, v, l))
  <2>1. Runs(dmpWrite(OutputCell, value), Known(0, p, u, o, l),
             Known(0, p, u, IF OutputCell = OutputCell /\ Writable(p) THEN value ELSE o, l))
    BY ParamRuns
  <2>2. (IF OutputCell = OutputCell /\ Writable(p) THEN value ELSE o) = v
    OBVIOUS
  <2>3. QED
    BY <2>1, <2>2
<1> HIDE DEF v
<1>2. Runs(times(3, tune), Known(0, p, u, v, l), Known(0, p, u, v, l))
  BY TuneRuns
<1>3. Runs(outputConfig(value), Known(0, p, u, o, l), Known(0, p, u, v, l))
  BY <1>1, <1>2, RunsOn DEF outputConfig
<1>4. QED
  BY <1>3 DEF v

LEMMA WakeRuns ==
  ASSUME NEW u, NEW o, NEW l
  PROVE  Runs(lpWakeCycle, Known(0, {}, u, o, l), Known(0, {}, u, o, l))
<1>1. Runs(write("PWR_MGMT_1", {"LP_EN"}), Known(0, {}, u, o, l), Known(0, {"LP_EN"}, u, o, l))
  BY PowerRuns DEF Bits
<1>2. Runs(write("PWR_MGMT_1", {}), Known(0, {"LP_EN"}, u, o, l), Known(0, {}, u, o, l))
  BY PowerRuns
<1>3. QED
  BY <1>1, <1>2, RunsOn DEF lpWakeCycle

\* A program whose last operation releases the FIFO.
release == [do |-> "write", reg |-> "FIFO_RST", bits |-> {}]

Releases(p) == \E n \in Nat : SeqOf(Operations, n + 1, p) /\ p[n + 1] = release

LEMMA ReleasesOn ==
  ASSUME NEW p, NEW q, NEW s, NEW t, Runs(p, s, t), Releases(q)
  PROVE  Releases(p \o q)
<1>1. PICK m \in Nat : SeqOf(Operations, m, p)
  BY DEF Runs
<1>2. PICK n \in Nat : SeqOf(Operations, n + 1, q) /\ q[n + 1] = release
  BY DEF Releases
<1> DEFINE r == p \o q
<1>3. SeqOf(Operations, m + (n + 1), r) /\ Joins(r, m, p, n + 1, q)
  BY <1>1, <1>2, Joined
<1> HIDE DEF r
<1>4. r[m + (n + 1)] = release
  <2>1. n + 1 \in 1 .. n + 1
    OBVIOUS
  <2>2. QED
    BY <1>2, <1>3, <2>1 DEF Joins
<1>5. m + (n + 1) = (m + n) + 1 /\ m + n \in Nat
  OBVIOUS
<1>6. Releases(r)
  BY <1>3, <1>4, <1>5 DEF Releases
<1>7. QED
  BY <1>6 DEF r

LEMMA FifoResetRuns ==
  ASSUME NEW p, NEW u, NEW o, NEW l
  PROVE  /\ Runs(resetFifo, Known(0, p, u, o, l), Known(0, p, u, o, l))
         /\ Releases(resetFifo)
<1> DEFINE s == Known(0, p, u, o, l)
<1>1. ASSUME NEW bits \in SUBSET Bits
      PROVE  Runs(write("FIFO_RST", bits), s, s)
  <2> DEFINE op == [do |-> "write", reg |-> "FIFO_RST", bits |-> bits]
  <2>1. op \in Operations
    BY RegsInBanks DEF Operations
  <2>2. Allowed(s, op)
    BY RegsInBanks DEF Allowed, Resets, Known, Knowledge
  <2>3. s = After(s, op)
    BY DEF After, Resets, Known, Knowledge
  <2> HIDE DEF op, s
  <2>4. Runs(<<op>>, s, s)
    BY <2>1, <2>2, <2>3, RunsOne
  <2>5. QED
    BY <2>4 DEF op, write
<1> HIDE DEF s
<1>2. Runs(write("FIFO_RST", {"FIFO_RST0"}), s, s) /\ Runs(write("FIFO_RST", {}), s, s)
  BY <1>1 DEF Bits
<1>3. Releases(write("FIFO_RST", {}))
  <2> DEFINE q == <<release>>
  <2>1. release \in Operations
    BY RegsInBanks DEF release, Operations
  <2>2. SeqOf(Operations, 0 + 1, q) /\ q[0 + 1] = release
    BY <2>1 DEF SeqOf
  <2> HIDE DEF q
  <2>3. Releases(q)
    BY <2>2 DEF Releases
  <2>4. QED
    BY <2>3 DEF q, release, write
<1>4. Releases(write("FIFO_RST", {"FIFO_RST0"}) \o write("FIFO_RST", {}))
  BY <1>2, <1>3, ReleasesOn
<1>5. QED
  BY <1>2, <1>4, RunsOn DEF resetFifo, s

\* Lists of registers of a bank whose writes change nothing told apart.
PlainRegs(b, regs) == \E n \in Nat : regs \in [1 .. n -> Plain(b)]

LEMMA PlainLists ==
  /\ PlainRegs(2, <<"DMP_ADDR_MSB", "DMP_ADDR_LSB">>)
  /\ PlainRegs(0, <<"INT_ENABLE", "INT_ENABLE_2", "SINGLE_FIFO_PRIORITY_SEL",
                       "HW_FIX_DISABLE">>)
  /\ PlainRegs(2, <<"GYRO_SMPLRT_DIV", "ACCEL_SMPLRT_DIV_1",
                       "ACCEL_SMPLRT_DIV_2">>)
  /\ PlainRegs(0, <<"FIFO_CFG">>)
  /\ PlainRegs(0, <<"FIFO_EN_1", "FIFO_EN_2">>)
  /\ PlainRegs(0, <<"PWR_MGMT_2">>)
  /\ PlainRegs(3, <<"SLV0_CTRL", "SLV1_CTRL", "0x0D", "0x11", "I2C_CTRL", "I2C_MST_ODR_CONFIG",
                       "SLV1_ADDR", "SLV1_REG", "SLV1_DO", "SLV1_CTRL">>)
  /\ PlainRegs(3, <<"SLV0_CTRL", "SLV1_CTRL">>)
  /\ PlainRegs(2, <<"ACCEL_CONFIG", "ACCEL_CONFIG_2">>)
  /\ PlainRegs(2, <<"GYRO_CONFIG", "0x02">>)
  /\ PlainRegs(2, <<"ACCEL_SMPLRT_DIV_1", "ACCEL_SMPLRT_DIV_2",
                       "GYRO_SMPLRT_DIV">>)
  /\ PlainRegs(3, <<"SLV0_ADDR", "SLV0_REG", "SLV0_CTRL", "SLV1_ADDR", "SLV1_REG",
                       "SLV1_DO", "SLV1_CTRL", "I2C_MST_ODR_CONFIG">>)
<1> USE RegsInBanks DEF PlainRegs, Plain
<1>1. PlainRegs(2, <<"DMP_ADDR_MSB", "DMP_ADDR_LSB">>)
  <2>1. <<"DMP_ADDR_MSB", "DMP_ADDR_LSB">> \in [1 .. 2 -> Plain(2)]
    OBVIOUS
  <2>2. QED
    BY <2>1
<1>2. PlainRegs(0, <<"INT_ENABLE", "INT_ENABLE_2", "SINGLE_FIFO_PRIORITY_SEL",
                       "HW_FIX_DISABLE">>)
  <2>1. <<"INT_ENABLE", "INT_ENABLE_2", "SINGLE_FIFO_PRIORITY_SEL",
                       "HW_FIX_DISABLE">> \in [1 .. 4 -> Plain(0)]
    OBVIOUS
  <2>2. QED
    BY <2>1
<1>3. PlainRegs(2, <<"GYRO_SMPLRT_DIV", "ACCEL_SMPLRT_DIV_1",
                       "ACCEL_SMPLRT_DIV_2">>)
  <2>1. <<"GYRO_SMPLRT_DIV", "ACCEL_SMPLRT_DIV_1",
                       "ACCEL_SMPLRT_DIV_2">> \in [1 .. 3 -> Plain(2)]
    OBVIOUS
  <2>2. QED
    BY <2>1
<1>4. PlainRegs(0, <<"FIFO_CFG">>)
  <2>1. <<"FIFO_CFG">> \in [1 .. 1 -> Plain(0)]
    OBVIOUS
  <2>2. QED
    BY <2>1
<1>5. PlainRegs(0, <<"FIFO_EN_1", "FIFO_EN_2">>)
  <2>1. <<"FIFO_EN_1", "FIFO_EN_2">> \in [1 .. 2 -> Plain(0)]
    OBVIOUS
  <2>2. QED
    BY <2>1
<1>6. PlainRegs(0, <<"PWR_MGMT_2">>)
  <2>1. <<"PWR_MGMT_2">> \in [1 .. 1 -> Plain(0)]
    OBVIOUS
  <2>2. QED
    BY <2>1
<1>7. PlainRegs(3, <<"SLV0_CTRL", "SLV1_CTRL", "0x0D", "0x11", "I2C_CTRL", "I2C_MST_ODR_CONFIG",
                       "SLV1_ADDR", "SLV1_REG", "SLV1_DO", "SLV1_CTRL">>)
  <2>1. <<"SLV0_CTRL", "SLV1_CTRL", "0x0D", "0x11", "I2C_CTRL", "I2C_MST_ODR_CONFIG",
                       "SLV1_ADDR", "SLV1_REG", "SLV1_DO", "SLV1_CTRL">> \in [1 .. 10 -> Plain(3)]
    OBVIOUS
  <2>2. QED
    BY <2>1
<1>8. PlainRegs(3, <<"SLV0_CTRL", "SLV1_CTRL">>)
  <2>1. <<"SLV0_CTRL", "SLV1_CTRL">> \in [1 .. 2 -> Plain(3)]
    OBVIOUS
  <2>2. QED
    BY <2>1
<1>9. PlainRegs(2, <<"ACCEL_CONFIG", "ACCEL_CONFIG_2">>)
  <2>1. <<"ACCEL_CONFIG", "ACCEL_CONFIG_2">> \in [1 .. 2 -> Plain(2)]
    OBVIOUS
  <2>2. QED
    BY <2>1
<1>10. PlainRegs(2, <<"GYRO_CONFIG", "0x02">>)
  <2>1. <<"GYRO_CONFIG", "0x02">> \in [1 .. 2 -> Plain(2)]
    OBVIOUS
  <2>2. QED
    BY <2>1
<1>11. PlainRegs(2, <<"ACCEL_SMPLRT_DIV_1", "ACCEL_SMPLRT_DIV_2",
                       "GYRO_SMPLRT_DIV">>)
  <2>1. <<"ACCEL_SMPLRT_DIV_1", "ACCEL_SMPLRT_DIV_2",
                       "GYRO_SMPLRT_DIV">> \in [1 .. 3 -> Plain(2)]
    OBVIOUS
  <2>2. QED
    BY <2>1
<1>12. PlainRegs(3, <<"SLV0_ADDR", "SLV0_REG", "SLV0_CTRL", "SLV1_ADDR", "SLV1_REG",
                       "SLV1_DO", "SLV1_CTRL", "I2C_MST_ODR_CONFIG">>)
  <2>1. <<"SLV0_ADDR", "SLV0_REG", "SLV0_CTRL", "SLV1_ADDR", "SLV1_REG",
                       "SLV1_DO", "SLV1_CTRL", "I2C_MST_ODR_CONFIG">> \in [1 .. 8 -> Plain(3)]
    OBVIOUS
  <2>2. QED
    BY <2>1
<1>13. QED
  BY <1>1, <1>2, <1>3, <1>4, <1>5, <1>6, <1>7, <1>8, <1>9, <1>10, <1>11, <1>12

LEMMA ListRuns ==
  ASSUME NEW b \in 0 .. 3, NEW regs, PlainRegs(b, regs), NEW p, NEW u, NEW o, NEW l
  PROVE  Runs(writes(regs), Known(b, p, u, o, l), Known(b, p, u, o, l))
<1>1. PICK n \in Nat : regs \in [1 .. n -> Plain(b)]
  BY DEF PlainRegs
<1>2. regs \in [1 .. n -> Still(b, p, u)]
  BY <1>1 DEF Plain, Still
<1>3. QED
  BY <1>2, WritesRun

LEMMA OutputValues == OutputOff \in CellValues /\ OutputOn \in CellValues
  BY MemoryAssumption DEF OutputOff, OutputOn, CellValues, Tuned

LEMMA WritablePower == Writable({}) /\ ~ Writable({"LP_EN"})
  BY DEF Writable

\* The same after some program c.
LEMMA ThenBank ==
  ASSUME NEW k \in 0 .. 3, NEW b, NEW p, NEW u, NEW o, NEW l,
         NEW c, NEW s, Runs(c, s, Known(b, p, u, o, l))
  PROVE  Runs(c \o setBank(k), s, Known(k, p, u, o, l))
<1>1. Runs(setBank(k), Known(b, p, u, o, l), Known(k, p, u, o, l))
  BY BankRuns
<1>2. QED
  BY <1>1, RunsOn

LEMMA ThenRead ==
  ASSUME NEW b \in 0 .. 3, NEW reg \in BankRegs[b], NEW p, NEW u, NEW o, NEW l,
         NEW c, NEW s, Runs(c, s, Known(b, p, u, o, l))
  PROVE  Runs(c \o read(reg), s, Known(b, p, u, o, l))
<1>1. Runs(read(reg), Known(b, p, u, o, l), Known(b, p, u, o, l))
  BY ReadRuns
<1>2. QED
  BY <1>1, RunsOn

LEMMA ThenPower ==
  ASSUME NEW bits \in SUBSET Bits, "DEVICE_RESET" \notin bits, NEW p, NEW u, NEW o, NEW l,
         NEW c, NEW s, Runs(c, s, Known(0, p, u, o, l))
  PROVE  Runs(c \o write("PWR_MGMT_1", bits), s, Known(0, bits, u, o, l))
<1>1. Runs(write("PWR_MGMT_1", bits), Known(0, p, u, o, l), Known(0, bits, u, o, l))
  BY PowerRuns
<1>2. QED
  BY <1>1, RunsOn

LEMMA ThenUser ==
  ASSUME NEW bits \in SUBSET Bits, NEW p, NEW u, NEW o, NEW l \in BOOLEAN,
         "DMP_EN" \in bits => l, NEW v, v = bits \ {"DMP_RST"},
         NEW c, NEW s, Runs(c, s, Known(0, p, u, o, l))
  PROVE  Runs(c \o write("USER_CTRL", bits), s, Known(0, p, v, o, l))
<1>1. Runs(write("USER_CTRL", bits), Known(0, p, u, o, l), Known(0, p, v, o, l))
  BY UserRuns
<1>2. QED
  BY <1>1, RunsOn

LEMMA ThenTune ==
  ASSUME NEW p, NEW u, NEW o, NEW l, NEW c, NEW s, Runs(c, s, Known(0, p, u, o, l))
  PROVE  /\ Runs(c \o tune, s, Known(0, p, u, o, l))
         /\ \A n \in Nat : Runs(c \o times(n, tune), s, Known(0, p, u, o, l))
  BY TuneRuns, RunsOn

LEMMA ThenOutput ==
  ASSUME NEW value \in CellValues, NEW p, NEW u, NEW o, NEW l,
         NEW v, v = IF Writable(p) THEN value ELSE o,
         NEW c, NEW s, Runs(c, s, Known(0, p, u, o, l))
  PROVE  Runs(c \o outputConfig(value), s, Known(0, p, u, v, l))
<1>1. Runs(outputConfig(value), Known(0, p, u, o, l), Known(0, p, u, v, l))
  BY OutputRuns
<1>2. QED
  BY <1>1, RunsOn

LEMMA ThenWake ==
  ASSUME NEW u, NEW o, NEW l,
         NEW c, NEW s, Runs(c, s, Known(0, {}, u, o, l))
  PROVE  Runs(c \o lpWakeCycle, s, Known(0, {}, u, o, l))
<1>1. Runs(lpWakeCycle, Known(0, {}, u, o, l), Known(0, {}, u, o, l))
  BY WakeRuns
<1>2. QED
  BY <1>1, RunsOn

LEMMA ThenFifo ==
  ASSUME NEW p, NEW u, NEW o, NEW l,
         NEW c, NEW s, Runs(c, s, Known(0, p, u, o, l))
  PROVE  Runs(c \o resetFifo, s, Known(0, p, u, o, l))
<1>1. Runs(resetFifo, Known(0, p, u, o, l), Known(0, p, u, o, l))
  BY FifoResetRuns
<1>2. QED
  BY <1>1, RunsOn

LEMMA ThenWrites ==
  ASSUME NEW b \in 0 .. 3, NEW regs, PlainRegs(b, regs), NEW p, NEW u, NEW o, NEW l,
         NEW c, NEW s, Runs(c, s, Known(b, p, u, o, l))
  PROVE  Runs(c \o writes(regs), s, Known(b, p, u, o, l))
<1>1. Runs(writes(regs), Known(b, p, u, o, l), Known(b, p, u, o, l))
  BY ListRuns
<1>2. QED
  BY <1>1, RunsOn

LEMMA ThenSettle ==
  ASSUME NEW u, NEW o, NEW l, NEW c, NEW s, Runs(c, s, Known(0, {}, u, o, l))
  PROVE  Runs(c \o writes(<<"LP_CONF", "PWR_MGMT_1">>), s, Known(0, {}, u, o, l))
<1> DEFINE regs == <<"LP_CONF", "PWR_MGMT_1">>
<1>1. regs \in [1 .. 2 -> Still(0, {}, u)]
  BY RegsInBanks DEF Still
<1> HIDE DEF regs
<1>2. Runs(writes(regs), Known(0, {}, u, o, l), Known(0, {}, u, o, l))
  BY <1>1, WritesRun
<1>3. QED
  BY <1>2, RunsOn DEF regs

LEMMA ThenLoad ==
  ASSUME NEW p, Writable(p), NEW u, "DMP_EN" \notin u, NEW o, NEW l,
         NEW c, NEW s, Runs(c, s, Known(0, p, u, o, l))
  PROVE  Runs(c \o loadImage, s, Known(0, p, u, o, TRUE))
<1>1. Runs(loadImage, Known(0, p, u, o, l), Known(0, p, u, o, TRUE))
  BY LoadRuns
<1>2. QED
  BY <1>1, RunsOn
-----------------------------------------------------------------------------
(***************************************************************************)
(* The parts of the configuration.                                         *)
(***************************************************************************)
LEMMA LoadDmpRuns ==
  ASSUME NEW o, NEW l
  PROVE  Runs(loadDmp, Known(0, {}, {}, o, l),
              Known(0, {}, {}, o, TRUE))
<1> DEFINE s == Known(0, {}, {}, o, l)
           c1 == setBank(0)
           c2 == c1 \o loadImage
<1>1. Runs(c1, s, Known(0, {}, {}, o, l))
  BY BankRuns
<1> HIDE DEF c1
<1>2. Runs(c2, s, Known(0, {}, {}, o, TRUE))
  BY <1>1, ThenLoad, WritablePower
<1> HIDE DEF c2
<1>3. QED
  BY <1>2 DEF s, c1, c2, loadDmp

LEMMA StartAddressAndInterruptsRuns ==
  ASSUME NEW u, NEW o, NEW l
  PROVE  Runs(startAddressAndInterrupts, Known(0, {}, u, o, l),
              Known(0, {}, u, OutputOff, l))
<1> DEFINE s == Known(0, {}, u, o, l)
           c1 == setBank(2)
           c2 == c1 \o writes(<<"DMP_ADDR_MSB", "DMP_ADDR_LSB">>)
           c3 == c2 \o setBank(0)
           c4 == c3 \o outputConfig(OutputOff)
           c5 == c4 \o times(2, tune)
           c6 == c5 \o writes(<<"INT_ENABLE", "INT_ENABLE_2", "SINGLE_FIFO_PRIORITY_SEL",
                               "HW_FIX_DISABLE">>)
<1>1. Runs(c1, s, Known(2, {}, u, o, l))
  BY BankRuns
<1> HIDE DEF c1
<1>2. Runs(c2, s, Known(2, {}, u, o, l))
  BY <1>1, ThenWrites, PlainLists
<1> HIDE DEF c2
<1>3. Runs(c3, s, Known(0, {}, u, o, l))
  BY <1>2, ThenBank
<1> HIDE DEF c3
<1>4. Runs(c4, s, Known(0, {}, u, OutputOff, l))
  BY <1>3, ThenOutput, OutputValues, WritablePower
<1> HIDE DEF c4
<1>5. Runs(c5, s, Known(0, {}, u, OutputOff, l))
  BY <1>4, ThenTune
<1> HIDE DEF c5
<1>6. Runs(c6, s, Known(0, {}, u, OutputOff, l))
  BY <1>5, ThenWrites, PlainLists
<1> HIDE DEF c6
<1>7. QED
  BY <1>6 DEF s, c1, c2, c3, c4, c5, c6, startAddressAndInterrupts

LEMMA RatesAndFifoRuns ==
  ASSUME NEW p, NEW u, NEW o, NEW l
  PROVE  Runs(ratesAndFifo, Known(0, p, u, o, l),
              Known(0, p, u, o, l))
<1> DEFINE s == Known(0, p, u, o, l)
           c1 == setBank(2)
           c2 == c1 \o writes(<<"GYRO_SMPLRT_DIV", "ACCEL_SMPLRT_DIV_1",
                               "ACCEL_SMPLRT_DIV_2">>)
           c3 == c2 \o setBank(0)
           c4 == c3 \o times(2, tune)
           c5 == c4 \o writes(<<"FIFO_CFG">>)
           c6 == c5 \o resetFifo
           c7 == c6 \o writes(<<"FIFO_EN_1", "FIFO_EN_2">>)
<1>1. Runs(c1, s, Known(2, p, u, o, l))
  BY BankRuns
<1> HIDE DEF c1
<1>2. Runs(c2, s, Known(2, p, u, o, l))
  BY <1>1, ThenWrites, PlainLists
<1> HIDE DEF c2
<1>3. Runs(c3, s, Known(0, p, u, o, l))
  BY <1>2, ThenBank
<1> HIDE DEF c3
<1>4. Runs(c4, s, Known(0, p, u, o, l))
  BY <1>3, ThenTune
<1> HIDE DEF c4
<1>5. Runs(c5, s, Known(0, p, u, o, l))
  BY <1>4, ThenWrites, PlainLists
<1> HIDE DEF c5
<1>6. Runs(c6, s, Known(0, p, u, o, l))
  BY <1>5, ThenFifo
<1> HIDE DEF c6
<1>7. Runs(c7, s, Known(0, p, u, o, l))
  BY <1>6, ThenWrites, PlainLists
<1> HIDE DEF c7
<1>8. QED
  BY <1>7 DEF s, c1, c2, c3, c4, c5, c6, c7, ratesAndFifo

LEMMA PowerCycleRuns ==
  ASSUME NEW p, NEW u, NEW o, NEW l
  PROVE  Runs(powerCycle, Known(0, p, u, o, l),
              Known(0, {}, u, o, l))
<1> DEFINE s == Known(0, p, u, o, l)
           c1 == write("PWR_MGMT_1", {"LP_EN"})
           c2 == c1 \o writes(<<"PWR_MGMT_2">>)
           c3 == c2 \o write("PWR_MGMT_1", {"LP_EN", "SLEEP"})
           c4 == c3 \o write("PWR_MGMT_1", {"LP_EN"})
           c5 == c4 \o write("PWR_MGMT_1", {})
<1>1. Runs(c1, s, Known(0, {"LP_EN"}, u, o, l))
  BY PowerRuns DEF Bits
<1> HIDE DEF c1
<1>2. Runs(c2, s, Known(0, {"LP_EN"}, u, o, l))
  BY <1>1, ThenWrites, PlainLists
<1> HIDE DEF c2
<1>3. Runs(c3, s, Known(0, {"LP_EN", "SLEEP"}, u, o, l))
  BY <1>2, ThenPower DEF Bits
<1> HIDE DEF c3
<1>4. Runs(c4, s, Known(0, {"LP_EN"}, u, o, l))
  BY <1>3, ThenPower DEF Bits
<1> HIDE DEF c4
<1>5. Runs(c5, s, Known(0, {}, u, o, l))
  BY <1>4, ThenPower DEF Bits
<1> HIDE DEF c5
<1>6. QED
  BY <1>5 DEF s, c1, c2, c3, c4, c5, powerCycle

LEMMA MagnetometerResetRuns ==
  ASSUME NEW p, NEW u, NEW o, NEW l \in BOOLEAN
  PROVE  Runs(magnetometerReset, Known(0, p, u, o, l),
              Known(0, p, {}, o, l))
<1> DEFINE s == Known(0, p, u, o, l)
           c1 == setBank(3)
           c2 == c1 \o writes(<<"SLV0_CTRL", "SLV1_CTRL", "0x0D", "0x11", "I2C_CTRL", "I2C_MST_ODR_CONFIG",
                               "SLV1_ADDR", "SLV1_REG", "SLV1_DO", "SLV1_CTRL">>)
           c3 == c2 \o setBank(0)
           c4 == c3 \o write("USER_CTRL", {"I2C_MST_EN"})
           c5 == c4 \o write("USER_CTRL", {})
           c6 == c5 \o setBank(3)
           c7 == c6 \o writes(<<"SLV0_CTRL", "SLV1_CTRL">>)
           c8 == c7 \o setBank(0)
           c9 == c8 \o write("USER_CTRL", {})
<1>1. Runs(c1, s, Known(3, p, u, o, l))
  BY BankRuns
<1> HIDE DEF c1
<1>2. Runs(c2, s, Known(3, p, u, o, l))
  BY <1>1, ThenWrites, PlainLists
<1> HIDE DEF c2
<1>3. Runs(c3, s, Known(0, p, u, o, l))
  BY <1>2, ThenBank
<1> HIDE DEF c3
<1>4. Runs(c4, s, Known(0, p, {"I2C_MST_EN"}, o, l))
  BY <1>3, ThenUser DEF Bits
<1> HIDE DEF c4
<1>5. Runs(c5, s, Known(0, p, {}, o, l))
  BY <1>4, ThenUser DEF Bits
<1> HIDE DEF c5
<1>6. Runs(c6, s, Known(3, p, {}, o, l))
  BY <1>5, ThenBank
<1> HIDE DEF c6
<1>7. Runs(c7, s, Known(3, p, {}, o, l))
  BY <1>6, ThenWrites, PlainLists
<1> HIDE DEF c7
<1>8. Runs(c8, s, Known(0, p, {}, o, l))
  BY <1>7, ThenBank
<1> HIDE DEF c8
<1>9. Runs(c9, s, Known(0, p, {}, o, l))
  BY <1>8, ThenUser DEF Bits
<1> HIDE DEF c9
<1>10. QED
  BY <1>9 DEF s, c1, c2, c3, c4, c5, c6, c7, c8, c9, magnetometerReset

LEMMA ScalesRuns ==
  ASSUME NEW u, NEW o, NEW l
  PROVE  Runs(scales, Known(0, {}, u, o, l),
              Known(0, {}, u, o, l))
<1> DEFINE s == Known(0, {}, u, o, l)
           c1 == setBank(2)
           c2 == c1 \o writes(<<"ACCEL_CONFIG", "ACCEL_CONFIG_2">>)
           c3 == c2 \o setBank(0)
           c4 == c3 \o lpWakeCycle
           c5 == c4 \o times(2, tune)
           c6 == c5 \o lpWakeCycle
           c7 == c6 \o setBank(2)
           c8 == c7 \o writes(<<"GYRO_CONFIG", "0x02">>)
           c9 == c8 \o setBank(0)
           c10 == c9 \o lpWakeCycle
           c11 == c10 \o tune
           c12 == c11 \o lpWakeCycle
           c13 == c12 \o setBank(1)
           c14 == c13 \o read("TIMEBASE_CORRECTION_PLL")
           c15 == c14 \o setBank(0)
           c16 == c15 \o lpWakeCycle
           c17 == c16 \o tune
           c18 == c17 \o lpWakeCycle
           c19 == c18 \o writes(<<"LP_CONF", "PWR_MGMT_1">>)
<1>1. Runs(c1, s, Known(2, {}, u, o, l))
  BY BankRuns
<1> HIDE DEF c1
<1>2. Runs(c2, s, Known(2, {}, u, o, l))
  BY <1>1, ThenWrites, PlainLists
<1> HIDE DEF c2
<1>3. Runs(c3, s, Known(0, {}, u, o, l))
  BY <1>2, ThenBank
<1> HIDE DEF c3
<1>4. Runs(c4, s, Known(0, {}, u, o, l))
  BY <1>3, ThenWake
<1> HIDE DEF c4
<1>5. Runs(c5, s, Known(0, {}, u, o, l))
  BY <1>4, ThenTune
<1> HIDE DEF c5
<1>6. Runs(c6, s, Known(0, {}, u, o, l))
  BY <1>5, ThenWake
<1> HIDE DEF c6
<1>7. Runs(c7, s, Known(2, {}, u, o, l))
  BY <1>6, ThenBank
<1> HIDE DEF c7
<1>8. Runs(c8, s, Known(2, {}, u, o, l))
  BY <1>7, ThenWrites, PlainLists
<1> HIDE DEF c8
<1>9. Runs(c9, s, Known(0, {}, u, o, l))
  BY <1>8, ThenBank
<1> HIDE DEF c9
<1>10. Runs(c10, s, Known(0, {}, u, o, l))
  BY <1>9, ThenWake
<1> HIDE DEF c10
<1>11. Runs(c11, s, Known(0, {}, u, o, l))
  BY <1>10, ThenTune
<1> HIDE DEF c11
<1>12. Runs(c12, s, Known(0, {}, u, o, l))
  BY <1>11, ThenWake
<1> HIDE DEF c12
<1>13. Runs(c13, s, Known(1, {}, u, o, l))
  BY <1>12, ThenBank
<1> HIDE DEF c13
<1>14. Runs(c14, s, Known(1, {}, u, o, l))
  BY <1>13, ThenRead, RegsInBanks
<1> HIDE DEF c14
<1>15. Runs(c15, s, Known(0, {}, u, o, l))
  BY <1>14, ThenBank
<1> HIDE DEF c15
<1>16. Runs(c16, s, Known(0, {}, u, o, l))
  BY <1>15, ThenWake
<1> HIDE DEF c16
<1>17. Runs(c17, s, Known(0, {}, u, o, l))
  BY <1>16, ThenTune
<1> HIDE DEF c17
<1>18. Runs(c18, s, Known(0, {}, u, o, l))
  BY <1>17, ThenWake
<1> HIDE DEF c18
<1>19. Runs(c19, s, Known(0, {}, u, o, l))
  BY <1>18, ThenSettle
<1> HIDE DEF c19
<1>20. QED
  BY <1>19 DEF s, c1, c2, c3, c4, c5, c6, c7, c8, c9, c10, c11, c12, c13, c14, c15, c16, c17, c18, c19, scales

LEMMA FinalOutputRuns ==
  ASSUME NEW u, NEW o, NEW l
  PROVE  Runs(finalOutput, Known(0, {}, u, o, l),
              Known(0, {}, u, OutputOn, l))
<1> DEFINE s == Known(0, {}, u, o, l)
           c1 == outputConfig(OutputOn)
           c2 == c1 \o times(5, tune)
           c3 == c2 \o setBank(2)
           c4 == c3 \o writes(<<"ACCEL_SMPLRT_DIV_1", "ACCEL_SMPLRT_DIV_2",
                               "GYRO_SMPLRT_DIV">>)
           c5 == c4 \o setBank(0)
           c6 == c5 \o times(6, tune)
<1>1. Runs(c1, s, Known(0, {}, u, OutputOn, l))
  BY OutputRuns, OutputValues, WritablePower
<1> HIDE DEF c1
<1>2. Runs(c2, s, Known(0, {}, u, OutputOn, l))
  BY <1>1, ThenTune
<1> HIDE DEF c2
<1>3. Runs(c3, s, Known(2, {}, u, OutputOn, l))
  BY <1>2, ThenBank
<1> HIDE DEF c3
<1>4. Runs(c4, s, Known(2, {}, u, OutputOn, l))
  BY <1>3, ThenWrites, PlainLists
<1> HIDE DEF c4
<1>5. Runs(c5, s, Known(0, {}, u, OutputOn, l))
  BY <1>4, ThenBank
<1> HIDE DEF c5
<1>6. Runs(c6, s, Known(0, {}, u, OutputOn, l))
  BY <1>5, ThenTune
<1> HIDE DEF c6
<1>7. QED
  BY <1>6 DEF s, c1, c2, c3, c4, c5, c6, finalOutput

LEMMA StartMagnetometerRuns ==
  ASSUME NEW p, NEW u, NEW o, NEW l
  PROVE  Runs(startMagnetometer, Known(0, p, u, o, l),
              Known(0, p, u, o, l))
<1> DEFINE s == Known(0, p, u, o, l)
           c1 == writes(<<"PWR_MGMT_2">>)
           c2 == c1 \o tune
           c3 == c2 \o setBank(3)
           c4 == c3 \o writes(<<"SLV0_ADDR", "SLV0_REG", "SLV0_CTRL", "SLV1_ADDR", "SLV1_REG",
                               "SLV1_DO", "SLV1_CTRL", "I2C_MST_ODR_CONFIG">>)
           c5 == c4 \o setBank(0)
<1>1. Runs(c1, s, Known(0, p, u, o, l))
  BY ListRuns, PlainLists
<1> HIDE DEF c1
<1>2. Runs(c2, s, Known(0, p, u, o, l))
  BY <1>1, ThenTune
<1> HIDE DEF c2
<1>3. Runs(c3, s, Known(3, p, u, o, l))
  BY <1>2, ThenBank
<1> HIDE DEF c3
<1>4. Runs(c4, s, Known(3, p, u, o, l))
  BY <1>3, ThenWrites, PlainLists
<1> HIDE DEF c4
<1>5. Runs(c5, s, Known(0, p, u, o, l))
  BY <1>4, ThenBank
<1> HIDE DEF c5
<1>6. QED
  BY <1>5 DEF s, c1, c2, c3, c4, c5, startMagnetometer

LEMMA StartDmpRuns ==
  ASSUME NEW p, NEW u
  PROVE  /\ Runs(startDmp, Known(0, p, u, OutputOn, TRUE),
                 Known(0, {"LP_EN"}, {"I2C_MST_EN", "FIFO_EN", "DMP_EN"}, OutputOn, TRUE))
         /\ Releases(startDmp)
<1> DEFINE s == Known(0, p, u, OutputOn, TRUE)
           c1 == write("USER_CTRL", {"I2C_MST_EN", "FIFO_EN", "DMP_EN"})
           c2 == c1 \o write("USER_CTRL", {"I2C_MST_EN", "FIFO_EN", "DMP_EN", "DMP_RST"})
           c3 == c2 \o resetFifo
           c4 == c3 \o write("PWR_MGMT_1", {"LP_EN"})
           c5 == c4 \o outputConfig(OutputOn)
           c6 == c5 \o tune
           c7 == c6 \o resetFifo
<1>1. Runs(c1, s, Known(0, p, {"I2C_MST_EN", "FIFO_EN", "DMP_EN"}, OutputOn, TRUE))
  BY UserRuns DEF Bits
<1> HIDE DEF c1
<1>2. Runs(c2, s, Known(0, p, {"I2C_MST_EN", "FIFO_EN", "DMP_EN"}, OutputOn, TRUE))
  BY <1>1, ThenUser DEF Bits
<1> HIDE DEF c2
<1>3. Runs(c3, s, Known(0, p, {"I2C_MST_EN", "FIFO_EN", "DMP_EN"}, OutputOn, TRUE))
  BY <1>2, ThenFifo
<1> HIDE DEF c3
<1>4. Runs(c4, s, Known(0, {"LP_EN"}, {"I2C_MST_EN", "FIFO_EN", "DMP_EN"}, OutputOn, TRUE))
  BY <1>3, ThenPower DEF Bits
<1> HIDE DEF c4
<1>5. Runs(c5, s, Known(0, {"LP_EN"}, {"I2C_MST_EN", "FIFO_EN", "DMP_EN"}, OutputOn, TRUE))
  BY <1>4, ThenOutput, OutputValues, WritablePower
<1> HIDE DEF c5
<1>6. Runs(c6, s, Known(0, {"LP_EN"}, {"I2C_MST_EN", "FIFO_EN", "DMP_EN"}, OutputOn, TRUE))
  BY <1>5, ThenTune
<1> HIDE DEF c6
<1>7. /\ Runs(c7, s, Known(0, {"LP_EN"}, {"I2C_MST_EN", "FIFO_EN", "DMP_EN"}, OutputOn, TRUE))
      /\ Releases(c7)
  BY <1>6, ThenFifo, FifoResetRuns, ReleasesOn
<1> HIDE DEF c7
<1>8. QED
  BY <1>7 DEF s, c1, c2, c3, c4, c5, c6, c7, startDmp
\* The matrices: the processor's power goes up and down, and ends up.
LEMMA MatricesRuns ==
  ASSUME NEW u, NEW o, NEW l
  PROVE  Runs(matrices, Known(0, {}, u, o, l), Known(0, {}, u, o, l))
<1> DEFINE s == Known(0, {}, u, o, l)
           c == tune \o lpWakeCycle
<1>1. Runs(tune, s, s)
  BY TuneRuns
<1>2. Runs(c, s, s)
  BY <1>1, ThenWake
<1> HIDE DEF c
<1>3. Runs(times(18, c), s, s)
  BY <1>2, RunsTimes
<1>4. QED
  BY <1>3 DEF c, matrices

LEMMA RunsNothing == ASSUME NEW s PROVE Runs(<<>>, s, s)
<1> DEFINE tau == [i \in 1 .. 0 + 1 |-> s]
<1>1. SeqOf(Operations, 0, <<>>)
  BY DEF SeqOf
<1>2. Over(tau, 0 + 1) /\ tau[1] = s /\ tau[0 + 1] = s /\ Follows(<<>>, 0, tau)
  BY DEF Over, Follows
<1> HIDE DEF tau
<1>3. QED
  BY <1>1, <1>2 DEF Runs

Enabled == {"FIFO_EN", "DMP_EN"}

\* A round that enables the DMP, which the image is in place for.
LEMMA EnableRoundRuns ==
  ASSUME NEW seq \in 0 .. 2, NEW u, NEW o
  PROVE  Runs(enableRound(seq), Known(0, {}, u, o, TRUE),
              Known(0, {}, Enabled, OutputOff, TRUE))
<1> DEFINE on == Enabled
           bits == IF seq = 0 THEN {} ELSE on
           s == Known(0, {}, u, o, TRUE)
           t == Known(0, {}, on, OutputOff, TRUE)
           c1 == write("USER_CTRL", bits)
           c2 == c1 \o writes(<<"PWR_MGMT_2">>)
           c3 == c2 \o write("USER_CTRL", on)
           c4 == c3 \o outputConfig(OutputOff)
           d1 == writes(<<"PWR_MGMT_2">>)
           d2 == d1 \o write("PWR_MGMT_1", {"SLEEP"})
           d3 == d2 \o write("PWR_MGMT_1", {})
           d4 == d3 \o writes(<<"PWR_MGMT_2">>)
           d5 == d4 \o tune
           d6 == d5 \o lpWakeCycle
           rest == IF seq < 2 THEN d6 ELSE <<>>
<1>1. /\ bits \in SUBSET Bits /\ bits = bits \ {"DMP_RST"}
      /\ on \in SUBSET Bits /\ on = on \ {"DMP_RST"}
  BY DEF Bits, Enabled
<1>2. enableRound(seq) = c4 \o rest
  BY DEF enableRound, Enabled
<1> HIDE DEF bits, on
<1>3. Runs(c1, s, Known(0, {}, bits, o, TRUE))
  <2>1. Runs(c1, s, Known(0, {}, bits \ {"DMP_RST"}, o, TRUE))
    BY <1>1, UserRuns
  <2>2. QED
    BY <1>1, <2>1
<1> HIDE DEF c1
<1>4. Runs(c2, s, Known(0, {}, bits, o, TRUE))
  <2>1. PlainRegs(0, <<"PWR_MGMT_2">>)
    BY PlainLists
  <2>2. 0 \in 0 .. 3
    OBVIOUS
  <2>3. QED
    BY <1>3, <2>1, <2>2, ThenWrites
<1> HIDE DEF c2
<1>5. Runs(c3, s, Known(0, {}, on, o, TRUE))
  BY <1>1, <1>4, ThenUser
<1> HIDE DEF c3
<1>6. Runs(c4, s, t)
  BY <1>5, ThenOutput, OutputValues, WritablePower
<1> HIDE DEF c4
<1>7. Runs(d1, t, t)
  <2>1. PlainRegs(0, <<"PWR_MGMT_2">>)
    BY PlainLists
  <2>2. 0 \in 0 .. 3
    OBVIOUS
  <2>3. Runs(d1, Known(0, {}, on, OutputOff, TRUE), Known(0, {}, on, OutputOff, TRUE))
    BY <2>1, <2>2, ListRuns
  <2>4. QED
    BY <2>3
<1> HIDE DEF d1
<1>8. Runs(d2, t, Known(0, {"SLEEP"}, on, OutputOff, TRUE))
  BY <1>7, ThenPower DEF Bits
<1> HIDE DEF d2
<1>9. Runs(d3, t, t)
  BY <1>8, ThenPower
<1> HIDE DEF d3
<1>10. Runs(d4, t, t)
  <2>1. PlainRegs(0, <<"PWR_MGMT_2">>)
    BY PlainLists
  <2>2. 0 \in 0 .. 3
    OBVIOUS
  <2>3. Runs(d3, t, Known(0, {}, on, OutputOff, TRUE))
    BY <1>9
  <2>4. Runs(d4, t, Known(0, {}, on, OutputOff, TRUE))
    <3> HIDE DEF t
    <3>1. QED
      BY <2>1, <2>2, <2>3, ThenWrites
  <2>5. QED
    BY <2>4
<1> HIDE DEF d4
<1>11. Runs(d5, t, t)
  BY <1>10, ThenTune
<1> HIDE DEF d5
<1>12. Runs(d6, t, t)
  BY <1>11, ThenWake
<1> HIDE DEF d6, s, t
<1>13. Runs(rest, t, t)
  BY <1>12, RunsNothing
<1> HIDE DEF rest
<1>14. Runs(enableRound(seq), s, t)
  BY <1>2, <1>6, <1>13, RunsOn
<1>15. QED
  BY <1>14 DEF s, t, on

\* Until the reset only the bank is known: whatever an earlier attempt, or
\* the time before a restart, has left.
LEMMA IdentifyRuns == Runs(identify, Beginning, Knowledge(1, 0, {}, {}, 0, FALSE))
<1> DEFINE s == Knowledge(1, 0, {}, {}, 0, FALSE)
           op1 == [do |-> "bank", bank |-> 0]
           op2 == [do |-> "read", reg |-> "WHO_AM_I"]
<1>1. op1 \in Operations /\ op2 \in Operations
  BY RegsInBanks DEF Operations
<1>2. Allowed(Beginning, op1) /\ Allowed(s, op2)
  BY RegsInBanks DEF Allowed, Resets, Knowledge
<1>3. s = After(Beginning, op1) /\ s = After(s, op2)
  BY DEF After, Resets, Beginning, Knowledge
<1> HIDE DEF op1, op2, s
<1>4. Runs(<<op1>>, Beginning, s) /\ Runs(<<op2>>, s, s)
  BY <1>1, <1>2, <1>3, RunsOne
<1>5. Runs(<<op1>> \o <<op2>>, Beginning, s)
  BY <1>4, RunsOn
<1>6. QED
  BY <1>5 DEF s, op1, op2, identify, setBank, read

LEMMA ResetAndWakeRuns ==
  Runs(resetAndWake, Knowledge(1, 0, {}, {}, 0, FALSE), Known(0, {}, {}, 0, FALSE))
<1> DEFINE s == Knowledge(1, 0, {}, {}, 0, FALSE)
           asleep == Known(0, {"SLEEP"}, {}, 0, FALSE)
           awake == Known(0, {}, {}, 0, FALSE)
           op == [do |-> "write", reg |-> "PWR_MGMT_1", bits |-> {"DEVICE_RESET"}]
           regs == <<"PWR_MGMT_1", "USER_CTRL", "PWR_MGMT_2", "LP_CONF", "USER_CTRL">>
           q == writes(regs)
           tau == [i \in 1 .. 5 + 1 |-> IF i = 1 THEN asleep ELSE awake]
<1>1. Runs(<<op>>, s, asleep)
  <2>1. op \in Operations
    BY RegsInBanks DEF Operations, Bits
  <2>2. Allowed(s, op)
    BY RegsInBanks DEF Allowed, Resets, Knowledge
  <2>3. asleep = After(s, op)
    BY DEF After, Resets, Known
  <2> HIDE DEF op, s, asleep
  <2>4. QED
    BY <2>1, <2>2, <2>3, RunsOne
<1>2. /\ regs \in [1 .. 5 -> Still(0, {}, {})] /\ regs[1] = "PWR_MGMT_1"
      /\ q = [i \in 1 .. 5 |-> [do |-> "write", reg |-> regs[i], bits |-> {}]]
  <2>1. q = [i \in 1 .. 5 |-> [do |-> "write", reg |-> regs[i], bits |-> {}]]
    BY DEF writes
  <2>2. regs \in [1 .. 5 -> Still(0, {}, {})] /\ regs[1] = "PWR_MGMT_1"
    BY RegsInBanks DEF Still
  <2>3. QED
    BY <2>1, <2>2
<1> HIDE DEF regs, q
<1>3. ASSUME NEW i \in 1 .. 5
      PROVE  q[i] \in Operations /\ Allowed(tau[i], q[i]) /\ tau[i + 1] = After(tau[i], q[i])
  <2> DEFINE o == [do |-> "write", reg |-> regs[i], bits |-> {}]
  <2>1. regs[i] \in BankRegs[0] /\ q[i] = o
    BY <1>2 DEF Still
  <2>2. o \in Operations
    BY <2>1, RegsInBanks DEF Operations
  <2> HIDE DEF asleep, awake
  <2>3. /\ tau[i + 1] = awake /\ tau[i] \in {asleep, awake}
        /\ i = 1 => tau[i] = asleep
        /\ i # 1 => tau[i] = awake
    OBVIOUS
  <2> HIDE DEF tau
  <2> USE DEF asleep, awake
  <2>4. Allowed(tau[i], o)
    BY <2>1, <2>3 DEF Allowed, Resets, Known, Knowledge
  <2>5. After(awake, o) = awake
    BY DEF After, Resets, Known, Knowledge
  <2>6. i = 1 => After(asleep, o) = awake
    BY <1>2 DEF After, Resets, Known, Knowledge
  <2>7. After(tau[i], o) = awake
    BY <2>3, <2>5, <2>6
  <2>8. QED
    BY <2>1, <2>2, <2>3, <2>4, <2>7
<1>4. SeqOf(Operations, 5, q)
  BY <1>2, <1>3 DEF SeqOf
<1>5. Over(tau, 5 + 1) /\ tau[1] = asleep /\ tau[5 + 1] = awake
  BY DEF Over
<1>6. Follows(q, 5, tau)
  BY <1>3 DEF Follows
<1> HIDE DEF tau, s, asleep, awake, op
<1>7. Runs(q, asleep, awake)
  BY <1>4, <1>5, <1>6 DEF Runs
<1>8. Runs(<<op>> \o q, s, awake)
  BY <1>1, <1>7, RunsOn
<1>9. QED
  BY <1>8 DEF resetAndWake, write, q, regs, op, s, awake

\* The whole of it.
Started ==
  Known(0, {"LP_EN"}, {"I2C_MST_EN", "FIFO_EN", "DMP_EN"}, OutputOn, TRUE)

LEMMA ConfigRuns == Runs(configDmpInit, Beginning, Started) /\ Releases(configDmpInit)
<1> DEFINE on == Enabled
           c1 == identify
           c2 == c1 \o resetAndWake
           c3 == c2 \o loadDmp
           c4 == c3 \o startAddressAndInterrupts
           c5 == c4 \o ratesAndFifo
           c6 == c5 \o powerCycle
           c7 == c6 \o magnetometerReset
           c8 == c7 \o matrices
           c9 == c8 \o scales
           c10 == c9 \o enableRound(0)
           c11 == c10 \o enableRound(1)
           c12 == c11 \o enableRound(2)
           c13 == c12 \o finalOutput
           c14 == c13 \o startMagnetometer
           c15 == c14 \o startDmp
<1>1. Runs(c1, Beginning, Knowledge(1, 0, {}, {}, 0, FALSE))
  BY IdentifyRuns
<1> HIDE DEF c1
<1>2. Runs(c2, Beginning, Known(0, {}, {}, 0, FALSE))
  <2>1. Runs(resetAndWake, Knowledge(1, 0, {}, {}, 0, FALSE), Known(0, {}, {}, 0, FALSE))
    BY ResetAndWakeRuns
  <2>2. QED
    BY <1>1, <2>1, RunsOn
<1> HIDE DEF c2
<1>3. Runs(c3, Beginning, Known(0, {}, {}, 0, TRUE))
  <2>1. Runs(loadDmp, Known(0, {}, {}, 0, FALSE), Known(0, {}, {}, 0, TRUE))
    BY LoadDmpRuns
  <2>2. QED
    BY <1>2, <2>1, RunsOn
<1> HIDE DEF c3
<1>4. Runs(c4, Beginning, Known(0, {}, {}, OutputOff, TRUE))
  <2>1. Runs(startAddressAndInterrupts, Known(0, {}, {}, 0, TRUE), Known(0, {}, {}, OutputOff, TRUE))
    BY StartAddressAndInterruptsRuns
  <2>2. QED
    BY <1>3, <2>1, RunsOn
<1> HIDE DEF c4
<1>5. Runs(c5, Beginning, Known(0, {}, {}, OutputOff, TRUE))
  <2>1. Runs(ratesAndFifo, Known(0, {}, {}, OutputOff, TRUE), Known(0, {}, {}, OutputOff, TRUE))
    BY RatesAndFifoRuns
  <2>2. QED
    BY <1>4, <2>1, RunsOn
<1> HIDE DEF c5
<1>6. Runs(c6, Beginning, Known(0, {}, {}, OutputOff, TRUE))
  <2>1. Runs(powerCycle, Known(0, {}, {}, OutputOff, TRUE), Known(0, {}, {}, OutputOff, TRUE))
    BY PowerCycleRuns
  <2>2. QED
    BY <1>5, <2>1, RunsOn
<1> HIDE DEF c6
<1>7. Runs(c7, Beginning, Known(0, {}, {}, OutputOff, TRUE))
  <2>1. Runs(magnetometerReset, Known(0, {}, {}, OutputOff, TRUE), Known(0, {}, {}, OutputOff, TRUE))
    BY MagnetometerResetRuns
  <2>2. QED
    BY <1>6, <2>1, RunsOn
<1> HIDE DEF c7
<1>8. Runs(c8, Beginning, Known(0, {}, {}, OutputOff, TRUE))
  <2>1. Runs(matrices, Known(0, {}, {}, OutputOff, TRUE), Known(0, {}, {}, OutputOff, TRUE))
    BY MatricesRuns
  <2>2. QED
    BY <1>7, <2>1, RunsOn
<1> HIDE DEF c8
<1>9. Runs(c9, Beginning, Known(0, {}, {}, OutputOff, TRUE))
  <2>1. Runs(scales, Known(0, {}, {}, OutputOff, TRUE), Known(0, {}, {}, OutputOff, TRUE))
    BY ScalesRuns
  <2>2. QED
    BY <1>8, <2>1, RunsOn
<1> HIDE DEF c9
<1>10. Runs(c10, Beginning, Known(0, {}, on, OutputOff, TRUE))
  <2>1. 0 \in 0 .. 2
    OBVIOUS
  <2>2. Runs(enableRound(0), Known(0, {}, {}, OutputOff, TRUE), Known(0, {}, on, OutputOff, TRUE))
    BY <2>1, EnableRoundRuns
  <2>3. QED
    BY <1>9, <2>2, RunsOn
<1> HIDE DEF c10
<1>11. Runs(c11, Beginning, Known(0, {}, on, OutputOff, TRUE))
  <2>1. 1 \in 0 .. 2
    OBVIOUS
  <2>2. Runs(enableRound(1), Known(0, {}, on, OutputOff, TRUE), Known(0, {}, on, OutputOff, TRUE))
    BY <2>1, EnableRoundRuns
  <2>3. QED
    BY <1>10, <2>2, RunsOn
<1> HIDE DEF c11
<1>12. Runs(c12, Beginning, Known(0, {}, on, OutputOff, TRUE))
  <2>1. 2 \in 0 .. 2
    OBVIOUS
  <2>2. Runs(enableRound(2), Known(0, {}, on, OutputOff, TRUE), Known(0, {}, on, OutputOff, TRUE))
    BY <2>1, EnableRoundRuns
  <2>3. QED
    BY <1>11, <2>2, RunsOn
<1> HIDE DEF c12
<1>13. Runs(c13, Beginning, Known(0, {}, on, OutputOn, TRUE))
  <2>1. Runs(finalOutput, Known(0, {}, on, OutputOff, TRUE), Known(0, {}, on, OutputOn, TRUE))
    BY FinalOutputRuns
  <2>2. QED
    BY <1>12, <2>1, RunsOn
<1> HIDE DEF c13
<1>14. Runs(c14, Beginning, Known(0, {}, on, OutputOn, TRUE))
  <2>1. Runs(startMagnetometer, Known(0, {}, on, OutputOn, TRUE), Known(0, {}, on, OutputOn, TRUE))
    BY StartMagnetometerRuns
  <2>2. QED
    BY <1>13, <2>1, RunsOn
<1> HIDE DEF c14
<1>15. Runs(c15, Beginning, Started) /\ Releases(c15)
  <2>1. Runs(startDmp, Known(0, {}, on, OutputOn, TRUE), Started) /\ Releases(startDmp)
    BY StartDmpRuns DEF Started
  <2>2. QED
    BY <1>14, <2>1, RunsOn, ReleasesOn
<1> HIDE DEF c15
<1>16. QED
  BY <1>15 DEF configDmpInit, c1, c2, c3, c4, c5, c6, c7, c8, c9, c10, c11, c12, c13, c14, c15
\* What is known at each operation of the program follows from the operation
\* before, and allows it.  The last one releases the FIFO.
LEMMA AtEach ==
  /\ At[1] = Beginning /\ Len(configDmpInit) \in Nat \ {0}
  /\ \A i \in 1 .. Len(configDmpInit) :
       /\ configDmpInit[i] \in Operations /\ Allowed(At[i], configDmpInit[i])
       /\ At[i + 1] = After(At[i], configDmpInit[i])
  /\ At[Len(configDmpInit) + 1] = Started
  /\ configDmpInit[Len(configDmpInit)] = release
<1>1. PICK n \in Nat :
        /\ SeqOf(Operations, n, configDmpInit)
        /\ \E tau : /\ Over(tau, n + 1)
                     /\ tau[1] = Beginning /\ tau[n + 1] = Started
                     /\ Follows(configDmpInit, n, tau)
  BY ConfigRuns DEF Runs
<1>2. PICK tau : /\ Over(tau, n + 1)
                 /\ tau[1] = Beginning /\ tau[n + 1] = Started
                 /\ Follows(configDmpInit, n, tau)
  BY <1>1
<1>3. Len(configDmpInit) = n /\ configDmpInit \in Seq(Operations)
  BY <1>1 DEF SeqOf
<1>4. tau = [i \in 1 .. n + 1 |->
               IF i = 1 THEN Beginning ELSE After(tau[i - 1], configDmpInit[i - 1])]
  <2>1. ASSUME NEW i \in 1 .. n + 1
        PROVE  tau[i] = IF i = 1 THEN Beginning ELSE After(tau[i - 1], configDmpInit[i - 1])
    <3>1. CASE i = 1
      BY <1>2, <3>1
    <3>2. CASE i # 1
      <4>1. i - 1 \in 1 .. n /\ i = (i - 1) + 1
        BY <3>2
      <4>2. QED
        BY <1>2, <3>2, <4>1 DEF Follows
    <3>3. QED
      BY <3>1, <3>2
  <2>2. tau = [i \in 1 .. n + 1 |-> tau[i]]
    BY <1>2 DEF Over
  <2>3. QED
    BY <2>1, <2>2
<1>5. At = [i \in 1 .. n + 1 |->
              IF i = 1 THEN Beginning ELSE After(At[i - 1], configDmpInit[i - 1])]
  BY <1>3, <1>4 DEF At
<1>6. At[1] = Beginning
  BY <1>5
<1>7. ASSUME NEW i \in 1 .. n
      PROVE  At[i + 1] = After(At[i], configDmpInit[i])
  <2>1. i + 1 \in 1 .. n + 1 /\ i + 1 # 1 /\ (i + 1) - 1 = i
    OBVIOUS
  <2>2. QED
    BY <1>5, <2>1
\* Where a function differs from At there is a first place.
<1>8. ASSUME NEW i \in 1 .. n + 1
      PROVE  At[i] = tau[i]
  <2> DEFINE odd == {j \in 1 .. n + 1 : At[j] # tau[j]}
  <2>1. CASE odd = {}
    BY <2>1
  <2>2. CASE odd # {}
    <3>1. odd \subseteq Nat
      OBVIOUS
    <3> DEFINE j == Min(odd)
    <3>2. j \in odd /\ \A k \in odd : j <= k
      <4> HIDE DEF odd
      <4>1. QED
        BY <2>2, <3>1, MinOfNats
    <3> HIDE DEF j
    <3>3. j \in 1 .. n + 1 /\ At[j] # tau[j]
      BY <3>2
    <3>4. j # 1
      BY <1>2, <1>6, <3>3
    <3>5. j - 1 \in 1 .. n /\ j - 1 \in 1 .. n + 1 /\ (j - 1) + 1 = j
      BY <3>3, <3>4
    <3>6. At[j - 1] = tau[j - 1]
      <4>1. ~ (j <= j - 1)
        BY <3>3
      <4>2. QED
        BY <3>2, <3>5, <4>1
    <3>7. At[(j - 1) + 1] = tau[(j - 1) + 1]
      BY <1>2, <1>7, <3>5, <3>6 DEF Follows
    <3>8. QED
      BY <3>3, <3>5, <3>7
  <2>3. QED
    BY <2>1, <2>2
<1>9. n # 0
  BY <1>2 DEF Beginning, Started, Known, Knowledge
<1>10. ASSUME NEW i \in 1 .. n
       PROVE  configDmpInit[i] \in Operations /\ Allowed(At[i], configDmpInit[i])
  <2>1. i \in 1 .. n + 1
    OBVIOUS
  <2>2. QED
    BY <1>2, <1>3, <1>8, <2>1 DEF Follows
<1>11. At[n + 1] = Started
  <2>1. n + 1 \in 1 .. n + 1
    OBVIOUS
  <2>2. QED
    BY <1>2, <1>8, <2>1
<1>12. configDmpInit[n] = release
  <2>1. PICK m \in Nat : /\ SeqOf(Operations, m + 1, configDmpInit)
                         /\ configDmpInit[m + 1] = release
    BY ConfigRuns DEF Releases
  <2>2. n = m + 1
    BY <1>3, <2>1 DEF SeqOf
  <2>3. QED
    BY <2>1, <2>2
<1>13. QED
  BY <1>3, <1>6, <1>7, <1>9, <1>10, <1>11, <1>12
-----------------------------------------------------------------------------
(***************************************************************************)
(* The memory, and the operation the driver is at.                         *)
(***************************************************************************)
LEMMA Layout ==
  /\ OutputCell \in Cells /\ TunedCell \in Cells
  /\ \A i \in 1 .. ImageSize :
       LoadStart + i - 1 \in Cells /\ LoadStart + i - 1 # OutputCell
  /\ \A c \in 0 .. TunedCell : /\ c \div MemBankSize \in 0 .. MemBanks - 1
                               /\ c % MemBankSize \in 0 .. MemBankSize - 1
                               /\ (c \div MemBankSize) * MemBankSize + (c % MemBankSize) = c
  /\ NoBank \in Nat \ {0} /\ NoBank = MemBanks
  /\ OutputCell \in 0 .. TunedCell /\ OutputOn \in CellValues
  /\ \A i \in 1 .. ImageSize : i \in CellValues
<1> DEFINE M == MemBankSize
           d == TunedCell \div M
           r == TunedCell % M
<1>1. M \in Nat \ {0} /\ TunedCell \in Nat /\ ImageSize \in Nat \ {0} /\ LoadStart \in Nat \ {0}
  BY MemoryAssumption DEF TunedCell
<1>2. d \in Nat /\ r \in 0 .. M - 1 /\ TunedCell = M * d + r
  BY <1>1, DivMod
<1>3. MemBanks = d + 1
  BY DEF MemBanks
<1>4. Cells = 0 .. (d + 1) * M - 1
  BY <1>3 DEF Cells
<1> HIDE DEF d, r, M
<1>5. (d + 1) * M = M * d + M
  BY <1>1, <1>2
<1>6. \A c \in 0 .. TunedCell : c \in Cells
  <2> DEFINE e == M * d
  <2>1. e \in Nat
    BY <1>1, <1>2
  <2>2. Cells = 0 .. (e + M) - 1 /\ TunedCell = e + r
    BY <1>2, <1>4, <1>5
  <2> HIDE DEF e
  <2>3. QED
    BY <1>1, <1>2, <2>1, <2>2
<1>7. ASSUME NEW c \in 0 .. TunedCell
      PROVE  /\ c \div M \in 0 .. d /\ c % M \in 0 .. M - 1
             /\ (c \div M) * M + (c % M) = c
  <2> DEFINE q == c \div M
             p == c % M
  <2>1. c \in Nat /\ c <= TunedCell
    BY <1>1
  <2>2. q \in Nat /\ p \in 0 .. M - 1 /\ c = M * q + p
    BY <1>1, <2>1, DivMod
  <2> HIDE DEF q, p
  <2>3. q <= d
    <3>1. SUFFICES ASSUME q > d PROVE FALSE
      BY <1>2, <2>2
    <3>2. q >= d + 1 /\ M * q >= M * (d + 1)
      BY <1>1, <1>2, <2>2, <3>1
    <3>3. M * (d + 1) = M * d + M
      BY <1>1, <1>2
    <3> DEFINE x == M * q
               y == M * d
    <3>4. x \in Nat /\ y \in Nat /\ x >= y + M /\ c = x + p /\ TunedCell = y + r
      BY <1>1, <1>2, <2>2, <3>2, <3>3
    <3> HIDE DEF x, y
    <3>5. QED
      BY <1>1, <1>2, <2>1, <2>2, <3>4
  <2>4. q * M + p = c
    BY <1>1, <2>2
  <2>5. QED
    BY <1>2, <2>2, <2>3, <2>4 DEF q, p
<1>8. ASSUME NEW i \in 1 .. ImageSize
      PROVE  /\ LoadStart + i - 1 \in 0 .. TunedCell
             /\ LoadStart + i - 1 # OutputCell /\ i \in CellValues
  BY <1>1 DEF TunedCell, OutputCell, CellValues, Tuned
<1>9. /\ OutputCell \in 0 .. TunedCell /\ TunedCell \in 0 .. TunedCell
      /\ NoBank \in Nat \ {0} /\ NoBank = MemBanks /\ OutputOn \in CellValues
      /\ 0 .. MemBanks - 1 = 0 .. d
  BY <1>1, <1>2, <1>3 DEF OutputCell, NoBank, OutputOn, CellValues, Tuned
<1>10. QED
  BY <1>6, <1>7, <1>8, <1>9 DEF M

LEMMA OperationShape ==
  ASSUME NEW op \in Operations
  PROVE  /\ op.do \in {"bank", "write", "read", "param", "load"}
         /\ op.do = "bank" => op.bank \in 0 .. 3
         /\ op.do = "write" => op.reg \in AllRegs /\ op.bits \in SUBSET Bits
         /\ op.do = "param" => op.cell \in {OutputCell, TunedCell} /\ op.value \in CellValues
  BY DEF Operations

LEMMA AfterOperation ==
  ASSUME NEW s, NEW op
  PROVE  /\ op.do = "bank" =>
              After(s, op) = Knowledge(IF s.known = 0 THEN 1 ELSE s.known, op.bank,
                                       s.power, s.userCtrl, s.output, s.loaded)
         /\ Resets(op) => After(s, op) = Knowledge(2, 0, {"SLEEP"}, {}, 0, FALSE)
         /\ op.do = "write" /\ ~ Resets(op) =>
              After(s, op) =
                Knowledge(s.known, s.bank,
                          IF op.reg = "PWR_MGMT_1" THEN op.bits ELSE s.power,
                          IF op.reg = "USER_CTRL" THEN op.bits \ {"DMP_RST"} ELSE s.userCtrl,
                          s.output, s.loaded)
         /\ op.do = "read" => After(s, op) = s
         /\ op.do = "param" =>
              After(s, op) =
                Knowledge(s.known, s.bank, s.power, s.userCtrl,
                          IF op.cell = OutputCell /\ Writable(s.power) THEN op.value
                          ELSE s.output, s.loaded)
         /\ op.do = "load" =>
              After(s, op) =
                Knowledge(s.known, s.bank, s.power, s.userCtrl, s.output, TRUE)
<1> DEFINE reset == Resets(op)
<1>1. op.do = "bank" =>
        After(s, op) = Knowledge(IF s.known = 0 THEN 1 ELSE s.known, op.bank,
                                 s.power, s.userCtrl, s.output, s.loaded)
  BY DEF After, Resets
<1>2. Resets(op) => After(s, op) = Knowledge(2, 0, {"SLEEP"}, {}, 0, FALSE)
  BY DEF After, Resets
<1>3. op.do = "read" => After(s, op) = s
  BY DEF After, Resets
<1>4. op.do = "write" /\ ~ Resets(op) =>
        After(s, op) =
          Knowledge(s.known, s.bank,
                    IF op.reg = "PWR_MGMT_1" THEN op.bits ELSE s.power,
                    IF op.reg = "USER_CTRL" THEN op.bits \ {"DMP_RST"} ELSE s.userCtrl,
                    s.output, s.loaded)
  <2> HIDE DEF reset
  <2>1. QED
    BY DEF After
<1>5. op.do = "param" =>
        After(s, op) =
          Knowledge(s.known, s.bank, s.power, s.userCtrl,
                    IF op.cell = OutputCell /\ Writable(s.power) THEN op.value
                    ELSE s.output, s.loaded)
  BY DEF After, Resets
<1>6. op.do = "load" =>
        After(s, op) = Knowledge(s.known, s.bank, s.power, s.userCtrl, s.output, TRUE)
  BY DEF After, Resets
<1>7. QED
  BY <1>1, <1>2, <1>3, <1>4, <1>5, <1>6

LEMMA AllowedOperation ==
  ASSUME NEW s, NEW op, Allowed(s, op)
  PROVE  /\ Resets(op) => s.known > 0 /\ op.reg \in BankRegs[s.bank]
         /\ op.do = "write" /\ ~ Resets(op) =>
              /\ s.known = 2 /\ op.reg \in BankRegs[s.bank]
              /\ op.reg = "USER_CTRL" /\ "DMP_EN" \in op.bits => s.loaded
         /\ op.do = "read" => s.known > 0 /\ op.reg \in BankRegs[s.bank]
         /\ op.do = "param" => s.known = 2 /\ s.bank = 0
         /\ op.do = "load" =>
              s.known = 2 /\ s.bank = 0 /\ Writable(s.power) /\ "DMP_EN" \notin s.userCtrl
<1>1. Resets(op) => s.known > 0 /\ op.reg \in BankRegs[s.bank]
  BY DEF Allowed, Resets
<1>2. op.do = "write" /\ ~ Resets(op) =>
        /\ s.known = 2 /\ op.reg \in BankRegs[s.bank]
        /\ op.reg = "USER_CTRL" /\ "DMP_EN" \in op.bits => s.loaded
  BY DEF Allowed
<1>3. op.do = "read" => s.known > 0 /\ op.reg \in BankRegs[s.bank]
  BY DEF Allowed, Resets
<1>4. op.do = "param" => s.known = 2 /\ s.bank = 0
  BY DEF Allowed, Resets
<1>5. op.do = "load" =>
        s.known = 2 /\ s.bank = 0 /\ Writable(s.power) /\ "DMP_EN" \notin s.userCtrl
  BY DEF Allowed, Resets
<1>6. QED
  BY <1>1, <1>2, <1>3, <1>4, <1>5

\* The driver's place in the program.
LEMMA AtOperation ==
  ASSUME pc \in 1 .. Len(configDmpInit)
  PROVE  /\ operation \in Operations /\ Allowed(At[pc], operation)
         /\ At[pc + 1] = After(At[pc], operation)
         /\ At[1] = Beginning /\ Len(configDmpInit) \in Nat \ {0}
         /\ pc = Len(configDmpInit) => At[pc + 1] = Started /\ operation = release
         /\ pc # Len(configDmpInit) => pc + 1 \in 1 .. Len(configDmpInit)
<1> DEFINE n == Len(configDmpInit)
<1>1. /\ At[1] = Beginning /\ n \in Nat \ {0} /\ At[n + 1] = Started
      /\ configDmpInit[n] = release
      /\ \A i \in 1 .. n :
           /\ configDmpInit[i] \in Operations /\ Allowed(At[i], configDmpInit[i])
           /\ At[i + 1] = After(At[i], configDmpInit[i])
  BY AtEach
<1>2. pc \in 1 .. n
  OBVIOUS
<1> HIDE DEF n
<1>3. pc # n => pc + 1 \in 1 .. n
  BY <1>1, <1>2
<1>4. QED
  BY <1>1, <1>2, <1>3 DEF n, operation
-----------------------------------------------------------------------------
(***************************************************************************)
(* What a transfer of the program does to the device.                      *)
(***************************************************************************)
Room == MaxSamples * PacketSize

LEMMA Sizes ==
  /\ PacketSize \in Nat \ {0} /\ PacketSize % 2 = 0 /\ PacketSize >= 2
  /\ MaxSamples \in Nat /\ Room \in Nat /\ ResetThreshold \in Nat
<1>1. PacketSize \in Nat \ {0} /\ PacketSize % 2 = 0 /\ MaxSamples \in Nat
  BY DeviceAssumption
<1>2. PacketSize # 1
  BY <1>1
<1>3. Room \in Nat
  BY <1>1 DEF Room
<1>4. QED
  BY <1>1, <1>2, <1>3, ThresholdAssumption

LEMMA BankTaken ==
  ASSUME DeviceTypeOK, DmpHasFirmware, NEW s, Holds(s), NEW op \in Operations,
         op.do = "bank", takeBank(op.bank), NEW t, t = After(s, op)
  PROVE  /\ Holds(t)' /\ DmpHasFirmware' /\ DeviceTypeOK'
         /\ UNCHANGED <<fifo, fifoRst, dmpInt, produced>> /\ (t.known = 2 => s.known = 2)
<1>1. t = Knowledge(IF s.known = 0 THEN 1 ELSE s.known, op.bank,
                    s.power, s.userCtrl, s.output, s.loaded)
  BY AfterOperation
<1>2. op.bank \in 0 .. 3
  BY OperationShape
<1>3. bank' = op.bank /\ UNCHANGED <<power, userCtrl, memBank, memAddr, sram, fifo, fifoRst, dmpInt, produced>>
  BY DEF takeBank, memVars, fifoVars
<1>4. FirmwareLoaded' = FirmwareLoaded
  BY <1>3 DEF FirmwareLoaded
<1>5. Holds(t)'
  BY <1>1, <1>3, <1>4 DEF Holds, Knowledge
<1>6. DmpHasFirmware'
  BY <1>3, <1>4 DEF DmpHasFirmware
<1>7. DeviceTypeOK'
  BY <1>2, <1>3 DEF DeviceTypeOK
<1>8. t.known = 2 => s.known = 2
  BY <1>1 DEF Knowledge
<1>9. QED
  BY <1>3, <1>5, <1>6, <1>7, <1>8

LEMMA ResetTaken ==
  ASSUME DeviceTypeOK, NEW s, Holds(s), NEW op \in Operations, Allowed(s, op),
         Resets(op), takeWrite(op.reg, op.bits), NEW t, t = After(s, op)
  PROVE  /\ Holds(t)' /\ DmpHasFirmware' /\ DeviceTypeOK'
         /\ fifo' = <<>> /\ ~fifoRst' /\ produced' = produced
<1>1. t = Knowledge(2, 0, {"SLEEP"}, {}, 0, FALSE)
  BY AfterOperation
<1>2. s.known > 0 /\ op.reg \in BankRegs[s.bank]
  BY AllowedOperation
<1>3. op.reg \in BankRegs[bank]
  BY <1>2 DEF Holds
<1>4. /\ bank' = 0 /\ power' = {"SLEEP"} /\ userCtrl' = {}
      /\ memBank' = 0 /\ memAddr' = 0 /\ sram' = [c \in Cells |-> 0]
      /\ fifo' = <<>> /\ fifoRst' = FALSE /\ dmpInt' = FALSE /\ produced' = produced
  BY <1>3 DEF takeWrite, powerOnReset, Resets
<1>5. sram'[OutputCell] = 0
  BY <1>4, Layout
<1>6. Holds(t)'
  BY <1>1, <1>4, <1>5 DEF Holds, Knowledge
<1>7. DmpHasFirmware'
  BY <1>4 DEF DmpHasFirmware
<1>8. DeviceTypeOK'
  <2>1. 0 \in CellValues /\ 0 \in 0 .. MemBanks - 1 /\ 0 \in 0 .. MemBankSize - 1
    BY Layout, MemoryAssumption DEF CellValues, Tuned, NoBank
  <2>2. sram' \in [Cells -> CellValues]
    BY <1>4, <2>1
  <2>3. <<>> \in Seq(Bytes) /\ Len(<<>>) = 0 /\ 0 <= MaxSamples * PacketSize
    BY Sizes DEF Room
  <2>4. (power \subseteq Bits /\ userCtrl \subseteq Bits)'
    BY <1>4 DEF Bits
  <2>5. bank' \in 0 .. 3 /\ produced' \in 0 .. MaxSamples
    BY <1>4 DEF DeviceTypeOK
  <2>6. QED
    BY <1>4, <2>1, <2>2, <2>3, <2>4, <2>5 DEF DeviceTypeOK
<1>9. QED
  BY <1>4, <1>6, <1>7, <1>8

LEMMA WriteTaken ==
  ASSUME DeviceTypeOK, DmpHasFirmware, NEW s, Holds(s), NEW op \in Operations, Allowed(s, op),
         op.do = "write", ~ Resets(op), takeWrite(op.reg, op.bits), NEW t, t = After(s, op)
  PROVE  /\ Holds(t)' /\ DmpHasFirmware' /\ DeviceTypeOK'
         /\ fifo' \in {fifo, <<>>} /\ UNCHANGED <<dmpInt, produced>> /\ s.known = 2
         /\ HeldInv' /\ (op.reg = "FIFO_RST" /\ op.bits = {} => ~fifoRst')
<1>1. t = Knowledge(s.known, s.bank,
                    IF op.reg = "PWR_MGMT_1" THEN op.bits ELSE s.power,
                    IF op.reg = "USER_CTRL" THEN op.bits \ {"DMP_RST"} ELSE s.userCtrl,
                    s.output, s.loaded)
  BY AfterOperation
<1>2. /\ s.known = 2 /\ op.reg \in BankRegs[s.bank]
      /\ op.reg = "USER_CTRL" /\ "DMP_EN" \in op.bits => s.loaded
  BY AllowedOperation
<1>3. op.reg \in BankRegs[bank]
  BY <1>2 DEF Holds
<1>4. /\ power' = IF op.reg = "PWR_MGMT_1" THEN op.bits ELSE power
      /\ userCtrl' = IF op.reg = "USER_CTRL" THEN op.bits \ {"DMP_RST"} ELSE userCtrl
      /\ fifoRst' = IF op.reg = "FIFO_RST" THEN "FIFO_RST0" \in op.bits ELSE fifoRst
      /\ fifo' = IF fifoRst' THEN <<>> ELSE fifo
      /\ UNCHANGED <<bank, memBank, memAddr, sram, dmpInt, produced>>
  BY <1>3 DEF takeWrite, Resets, memVars, fifoVars
<1>5. FirmwareLoaded' = FirmwareLoaded
  BY <1>4 DEF FirmwareLoaded
<1>6. Holds(t)'
  <2>1. /\ bank = s.bank /\ power = s.power /\ userCtrl = s.userCtrl
        /\ sram[OutputCell] = s.output /\ (s.loaded => FirmwareLoaded)
    BY <1>2 DEF Holds
  <2>2. /\ t.bank = s.bank /\ t.output = s.output /\ t.loaded = s.loaded
        /\ t.power = IF op.reg = "PWR_MGMT_1" THEN op.bits ELSE s.power
        /\ t.userCtrl = IF op.reg = "USER_CTRL" THEN op.bits \ {"DMP_RST"} ELSE s.userCtrl
    BY <1>1 DEF Knowledge
  <2>3. bank' = t.bank /\ power' = t.power /\ userCtrl' = t.userCtrl
    BY <1>4, <2>1, <2>2
  <2>4. sram'[OutputCell] = t.output /\ (t.loaded => FirmwareLoaded')
    BY <1>4, <1>5, <2>1, <2>2
  <2>5. QED
    BY <2>3, <2>4 DEF Holds
<1>7. DmpHasFirmware'
  <2>1. "DMP_EN" \in userCtrl' => FirmwareLoaded
    BY <1>2, <1>4 DEF DmpHasFirmware, Holds
  <2>2. QED
    BY <1>5, <2>1 DEF DmpHasFirmware
<1>8. DeviceTypeOK'
  <2>1. op.bits \in SUBSET Bits
    BY OperationShape
  <2>2. power' \subseteq Bits /\ userCtrl' \subseteq Bits
    BY <1>4, <2>1 DEF DeviceTypeOK
  <2>3. fifo' \in Seq(Bytes) /\ Len(fifo') <= MaxSamples * PacketSize
    <3>1. <<>> \in Seq(Bytes) /\ Len(<<>>) = 0 /\ 0 <= MaxSamples * PacketSize
      BY Sizes DEF Room
    <3>2. QED
      BY <1>4, <3>1 DEF DeviceTypeOK
  <2>4. fifoRst' \in BOOLEAN
    <3>1. CASE op.reg = "FIFO_RST"
      <4>1. fifoRst' = ("FIFO_RST0" \in op.bits)
        BY <1>4, <3>1
      <4>2. QED
        BY <4>1
    <3>2. CASE op.reg # "FIFO_RST"
      BY <1>4, <3>2, Zenon DEF DeviceTypeOK
    <3>3. QED
      BY <3>1, <3>2
  <2>5. QED
    BY <1>4, <2>2, <2>3, <2>4 DEF DeviceTypeOK
<1>9. HeldInv' /\ (op.reg = "FIFO_RST" /\ op.bits = {} => ~fifoRst')
  BY <1>4 DEF HeldInv
<1>10. QED
  BY <1>2, <1>4, <1>6, <1>7, <1>8, <1>9

LEMMA OperationTaken ==
  ASSUME IcmInv, phase = "starting", takeOperation, NEW s, s = At[pc], NEW t, t = At[pc + 1]
  PROVE  /\ Holds(t)' /\ DmpHasFirmware' /\ DeviceTypeOK'
         /\ produced' = produced
         /\ fifo' = <<>> \/ UNCHANGED <<fifo, dmpInt>>
         /\ t.known = 2 => s.known = 2 \/ fifo' = <<>>
         /\ HeldInv' /\ (pc = Len(configDmpInit) => ~fifoRst')
<1>1. /\ operation \in Operations /\ Allowed(s, operation) /\ t = After(s, operation)
      /\ pc = Len(configDmpInit) => operation = release
  BY AtOperation DEF IcmInv, IcmTypeOK
<1>2. DeviceTypeOK /\ DmpHasFirmware /\ Holds(s) /\ HeldInv
  BY DEF IcmInv, IcmTypeOK, KnownInv, Starting
<1> DEFINE op == operation
<1>3. /\ op \in Operations /\ Allowed(s, op) /\ t = After(s, op)
      /\ pc = Len(configDmpInit) =>
           op.do = "write" /\ op.reg = "FIFO_RST" /\ op.bits = {}
      /\ \/ op.do = "bank" /\ takeBank(op.bank)
         \/ op.do = "write" /\ takeWrite(op.reg, op.bits)
         \/ op.do = "read" /\ UNCHANGED device
  BY <1>1 DEF takeOperation, release
<1> HIDE DEF op
<1>4. CASE op.do = "bank" /\ takeBank(op.bank)
  BY <1>2, <1>3, <1>4, BankTaken DEF HeldInv
<1>5. CASE op.do = "write" /\ takeWrite(op.reg, op.bits)
  <2>1. CASE Resets(op)
    BY <1>2, <1>3, <1>5, <2>1, ResetTaken DEF HeldInv
  <2>2. CASE ~ Resets(op)
    BY <1>2, <1>3, <1>5, <2>2, WriteTaken
  <2>3. QED
    BY <2>1, <2>2
<1>6. CASE op.do = "read" /\ UNCHANGED device
  <2>1. t = s
    BY <1>3, <1>6, AfterOperation
  <2>2. UNCHANGED <<bank, power, userCtrl, memBank, memAddr, sram, fifo, fifoRst, dmpInt, produced>>
    BY <1>6 DEF device, memVars, fifoVars
  <2>3. FirmwareLoaded' = FirmwareLoaded
    BY <2>2 DEF FirmwareLoaded
  <2>4. Holds(t)'
    BY <1>2, <2>1, <2>2, <2>3 DEF Holds
  <2>5. DmpHasFirmware'
    BY <1>2, <2>2, <2>3 DEF DmpHasFirmware
  <2>6. DeviceTypeOK'
    BY <1>2, <2>2 DEF DeviceTypeOK
  <2>7. HeldInv' /\ pc # Len(configDmpInit)
    BY <1>2, <1>3, <1>6, <2>2 DEF HeldInv
  <2>8. QED
    BY <2>1, <2>2, <2>4, <2>5, <2>6, <2>7
<1>7. QED
  BY <1>3, <1>4, <1>5, <1>6
\* The next operation, or the end of the program.
LEMMA GoesOn ==
  ASSUME IcmTypeOK, Starting, isrAttached, goOn, isrAttached' = isrAttached,
         NEW t, t = At[pc + 1], Holds(t)', pc = Len(configDmpInit) => ~fifoRst'
  PROVE  /\ KnownInv' /\ StartedDelivers' /\ LoadInv'
         /\ phase' \in {"starting", "idle"} /\ pc' \in 1 .. Len(configDmpInit)
         /\ phase' = "starting" => At[pc'] = t
         /\ phase' = "idle" => t = Started
<1>1. pc \in 1 .. Len(configDmpInit)
  BY DEF IcmTypeOK
<1>2. CASE pc = Len(configDmpInit)
  <2>1. phase' = "idle" /\ pc' = 1 /\ t = Started
    BY <1>1, <1>2, AtOperation DEF goOn
  <2>2. 1 \in 1 .. Len(configDmpInit)
    BY <1>1, AtOperation
  <2>3. KnownInv' /\ LoadInv'
    BY <2>1 DEF KnownInv, LoadInv, Starting, Loading
  <2>4. StartedDelivers'
    <3>1. /\ bank' = 0 /\ power' = {"LP_EN"} /\ sram'[OutputCell] = OutputOn
          /\ userCtrl' = {"I2C_MST_EN", "FIFO_EN", "DMP_EN"}
      BY <2>1 DEF Holds, Started, Known, Knowledge
    <3>2. dmpRuns'
      BY <3>1 DEF dmpRuns
    <3>3. QED
      BY <1>2, <3>1, <3>2 DEF StartedDelivers
  <2>5. QED
    BY <2>1, <2>2, <2>3, <2>4
<1>3. CASE pc # Len(configDmpInit)
  <2>1. phase' = "starting" /\ pc' = pc + 1 /\ pc' \in 1 .. Len(configDmpInit)
    BY <1>1, <1>3, AtOperation DEF goOn
  <2>2. At[pc'] = t
    BY <2>1
  <2>3. KnownInv'
    <3>1. phase' \notin Loading
      BY <2>1 DEF Loading
    <3>2. Holds(At[pc])'
      BY <2>2 DEF Holds, FirmwareLoaded
    <3>3. QED
      BY <3>1, <3>2 DEF KnownInv
  <2>4. LoadInv' /\ StartedDelivers'
    BY <2>1 DEF LoadInv, StartedDelivers, Loading, Tasking
  <2>5. QED
    BY <2>1, <2>2, <2>3, <2>4
<1>4. QED
  BY <1>2, <1>3

LEMMA GivesUp ==
  ASSUME IcmTypeOK, giveUp
  PROVE  /\ KnownInv' /\ StartedDelivers' /\ LoadInv'
         /\ phase' = "off" /\ pc' \in 1 .. Len(configDmpInit)
<1>1. phase' = "off" /\ pc' = 1
  BY DEF giveUp
<1>2. 1 \in 1 .. Len(configDmpInit)
  BY AtOperation DEF IcmTypeOK
<1>3. QED
  BY <1>1, <1>2 DEF KnownInv, StartedDelivers, LoadInv, Starting, Loading, Tasking

\* A step of the program keeps what is known of the FIFO and of the samples:
\* it leaves the FIFO as it is or empties it.
LEMMA ProgramKeepsStream ==
  ASSUME IcmInv, phase \in {"off", "starting"} \union Loading,
         phase' \in {"off", "starting", "idle"} \union Loading,
         fifo' \in {fifo, <<>>},
         UNCHANGED <<produced, packetsLeft, fifoBuffer, lastData, dataReady, sent>>,
         Fresh' => fifo' = <<>> \/ (Fresh /\ UNCHANGED <<drdyFlag, dmpInt>>),
         ~cut' => ~cut \/ fifo' = <<>>
  PROVE  /\ StreamInv' /\ BurstInv' /\ AnnouncedInv' /\ SentInv' /\ AlignedInv'
<1>1. /\ phase \notin Tasking \union {"idle", "burst"}
      /\ phase' \notin Tasking /\ phase' # "burst"
  BY DEF Tasking, Loading
<1>2. fifoBuffer = <<>> /\ fifoBuffer' = <<>> /\ Len(fifoBuffer) = 0
  BY <1>1 DEF IcmInv, BurstInv
<1>3. fifo \in Seq(Bytes) /\ Len(fifo) \in Nat /\ Len(<<>>) = 0
  BY DEF IcmInv, IcmTypeOK, DeviceTypeOK
<1> DEFINE total == produced * PacketSize
<1>4. total \in Nat /\ total' = total
  BY Sizes DEF IcmInv, IcmTypeOK, DeviceTypeOK
<1>5. Consumed = total - Len(fifo) - 0 /\ Consumed' = total - Len(fifo') - 0
  BY <1>2 DEF Consumed
<1>6. Consumed \in Nat
  BY DEF IcmInv, StreamInv
<1> HIDE DEF total
<1>7. /\ Consumed' \in Nat /\ Consumed <= Consumed'
      /\ fifo' = <<>> => Consumed' = total
      /\ fifo' = fifo => Consumed' = Consumed
  BY <1>3, <1>4, <1>5, <1>6
<1>8. StreamInv'
  <2>1. CASE fifo' = fifo
    BY <1>2, <1>7, <2>1 DEF IcmInv, StreamInv
  <2>2. CASE fifo' = <<>>
    BY <1>2, <1>7, <2>2 DEF StreamInv
  <2>3. QED
    BY <2>1, <2>2
<1>9. BurstInv'
  BY <1>1, <1>2 DEF BurstInv
<1>10. AnnouncedInv'
  <2>1. Fresh' => (fifo' # <<>> => drdyFlag' /\ dmpInt')
    <3>1. SUFFICES ASSUME Fresh', fifo' # <<>> PROVE drdyFlag' /\ dmpInt'
      OBVIOUS
    <3>2. Fresh /\ UNCHANGED <<fifo, drdyFlag, dmpInt>>
      BY <3>1
    <3>3. Starting /\ At[pc].known = 2
      BY <1>1, <3>2 DEF Fresh
    <3>4. drdyFlag /\ dmpInt
      BY <3>1, <3>2, <3>3 DEF IcmInv, AnnouncedInv
    <3>5. QED
      BY <3>2, <3>4
  <2>2. Len(fifo') >= PacketSize => fifo' # <<>>
    BY <1>3, Sizes
  <2>3. (Starting /\ At[pc].known = 2)' => Fresh'
    BY DEF Fresh
  <2>4. phase' = "idle" => Fresh'
    BY DEF Fresh
  <2>5. (phase \in {"idle", "dmpIntStatus", "publish"} /\ ~skipped => Announced)'
    BY <1>1, <2>1, <2>2, <2>4 DEF Announced, Tasking
  <2>6. QED
    BY <1>1, <2>1, <2>3, <2>5 DEF AnnouncedInv, Tasking
<1>11. SentInv'
  <2>1. \A i \in DOMAIN sent : sent[i] * PacketSize <= Consumed'
    <3>1. ASSUME NEW i \in DOMAIN sent PROVE sent[i] * PacketSize <= Consumed'
      <4>1. sent \in Seq(1 .. MaxSamples) /\ sent[i] * PacketSize <= Consumed
        BY DEF IcmInv, SentInv
      <4>2. sent[i] \in Nat
        BY <4>1, Sizes
      <4> DEFINE x == sent[i] * PacketSize
      <4>3. x \in Nat /\ x <= Consumed
        BY <4>1, <4>2, Sizes
      <4> HIDE DEF x
      <4>4. x <= Consumed'
        BY <1>6, <1>7, <4>3
      <4>5. QED
        BY <4>4 DEF x
    <3>2. QED
      BY <3>1
  <2>2. sent' = sent /\ SentOnce'
    BY DEF IcmInv, SentInv, SentOnce
  <2>3. QED
    BY <1>1, <2>1, <2>2 DEF IcmInv, SentInv, Tasking
<1>12. AlignedInv'
  <2>1. SUFFICES ASSUME Fresh', ~cut' PROVE \E n \in Nat : Consumed' = n * PacketSize
    BY DEF AlignedInv
  <2>2. CASE fifo' = <<>>
    BY <1>7, <2>2 DEF total, IcmInv, IcmTypeOK, DeviceTypeOK
  <2>3. CASE fifo' # <<>>
    BY <1>7, <2>1, <2>3 DEF IcmInv, AlignedInv
  <2>4. QED
    BY <2>2, <2>3
<1>13. QED
  BY <1>8, <1>9, <1>10, <1>11, <1>12
-----------------------------------------------------------------------------
(***************************************************************************)
(* The actions of the start keep the invariant.                            *)
(***************************************************************************)
LEMMA RegisterKeeps == ASSUME IcmInv, register PROVE IcmInv'
<1>1. /\ phase = "off" /\ phase' = "starting" /\ pc' = 1
      /\ drdyFlag' = FALSE /\ isrAttached' = TRUE
      /\ skipped' = FALSE /\ stuck' = FALSE
      /\ UNCHANGED <<bank, power, userCtrl, memBank, memAddr, sram, fifo, fifoRst, dmpInt, produced>>
      /\ UNCHANGED <<done, lastBank, packetsLeft, fifoBuffer, lastData, dataReady, sent, cut>>
  BY DEF register, device, memVars, fifoVars, readVars
<1>2. IcmTypeOK /\ DmpHasFirmware
  BY DEF IcmInv
<1>3. At[1] = Beginning /\ 1 \in 1 .. Len(configDmpInit)
  BY <1>2, AtOperation DEF IcmTypeOK
<1>4. At[pc'] = Beginning
  BY <1>1, <1>3
<1>5. IcmTypeOK'
  <2>1. DeviceTypeOK'
    BY <1>1, <1>2 DEF IcmTypeOK, DeviceTypeOK
  <2>2. QED
    BY <1>1, <1>2, <1>3, <2>1 DEF IcmTypeOK
<1>6. KnownInv'
  <2>1. Holds(At[pc])'
    BY <1>4 DEF Holds, Beginning, Knowledge
  <2>2. QED
    BY <1>1, <2>1 DEF KnownInv, Loading
<1>7. DmpHasFirmware'
  BY <1>1, <1>2 DEF DmpHasFirmware, FirmwareLoaded
<1>8. LoadInv' /\ StartedDelivers'
  BY <1>1 DEF LoadInv, StartedDelivers, Loading, Tasking
<1>9. ~ Fresh'
  BY <1>1, <1>4 DEF Fresh, Beginning, Knowledge, Tasking
<1>10. (StreamInv /\ BurstInv /\ AnnouncedInv /\ SentInv /\ AlignedInv)'
  BY <1>1, <1>9, ProgramKeepsStream
<1>11. HeldInv'
  BY <1>1 DEF IcmInv, HeldInv
<1>12. QED
  BY <1>5, <1>6, <1>7, <1>8, <1>10, <1>11 DEF IcmInv

\* Of a step that goes on or gives up, once the device's part is known.
LEMMA ProgramStep ==
  ASSUME IcmInv, Starting, NEW t, t = At[pc + 1],
         DmpHasFirmware', DeviceTypeOK', HeldInv', produced' = produced,
         fifo' = <<>> \/ UNCHANGED <<fifo, dmpInt>>,
         \/ /\ goOn /\ Holds(t)' /\ (t.known = 2 => At[pc].known = 2 \/ fifo' = <<>>)
            /\ pc = Len(configDmpInit) => ~fifoRst'
         \/ giveUp,
         done' \in 0 .. ImageSize, lastBank' \in 0 .. NoBank,
         startUnchanged, cut' \in BOOLEAN, ~cut' => ~cut \/ fifo' = <<>>
  PROVE  IcmInv'
<1>1. UNCHANGED <<drdyFlag, isrAttached, packetsLeft, fifoBuffer, lastData, dataReady, sent, skipped, stuck>>
  BY DEF startUnchanged, readVars
<1>2. IcmTypeOK /\ isrAttached
  BY DEF IcmInv, KnownInv
<1>3. CASE /\ goOn /\ Holds(t)' /\ (t.known = 2 => At[pc].known = 2 \/ fifo' = <<>>)
           /\ pc = Len(configDmpInit) => ~fifoRst'
  <2>1. /\ KnownInv' /\ StartedDelivers' /\ LoadInv'
        /\ phase' \in {"starting", "idle"} /\ pc' \in 1 .. Len(configDmpInit)
        /\ phase' = "starting" => At[pc'] = t
        /\ phase' = "idle" => t = Started
    BY <1>1, <1>2, <1>3, GoesOn
  <2>2. IcmTypeOK'
    BY <1>1, <1>2, <2>1 DEF IcmTypeOK
  <2>3. Fresh' => t.known = 2
    BY <2>1 DEF Fresh, Tasking, Started, Known, Knowledge, Starting, Loading
  <2>4. At[pc].known = 2 => Fresh
    BY DEF Fresh
  <2>5. Fresh' => fifo' = <<>> \/ (Fresh /\ UNCHANGED <<drdyFlag, dmpInt>>)
    BY <1>1, <1>3, <2>3, <2>4
  <2>6. (StreamInv /\ BurstInv /\ AnnouncedInv /\ SentInv /\ AlignedInv)'
    BY <1>1, <2>1, <2>5, ProgramKeepsStream DEF Starting
  <2>7. QED
    BY <2>1, <2>2, <2>6 DEF IcmInv
<1>4. CASE giveUp
  <2>1. /\ KnownInv' /\ StartedDelivers' /\ LoadInv'
        /\ phase' = "off" /\ pc' \in 1 .. Len(configDmpInit)
    BY <1>2, <1>4, GivesUp
  <2>2. IcmTypeOK'
    BY <1>1, <1>2, <2>1 DEF IcmTypeOK
  <2>3. ~ Fresh'
    BY <2>1 DEF Fresh, Starting, Loading, Tasking
  <2>4. (StreamInv /\ BurstInv /\ AnnouncedInv /\ SentInv /\ AlignedInv)'
    BY <1>1, <2>1, <2>3, ProgramKeepsStream DEF Starting
  <2>5. QED
    BY <2>1, <2>2, <2>4 DEF IcmInv
<1>5. QED
  BY <1>3, <1>4

LEMMA RegisterAccessKeeps == ASSUME IcmInv, registerAccess PROVE IcmInv'
<1>1. /\ phase = "starting"
      /\ \/ takeOperation /\ goOn
         \/ (takeOperation \/ UNCHANGED device) /\ giveUp
      /\ cut' = (cut /\ fifo' # <<>>)
      /\ UNCHANGED <<done, lastBank>> /\ startUnchanged
  BY DEF registerAccess, noteFifo
<1>2. PICK t : t = At[pc + 1]
  OBVIOUS
<1>3. IcmTypeOK /\ DeviceTypeOK /\ DmpHasFirmware /\ HeldInv /\ Starting
  BY <1>1 DEF IcmInv, IcmTypeOK, Starting
<1>4. cut' \in BOOLEAN /\ (~cut' => ~cut \/ fifo' = <<>>)
  BY <1>1
<1>5. done' \in 0 .. ImageSize /\ lastBank' \in 0 .. NoBank
  BY <1>1, <1>3 DEF IcmTypeOK
<1>6. CASE takeOperation
  <2>1. /\ Holds(t)' /\ DmpHasFirmware' /\ DeviceTypeOK' /\ produced' = produced
        /\ fifo' = <<>> \/ UNCHANGED <<fifo, dmpInt>>
        /\ t.known = 2 => At[pc].known = 2 \/ fifo' = <<>>
        /\ HeldInv' /\ (pc = Len(configDmpInit) => ~fifoRst')
    BY <1>1, <1>2, <1>6, OperationTaken
  <2>2. QED
    BY <1>1, <1>2, <1>3, <1>4, <1>5, <2>1, ProgramStep
<1>7. CASE UNCHANGED device /\ giveUp
  <2>1. UNCHANGED <<bank, power, userCtrl, memBank, memAddr, sram, fifo, fifoRst, dmpInt, produced>>
    BY <1>7 DEF device, memVars, fifoVars
  <2>2. DmpHasFirmware' /\ DeviceTypeOK' /\ HeldInv'
    BY <1>3, <2>1 DEF DmpHasFirmware, FirmwareLoaded, DeviceTypeOK, HeldInv
  <2>3. QED
    BY <1>1, <1>2, <1>3, <1>4, <1>5, <1>7, <2>1, <2>2, ProgramStep
<1>8. QED
  BY <1>1, <1>6, <1>7

LEMMA DmpWriteBytesKeeps == ASSUME IcmInv, dmpWriteBytes PROVE IcmInv'
<1>1. IcmTypeOK /\ DeviceTypeOK /\ DmpHasFirmware /\ KnownInv /\ HeldInv
  BY DEF IcmInv, IcmTypeOK
<1> DEFINE op == operation
<1>2. PICK k \in 0 .. 3 :
        /\ phase = "starting" /\ op.do = "param"
        /\ memBank' = IF k >= 1 THEN op.cell \div MemBankSize ELSE memBank
        /\ memAddr' = IF k >= 2 THEN op.cell % MemBankSize ELSE memAddr
        /\ sram' = IF k = 3 /\ memWritable THEN [sram EXCEPT ![op.cell] = op.value] ELSE sram
        /\ (k = 3 /\ goOn) \/ giveUp
        /\ UNCHANGED <<bank, power, userCtrl, fifo, fifoRst, dmpInt, produced>>
        /\ UNCHANGED <<done, lastBank, cut>> /\ startUnchanged
  BY DEF dmpWriteBytes, fifoVars
<1>3. PICK t : t = At[pc + 1]
  OBVIOUS
<1>4. Starting /\ Holds(At[pc])
  BY <1>1, <1>2 DEF Starting, KnownInv
<1>5. /\ op \in Operations /\ Allowed(At[pc], op) /\ t = After(At[pc], op)
      /\ pc # Len(configDmpInit)
  BY <1>1, <1>2, <1>3, AtOperation DEF IcmTypeOK, release
<1> HIDE DEF op
<1>6. /\ At[pc].known = 2 /\ At[pc].bank = 0
      /\ t = Knowledge(At[pc].known, At[pc].bank, At[pc].power, At[pc].userCtrl,
                       IF op.cell = OutputCell /\ Writable(At[pc].power) THEN op.value
                       ELSE At[pc].output, At[pc].loaded)
  BY <1>2, <1>5, AllowedOperation, AfterOperation
<1>7. /\ op.cell \in {OutputCell, TunedCell} /\ op.value \in CellValues
      /\ op.cell \in Cells /\ op.cell \in 0 .. TunedCell
  BY <1>2, <1>5, OperationShape, Layout DEF Cells, TunedCell
<1>8. DeviceTypeOK'
  <2>1. memBank' \in 0 .. MemBanks - 1 /\ memAddr' \in 0 .. MemBankSize - 1
    BY <1>1, <1>2, <1>7, Layout DEF DeviceTypeOK
  <2>2. sram' \in [Cells -> CellValues]
    BY <1>1, <1>2, <1>7 DEF DeviceTypeOK
  <2>3. QED
    BY <1>1, <1>2, <2>1, <2>2 DEF DeviceTypeOK
<1>9. sram \in [Cells -> CellValues]
  BY <1>1 DEF DeviceTypeOK
<1>10. FirmwareLoaded => FirmwareLoaded'
  <2>1. ASSUME NEW i \in 1 .. ImageSize, LoadStart + i - 1 # TunedCell
        PROVE  sram'[LoadStart + i - 1] = sram[LoadStart + i - 1]
    <3>1. LoadStart + i - 1 \in Cells /\ LoadStart + i - 1 # op.cell
      BY <1>7, <2>1, Layout
    <3>2. QED
      BY <1>2, <1>9, <3>1
  <2>2. QED
    BY <2>1 DEF FirmwareLoaded
<1>11. DmpHasFirmware'
  BY <1>1, <1>2, <1>10 DEF DmpHasFirmware
<1>12. k = 3 => Holds(t)'
  <2>1. SUFFICES ASSUME k = 3 PROVE Holds(t)'
    OBVIOUS
  <2>2. /\ bank = At[pc].bank /\ power = At[pc].power /\ userCtrl = At[pc].userCtrl
        /\ sram[OutputCell] = At[pc].output /\ (At[pc].loaded => FirmwareLoaded)
    BY <1>4, <1>6 DEF Holds
  <2>3. sram' = IF Writable(power) THEN [sram EXCEPT ![op.cell] = op.value] ELSE sram
    BY <1>2, <2>1 DEF memWritable, Writable
  <2>4. sram'[OutputCell] = IF op.cell = OutputCell /\ Writable(power) THEN op.value
                            ELSE sram[OutputCell]
    BY <1>7, <1>9, <2>3, Layout
  <2>5. /\ t.bank = At[pc].bank /\ t.power = At[pc].power /\ t.userCtrl = At[pc].userCtrl
        /\ t.loaded = At[pc].loaded
        /\ t.output = IF op.cell = OutputCell /\ Writable(At[pc].power) THEN op.value
                      ELSE At[pc].output
    BY <1>6 DEF Knowledge
  <2>6. t.loaded => FirmwareLoaded'
    BY <1>10, <2>2, <2>5
  <2>7. sram'[OutputCell] = t.output
    BY <2>2, <2>4, <2>5
  <2>8. QED
    BY <1>2, <2>2, <2>5, <2>6, <2>7 DEF Holds
<1>13. done' \in 0 .. ImageSize /\ lastBank' \in 0 .. NoBank /\ cut' \in BOOLEAN
  BY <1>1, <1>2 DEF IcmTypeOK
<1>14. \/ /\ goOn /\ Holds(t)' /\ (t.known = 2 => At[pc].known = 2 \/ fifo' = <<>>)
          /\ pc # Len(configDmpInit)
       \/ giveUp
  BY <1>2, <1>5, <1>6, <1>12
<1>15. HeldInv'
  BY <1>1, <1>2 DEF HeldInv
<1>16. QED
  BY <1>2, <1>3, <1>4, <1>8, <1>11, <1>13, <1>14, <1>15, ProgramStep
\* While the image is loaded.
LEMMA LoadStep ==
  ASSUME IcmInv, Starting, operation.do = "load", phase' \in Loading, pc' = pc,
         UNCHANGED <<bank, power, userCtrl, fifo, fifoRst, dmpInt, produced, cut>>, startUnchanged,
         DeviceTypeOK', sram'[OutputCell] = sram[OutputCell],
         FirmwareLoaded => FirmwareLoaded',
         done' \in 0 .. ImageSize, lastBank' \in 0 .. NoBank, LoadInv'
  PROVE  IcmInv'
<1>1. UNCHANGED <<drdyFlag, isrAttached, packetsLeft, fifoBuffer, lastData, dataReady, sent, skipped, stuck>>
  BY DEF startUnchanged, readVars
<1>2. IcmTypeOK /\ KnownInv /\ DmpHasFirmware
  BY DEF IcmInv
<1>3. IcmTypeOK'
  BY <1>1, <1>2 DEF IcmTypeOK
<1>4. KnownInv'
  <2>1. Holds(At[pc])'
    BY <1>2 DEF KnownInv, Holds
  <2>2. operation' = operation
    BY DEF operation
  <2>3. QED
    BY <1>1, <1>2, <2>1, <2>2 DEF KnownInv
<1>5. StartedDelivers'
  BY DEF StartedDelivers, Loading, Tasking
<1>6. DmpHasFirmware'
  BY <1>2 DEF DmpHasFirmware
<1>7. Fresh' => Fresh
  BY DEF Fresh, Loading, Tasking
<1>8. (StreamInv /\ BurstInv /\ AnnouncedInv /\ SentInv /\ AlignedInv)'
  BY <1>1, <1>7, ProgramKeepsStream DEF Starting
<1>9. HeldInv'
  BY DEF IcmInv, HeldInv
<1>10. QED
  BY <1>3, <1>4, <1>5, <1>6, <1>8, <1>9 DEF IcmInv

\* A transfer of the load that fails.
LEMMA LoadFails ==
  ASSUME IcmInv, Starting, giveUp,
         UNCHANGED <<bank, power, userCtrl, fifo, fifoRst, dmpInt, produced, cut>>, startUnchanged,
         DeviceTypeOK', FirmwareLoaded => FirmwareLoaded',
         UNCHANGED <<done, lastBank>>
  PROVE  IcmInv'
<1>1. PICK t : t = At[pc + 1]
  OBVIOUS
<1>2. IcmTypeOK /\ DmpHasFirmware
  BY DEF IcmInv
<1>3. DmpHasFirmware'
  BY <1>2 DEF DmpHasFirmware
<1>4. done' \in 0 .. ImageSize /\ lastBank' \in 0 .. NoBank /\ cut' \in BOOLEAN
  BY <1>2 DEF IcmTypeOK
<1>5. HeldInv'
  BY DEF IcmInv, HeldInv
<1>6. QED
  BY <1>1, <1>3, <1>4, <1>5, ProgramStep

LEMMA LoadBeginKeeps == ASSUME IcmInv, loadBegin PROVE IcmInv'
<1>1. /\ phase = "starting" /\ operation.do = "load"
      /\ phase' = "loadBank" /\ done' = 0 /\ lastBank' = NoBank
      /\ UNCHANGED <<bank, power, userCtrl, memBank, memAddr, sram, fifo, fifoRst, dmpInt, produced, pc, cut>>
      /\ startUnchanged
  BY DEF loadBegin, device, memVars, fifoVars
<1>2. DeviceTypeOK'
  BY <1>1 DEF IcmInv, IcmTypeOK, DeviceTypeOK
<1>3. FirmwareLoaded' = FirmwareLoaded
  BY <1>1 DEF FirmwareLoaded
<1>4. ImageSize \in Nat \ {0} /\ NoBank \in Nat
  BY MemoryAssumption, Layout
<1>5. LoadInv'
  BY <1>1, <1>4 DEF LoadInv
<1>6. Starting /\ phase' \in Loading
  BY <1>1 DEF Starting, Loading
<1>7. QED
  BY <1>1, <1>2, <1>3, <1>4, <1>5, <1>6, LoadStep

\* Where the load is.
LEMMA InLoad ==
  ASSUME IcmInv, phase \in {"loadBank", "loadAddr", "loadData"}
  PROVE  /\ Starting /\ operation.do = "load" /\ Holds(At[pc])
         /\ done \in 0 .. ImageSize - 1 /\ lastBank \in 0 .. NoBank
         /\ loadAddress \in 0 .. TunedCell /\ loadAddress = LoadStart + (done + 1) - 1
         /\ loadAddress \div MemBankSize \in 0 .. MemBanks - 1
         /\ loadAddress % MemBankSize \in 0 .. MemBankSize - 1
         /\ loadAddress \div MemBankSize # NoBank
         /\ \A i \in 1 .. done : sram[LoadStart + i - 1] = i
         /\ lastBank # NoBank => memBank = lastBank
         /\ phase \in {"loadAddr", "loadData"} => lastBank = loadAddress \div MemBankSize
         /\ phase = "loadData" => memAddr = loadAddress % MemBankSize
<1>1. IcmTypeOK /\ KnownInv /\ LoadInv /\ phase \in Loading
  BY DEF IcmInv, Loading
<1>2. Starting /\ operation.do = "load" /\ Holds(At[pc])
  BY <1>1 DEF KnownInv, Starting
<1>3. /\ done < ImageSize /\ \A i \in 1 .. done : sram[LoadStart + i - 1] = i
      /\ lastBank # NoBank => memBank = lastBank
      /\ phase \in {"loadAddr", "loadData"} => lastBank = loadAddress \div MemBankSize
      /\ phase = "loadData" => memAddr = loadAddress % MemBankSize
  BY <1>1 DEF LoadInv
<1>4. done \in 0 .. ImageSize - 1 /\ lastBank \in 0 .. NoBank
  BY <1>1, <1>3, MemoryAssumption DEF IcmTypeOK
<1>5. loadAddress \in 0 .. TunedCell /\ loadAddress = LoadStart + (done + 1) - 1
  BY <1>4, MemoryAssumption DEF loadAddress, TunedCell
<1>6. /\ loadAddress \div MemBankSize \in 0 .. MemBanks - 1
      /\ loadAddress % MemBankSize \in 0 .. MemBankSize - 1
  BY <1>5, Layout
<1>7. loadAddress \div MemBankSize # NoBank
  BY <1>6, Layout
<1>8. QED
  BY <1>2, <1>3, <1>4, <1>5, <1>6, <1>7

LEMMA LoadBankSelKeeps == ASSUME IcmInv, loadBankSel PROVE IcmInv'
<1> DEFINE b == loadAddress \div MemBankSize
<1>1. phase = "loadBank" /\ UNCHANGED <<done, cut>> /\ startUnchanged
  BY DEF loadBankSel
<1>2. /\ Starting /\ operation.do = "load"
      /\ done \in 0 .. ImageSize - 1 /\ lastBank \in 0 .. NoBank
      /\ b \in 0 .. MemBanks - 1 /\ b # NoBank
      /\ \A i \in 1 .. done : sram[LoadStart + i - 1] = i
      /\ lastBank # NoBank => memBank = lastBank
  BY <1>1, InLoad
<1>3. /\ IF lastBank # b
         THEN \/ takeMemBank(b) /\ lastBank' = b /\ phase' = "loadAddr" /\ UNCHANGED pc
              \/ (takeMemBank(b) \/ UNCHANGED device) /\ giveUp /\ UNCHANGED lastBank
         ELSE phase' = "loadAddr" /\ UNCHANGED <<device, lastBank, pc>>
  BY DEF loadBankSel, bankChanges
<1>4. /\ memBank' \in {memBank, b}
      /\ UNCHANGED <<bank, power, userCtrl, memAddr, sram, fifo, fifoRst, dmpInt, produced>>
  BY <1>3 DEF takeMemBank, device, memVars, fifoVars
<1>5. FirmwareLoaded' = FirmwareLoaded /\ sram'[OutputCell] = sram[OutputCell]
  BY <1>4 DEF FirmwareLoaded
<1>6. DeviceTypeOK'
  BY <1>2, <1>4 DEF IcmInv, IcmTypeOK, DeviceTypeOK
<1>7. CASE giveUp /\ UNCHANGED lastBank
  BY <1>1, <1>2, <1>4, <1>5, <1>6, <1>7, LoadFails
<1>8. CASE phase' = "loadAddr" /\ lastBank' = b /\ memBank' = b /\ UNCHANGED pc
  <2>1. loadAddress' = loadAddress
    BY <1>1 DEF loadAddress
  <2>2. phase' \in Loading /\ done' \in 0 .. ImageSize /\ lastBank' \in 0 .. NoBank
    BY <1>1, <1>2, <1>8, MemoryAssumption, Layout DEF Loading
  <2>3. LoadInv'
    <3>1. done \in Nat /\ done < ImageSize /\ phase' # "loadPrime"
      BY <1>2, <1>8, MemoryAssumption
    <3>2. done' < ImageSize /\ \A i \in 1 .. done' : sram'[LoadStart + i - 1] = i
      BY <1>1, <1>2, <1>4, <3>1
    <3>3. lastBank' = loadAddress' \div MemBankSize /\ phase' # "loadData"
      BY <1>8, <2>1
    <3>4. QED
      BY <1>8, <3>1, <3>2, <3>3 DEF LoadInv
  <2>4. QED
    BY <1>1, <1>2, <1>4, <1>5, <1>6, <1>8, <2>2, <2>3, LoadStep
<1>9. CASE lastBank = b
  BY <1>2, <1>3, <1>8, <1>9 DEF device, memVars, fifoVars
<1>10. CASE lastBank # b /\ takeMemBank(b) /\ lastBank' = b /\ phase' = "loadAddr" /\ UNCHANGED pc
  BY <1>8, <1>10 DEF takeMemBank
<1>11. QED
  BY <1>3, <1>7, <1>9, <1>10

LEMMA LoadStartAddrKeeps == ASSUME IcmInv, loadStartAddr PROVE IcmInv'
<1> DEFINE a == loadAddress % MemBankSize
<1>1. phase = "loadAddr" /\ UNCHANGED <<done, lastBank, cut>> /\ startUnchanged
  BY DEF loadStartAddr
<1>2. /\ Starting /\ operation.do = "load"
      /\ done \in 0 .. ImageSize - 1 /\ lastBank \in 0 .. NoBank
      /\ a \in 0 .. MemBankSize - 1
      /\ \A i \in 1 .. done : sram[LoadStart + i - 1] = i
      /\ lastBank # NoBank => memBank = lastBank
      /\ lastBank = loadAddress \div MemBankSize
  BY <1>1, InLoad
<1>3. \/ takeMemAddr(a) /\ phase' = "loadData" /\ UNCHANGED pc
      \/ (takeMemAddr(a) \/ UNCHANGED device) /\ giveUp
  BY DEF loadStartAddr
<1>4. /\ memAddr' \in {memAddr, a}
      /\ UNCHANGED <<bank, power, userCtrl, memBank, sram, fifo, fifoRst, dmpInt, produced>>
  BY <1>3 DEF takeMemAddr, device, memVars, fifoVars
<1>5. FirmwareLoaded' = FirmwareLoaded /\ sram'[OutputCell] = sram[OutputCell]
  BY <1>4 DEF FirmwareLoaded
<1>6. DeviceTypeOK'
  BY <1>2, <1>4 DEF IcmInv, IcmTypeOK, DeviceTypeOK
<1>7. CASE giveUp
  BY <1>1, <1>2, <1>4, <1>5, <1>6, <1>7, LoadFails
<1>8. CASE takeMemAddr(a) /\ phase' = "loadData" /\ UNCHANGED pc
  <2>1. loadAddress' = loadAddress /\ memAddr' = a
    BY <1>1, <1>8 DEF loadAddress, takeMemAddr
  <2>2. phase' \in Loading /\ done' \in 0 .. ImageSize /\ lastBank' \in 0 .. NoBank
    BY <1>1, <1>2, <1>8, MemoryAssumption DEF Loading
  <2>3. LoadInv'
    <3>1. done \in Nat /\ done < ImageSize /\ phase' # "loadPrime"
      BY <1>2, <1>8, MemoryAssumption
    <3>2. done' < ImageSize /\ \A i \in 1 .. done' : sram'[LoadStart + i - 1] = i
      BY <1>1, <1>2, <1>4, <3>1
    <3>3. lastBank' = lastBank /\ memBank' = memBank /\ memAddr' = a
      BY <1>1, <1>4, <2>1
    <3>4. lastBank' = loadAddress' \div MemBankSize /\ memAddr' = loadAddress' % MemBankSize
      BY <1>2, <2>1, <3>3
    <3>5. QED
      BY <1>2, <3>1, <3>2, <3>3, <3>4 DEF LoadInv
  <2>4. QED
    BY <1>1, <1>2, <1>4, <1>5, <1>6, <1>8, <2>2, <2>3, LoadStep
<1>9. QED
  BY <1>3, <1>7, <1>8

LEMMA LoadDataKeeps == ASSUME IcmInv, loadData PROVE IcmInv'
<1> DEFINE cell == LoadStart + (done + 1) - 1
<1>1. phase = "loadData" /\ UNCHANGED <<lastBank, cut>> /\ startUnchanged
  BY DEF loadData
<1>2. /\ Starting /\ operation.do = "load" /\ Holds(At[pc])
      /\ done \in 0 .. ImageSize - 1 /\ lastBank \in 0 .. NoBank
      /\ loadAddress \in 0 .. TunedCell /\ loadAddress = cell
      /\ \A i \in 1 .. done : sram[LoadStart + i - 1] = i
      /\ memBank = lastBank /\ lastBank = loadAddress \div MemBankSize
      /\ memAddr = loadAddress % MemBankSize
  BY <1>1, InLoad
<1>3. \/ /\ takeMemData(done + 1) /\ done' = done + 1 /\ UNCHANGED pc
         /\ phase' = IF done' < ImageSize THEN "loadBank" ELSE "loadPrime"
      \/ (takeMemData(done + 1) \/ UNCHANGED device) /\ giveUp /\ UNCHANGED done
  BY DEF loadData
\* The byte goes to its cell.
<1>4. memCell = cell
  BY <1>2, Layout DEF memCell
<1>5. done + 1 \in 1 .. ImageSize /\ cell \in Cells /\ cell # OutputCell /\ done + 1 \in CellValues
  <2>1. done + 1 \in 1 .. ImageSize
    BY <1>2, MemoryAssumption
  <2>2. QED
    BY <2>1, Layout
<1> HIDE DEF cell
<1>6. /\ sram' \in {sram, [sram EXCEPT ![cell] = done + 1]}
      /\ UNCHANGED <<bank, power, userCtrl, memBank, memAddr, fifo, fifoRst, dmpInt, produced>>
  BY <1>3, <1>4 DEF takeMemData, device, memVars, fifoVars
<1>7. sram \in [Cells -> CellValues] /\ DeviceTypeOK
  BY DEF IcmInv, IcmTypeOK, DeviceTypeOK
<1>8. DeviceTypeOK' /\ sram'[OutputCell] = sram[OutputCell]
  <2>1. sram' \in [Cells -> CellValues] /\ sram'[OutputCell] = sram[OutputCell]
    BY <1>5, <1>6, <1>7, Layout
  <2>2. QED
    BY <1>6, <1>7, <2>1 DEF DeviceTypeOK
<1>9. ASSUME NEW i \in 1 .. ImageSize
      PROVE  /\ sram'[LoadStart + i - 1] \in {sram[LoadStart + i - 1], i}
             /\ i # done + 1 => sram'[LoadStart + i - 1] = sram[LoadStart + i - 1]
  <2>1. LoadStart + i - 1 \in Cells
    BY Layout
  <2>2. LoadStart + i - 1 = cell <=> i = done + 1
    BY <1>2, MemoryAssumption DEF cell
  <2>3. QED
    BY <1>5, <1>6, <1>7, <2>1, <2>2
<1>10. FirmwareLoaded => FirmwareLoaded'
  BY <1>9 DEF FirmwareLoaded
<1>11. CASE giveUp /\ UNCHANGED done
  BY <1>1, <1>2, <1>6, <1>8, <1>10, <1>11, LoadFails
<1>12. CASE /\ takeMemData(done + 1) /\ done' = done + 1 /\ UNCHANGED pc
            /\ phase' = IF done' < ImageSize THEN "loadBank" ELSE "loadPrime"
  <2>1. memWritable
    <3>1. Allowed(At[pc], operation)
      BY AtOperation DEF IcmInv, IcmTypeOK
    <3>2. At[pc].known = 2 /\ Writable(At[pc].power)
      BY <1>2, <3>1, AllowedOperation
    <3>3. QED
      BY <1>2, <3>2 DEF Holds, Writable, memWritable
  <2>2. sram' = [sram EXCEPT ![cell] = done + 1]
    BY <1>4, <1>12, <2>1 DEF takeMemData
  <2>3. sram'[cell] = done + 1
    BY <1>5, <1>7, <2>2
  <2>4. ASSUME NEW i \in 1 .. done' PROVE sram'[LoadStart + i - 1] = i
    <3>1. i \in 1 .. ImageSize /\ (i = done + 1 \/ i \in 1 .. done)
      BY <1>2, <1>12, MemoryAssumption
    <3>2. CASE i = done + 1
      BY <2>3, <3>2 DEF cell
    <3>3. CASE i # done + 1
      BY <1>2, <1>9, <3>1, <3>3
    <3>4. QED
      BY <3>2, <3>3
  <2>5. phase' \in {"loadBank", "loadPrime"} /\ (phase' = "loadPrime" <=> ~ (done' < ImageSize))
    BY <1>12
  <2>6. done' \in 0 .. ImageSize /\ phase' \in Loading
    BY <1>2, <1>12, <2>5, MemoryAssumption DEF Loading
  <2>7. IF phase' = "loadPrime" THEN done' = ImageSize ELSE done' < ImageSize
    BY <2>5, <2>6, MemoryAssumption
  <2>8. LoadInv'
    BY <1>1, <1>2, <1>6, <2>4, <2>5, <2>7 DEF LoadInv
  <2>9. lastBank' \in 0 .. NoBank
    BY <1>1, <1>2
  <2>10. QED
    BY <1>1, <1>2, <1>6, <1>8, <1>10, <1>12, <2>6, <2>8, <2>9, LoadStep
<1>13. QED
  BY <1>3, <1>11, <1>12

LEMMA LoadPrimeKeeps == ASSUME IcmInv, loadPrime PROVE IcmInv'
<1>1. /\ phase = "loadPrime"
      /\ memBank' \in {memBank, 0}
      /\ memAddr' \in {memAddr, (LoadStart + 1) % MemBankSize}
      /\ goOn
      /\ UNCHANGED <<bank, power, userCtrl, sram, fifo, fifoRst, dmpInt, produced, done, lastBank, cut>>
      /\ startUnchanged
  BY DEF loadPrime, fifoVars
<1>2. PICK t : t = At[pc + 1]
  OBVIOUS
<1>3. IcmTypeOK /\ DeviceTypeOK /\ DmpHasFirmware /\ KnownInv /\ LoadInv
  BY DEF IcmInv, IcmTypeOK
<1>4. Starting /\ phase \in Loading
  BY <1>1 DEF Starting, Loading
<1>5. operation.do = "load" /\ Holds(At[pc])
  BY <1>3, <1>4 DEF KnownInv
<1>6. operation \in Operations /\ Allowed(At[pc], operation) /\ t = After(At[pc], operation)
  BY <1>2, <1>3, AtOperation DEF IcmTypeOK
<1>7. /\ At[pc].known = 2
      /\ t = Knowledge(At[pc].known, At[pc].bank, At[pc].power, At[pc].userCtrl,
                       At[pc].output, TRUE)
  <2> DEFINE op == operation
  <2>1. op.do = "load" /\ Allowed(At[pc], op) /\ t = After(At[pc], op)
    BY <1>5, <1>6
  <2> HIDE DEF op
  <2>2. QED
    BY <2>1, AllowedOperation, AfterOperation
\* The whole image is in its place.
<1>8. FirmwareLoaded'
  <2>1. done = ImageSize /\ \A i \in 1 .. done : sram[LoadStart + i - 1] = i
    BY <1>1, <1>3, <1>4 DEF LoadInv
  <2>2. QED
    BY <1>1, <2>1 DEF FirmwareLoaded
<1>9. Holds(t)'
  <2>1. /\ bank = At[pc].bank /\ power = At[pc].power /\ userCtrl = At[pc].userCtrl
        /\ sram[OutputCell] = At[pc].output
    BY <1>5, <1>7 DEF Holds
  <2>2. /\ t.bank = At[pc].bank /\ t.power = At[pc].power /\ t.userCtrl = At[pc].userCtrl
        /\ t.output = At[pc].output
    BY <1>7 DEF Knowledge
  <2>3. QED
    BY <1>1, <1>8, <2>1, <2>2 DEF Holds
<1>10. DeviceTypeOK' /\ DmpHasFirmware'
  <2>1. (LoadStart + 1) % MemBankSize \in 0 .. MemBankSize - 1 /\ 0 \in 0 .. MemBanks - 1
    BY MemoryAssumption, Layout
  <2>2. QED
    BY <1>1, <1>3, <1>8, <2>1 DEF DeviceTypeOK, DmpHasFirmware
<1>11. done' \in 0 .. ImageSize /\ lastBank' \in 0 .. NoBank /\ cut' \in BOOLEAN
  BY <1>1, <1>3 DEF IcmTypeOK
<1>12. /\ goOn /\ Holds(t)' /\ (t.known = 2 => At[pc].known = 2 \/ fifo' = <<>>)
       /\ pc # Len(configDmpInit)
  <2>1. release.do = "write"
    BY DEF release
  <2>2. pc # Len(configDmpInit)
    BY <1>3, <1>5, <2>1, AtOperation DEF IcmTypeOK
  <2>3. QED
    BY <1>1, <1>7, <1>9, <2>2
<1>13. HeldInv'
  BY <1>1 DEF IcmInv, HeldInv
<1>14. QED
  BY <1>1, <1>2, <1>4, <1>10, <1>11, <1>12, <1>13, ProgramStep
-----------------------------------------------------------------------------
(***************************************************************************)
(* The stream of bytes.                                                    *)
(***************************************************************************)
\* The bytes of the packet that begins at n * PacketSize.
LEMMA PacketBytes ==
  ASSUME NEW n \in Nat, NEW i \in 1 .. PacketSize
  PROVE  ByteAt(n * PacketSize + i - 1) = <<n + 1, i>>
<1> DEFINE v == n * PacketSize + i - 1
           r == i - 1
<1>1. PacketSize \in Nat \ {0} /\ r \in 0 .. PacketSize - 1
  BY Sizes
<1>2. v = PacketSize * n + r /\ v \in Nat
  <2> DEFINE x == n * PacketSize
  <2>1. x \in Nat /\ x = PacketSize * n
    BY <1>1
  <2> HIDE DEF x
  <2>2. QED
    BY <1>1, <2>1 DEF x
<1> HIDE DEF v
<1>3. v \div PacketSize = n /\ v % PacketSize = r
  <2> HIDE DEF r
  <2>1. QED
    BY <1>1, <1>2, DivUnique
<1>4. ByteAt(v) = <<n + 1, i>>
  BY <1>1, <1>3 DEF ByteAt
<1>5. QED
  BY <1>4 DEF v

\* The number of a byte's packet: all of its bytes come before the next.
LEMMA PacketOfByte ==
  ASSUME NEW c \in Nat
  PROVE  /\ ByteAt(c)[1] \in Nat \ {0}
         /\ ByteAt(c)[1] * PacketSize <= c + PacketSize
         /\ \A m \in Nat : m * PacketSize <= c => m < ByteAt(c)[1]
         /\ \A m \in Nat : c < m * PacketSize => ByteAt(c)[1] <= m
<1> DEFINE q == c \div PacketSize
           r == c % PacketSize
<1>1. /\ PacketSize \in Nat \ {0} /\ q \in Nat /\ r \in 0 .. PacketSize - 1
      /\ c = PacketSize * q + r
  BY Sizes, DivMod
<1>2. ByteAt(c)[1] = q + 1
  BY DEF ByteAt
<1> HIDE DEF q, r
<1> DEFINE x == PacketSize * q
<1>3. x \in Nat /\ c = x + r
  BY <1>1
<1>4. (q + 1) * PacketSize = x + PacketSize
  BY <1>1
<1>5. ASSUME NEW m \in Nat, m * PacketSize <= c PROVE m < q + 1
  <2>1. SUFFICES ASSUME m >= q + 1 PROVE FALSE
    BY <1>1
  <2>2. m * PacketSize >= (q + 1) * PacketSize
    BY <1>1, <2>1
  <2> DEFINE y == m * PacketSize
  <2>3. y \in Nat /\ y <= c /\ y >= x + PacketSize
    BY <1>1, <1>4, <1>5, <2>2
  <2> HIDE DEF x, y
  <2>4. QED
    BY <1>1, <1>3, <2>3
<1>6. ASSUME NEW m \in Nat, c < m * PacketSize PROVE q + 1 <= m
  <2>1. SUFFICES ASSUME m <= q PROVE FALSE
    BY <1>1
  <2>2. m * PacketSize <= q * PacketSize /\ q * PacketSize = x
    BY <1>1, <2>1
  <2> DEFINE y == m * PacketSize
  <2>3. y \in Nat /\ c < y /\ y <= x
    BY <1>1, <1>6, <2>2
  <2> HIDE DEF x, y
  <2>4. QED
    BY <1>1, <1>3, <2>3
<1>7. (q + 1) * PacketSize <= c + PacketSize
  <2> HIDE DEF x
  <2>1. x + PacketSize <= c + PacketSize
    BY <1>1, <1>3
  <2>2. QED
    BY <1>4, <2>1
<1>8. QED
  BY <1>1, <1>2, <1>5, <1>6, <1>7

\* The first two bytes, and what they leave.
LEMMA TwoOff ==
  ASSUME NEW s \in Seq(Bytes), Len(s) >= 2
  PROVE  LET rest == SubSeq(s, 3, Len(s))
             two  == SubSeq(s, 1, 2)
         IN  /\ rest \in Seq(Bytes) /\ Len(rest) = Len(s) - 2
             /\ \A i \in 1 .. Len(s) - 2 : rest[i] = s[i + 2]
             /\ SeqOf(Bytes, 2, two) /\ two[1] = s[1] /\ two[2] = s[2]
<1> DEFINE n == Len(s)
           rest == SubSeq(s, 3, n)
           two  == SubSeq(s, 1, 2)
<1>1. n \in Nat /\ n >= 2
  OBVIOUS
<1>2. two \in Seq(Bytes) /\ Len(two) = 2 /\ two[1] = s[1] /\ two[2] = s[2]
  BY <1>1
<1>3. \A i \in 3 .. n : s[i] \in Bytes
  OBVIOUS
<1> HIDE DEF n
<1>4. /\ rest \in Seq(Bytes) /\ Len(rest) = IF 3 <= n THEN n - 3 + 1 ELSE 0
      /\ \A i \in 1 .. n - 3 + 1 : rest[i] = s[3 + i - 1]
  BY <1>1, <1>3, SubSeqProperties
<1>5. Len(rest) = n - 2 /\ \A i \in 1 .. n - 2 : rest[i] = s[i + 2]
  <2> HIDE DEF rest
  <2>1. \A i \in 1 .. n - 2 : i \in 1 .. n - 3 + 1 /\ s[3 + i - 1] = s[i + 2]
    BY <1>1
  <2>2. QED
    BY <1>1, <1>4, <2>1
<1>6. QED
  BY <1>2, <1>4, <1>5 DEF SeqOf, n

\* How much of the stream there is.
LEMMA StreamLength ==
  ASSUME IcmInv
  PROVE  /\ produced * PacketSize \in Nat
         /\ Len(fifo) \in Nat /\ Len(fifoBuffer) \in Nat /\ Consumed \in Nat
         /\ produced * PacketSize = Consumed + Len(fifoBuffer) + Len(fifo)
<1>1. produced \in Nat /\ PacketSize \in Nat /\ fifo \in Seq(Bytes) /\ fifoBuffer \in Seq(Bytes)
  BY Sizes DEF IcmInv, IcmTypeOK, DeviceTypeOK
<1> DEFINE x == produced * PacketSize
<1>2. x \in Nat /\ Len(fifo) \in Nat /\ Len(fifoBuffer) \in Nat
  BY <1>1
<1>3. Consumed = x - Len(fifo) - Len(fifoBuffer) /\ Consumed \in Nat
  BY DEF Consumed, IcmInv, StreamInv
<1> HIDE DEF x
<1>4. x = Consumed + Len(fifoBuffer) + Len(fifo)
  BY <1>2, <1>3
<1>5. QED
  BY <1>2, <1>3, <1>4 DEF x

\* The samples known stay behind what is left of the stream.
LEMMA SentKept ==
  ASSUME IcmInv, Consumed' \in Nat, Consumed <= Consumed', UNCHANGED <<sent, lastData>>,
         phase' \in Tasking /\ dataReady' => dataReady /\ phase \in Tasking,
         phase' = "publish" => dataReady'
  PROVE  SentInv'
<1>1. SentInv /\ Consumed \in Nat
  BY DEF IcmInv, StreamInv
<1>2. ASSUME NEW m \in Nat, m * PacketSize <= Consumed PROVE m * PacketSize <= Consumed'
  <2> DEFINE y == m * PacketSize
  <2>1. y \in Nat /\ y <= Consumed
    BY <1>2, Sizes
  <2> HIDE DEF y
  <2>2. y <= Consumed'
    BY <1>1, <2>1
  <2>3. QED
    BY <2>2 DEF y
<1>3. 1 .. MaxSamples \subseteq Nat
  BY Sizes
<1>4. \A i \in DOMAIN sent : sent[i] * PacketSize <= Consumed'
  <2>1. sent \in Seq(1 .. MaxSamples) /\ \A i \in DOMAIN sent : sent[i] * PacketSize <= Consumed
    BY <1>1 DEF SentInv
  <2>2. ASSUME NEW i \in DOMAIN sent PROVE sent[i] \in Nat
    <3>1. i \in 1 .. Len(sent)
      BY <2>1
    <3>2. sent[i] \in 1 .. MaxSamples
      BY <2>1, <3>1, ElementOfSeq
    <3>3. QED
      BY <1>3, <3>2
  <2>3. QED
    BY <1>2, <2>1, <2>2
<1>5. phase' \in Tasking /\ dataReady' =>
        /\ lastData # <<>> /\ Head(lastData)[1] \in 1 .. MaxSamples
        /\ Head(lastData)[1] * PacketSize <= Consumed'
        /\ \A i \in DOMAIN sent : sent[i] < Head(lastData)[1]
  BY <1>1, <1>2, <1>3 DEF SentInv
<1>6. QED
  BY <1>1, <1>4, <1>5 DEF SentInv, SentOnce
-----------------------------------------------------------------------------
(***************************************************************************)
(* A sample and a restart, at any time.                                    *)
(***************************************************************************)
LEMMA SampleTaken == ASSUME IcmInv, sampleReady, ~fifoRst PROVE IcmInv'
<1> DEFINE packet == [i \in 1 .. PacketSize |-> <<produced + 1, i>>]
           n == Len(fifo)
           k == Len(fifoBuffer)
<1>1. /\ produced < MaxSamples /\ produced' = produced + 1
      /\ fifo' = fifo \o packet /\ dmpInt' = TRUE
      /\ drdyFlag' = (drdyFlag \/ isrAttached)
      /\ UNCHANGED <<bank, power, userCtrl, memBank, memAddr, sram, fifoRst>>
      /\ UNCHANGED <<phase, pc, done, lastBank, isrAttached, packetsLeft, fifoBuffer,
                     lastData, dataReady, sent, cut, skipped, stuck>>
  BY DEF sampleReady, dmpPush, memVars, fifoVars, startVars, readVars, history
<1>2. /\ IcmTypeOK /\ KnownInv /\ StartedDelivers /\ DmpHasFirmware /\ LoadInv
      /\ StreamInv /\ BurstInv /\ AnnouncedInv /\ SentInv /\ AlignedInv
  BY DEF IcmInv
<1>3. /\ produced \in 0 .. MaxSamples /\ produced \in Nat /\ produced' \in 0 .. MaxSamples
      /\ fifo \in Seq(Bytes) /\ n \in Nat /\ k \in Nat
      /\ PacketSize \in Nat \ {0} /\ MaxSamples \in Nat
  BY <1>1, <1>2, Sizes DEF IcmTypeOK, DeviceTypeOK
<1>4. SeqOf(Bytes, n, fifo) /\ SeqOf(Bytes, PacketSize, packet)
  <2>1. \A i \in 1 .. PacketSize : <<produced + 1, i>> \in Bytes
    BY <1>1, <1>3 DEF Bytes
  <2>2. QED
    BY <1>3, <2>1 DEF SeqOf
<1>5. SeqOf(Bytes, n + PacketSize, fifo') /\ Joins(fifo', n, fifo, PacketSize, packet)
  BY <1>1, <1>4, Joined
<1>6. packet = [i \in 1 .. PacketSize |-> <<produced + 1, i>>]
  OBVIOUS
<1> HIDE DEF packet, n, k
<1>7. Len(fifo') = n + PacketSize /\ fifo' \in Seq(Bytes)
  BY <1>5 DEF SeqOf
<1> DEFINE x == produced * PacketSize
<1>8. x \in Nat /\ x = Consumed + k + n /\ Consumed \in Nat
  BY <1>2, StreamLength DEF n, k, IcmInv
<1>9. produced' * PacketSize = x + PacketSize
  BY <1>1, <1>3
<1>10. Consumed' = Consumed
  <2>1. Consumed' = (x + PacketSize) - (n + PacketSize) - k
    BY <1>1, <1>7, <1>9 DEF Consumed, k
  <2> HIDE DEF x
  <2>2. QED
    BY <1>3, <1>8, <2>1
<1>11. IcmTypeOK'
  <2>1. Len(fifo') <= MaxSamples * PacketSize
    <3>1. (produced + 1) * PacketSize <= MaxSamples * PacketSize
      BY <1>1, <1>3
    <3>2. x + PacketSize <= Room /\ Room \in Nat
      BY <1>1, <1>9, <3>1, Sizes DEF Room
    <3> HIDE DEF x
    <3>3. n + PacketSize <= Room
      BY <1>3, <1>8, <3>2
    <3>4. QED
      BY <1>7, <3>3 DEF Room
  <2>2. DeviceTypeOK'
    BY <1>1, <1>2, <1>3, <1>7, <2>1 DEF IcmTypeOK, DeviceTypeOK
  <2>3. drdyFlag' \in BOOLEAN
    BY <1>1
  <2>4. QED
    BY <1>1, <1>2, <2>2, <2>3 DEF IcmTypeOK
<1>12. FirmwareLoaded' = FirmwareLoaded
  BY <1>1 DEF FirmwareLoaded
<1>13. KnownInv'
  <2>1. Starting' = Starting /\ operation' = operation
    BY <1>1 DEF Starting, operation
  <2>2. Holds(At[pc])' = Holds(At[pc])
    BY <1>1, <1>12 DEF Holds
  <2>3. QED
    BY <1>1, <1>2, <2>1, <2>2 DEF KnownInv
<1>14. StartedDelivers' /\ DmpHasFirmware' /\ LoadInv'
  BY <1>1, <1>2, <1>12 DEF StartedDelivers, dmpRuns, DmpHasFirmware, LoadInv, loadAddress
<1>15. StreamInv'
  <2>1. \A i \in 1 .. k : fifoBuffer[i] = ByteAt(Consumed + i - 1)
    BY <1>2 DEF StreamInv, k
  <2>2. ASSUME NEW i \in 1 .. n + PacketSize
        PROVE  fifo'[i] = ByteAt(Consumed + k + i - 1)
    <3>1. CASE i \in 1 .. n
      BY <1>2, <1>5, <3>1 DEF StreamInv, Joins, n, k
    <3>2. CASE i \notin 1 .. n
      <4>1. PICK j \in 1 .. PacketSize : i = n + j
        <5>1. i - n \in 1 .. PacketSize /\ i = n + (i - n)
          BY <1>3, <3>2
        <5>2. QED
          BY <5>1
      <4>2. fifo'[i] = <<produced + 1, j>>
        BY <1>5, <1>6, <4>1 DEF Joins
      <4>3. Consumed + k + i - 1 = x + j - 1
        <5> HIDE DEF x
        <5>1. QED
          BY <1>3, <1>8, <4>1
      <4>4. ByteAt(x + j - 1) = <<produced + 1, j>>
        BY <1>3, PacketBytes
      <4>5. QED
        BY <4>2, <4>3, <4>4
    <3>3. QED
      BY <3>1, <3>2
  <2>3. QED
    BY <1>1, <1>7, <1>8, <1>10, <2>1, <2>2 DEF StreamInv, k
<1>16. BurstInv'
  <2>1. phase = "burst" => Remaining <= n /\ Remaining \in Int
    BY <1>2, <1>3 DEF BurstInv, Remaining, n, k, IcmTypeOK
  <2>2. Remaining' = Remaining
    BY <1>1 DEF Remaining
  <2>3. phase = "burst" => Remaining <= n + PacketSize
    BY <1>3, <2>1
  <2>4. QED
    BY <1>1, <1>2, <1>7, <2>2, <2>3 DEF BurstInv
<1>17. AnnouncedInv'
  <2>1. Starting \/ Running => drdyFlag' /\ dmpInt'
    BY <1>1, <1>2 DEF KnownInv, StartedDelivers, Running
  <2>2. Starting' = Starting
    BY <1>1 DEF Starting
  <2>3. phase \in {"idle", "dmpIntStatus", "publish", "intStatus", "fifoResetEnd", "burst"} => Running
    BY DEF Running, Tasking
  <2>4. QED
    BY <1>1, <2>1, <2>2, <2>3 DEF AnnouncedInv, Announced
<1>18. SentInv'
  BY <1>1, <1>2, <1>10 DEF SentInv, SentOnce
<1>19. AlignedInv'
  BY <1>1, <1>2, <1>10 DEF AlignedInv, Fresh, Starting
<1>20. HeldInv'
  BY <1>1 DEF HeldInv
<1>21. QED
  BY <1>11, <1>13, <1>14, <1>15, <1>16, <1>17, <1>18, <1>19, <1>20 DEF IcmInv

\* A packet that is lost counts as consumed.
LEMMA SampleLost == ASSUME IcmInv, sampleReady, fifoRst PROVE IcmInv'
<1>1. /\ produced < MaxSamples /\ produced' = produced + 1
      /\ fifo' = <<>> /\ dmpInt' = TRUE
      /\ drdyFlag' = (drdyFlag \/ isrAttached)
      /\ UNCHANGED <<bank, power, userCtrl, memBank, memAddr, sram, fifoRst>>
      /\ UNCHANGED <<phase, pc, done, lastBank, isrAttached, packetsLeft, fifoBuffer,
                     lastData, dataReady, sent, cut, skipped, stuck>>
  BY DEF sampleReady, dmpPush, memVars, startVars, readVars, history
<1>2. /\ IcmTypeOK /\ KnownInv /\ StartedDelivers /\ DmpHasFirmware /\ HeldInv /\ LoadInv
      /\ StreamInv /\ BurstInv /\ AnnouncedInv /\ SentInv /\ AlignedInv
  BY DEF IcmInv
<1>3. fifo = <<>> /\ fifo' = fifo
  BY <1>1, <1>2 DEF HeldInv
<1>4. phase # "burst"
  <2>1. SUFFICES ASSUME phase = "burst" PROVE FALSE
    OBVIOUS
  <2>2. packetsLeft \in Nat \ {0} /\ Len(fifoBuffer) \in Nat /\ Len(fifo) = 0
    BY <1>2, <1>3, <2>1, Sizes DEF IcmTypeOK, BurstInv
  <2> DEFINE z == packetsLeft * PacketSize
  <2>3. z \in Nat /\ z >= PacketSize
    BY <2>2, Sizes
  <2>4. z - Len(fifoBuffer) <= 0 /\ Len(fifoBuffer) < PacketSize
    BY <1>2, <2>1, <2>2 DEF BurstInv, Remaining
  <2> HIDE DEF z
  <2>5. QED
    BY <2>2, <2>3, <2>4, Sizes
<1>5. fifoBuffer = <<>> /\ Len(fifoBuffer) = 0 /\ Len(fifo) = 0
  BY <1>2, <1>3, <1>4 DEF BurstInv
<1> DEFINE x == produced * PacketSize
<1>6. x \in Nat /\ x = Consumed + 0 + 0 /\ Consumed \in Nat
  BY <1>5, StreamLength
<1>7. produced' * PacketSize = x + PacketSize
  BY <1>1, <1>2, Sizes DEF IcmTypeOK, DeviceTypeOK
<1>8. Consumed' = (x + PacketSize) - 0 - 0
  BY <1>1, <1>3, <1>5, <1>7 DEF Consumed
<1>9. AlignedInv'
  BY <1>1, <1>2, <1>7, <1>8, Sizes DEF AlignedInv, IcmTypeOK, DeviceTypeOK
<1>10. Consumed \in Nat /\ Consumed' \in Nat /\ Consumed <= Consumed'
  <2> HIDE DEF x
  <2>1. QED
    BY <1>6, <1>8, Sizes
<1> HIDE DEF x
<1>11. IcmTypeOK'
  <2>1. DeviceTypeOK'
    BY <1>1, <1>2, <1>3, Sizes DEF IcmTypeOK, DeviceTypeOK
  <2>2. drdyFlag' \in BOOLEAN
    BY <1>1
  <2>3. QED
    BY <1>1, <1>2, <2>1, <2>2 DEF IcmTypeOK
<1>12. FirmwareLoaded' = FirmwareLoaded
  BY <1>1 DEF FirmwareLoaded
<1>13. KnownInv'
  <2>1. Starting' = Starting /\ operation' = operation
    BY <1>1 DEF Starting, operation
  <2>2. Holds(At[pc])' = Holds(At[pc])
    BY <1>1, <1>12 DEF Holds
  <2>3. QED
    BY <1>1, <1>2, <2>1, <2>2 DEF KnownInv
<1>14. StartedDelivers' /\ DmpHasFirmware' /\ LoadInv' /\ HeldInv'
  BY <1>1, <1>2, <1>12 DEF StartedDelivers, dmpRuns, DmpHasFirmware, LoadInv, loadAddress, HeldInv
<1>15. StreamInv' /\ BurstInv'
  BY <1>1, <1>3, <1>4, <1>5, <1>10 DEF StreamInv, BurstInv
<1>16. AnnouncedInv'
  <2>1. ~ (0 >= PacketSize) /\ Len(fifo') = 0
    BY <1>3, <1>5, Sizes
  <2>2. QED
    BY <1>1, <1>4, <2>1 DEF AnnouncedInv, Announced
<1>17. SentInv'
  BY <1>1, <1>2, <1>10, SentKept DEF SentInv
<1>18. QED
  BY <1>9, <1>11, <1>13, <1>14, <1>15, <1>16, <1>17 DEF IcmInv

LEMMA SampleReadyKeeps == ASSUME IcmInv, sampleReady PROVE IcmInv'
  BY SampleTaken, SampleLost

LEMMA RestartKeeps == ASSUME IcmInv, restart PROVE IcmInv'
<1> DEFINE n == Len(fifo)
           k == Len(fifoBuffer)
           x == produced * PacketSize
<1>1. /\ phase' = "off" /\ pc' = 1 /\ done' = 0 /\ lastBank' = NoBank
      /\ drdyFlag' = FALSE /\ isrAttached' = FALSE
      /\ packetsLeft' = 0 /\ fifoBuffer' = <<>> /\ lastData' = <<>> /\ dataReady' = FALSE
      /\ UNCHANGED <<bank, power, userCtrl, memBank, memAddr, sram, fifo, fifoRst, dmpInt, produced>>
      /\ UNCHANGED <<sent, cut, skipped, stuck>>
  BY DEF restart, device, memVars, fifoVars, history
<1>2. IcmTypeOK /\ DmpHasFirmware /\ StreamInv /\ SentInv
  BY DEF IcmInv
<1>3. x \in Nat /\ n \in Nat /\ k \in Nat /\ Consumed \in Nat /\ x = Consumed + k + n
  BY StreamLength
<1>4. Consumed' = x - n - 0
  BY <1>1 DEF Consumed
<1> HIDE DEF x
<1>5. Consumed' = Consumed + k /\ Consumed' \in Nat /\ Consumed <= Consumed'
  BY <1>3, <1>4
<1>6. IcmTypeOK'
  <2>1. DeviceTypeOK'
    BY <1>1, <1>2 DEF IcmTypeOK, DeviceTypeOK
  <2>2. 1 \in 1 .. Len(configDmpInit)
    BY <1>2, AtOperation DEF IcmTypeOK
  <2>3. 0 \in 0 .. ImageSize /\ NoBank \in 0 .. NoBank
    BY MemoryAssumption, Layout
  <2>4. 0 \in 0 .. ResetThreshold \div PacketSize
    BY Sizes
  <2>5. <<>> \in Seq(Bytes) /\ Len(<<>>) < PacketSize
    BY Sizes
  <2>6. QED
    BY <1>1, <1>2, <2>1, <2>2, <2>3, <2>4, <2>5 DEF IcmTypeOK
<1>7. (KnownInv /\ StartedDelivers /\ LoadInv /\ BurstInv /\ AnnouncedInv /\ AlignedInv)'
  BY <1>1 DEF KnownInv, StartedDelivers, LoadInv, BurstInv, AnnouncedInv, AlignedInv,
              Starting, Loading, Tasking, Fresh
<1>8. DmpHasFirmware'
  BY <1>1, <1>2 DEF DmpHasFirmware, FirmwareLoaded
<1>9. StreamInv'
  <2>1. \A i \in 1 .. n : fifo[i] = ByteAt(Consumed + k + i - 1)
    BY <1>2 DEF StreamInv
  <2>2. Consumed' = Consumed + k /\ Len(fifoBuffer') = 0
    BY <1>1, <1>5
  <2>3. \A i \in 1 .. n : Consumed' + 0 + i - 1 = Consumed + k + i - 1
    BY <1>3, <2>2
  <2>4. \A i \in 1 .. n : fifo[i] = ByteAt(Consumed' + 0 + i - 1)
    BY <2>1, <2>3
  <2>5. QED
    BY <1>1, <1>5, <2>2, <2>4 DEF StreamInv
<1>10. SentInv'
  <2>1. ASSUME NEW i \in DOMAIN sent PROVE sent[i] * PacketSize <= Consumed'
    <3>1. sent[i] \in Nat /\ sent[i] * PacketSize <= Consumed
      BY <1>2, Sizes DEF SentInv
    <3> DEFINE y == sent[i] * PacketSize
    <3>2. y \in Nat /\ y <= Consumed
      BY <3>1, Sizes
    <3> HIDE DEF y
    <3>3. y <= Consumed'
      BY <1>3, <1>5, <3>2
    <3>4. QED
      BY <3>3 DEF y
  <2>2. QED
    BY <1>1, <1>2, <2>1 DEF SentInv, SentOnce, Tasking
<1>11. HeldInv'
  BY <1>1 DEF IcmInv, HeldInv
<1>12. QED
  BY <1>6, <1>7, <1>8, <1>9, <1>10, <1>11 DEF IcmInv
-----------------------------------------------------------------------------
(***************************************************************************)
(* The actions of the task keep the invariant.                             *)
(***************************************************************************)
\* A FIFO that is held after a step of the task is being reset, or its reset
\* has stopped half way.
ResetKept ==
  /\ fifoRst \in BOOLEAN /\ stuck \in BOOLEAN
  /\ fifoRst => fifo = <<>> /\ (phase = "fifoResetEnd" \/ stuck)

LEMMA NoReset ==
  ASSUME IcmInv, Running, phase # "fifoResetEnd", UNCHANGED <<fifoRst, stuck>>,
         fifo' = fifo \/ phase = "burst"
  PROVE  ResetKept'
<1>1. IcmTypeOK /\ StartedDelivers /\ HeldInv /\ BurstInv
  BY DEF IcmInv
<1>2. fifoRst' \in BOOLEAN /\ stuck' \in BOOLEAN /\ (fifoRst => stuck)
  BY <1>1 DEF IcmTypeOK, DeviceTypeOK, StartedDelivers, Running
<1>3. phase = "burst" => fifo # <<>>
  <2>1. SUFFICES ASSUME phase = "burst", Len(fifo) = 0 PROVE FALSE
    OBVIOUS
  <2>2. /\ packetsLeft \in Nat \ {0} /\ Len(fifoBuffer) \in Nat
        /\ Len(fifoBuffer) < PacketSize /\ packetsLeft * PacketSize - Len(fifoBuffer) <= 0
    BY <1>1, <2>1, Sizes DEF IcmTypeOK, BurstInv, Remaining
  <2>3. packetsLeft * PacketSize >= PacketSize
    BY <2>2, Sizes
  <2> DEFINE z == packetsLeft * PacketSize
  <2>4. z \in Nat
    BY <2>2, Sizes
  <2> HIDE DEF z
  <2>5. z >= PacketSize /\ z - Len(fifoBuffer) <= 0
    BY <2>2, <2>3 DEF z
  <2>6. QED
    BY <2>2, <2>4, <2>5, Sizes
<1>4. fifoRst => fifo' = <<>>
  BY <1>1, <1>3 DEF HeldInv
<1>5. QED
  BY <1>2, <1>4 DEF ResetKept

\* The steps of the task leave alone what the start has set up.
LEMMA TaskStep ==
  ASSUME IcmInv, Running, Running',
         UNCHANGED <<bank, power, userCtrl, memBank, memAddr, sram, produced,
                     pc, done, lastBank, isrAttached>>,
         ResetKept', fifo' \in Seq(Bytes), Len(fifo') <= Len(fifo), dmpInt' \in BOOLEAN,
         drdyFlag' \in BOOLEAN, dataReady' \in BOOLEAN,
         packetsLeft' \in 0 .. ResetThreshold \div PacketSize,
         fifoBuffer' \in Seq(Bytes), Len(fifoBuffer') < PacketSize,
         lastData' = <<>> \/ lastData' \in [1 .. PacketSize -> Bytes],
         cut' \in BOOLEAN, skipped' \in BOOLEAN,
         (StreamInv /\ BurstInv /\ AnnouncedInv /\ SentInv /\ AlignedInv)'
  PROVE  IcmInv'
<1>1. IcmTypeOK /\ StartedDelivers /\ DmpHasFirmware
  BY DEF IcmInv
<1>2. IcmTypeOK'
  <2>1. Len(fifo') <= MaxSamples * PacketSize
    <3>1. Len(fifo) \in Nat /\ Len(fifo) <= Room /\ Len(fifo') \in Nat
      BY <1>1 DEF IcmTypeOK, DeviceTypeOK, Room
    <3>2. Len(fifo') <= Room
      BY <3>1, Sizes
    <3>3. QED
      BY <3>2 DEF Room
  <2>2. DeviceTypeOK' /\ stuck' \in BOOLEAN
    BY <1>1, <2>1 DEF IcmTypeOK, DeviceTypeOK, ResetKept
  <2>3. phase' \in {"off", "starting", "idle"} \union Loading \union Tasking
    BY DEF Running
  <2>4. QED
    BY <1>1, <2>2, <2>3 DEF IcmTypeOK
<1>3. /\ phase' \notin {"off", "starting"} \union Loading
      /\ phase \in {"idle"} \union Tasking
  BY DEF Running, Tasking, Loading
<1>4. KnownInv' /\ LoadInv'
  BY <1>3 DEF KnownInv, LoadInv, Starting
<1>5. StartedDelivers' /\ HeldInv'
  BY <1>1, <1>3 DEF StartedDelivers, dmpRuns, HeldInv, ResetKept
<1>6. DmpHasFirmware'
  BY <1>1 DEF DmpHasFirmware, FirmwareLoaded
<1>7. QED
  BY <1>2, <1>4, <1>5, <1>6 DEF IcmInv

\* A step that reads no packet.
LEMMA QuietTaskStep ==
  ASSUME IcmInv, Running, Running',
         UNCHANGED <<bank, power, userCtrl, memBank, memAddr, sram, fifo, produced,
                     pc, done, lastBank, isrAttached, fifoBuffer, lastData, sent, cut>>,
         ResetKept', dmpInt' \in BOOLEAN, drdyFlag' \in BOOLEAN, skipped' \in BOOLEAN,
         packetsLeft' \in 0 .. ResetThreshold \div PacketSize,
         (dataReady' = dataReady /\ phase \in Tasking) \/ dataReady' = FALSE,
         phase' = "publish" => dataReady',
         BurstInv', AnnouncedInv'
  PROVE  IcmInv'
<1>1. IcmTypeOK /\ StreamInv /\ SentInv /\ AlignedInv
  BY DEF IcmInv
<1>2. /\ fifo' \in Seq(Bytes) /\ Len(fifo') <= Len(fifo) /\ fifoBuffer' \in Seq(Bytes)
      /\ Len(fifoBuffer') < PacketSize /\ dataReady' \in BOOLEAN /\ cut' \in BOOLEAN
      /\ lastData' = <<>> \/ lastData' \in [1 .. PacketSize -> Bytes]
  <2>1. Len(fifo) \in Nat /\ Len(fifo') = Len(fifo)
    BY <1>1 DEF IcmTypeOK, DeviceTypeOK
  <2>2. /\ fifo \in Seq(Bytes) /\ fifoBuffer \in Seq(Bytes) /\ Len(fifoBuffer) < PacketSize
        /\ lastData = <<>> \/ lastData \in [1 .. PacketSize -> Bytes]
    BY <1>1 DEF IcmTypeOK, DeviceTypeOK
  <2>3. dataReady' \in BOOLEAN /\ cut' \in BOOLEAN
    BY <1>1 DEF IcmTypeOK
  <2>4. QED
    BY <2>1, <2>2, <2>3
<1>3. Consumed' = Consumed
  BY DEF Consumed
<1>4. StreamInv'
  BY <1>1, <1>3 DEF StreamInv
<1>5. SentInv'
  BY <1>1, <1>3 DEF SentInv, SentOnce
<1>6. AlignedInv'
  <2>1. Fresh
    BY DEF Fresh, Running
  <2>2. QED
    BY <1>1, <1>3, <2>1 DEF AlignedInv
<1>7. QED
  BY <1>2, <1>4, <1>5, <1>6, TaskStep

LEMMA TaskBeginKeeps == ASSUME IcmInv, taskBegin PROVE IcmInv'
<1>1. /\ phase = "idle" /\ drdyFlag /\ drdyFlag' = FALSE /\ dataReady' = FALSE
      /\ phase' = "intStatus"
      /\ UNCHANGED <<bank, power, userCtrl, memBank, memAddr, sram, fifo, fifoRst, dmpInt, produced>>
      /\ UNCHANGED <<pc, done, lastBank, isrAttached, packetsLeft, fifoBuffer, lastData,
                     sent, cut, skipped, stuck>>
  BY DEF taskBegin, device, memVars, fifoVars, startVars, history
<1>2. IcmTypeOK /\ BurstInv /\ AnnouncedInv
  BY DEF IcmInv
<1>3. Running /\ Running'
  BY <1>1 DEF Running, Tasking
<1>4. BurstInv'
  BY <1>1, <1>2 DEF BurstInv
<1>5. AnnouncedInv'
  BY <1>1, <1>2 DEF AnnouncedInv, Announced, Starting, Loading
<1>6. ResetKept'
  BY <1>1, <1>3, NoReset
<1>7. QED
  BY <1>1, <1>2, <1>3, <1>4, <1>5, <1>6, QuietTaskStep DEF IcmTypeOK, DeviceTypeOK

\* The task ends, with what is left announced or marked as left.
LEMMA Ends ==
  ASSUME IcmInv, Running, phase # "burst",
         UNCHANGED <<bank, power, userCtrl, memBank, memAddr, sram, fifo, produced,
                     pc, done, lastBank, isrAttached, fifoBuffer, lastData, sent, cut,
                     drdyFlag, dataReady>>,
         ResetKept', phase \in Tasking, checked, dmpInt' \in BOOLEAN, skipped' \in BOOLEAN,
         packetsLeft' \in 0 .. ResetThreshold \div PacketSize,
         ~skipped' => (Len(fifo) >= PacketSize => drdyFlag /\ dmpInt')
  PROVE  IcmInv'
<1>1. /\ IcmTypeOK /\ BurstInv
      /\ phase' = (IF dataReady' THEN "publish" ELSE "idle")
  BY DEF IcmInv, checked
<1>2. phase' \in {"publish", "idle"} /\ (phase' = "publish" => dataReady')
  BY <1>1
<1>3. Running'
  BY <1>2 DEF Running, Tasking
<1>4. BurstInv'
  BY <1>1, <1>2 DEF BurstInv
<1>5. AnnouncedInv'
  BY <1>2 DEF AnnouncedInv, Announced, Starting, Loading
<1>6. QED
  BY <1>1, <1>2, <1>3, <1>4, <1>5, QuietTaskStep DEF IcmTypeOK

LEMMA ReadIntStatusKeeps == ASSUME IcmInv, readIntStatus PROVE IcmInv'
<1>1. /\ phase = "intStatus"
      /\ \/ /\ takeReadIntStatus /\ UNCHANGED skipped
            /\ phase' = IF dmpInt THEN "intStatusSet" ELSE "dmpIntStatus"
         \/ (takeReadIntStatus \/ UNCHANGED device) /\ checked /\ skipped' = TRUE
      /\ UNCHANGED <<packetsLeft, fifoBuffer, lastData, dataReady, cut,
                     pc, done, lastBank, drdyFlag, isrAttached, sent, stuck>>
  BY DEF readIntStatus, endEarly, noParse, taskUnchanged, startVars
<1>2. IcmTypeOK /\ BurstInv /\ AnnouncedInv
  BY DEF IcmInv
<1>3. /\ dmpInt' \in {dmpInt, FALSE} /\ dmpInt' \in BOOLEAN
      /\ UNCHANGED <<bank, power, userCtrl, memBank, memAddr, sram, fifo, fifoRst, produced>>
  BY <1>1, <1>2 DEF takeReadIntStatus, device, memVars, fifoVars, IcmTypeOK, DeviceTypeOK
<1>4. Running /\ phase \in Tasking
  BY <1>1 DEF Running, Tasking
<1>5. packetsLeft' \in 0 .. ResetThreshold \div PacketSize /\ ResetKept'
  BY <1>1, <1>2, <1>3, <1>4, NoReset DEF IcmTypeOK
<1>6. CASE takeReadIntStatus /\ UNCHANGED skipped
           /\ phase' = IF dmpInt THEN "intStatusSet" ELSE "dmpIntStatus"
  <2>1. /\ phase' \in {"intStatusSet", "dmpIntStatus"}
        /\ phase' = "dmpIntStatus" => ~ dmpInt
    BY <1>6
  <2>2. Running'
    BY <2>1 DEF Running, Tasking
  <2>3. BurstInv'
    BY <1>1, <1>2, <2>1 DEF BurstInv
  <2>4. AnnouncedInv'
    BY <1>1, <1>2, <1>3, <1>6, <2>1 DEF AnnouncedInv, Announced, Starting, Loading
  <2>5. QED
    BY <1>1, <1>2, <1>3, <1>4, <1>5, <1>6, <2>1, <2>2, <2>3, <2>4, QuietTaskStep DEF IcmTypeOK
<1>7. CASE checked /\ skipped' = TRUE
  BY <1>1, <1>3, <1>4, <1>5, <1>7, Ends
<1>8. QED
  BY <1>1, <1>6, <1>7

LEMMA ReadDmpIntStatusKeeps == ASSUME IcmInv, readDmpIntStatus PROVE IcmInv'
<1>1. /\ phase \in {"intStatusSet", "dmpIntStatus"}
      /\ \/ phase = "intStatusSet" /\ phase' = "fifoCount" /\ UNCHANGED skipped
         \/ phase = "dmpIntStatus" /\ checked /\ UNCHANGED skipped
         \/ checked /\ skipped' = TRUE
      /\ UNCHANGED <<bank, power, userCtrl, memBank, memAddr, sram, fifo, fifoRst, dmpInt, produced>>
      /\ UNCHANGED <<packetsLeft, fifoBuffer, lastData, dataReady, cut,
                     pc, done, lastBank, drdyFlag, isrAttached, sent, stuck>>
  BY DEF readDmpIntStatus, endEarly, noParse, taskUnchanged, startVars, device, memVars, fifoVars
<1>2. IcmTypeOK /\ BurstInv /\ AnnouncedInv
  BY DEF IcmInv
<1>3. Running /\ phase \in Tasking /\ phase # "burst"
  BY <1>1 DEF Running, Tasking
<1>4. /\ packetsLeft' \in 0 .. ResetThreshold \div PacketSize /\ dmpInt' \in BOOLEAN
      /\ drdyFlag' \in BOOLEAN /\ skipped \in BOOLEAN /\ ResetKept'
  BY <1>1, <1>2, <1>3, NoReset DEF IcmTypeOK, DeviceTypeOK
<1>5. CASE phase = "intStatusSet" /\ phase' = "fifoCount" /\ UNCHANGED skipped
  <2>1. Running'
    BY <1>5 DEF Running, Tasking
  <2>2. BurstInv' /\ AnnouncedInv'
    BY <1>1, <1>2, <1>5 DEF BurstInv, AnnouncedInv, Starting, Loading
  <2>3. skipped' \in BOOLEAN /\ phase' # "publish"
    BY <1>4, <1>5
  <2>4. QED
    BY <1>1, <1>3, <1>4, <2>1, <2>2, <2>3, QuietTaskStep
<1>6. CASE phase = "dmpIntStatus" /\ checked /\ UNCHANGED skipped
  <2>1. ~skipped' => (Len(fifo) >= PacketSize => drdyFlag /\ dmpInt')
    BY <1>1, <1>2, <1>6 DEF AnnouncedInv, Announced
  <2>2. skipped' \in BOOLEAN
    BY <1>4, <1>6
  <2>3. QED
    BY <1>1, <1>3, <1>4, <1>6, <2>1, <2>2, Ends
<1>7. CASE checked /\ skipped' = TRUE
  BY <1>1, <1>3, <1>4, <1>7, Ends
<1>8. QED
  BY <1>1, <1>5, <1>6, <1>7

\* The packets of a count.
LEMMA Packets ==
  ASSUME NEW n \in Nat
  PROVE  /\ n \div PacketSize \in Nat
         /\ (n \div PacketSize) * PacketSize <= n
         /\ n < (n \div PacketSize) * PacketSize + PacketSize
         /\ n \div PacketSize = 0 => n < PacketSize
         /\ n <= ResetThreshold => n \div PacketSize <= ResetThreshold \div PacketSize
<1> DEFINE q == n \div PacketSize
           r == n % PacketSize
           d == ResetThreshold \div PacketSize
           e == ResetThreshold % PacketSize
<1>1. /\ PacketSize \in Nat \ {0} /\ ResetThreshold \in Nat
      /\ q \in Nat /\ r \in 0 .. PacketSize - 1 /\ n = PacketSize * q + r
      /\ d \in Nat /\ e \in 0 .. PacketSize - 1 /\ ResetThreshold = PacketSize * d + e
  BY Sizes, DivMod
<1> HIDE DEF q, r, d, e
<1> DEFINE x == PacketSize * q
           y == PacketSize * d
<1>2. x \in Nat /\ y \in Nat /\ n = x + r /\ ResetThreshold = y + e /\ q * PacketSize = x
  BY <1>1
<1>3. q = 0 => x = 0
  BY <1>1
<1>4. q > d => x >= y + PacketSize
  <2>1. SUFFICES ASSUME q > d PROVE x >= y + PacketSize
    OBVIOUS
  <2>2. PacketSize * q >= PacketSize * (d + 1)
    BY <1>1, <2>1
  <2>3. PacketSize * (d + 1) = y + PacketSize
    BY <1>1
  <2>4. QED
    BY <2>2, <2>3
<1> HIDE DEF x, y
<1>5. q * PacketSize <= n /\ n < q * PacketSize + PacketSize /\ (q = 0 => n < PacketSize)
  BY <1>1, <1>2, <1>3
<1>6. n <= ResetThreshold => q <= d
  BY <1>1, <1>2, <1>4
<1>7. QED
  BY <1>1, <1>5, <1>6 DEF q, d

LEMMA ReadFifoCountKeeps == ASSUME IcmInv, readFifoCount PROVE IcmInv'
<1>1. /\ phase = "fifoCount" /\ UNCHANGED <<fifoBuffer, lastData, dataReady>>
      /\ \/ /\ Len(fifo) > ResetThreshold
            /\ phase' = "fifoReset" /\ UNCHANGED <<packetsLeft, skipped>>
         \/ /\ Len(fifo) <= ResetThreshold
            /\ packetsLeft' = Len(fifo) \div PacketSize
            /\ IF packetsLeft' > 0 THEN phase' = "burst" /\ UNCHANGED skipped
               ELSE checked /\ skipped' = FALSE
         \/ checked /\ skipped' = TRUE /\ UNCHANGED packetsLeft
      /\ UNCHANGED <<bank, power, userCtrl, memBank, memAddr, sram, fifo, fifoRst, dmpInt, produced>>
      /\ UNCHANGED <<cut, pc, done, lastBank, drdyFlag, isrAttached, sent, stuck>>
  BY DEF readFifoCount, numPackets, finished, endEarly, taskUnchanged, startVars, device, memVars, fifoVars
<1>2. IcmTypeOK /\ BurstInv /\ AnnouncedInv
  BY DEF IcmInv
<1>3. Running /\ phase \in Tasking /\ phase # "burst"
  BY <1>1 DEF Running, Tasking
<1>4. /\ dmpInt' \in BOOLEAN /\ drdyFlag' \in BOOLEAN /\ skipped \in BOOLEAN
      /\ packetsLeft \in 0 .. ResetThreshold \div PacketSize
      /\ Len(fifo) \in Nat /\ fifoBuffer = <<>> /\ Len(fifoBuffer) = 0 /\ ResetKept'
  BY <1>1, <1>2, <1>3, NoReset DEF IcmTypeOK, DeviceTypeOK, BurstInv
<1>5. CASE Len(fifo) > ResetThreshold /\ phase' = "fifoReset" /\ UNCHANGED <<packetsLeft, skipped>>
  <2>1. Running'
    BY <1>5 DEF Running, Tasking
  <2>2. BurstInv' /\ AnnouncedInv'
    BY <1>1, <1>2, <1>5 DEF BurstInv, AnnouncedInv, Starting, Loading
  <2>3. /\ skipped' \in BOOLEAN /\ phase' # "publish"
        /\ packetsLeft' \in 0 .. ResetThreshold \div PacketSize
    BY <1>4, <1>5
  <2>4. QED
    BY <1>1, <1>3, <1>4, <2>1, <2>2, <2>3, QuietTaskStep
<1>6. CASE checked /\ skipped' = TRUE /\ UNCHANGED packetsLeft
  <2>1. packetsLeft' \in 0 .. ResetThreshold \div PacketSize
    BY <1>4, <1>6
  <2>2. QED
    BY <1>1, <1>3, <1>4, <1>6, <2>1, Ends
<1>7. CASE /\ Len(fifo) <= ResetThreshold
           /\ packetsLeft' = Len(fifo) \div PacketSize
           /\ IF packetsLeft' > 0 THEN phase' = "burst" /\ UNCHANGED skipped
              ELSE checked /\ skipped' = FALSE
  <2> DEFINE n == Len(fifo)
             q == n \div PacketSize
  <2>1. /\ q \in Nat /\ q * PacketSize <= n /\ n < q * PacketSize + PacketSize
        /\ q = 0 => n < PacketSize
        /\ q <= ResetThreshold \div PacketSize
    BY <1>4, <1>7, Packets
  <2>2. packetsLeft' = q
    BY <1>7
  <2> HIDE DEF q
  <2>3. packetsLeft' \in 0 .. ResetThreshold \div PacketSize
    BY <2>1, <2>2, Sizes
  <2>4. CASE q > 0
    <3>1. phase' = "burst" /\ skipped' = skipped
      BY <1>7, <2>2, <2>4
    <3>2. Running'
      BY <3>1 DEF Running, Tasking
    <3> DEFINE x == q * PacketSize
    <3>3. x \in Nat /\ x <= n /\ n < x + PacketSize /\ n \in Nat
      BY <1>4, <2>1, Sizes
    <3>4. Remaining' = x - 0
      BY <1>1, <1>4, <2>2 DEF Remaining
    <3> HIDE DEF x
    <3>5. Remaining' = x
      BY <3>3, <3>4
    <3>6. BurstInv'
      <4>1. 0 < PacketSize /\ 0 % 2 = 0
        BY Sizes
      <4>2. QED
        BY <1>1, <1>4, <2>2, <2>4, <3>1, <3>3, <3>5, <4>1 DEF BurstInv
    <3>7. AnnouncedInv'
      <4>1. ~ (Len(fifo') - Remaining' >= PacketSize)
        BY <1>1, <3>3, <3>5, Sizes
      <4>2. QED
        BY <3>1, <4>1 DEF AnnouncedInv, Starting, Loading
    <3>8. phase' # "publish" /\ skipped' \in BOOLEAN
      BY <1>4, <3>1
    <3>9. QED
      BY <1>1, <1>3, <1>4, <2>3, <3>2, <3>6, <3>7, <3>8, QuietTaskStep
  <2>5. CASE q = 0
    <3>1. checked /\ skipped' = FALSE /\ ~ (Len(fifo) >= PacketSize)
      BY <1>4, <1>7, <2>1, <2>2, <2>5, Sizes
    <3>2. QED
      BY <1>1, <1>3, <1>4, <2>3, <3>1, Ends
  <2>6. QED
    BY <2>1, <2>4, <2>5
<1>8. QED
  BY <1>1, <1>5, <1>6, <1>7

LEMMA FifoResetKeeps == ASSUME IcmInv, fifoReset PROVE IcmInv'
<1> DEFINE x == produced * PacketSize
<1>1. /\ phase = "fifoReset"
      /\ \/ /\ takeWrite("FIFO_RST", {"FIFO_RST0"})
            /\ phase' = "fifoResetEnd" /\ UNCHANGED <<skipped, stuck>>
         \/ /\ takeWrite("FIFO_RST", {"FIFO_RST0"}) \/ UNCHANGED device
            /\ checked /\ skipped' = TRUE /\ stuck' = TRUE
      /\ cut' = (cut /\ fifo' # <<>>)
      /\ UNCHANGED <<packetsLeft, fifoBuffer, lastData, dataReady,
                     pc, done, lastBank, drdyFlag, isrAttached, sent>>
  BY DEF fifoReset, noteFifo, endEarly, noParse, startVars
<1>2. IcmTypeOK /\ StartedDelivers /\ HeldInv /\ StreamInv /\ BurstInv /\ AlignedInv
  BY DEF IcmInv
<1>3. Running /\ phase \in Tasking
  BY <1>1 DEF Running, Tasking
<1>4. bank = 0 /\ "FIFO_RST" \in BankRegs[bank]
  BY <1>2, <1>3, RegsInBanks DEF StartedDelivers
<1>5. takeWrite("FIFO_RST", {"FIFO_RST0"}) =>
        /\ fifo' = <<>> /\ fifoRst' = TRUE
        /\ UNCHANGED <<bank, power, userCtrl, memBank, memAddr, sram, dmpInt, produced>>
  BY <1>4 DEF takeWrite, memVars, fifoVars
<1>6. /\ fifo' \in {fifo, <<>>}
      /\ UNCHANGED <<bank, power, userCtrl, memBank, memAddr, sram, dmpInt, produced>>
  BY <1>1, <1>5 DEF device, memVars, fifoVars
<1>7. /\ fifoBuffer = <<>> /\ Len(fifoBuffer) = 0 /\ Len(<<>>) = 0 /\ <<>> \in Seq(Bytes)
      /\ fifo \in Seq(Bytes) /\ Len(fifo) \in Nat
  BY <1>1, <1>2 DEF BurstInv, IcmTypeOK, DeviceTypeOK
<1>8. x \in Nat /\ Consumed \in Nat /\ x = Consumed + Len(fifoBuffer) + Len(fifo)
  BY StreamLength
<1>9. Consumed' = x - Len(fifo') - 0
  BY <1>1, <1>6, <1>7 DEF Consumed
<1> HIDE DEF x
<1>10. /\ Consumed' \in Nat /\ Consumed <= Consumed'
       /\ fifo' = <<>> => Consumed' = x
       /\ fifo' = fifo => Consumed' = Consumed
  BY <1>6, <1>7, <1>8, <1>9
<1>11. StreamInv'
  <2>1. Len(fifoBuffer') = 0
    BY <1>1, <1>7
  <2>2. CASE fifo' = <<>>
    <3>1. Len(fifo') = 0
      BY <1>7, <2>2
    <3>2. QED
      BY <1>10, <2>1, <3>1 DEF StreamInv
  <2>3. CASE fifo' = fifo
    <3>1. Consumed' = Consumed /\ fifoBuffer' = fifoBuffer
      BY <1>1, <1>10, <2>3
    <3>2. QED
      BY <1>2, <2>3, <3>1 DEF StreamInv
  <2>4. QED
    BY <1>6, <2>2, <2>3
<1>12. phase' \in {"fifoResetEnd", "publish", "idle"} /\ (phase' = "publish" => dataReady')
  BY <1>1 DEF checked
<1>13. Running'
  BY <1>12 DEF Running, Tasking
<1>14. BurstInv'
  BY <1>1, <1>7, <1>12 DEF BurstInv
<1>15. AnnouncedInv'
  <2>1. phase' = "fifoResetEnd" => fifo' = <<>>
    BY <1>1, <1>5 DEF checked
  <2>2. phase' # "fifoResetEnd" => skipped'
    BY <1>1
  <2>3. ~ (0 >= PacketSize)
    BY Sizes
  <2>4. QED
    BY <1>7, <1>12, <2>1, <2>2, <2>3 DEF AnnouncedInv, Announced, Starting, Loading
<1>16. SentInv'
  BY <1>1, <1>3, <1>10, <1>12, SentKept
<1>17. AlignedInv'
  <2>1. SUFFICES ASSUME ~cut' PROVE \E n \in Nat : Consumed' = n * PacketSize
    BY DEF AlignedInv
  <2>2. CASE fifo' = <<>>
    BY <1>2, <1>10, <2>2 DEF x, IcmTypeOK, DeviceTypeOK
  <2>3. CASE fifo' # <<>>
    <3>1. ~cut /\ fifo' = fifo /\ Fresh
      BY <1>1, <1>3, <1>6, <2>1, <2>3 DEF Fresh
    <3>2. QED
      BY <1>2, <1>10, <3>1 DEF AlignedInv
  <2>4. QED
    BY <2>2, <2>3
<1>18. Len(fifo') <= Len(fifo) /\ fifo' \in Seq(Bytes)
  <2>1. CASE fifo' = <<>>
    BY <1>7, <2>1
  <2>2. CASE fifo' = fifo
    BY <1>7, <2>2
  <2>3. QED
    BY <1>6, <2>1, <2>2
<1>19. cut' \in BOOLEAN /\ skipped' \in BOOLEAN
  BY <1>1, <1>2 DEF IcmTypeOK
<1>20. /\ dmpInt' \in BOOLEAN /\ drdyFlag' \in BOOLEAN /\ dataReady' \in BOOLEAN
       /\ packetsLeft' \in 0 .. ResetThreshold \div PacketSize
       /\ fifoBuffer' \in Seq(Bytes) /\ Len(fifoBuffer') < PacketSize
       /\ lastData' = <<>> \/ lastData' \in [1 .. PacketSize -> Bytes]
  BY <1>1, <1>2, <1>6 DEF IcmTypeOK, DeviceTypeOK
<1>21. ResetKept'
  <2>1. takeWrite("FIFO_RST", {"FIFO_RST0"}) =>
          fifoRst' \in BOOLEAN /\ (fifoRst' => fifo' = <<>>)
    BY <1>5
  <2>2. ASSUME UNCHANGED device PROVE fifoRst' \in BOOLEAN /\ (fifoRst' => fifo' = <<>>)
    BY <1>2, <2>2 DEF HeldInv, device, fifoVars, IcmTypeOK, DeviceTypeOK
  <2>3. fifoRst' \in BOOLEAN /\ (fifoRst' => fifo' = <<>>)
    BY <1>1, <2>1, <2>2
  <2>4. stuck' \in BOOLEAN /\ (phase' = "fifoResetEnd" \/ stuck')
    BY <1>1, <1>2 DEF IcmTypeOK
  <2>5. QED
    BY <2>3, <2>4 DEF ResetKept
<1>22. QED
  BY <1>1, <1>3, <1>6, <1>11, <1>13, <1>14, <1>15, <1>16, <1>17, <1>18, <1>19, <1>20, <1>21,
     TaskStep

LEMMA FifoResetEndKeeps == ASSUME IcmInv, fifoResetEnd PROVE IcmInv'
<1>1. /\ phase = "fifoResetEnd" /\ checked /\ skipped' \in BOOLEAN
      /\ \/ takeWrite("FIFO_RST", {}) /\ UNCHANGED stuck
         \/ (takeWrite("FIFO_RST", {}) \/ UNCHANGED device) /\ stuck' = TRUE
      /\ cut' = (cut /\ fifo' # <<>>)
      /\ UNCHANGED <<packetsLeft, fifoBuffer, lastData, dataReady,
                     pc, done, lastBank, drdyFlag, isrAttached, sent>>
  BY DEF fifoResetEnd, finished, endEarly, noParse, noteFifo, startVars
<1>2. IcmTypeOK /\ StartedDelivers /\ HeldInv /\ AnnouncedInv /\ StreamInv /\ BurstInv
  BY DEF IcmInv
<1>3. Running /\ phase \in Tasking
  BY <1>1 DEF Running, Tasking
<1>4. bank = 0 /\ "FIFO_RST" \in BankRegs[bank]
  BY <1>2, <1>3, RegsInBanks DEF StartedDelivers
\* The second write releases the FIFO, and leaves it empty.
<1>5. /\ UNCHANGED <<bank, power, userCtrl, memBank, memAddr, sram, fifo, dmpInt, produced>>
      /\ fifoRst' = FALSE \/ (fifoRst' = fifoRst /\ stuck' = TRUE)
  <2>1. CASE takeWrite("FIFO_RST", {})
    <3>1. "FIFO_RST" # "PWR_MGMT_1" /\ "FIFO_RST" # "USER_CTRL"
      OBVIOUS
    <3>2. /\ fifoRst' = ("FIFO_RST0" \in {}) /\ fifo' = IF fifoRst' THEN <<>> ELSE fifo
          /\ power' = power /\ userCtrl' = userCtrl
          /\ UNCHANGED <<bank, memVars, dmpInt, produced>>
      BY <1>4, <2>1, <3>1 DEF takeWrite
    <3>3. fifoRst' = FALSE
      <4>1. ("FIFO_RST0" \in {}) = FALSE
        OBVIOUS
      <4>2. QED
        BY <3>2, <4>1, Zenon
    <3>4. QED
      BY <3>2, <3>3 DEF memVars
  <2>2. CASE UNCHANGED device /\ stuck' = TRUE
    BY <2>2 DEF device, memVars, fifoVars
  <2>3. QED
    BY <1>1, <2>1, <2>2
<1>6. /\ fifoBuffer = <<>> /\ Len(fifoBuffer) = 0 /\ Consumed' = Consumed
      /\ fifo \in Seq(Bytes) /\ Len(fifo) \in Nat /\ Consumed \in Nat
  BY <1>1, <1>2, <1>5 DEF BurstInv, IcmTypeOK, DeviceTypeOK, Consumed, StreamInv
<1>7. phase' \in {"publish", "idle"} /\ (phase' = "publish" => dataReady')
  BY <1>1 DEF checked
<1>8. Running'
  BY <1>7 DEF Running, Tasking
<1>9. StreamInv' /\ BurstInv'
  BY <1>1, <1>2, <1>5, <1>6, <1>7 DEF StreamInv, BurstInv
<1>10. AnnouncedInv'
  BY <1>1, <1>2, <1>5, <1>7 DEF AnnouncedInv, Announced, Starting, Loading
<1>11. SentInv'
  BY <1>1, <1>3, <1>6, <1>7, SentKept
<1>12. AlignedInv'
  <2>1. SUFFICES ASSUME ~cut' PROVE \E n \in Nat : Consumed' = n * PacketSize
    BY DEF AlignedInv
  <2>2. CASE fifo = <<>>
    <3>1. produced * PacketSize \in Nat /\ produced * PacketSize = Consumed + 0 + 0
      BY <1>6, <2>2, StreamLength
    <3> DEFINE x == produced * PacketSize
    <3>2. x \in Nat /\ x = Consumed + 0 + 0
      BY <3>1
    <3> HIDE DEF x
    <3>3. Consumed' = x
      BY <1>6, <3>2
    <3>4. QED
      BY <1>2, <3>3 DEF x, IcmTypeOK, DeviceTypeOK
  <2>3. CASE fifo # <<>>
    <3>1. ~cut /\ Fresh
      BY <1>1, <1>3, <1>5, <2>1, <2>3 DEF Fresh
    <3>2. QED
      BY <1>6, <3>1 DEF IcmInv, AlignedInv
  <2>4. QED
    BY <2>2, <2>3
<1>13. ResetKept'
  <2>1. stuck' \in BOOLEAN
    BY <1>1, <1>2 DEF IcmTypeOK
  <2>2. CASE fifoRst' = FALSE
    BY <2>1, <2>2 DEF ResetKept
  <2>3. CASE fifoRst' = fifoRst /\ stuck' = TRUE
    BY <1>2, <1>5, <2>3 DEF ResetKept, HeldInv, IcmTypeOK, DeviceTypeOK
  <2>4. QED
    BY <1>5, <2>2, <2>3
<1>14. /\ dmpInt' \in BOOLEAN /\ drdyFlag' \in BOOLEAN /\ dataReady' \in BOOLEAN
       /\ packetsLeft' \in 0 .. ResetThreshold \div PacketSize
       /\ fifo' \in Seq(Bytes) /\ Len(fifo') <= Len(fifo)
       /\ fifoBuffer' \in Seq(Bytes) /\ Len(fifoBuffer') < PacketSize
       /\ lastData' = <<>> \/ lastData' \in [1 .. PacketSize -> Bytes]
       /\ cut' \in BOOLEAN
  BY <1>1, <1>2, <1>5, <1>6 DEF IcmTypeOK, DeviceTypeOK
<1>15. QED
  BY <1>1, <1>3, <1>5, <1>8, <1>9, <1>10, <1>11, <1>12, <1>13, <1>14, TaskStep

LEMMA PublishSampleKeeps == ASSUME IcmInv, publishSample PROVE IcmInv'
<1> DEFINE m == Head(lastData)[1]
<1>1. /\ phase = "publish" /\ phase' = "idle"
      /\ sent' = Append(sent, m) \/ UNCHANGED sent
      /\ UNCHANGED <<bank, power, userCtrl, memBank, memAddr, sram, fifo, fifoRst, dmpInt, produced>>
      /\ UNCHANGED <<packetsLeft, fifoBuffer, lastData, dataReady, cut, skipped, stuck,
                     pc, done, lastBank, drdyFlag, isrAttached>>
  BY DEF publishSample, device, memVars, fifoVars, startVars, readVars
<1>2. IcmTypeOK /\ StreamInv /\ BurstInv /\ AnnouncedInv /\ SentInv /\ AlignedInv
  BY DEF IcmInv
<1>3. Running /\ Running' /\ phase \in Tasking
  BY <1>1 DEF Running, Tasking
<1>4. Consumed' = Consumed
  BY <1>1 DEF Consumed
<1>5. StreamInv' /\ AlignedInv'
  BY <1>1, <1>2, <1>3, <1>4 DEF StreamInv, AlignedInv, Fresh, Running
<1>6. BurstInv' /\ AnnouncedInv'
  BY <1>1, <1>2 DEF BurstInv, AnnouncedInv, Announced, Starting, Loading
<1>7. SentInv'
  <2>1. /\ m \in 1 .. MaxSamples /\ m * PacketSize <= Consumed
        /\ \A i \in DOMAIN sent : sent[i] < m
    BY <1>1, <1>2, <1>3 DEF SentInv
  <2> DEFINE l == Len(sent)
  <2>2. sent \in Seq(1 .. MaxSamples) /\ DOMAIN sent = 1 .. l /\ l \in Nat
    BY <1>2 DEF SentInv
  <2> HIDE DEF m
  <2>3. \A i \in 1 .. l : sent[i] \in 1 .. MaxSamples /\ sent[i] * PacketSize <= Consumed
    <3>1. \A i \in DOMAIN sent : sent[i] * PacketSize <= Consumed
      BY <1>2 DEF SentInv
    <3>2. ASSUME NEW i \in DOMAIN sent PROVE sent[i] \in 1 .. MaxSamples
      BY <2>2, ElementOfSeq
    <3>3. QED
      BY <2>2, <3>1, <3>2
  <2>4. CASE UNCHANGED sent
    BY <1>1, <1>2, <1>4, <2>4 DEF SentInv, SentOnce, Tasking
  <2>5. CASE sent' = Append(sent, m)
    <3>1. /\ sent' \in Seq(1 .. MaxSamples) /\ DOMAIN sent' = 1 .. l + 1
          /\ sent'[l + 1] = m /\ \A i \in 1 .. l : sent'[i] = sent[i]
      BY <2>1, <2>2, <2>5
    <3> HIDE DEF l
    <3>2. \A i \in 1 .. l + 1 : sent'[i] * PacketSize <= Consumed'
      <4>1. ASSUME NEW i \in 1 .. l + 1 PROVE sent'[i] * PacketSize <= Consumed
        <5>1. i \in 1 .. l \/ i = l + 1
          BY <2>2
        <5>2. QED
          BY <2>1, <2>3, <3>1, <5>1
      <4>2. QED
        BY <1>4, <4>1
    <3>3. ASSUME NEW i \in 1 .. l + 1, NEW j \in 1 .. l + 1, i < j
          PROVE  sent'[i] < sent'[j]
      <4>1. i \in 1 .. l /\ (j \in 1 .. l \/ j = l + 1)
        BY <2>2, <3>3
      <4>2. CASE j \in 1 .. l
        BY <1>2, <2>2, <3>1, <3>3, <4>1, <4>2 DEF SentInv, SentOnce
      <4>3. CASE j = l + 1
        BY <2>1, <2>2, <3>1, <4>1, <4>3
      <4>4. QED
        BY <4>1, <4>2, <4>3
    <3>4. SentOnce'
      BY <3>1, <3>3 DEF SentOnce
    <3>5. QED
      BY <1>1, <3>1, <3>2, <3>4 DEF SentInv, Tasking
  <2>6. QED
    BY <1>1, <2>4, <2>5 DEF m
<1>8. /\ fifo' \in Seq(Bytes) /\ Len(fifo') <= Len(fifo) /\ dmpInt' \in BOOLEAN
      /\ drdyFlag' \in BOOLEAN /\ dataReady' \in BOOLEAN
      /\ packetsLeft' \in 0 .. ResetThreshold \div PacketSize
      /\ fifoBuffer' \in Seq(Bytes) /\ Len(fifoBuffer') < PacketSize
      /\ lastData' = <<>> \/ lastData' \in [1 .. PacketSize -> Bytes]
      /\ cut' \in BOOLEAN /\ skipped' \in BOOLEAN
  <2>1. Len(fifo) \in Nat
    BY <1>2 DEF IcmTypeOK, DeviceTypeOK
  <2>2. QED
    BY <1>1, <1>2, <2>1 DEF IcmTypeOK, DeviceTypeOK
<1>9. ResetKept'
  BY <1>1, <1>3, NoReset
<1>10. QED
  BY <1>1, <1>3, <1>5, <1>6, <1>7, <1>8, <1>9, TaskStep
\* In a burst there are two bytes to read, and they are the next ones.
RestBytes  == SubSeq(fifo, 3, Len(fifo))
NextBuffer == fifoBuffer \o twoBytes

NextFrame(n, k, rest, buf) ==
  /\ n = Len(fifo) /\ k = Len(fifoBuffer) /\ rest = RestBytes /\ buf = NextBuffer
  /\ n \in Nat /\ n >= 2 /\ k \in Nat /\ k + 2 <= PacketSize /\ k % 2 = 0
  /\ packetsLeft \in Nat \ {0} /\ packetsLeft * PacketSize \in Nat
  /\ packetsLeft * PacketSize - k <= n
  /\ (packetsLeft - 1) * PacketSize = packetsLeft * PacketSize - PacketSize
  /\ (packetsLeft - 1) * PacketSize \in Nat
  /\ rest \in Seq(Bytes) /\ Len(rest) = n - 2
  /\ \A i \in 1 .. n - 2 : rest[i] = ByteAt(Consumed + k + 2 + i - 1)
  /\ buf \in Seq(Bytes) /\ Len(buf) = k + 2
  /\ \A i \in 1 .. k + 2 : buf[i] = ByteAt(Consumed + i - 1)

LEMMA InBurst ==
  ASSUME IcmInv, phase = "burst"
  PROVE  \E n, k, rest, buf : NextFrame(n, k, rest, buf)
<1>burst. PICK n, k, rest, buf :
        n = Len(fifo) /\ k = Len(fifoBuffer) /\ rest = RestBytes /\ buf = NextBuffer
  OBVIOUS
<1>1. IcmTypeOK /\ StreamInv /\ BurstInv
  BY DEF IcmInv
<1>2. /\ fifo \in Seq(Bytes) /\ fifoBuffer \in Seq(Bytes) /\ n \in Nat /\ k \in Nat
      /\ packetsLeft \in Nat
  BY <1>1, <1>burst, Packets, Sizes DEF IcmTypeOK, DeviceTypeOK
<1>3. packetsLeft > 0 /\ Remaining <= n /\ k < PacketSize /\ k % 2 = 0
  BY <1>1, <1>burst DEF BurstInv
<1>4. PacketSize \in Nat /\ PacketSize % 2 = 0 /\ PacketSize >= 2
  BY Sizes
<1>5. k + 2 <= PacketSize
  <2>1. k + 1 # PacketSize
    <3>1. (k + 1) % 2 # 0
      <4>1. k \in Nat /\ k % 2 = 0
        BY <1>2, <1>3
      <4>2. QED
        BY <4>1
    <3>2. QED
      BY <1>4, <3>1
  <2>2. QED
    BY <1>2, <1>3, <1>4, <2>1
<1> DEFINE x == packetsLeft * PacketSize
           y == (packetsLeft - 1) * PacketSize
<1>6. x \in Nat /\ y = x - PacketSize /\ y \in Nat
  BY <1>2, <1>3, <1>4
<1>7. Remaining = x - k
  BY <1>burst DEF Remaining
<1> HIDE DEF x, y
<1>8. n >= 2 /\ x - k <= n
  BY <1>2, <1>3, <1>4, <1>5, <1>6, <1>7
<1>9. /\ rest \in Seq(Bytes) /\ Len(rest) = n - 2
      /\ \A i \in 1 .. n - 2 : rest[i] = fifo[i + 2]
      /\ SeqOf(Bytes, 2, twoBytes) /\ twoBytes[1] = fifo[1] /\ twoBytes[2] = fifo[2]
  BY <1>2, <1>8, <1>burst, TwoOff DEF twoBytes, RestBytes
<1>10. \A i \in 1 .. n : fifo[i] = ByteAt(Consumed + k + i - 1)
  BY <1>1, <1>burst DEF StreamInv
<1>11. \A i \in 1 .. k : fifoBuffer[i] = ByteAt(Consumed + i - 1)
  BY <1>1, <1>burst DEF StreamInv
<1>12. Consumed \in Nat
  BY <1>1 DEF StreamInv
<1>13. ASSUME NEW i \in 1 .. n - 2 PROVE rest[i] = ByteAt(Consumed + k + 2 + i - 1)
  <2>1. i + 2 \in 1 .. n /\ Consumed + k + (i + 2) - 1 = Consumed + k + 2 + i - 1
    BY <1>2, <1>12
  <2>2. QED
    BY <1>9, <1>10, <2>1
<1>14. SeqOf(Bytes, k, fifoBuffer)
  BY <1>2, <1>burst DEF SeqOf
<1>15. SeqOf(Bytes, k + 2, buf) /\ Joins(buf, k, fifoBuffer, 2, twoBytes)
  BY <1>2, <1>9, <1>14, <1>burst, Joined DEF NextBuffer
<1>16. ASSUME NEW i \in 1 .. k + 2 PROVE buf[i] = ByteAt(Consumed + i - 1)
  <2>1. CASE i \in 1 .. k
    BY <1>11, <1>15, <2>1 DEF Joins
  <2>2. CASE i \notin 1 .. k
    <3>1. PICK j \in 1 .. 2 : i = k + j
      <4>1. i - k \in 1 .. 2 /\ i = k + (i - k)
        BY <1>2, <2>2
      <4>2. QED
        BY <4>1
    <3>2. buf[i] = twoBytes[j]
      BY <1>15, <3>1 DEF Joins
    <3>3. twoBytes[j] = fifo[j] /\ j \in 1 .. n
      <4>1. j = 1 \/ j = 2
        OBVIOUS
      <4>2. QED
        BY <1>2, <1>8, <1>9, <4>1
    <3>4. Consumed + k + j - 1 = Consumed + i - 1
      BY <1>2, <1>12, <3>1
    <3>5. QED
      BY <1>10, <3>2, <3>3, <3>4
  <2>3. QED
    BY <2>1, <2>2
<1>17. packetsLeft \in Nat \ {0}
  BY <1>2, <1>3
<1>18. buf \in Seq(Bytes) /\ Len(buf) = k + 2
  BY <1>15 DEF SeqOf
<1>19. /\ packetsLeft * PacketSize = x /\ (packetsLeft - 1) * PacketSize = y
       /\ k % 2 = 0 /\ k \in Nat /\ n \in Nat
  BY <1>2, <1>3 DEF x, y
<1>20. NextFrame(n, k, rest, buf)
  BY <1>burst, <1>5, <1>6, <1>8, <1>9, <1>13, <1>16, <1>17, <1>18, <1>19 DEF NextFrame
<1>21. QED
  BY <1>20

LEMMA BurstFrameKeeps == ASSUME IcmInv, burstFrame PROVE IcmInv'
<1>0. phase = "burst"
  BY DEF burstFrame
<1>burst. PICK n, k, rest, buf : NextFrame(n, k, rest, buf)
  BY <1>0, InBurst
<1>1. n = Len(fifo) /\ k = Len(fifoBuffer) /\ rest = RestBytes /\ buf = NextBuffer
  BY <1>burst DEF NextFrame
<1>2. /\ phase = "burst" /\ fifo' = rest
      /\ IF Len(buf) = PacketSize
         THEN /\ lastData' = buf /\ dataReady' = TRUE
              /\ fifoBuffer' = <<>> /\ packetsLeft' = packetsLeft - 1
              /\ IF packetsLeft' > 0 THEN UNCHANGED <<phase, skipped>>
                 ELSE checked /\ skipped' = FALSE
         ELSE /\ fifoBuffer' = buf
              /\ UNCHANGED <<phase, skipped, packetsLeft, lastData, dataReady>>
      /\ cut' = (cut /\ fifo' # <<>>)
      /\ UNCHANGED <<bank, power, userCtrl, memBank, memAddr, sram, fifoRst, dmpInt, produced>>
      /\ UNCHANGED <<pc, done, lastBank, drdyFlag, isrAttached, sent, stuck>>
  BY <1>1 DEF burstFrame, RestBytes, NextBuffer, takeReadFifo, memVars, fifoVars,
              burstOver, finished, noteFifo, taskUnchanged, startVars
<1>3. /\ n \in Nat /\ n >= 2 /\ k \in Nat /\ k + 2 <= PacketSize
      /\ rest \in Seq(Bytes) /\ Len(rest) = n - 2
      /\ buf \in Seq(Bytes) /\ Len(buf) = k + 2
  BY <1>burst DEF NextFrame
<1>left. /\ packetsLeft \in Nat \ {0} /\ packetsLeft * PacketSize \in Nat
         /\ packetsLeft * PacketSize - k <= n
         /\ (packetsLeft - 1) * PacketSize = packetsLeft * PacketSize - PacketSize
         /\ (packetsLeft - 1) * PacketSize \in Nat
  BY <1>burst DEF NextFrame
<1>even. k % 2 = 0
  BY <1>burst DEF NextFrame
<1>bytes. /\ \A i \in 1 .. n - 2 : rest[i] = ByteAt(Consumed + k + 2 + i - 1)
          /\ \A i \in 1 .. k + 2 : buf[i] = ByteAt(Consumed + i - 1)
  BY <1>burst DEF NextFrame
<1>4. IcmTypeOK /\ StreamInv /\ BurstInv /\ AnnouncedInv /\ SentInv /\ AlignedInv
  BY DEF IcmInv
<1>5. PacketSize \in Nat \ {0} /\ PacketSize >= 2 /\ MaxSamples \in Nat
  BY Sizes
<1> DEFINE x == produced * PacketSize
           z == packetsLeft * PacketSize
           y == (packetsLeft - 1) * PacketSize
<1>6. x \in Nat /\ Consumed \in Nat /\ x = Consumed + k + n
  BY <1>1, StreamLength
<1>7. Remaining = z - k /\ z \in Nat /\ y \in Nat /\ y = z - PacketSize
  BY <1>1, <1>left DEF Remaining
<1>8. Consumed' = x - (n - 2) - Len(fifoBuffer')
  BY <1>2, <1>3 DEF Consumed
<1>9. Running /\ Fresh /\ phase \in Tasking
  BY <1>2 DEF Running, Tasking, Fresh
<1>kept. ResetKept'
  BY <1>2, <1>9, NoReset
<1>10. /\ n - 2 >= PacketSize + (z - k - 2) => drdyFlag /\ dmpInt
       /\ n - 2 <= n /\ Len(fifo') <= Len(fifo)
  <2>1. n - (z - k) >= PacketSize => drdyFlag /\ dmpInt
    BY <1>1, <1>2, <1>4, <1>7 DEF AnnouncedInv
  <2> HIDE DEF z
  <2>2. n - 2 >= PacketSize + (z - k - 2) => n - (z - k) >= PacketSize
    BY <1>3, <1>5, <1>7
  <2>3. QED
    BY <1>1, <1>2, <1>3, <2>1, <2>2
<1>11. /\ cut' \in BOOLEAN /\ dmpInt' \in BOOLEAN /\ drdyFlag' \in BOOLEAN
       /\ skipped \in BOOLEAN /\ dataReady \in BOOLEAN
       /\ packetsLeft \in 0 .. ResetThreshold \div PacketSize
       /\ ResetThreshold \div PacketSize \in Nat
       /\ produced \in 0 .. MaxSamples
  BY <1>2, <1>4, <1>5, Sizes, Packets DEF IcmTypeOK, DeviceTypeOK
<1> HIDE DEF x, y, z
\* Not the last frame of the packet.
<1>12. CASE Len(buf) # PacketSize
  <2>1. /\ fifoBuffer' = buf /\ k + 2 < PacketSize
        /\ UNCHANGED <<phase, skipped, packetsLeft, lastData, dataReady>>
    BY <1>2, <1>3, <1>5, <1>12
  <2>2. Consumed' = Consumed
    BY <1>3, <1>6, <1>8, <2>1
  <2>3. StreamInv'
    <3>1. \A i \in 1 .. k + 2 : fifoBuffer'[i] = ByteAt(Consumed' + i - 1)
      BY <1>bytes, <2>1, <2>2
    <3>2. \A i \in 1 .. n - 2 : Consumed' + (k + 2) + i - 1 = Consumed + k + 2 + i - 1
      BY <1>3, <1>6, <2>2
    <3>3. \A i \in 1 .. n - 2 : fifo'[i] = ByteAt(Consumed' + (k + 2) + i - 1)
      BY <1>2, <1>bytes, <3>2
    <3>4. Len(fifoBuffer') = k + 2 /\ Len(fifo') = n - 2 /\ Consumed' \in Nat
      BY <1>2, <1>3, <1>6, <2>1, <2>2
    <3>5. QED
      BY <3>1, <3>3, <3>4 DEF StreamInv
  <2>4. Remaining' = z - k - 2
    <3>1. Remaining' = z - (k + 2)
      BY <1>3, <2>1 DEF Remaining, z
    <3>2. QED
      BY <1>3, <1>7, <3>1
  <2>5. n - 2 >= z - k - 2 /\ z - k - 2 > 0
    <3>1. z >= PacketSize
      BY <1>5, <1>7
    <3>2. z - k <= n
      BY <1>left DEF z
    <3>3. QED
      BY <1>3, <1>5, <1>7, <2>1, <3>1, <3>2
  <2>6. BurstInv'
    <3>1. (k + 2) % 2 = 0
      BY <1>3, <1>even
    <3>2. QED
      BY <1>2, <1>3, <1>left, <2>1, <2>4, <2>5, <3>1 DEF BurstInv
  <2>7. AnnouncedInv'
    <3>1. (n - 2) - (z - k - 2) >= PacketSize => n - 2 >= PacketSize + (z - k - 2)
      BY <1>3, <1>5, <1>7
    <3>2. Len(fifo') - Remaining' >= PacketSize => drdyFlag' /\ dmpInt'
      BY <1>2, <1>3, <1>10, <2>4, <3>1
    <3>3. QED
      BY <1>2, <2>1, <3>2 DEF AnnouncedInv, Starting, Loading
  <2>8. SentInv'
    BY <1>2, <1>4, <2>1, <2>2 DEF SentInv, SentOnce
  <2>9. AlignedInv'
    <3>1. fifo' # <<>>
      BY <1>2, <1>3, <2>5, <1>7
    <3>2. QED
      BY <1>2, <1>4, <1>9, <2>2, <3>1 DEF AlignedInv
  <2>10. Running'
    BY <1>2, <2>1 DEF Running, Tasking
  <2>11. /\ fifo' \in Seq(Bytes) /\ fifoBuffer' \in Seq(Bytes) /\ Len(fifoBuffer') < PacketSize
         /\ lastData' = <<>> \/ lastData' \in [1 .. PacketSize -> Bytes]
         /\ dataReady' \in BOOLEAN /\ skipped' \in BOOLEAN
         /\ packetsLeft' \in 0 .. ResetThreshold \div PacketSize
    BY <1>2, <1>3, <1>4, <1>11, <2>1 DEF IcmTypeOK
  <2>12. QED
    BY <1>2, <1>9, <1>kept, <1>10, <1>11, <2>3, <2>6, <2>7, <2>8, <2>9, <2>10, <2>11, TaskStep
\* The last one: the packet is parsed.
<1>13. CASE Len(buf) = PacketSize
  <2>1. /\ lastData' = buf /\ dataReady' = TRUE /\ k + 2 = PacketSize
        /\ fifoBuffer' = <<>> /\ packetsLeft' = packetsLeft - 1 /\ Len(fifoBuffer') = 0
        /\ IF packetsLeft' > 0 THEN UNCHANGED <<phase, skipped>>
           ELSE checked /\ skipped' = FALSE
    BY <1>2, <1>3, <1>13
  <2>2. Consumed' = Consumed + PacketSize /\ Consumed' = Consumed + k + 2
    BY <1>3, <1>5, <1>6, <1>8, <2>1
  <2>3. StreamInv'
    <3>1. \A i \in 1 .. n - 2 : Consumed' + 0 + i - 1 = Consumed + k + 2 + i - 1
      BY <1>3, <1>6, <2>2
    <3>2. \A i \in 1 .. n - 2 : rest[i] = ByteAt(Consumed' + 0 + i - 1)
      BY <1>3, <1>bytes, <3>1
    <3>3. Consumed' \in Nat
      BY <1>5, <1>6, <2>2
    <3>4. QED
      BY <1>2, <1>3, <2>1, <3>2, <3>3 DEF StreamInv
  <2>4. /\ packetsLeft' > 0 => phase' = "burst" /\ skipped' = skipped
        /\ ~ (packetsLeft' > 0) => phase' = "publish" /\ packetsLeft' = 0
        /\ skipped' \in BOOLEAN
    <3>1. packetsLeft' > 0 => phase' = "burst" /\ skipped' = skipped
      BY <1>0, <2>1
    <3>2. ~ (packetsLeft' > 0) => phase' = "publish" /\ skipped' = FALSE
      BY <2>1 DEF checked
    <3>3. ~ (packetsLeft' > 0) => packetsLeft' = 0
      BY <1>left, <2>1
    <3>4. skipped' \in BOOLEAN
      BY <1>11, <3>1, <3>2
    <3>5. QED
      BY <3>1, <3>2, <3>3, <3>4
  <2>5. Remaining' = y /\ y <= n - 2 /\ y = z - k - 2
    <3>1. Remaining' = y - 0
      BY <2>1 DEF Remaining, y
    <3>2. z - k <= n
      BY <1>left DEF z
    <3>3. QED
      BY <1>3, <1>5, <1>7, <2>1, <3>1, <3>2
  <2>6. BurstInv'
    <3>1. 0 % 2 = 0
      OBVIOUS
    <3>2. QED
      BY <1>2, <1>3, <1>5, <2>1, <2>4, <2>5, <3>1 DEF BurstInv
  <2>7. AnnouncedInv'
    <3>1. n - 2 - y >= PacketSize => drdyFlag' /\ dmpInt'
      <4>1. n - 2 - y >= PacketSize => n - 2 >= PacketSize + (z - k - 2)
        BY <1>3, <1>5, <1>7, <2>5
      <4>2. QED
        BY <1>2, <1>10, <4>1
    <3>2. packetsLeft' = 0 => y = 0
      BY <1>3, <1>5, <2>1 DEF y
    <3>3. phase' = "burst" => (Len(fifo') - Remaining' >= PacketSize => drdyFlag' /\ dmpInt')
      BY <1>2, <1>3, <2>5, <3>1
    <3>4. phase' = "publish" => (Len(fifo') >= PacketSize => drdyFlag' /\ dmpInt')
      <4>1. phase' = "publish" => n - 2 - y = n - 2
        BY <1>3, <2>4, <3>2
      <4>2. QED
        BY <1>2, <1>3, <3>1, <4>1
    <3>5. phase' \in {"burst", "publish"}
      BY <2>4
    <3>6. QED
      BY <3>3, <3>4, <3>5 DEF AnnouncedInv, Announced, Starting, Loading
  <2>8. SentInv'
    <3> DEFINE m == ByteAt(Consumed)[1]
    <3>1. Head(lastData') = ByteAt(Consumed) /\ lastData' # <<>>
      <4>1. 1 \in 1 .. k + 2 /\ Consumed + 1 - 1 = Consumed /\ buf # <<>>
        BY <1>3, <1>6
      <4>2. Head(buf) = buf[1] /\ buf[1] = ByteAt(Consumed + 1 - 1)
        BY <1>3, <1>bytes, <4>1
      <4>3. QED
        BY <2>1, <4>1, <4>2
    <3>2. /\ m \in Nat \ {0} /\ m * PacketSize <= Consumed + PacketSize
          /\ \A j \in Nat : j * PacketSize <= Consumed => j < m
          /\ \A j \in Nat : Consumed < j * PacketSize => m <= j
      BY <1>6, PacketOfByte
    <3> HIDE DEF m
    <3>3. m <= MaxSamples
      <4>1. Consumed < x
        BY <1>3, <1>6
      <4>2. produced \in Nat /\ produced <= MaxSamples
        BY <1>11, <1>5
      <4>3. m <= produced
        BY <3>2, <4>1, <4>2 DEF x
      <4>4. QED
        BY <1>5, <3>2, <4>2, <4>3
    <3>4. sent \in Seq(1 .. MaxSamples) /\ SentOnce
      BY <1>4 DEF SentInv
    <3>5. ASSUME NEW i \in DOMAIN sent
          PROVE  sent[i] < m /\ sent[i] * PacketSize <= Consumed'
      <4>1. sent[i] \in Nat /\ sent[i] * PacketSize <= Consumed
        BY <1>4, <1>5, <3>4 DEF SentInv
      <4> DEFINE w == sent[i] * PacketSize
      <4>2. w \in Nat /\ w <= Consumed
        BY <1>5, <4>1
      <4> HIDE DEF w
      <4>3. w <= Consumed'
        BY <1>5, <1>6, <2>2, <4>2
      <4>4. QED
        BY <3>2, <4>1, <4>3 DEF w
    <3>6. m * PacketSize <= Consumed'
      BY <2>2, <3>2
    <3>7. m \in 1 .. MaxSamples
      BY <1>5, <3>2, <3>3
    <3>8. QED
      BY <1>2, <2>1, <3>1, <3>4, <3>5, <3>6, <3>7 DEF SentInv, SentOnce, m
  <2>9. AlignedInv'
    <3>1. SUFFICES ASSUME ~cut' PROVE \E j \in Nat : Consumed' = j * PacketSize
      BY DEF AlignedInv
    <3>2. CASE fifo' = <<>>
      <4>1. n - 2 = 0
        BY <1>2, <1>3, <3>2
      <4>2. Consumed' = x
        BY <1>3, <1>6, <2>2, <4>1
      <4>3. QED
        BY <1>5, <1>11, <4>2 DEF x
    <3>3. CASE fifo' # <<>>
      <4>1. PICK j \in Nat : Consumed = j * PacketSize
        BY <1>2, <1>4, <1>9, <3>1, <3>3 DEF AlignedInv
      <4>2. (j + 1) * PacketSize = j * PacketSize + PacketSize
        BY <1>5
      <4>3. Consumed' = (j + 1) * PacketSize /\ j + 1 \in Nat
        BY <2>2, <4>1, <4>2
      <4>4. QED
        BY <4>3
    <3>4. QED
      BY <3>2, <3>3
  <2>10. Running'
    BY <2>4 DEF Running, Tasking
  <2>11. /\ fifo' \in Seq(Bytes) /\ fifoBuffer' \in Seq(Bytes) /\ Len(fifoBuffer') < PacketSize
         /\ lastData' \in [1 .. PacketSize -> Bytes]
         /\ dataReady' \in BOOLEAN
         /\ packetsLeft' \in 0 .. ResetThreshold \div PacketSize
    <3>1. buf \in [1 .. PacketSize -> Bytes]
      BY <1>3, <1>13
    <3>2. QED
      BY <1>2, <1>3, <1>left, <1>5, <1>11, <2>1, <3>1
  <2>12. QED
    BY <1>2, <1>9, <1>kept, <1>10, <1>11, <2>3, <2>4, <2>6, <2>7, <2>8, <2>9, <2>10, <2>11, TaskStep
<1>14. QED
  BY <1>12, <1>13

LEMMA BurstFailsKeeps == ASSUME IcmInv, burstFails PROVE IcmInv'
<1>0. phase = "burst"
  BY DEF burstFails
<1>burst. PICK n, k, rest, buf : NextFrame(n, k, rest, buf)
  BY <1>0, InBurst
<1>1. n = Len(fifo) /\ k = Len(fifoBuffer) /\ rest = RestBytes /\ buf = NextBuffer
  BY <1>burst DEF NextFrame
<1>2. /\ phase = "burst" /\ fifo' \in {fifo, rest}
      /\ cut' = ((cut \/ fifo' # fifo \/ fifoBuffer # <<>>) /\ fifo' # <<>>)
      /\ fifoBuffer' = <<>> /\ packetsLeft' = 0 /\ checked /\ skipped' = TRUE
      /\ UNCHANGED <<bank, power, userCtrl, memBank, memAddr, sram, fifoRst, dmpInt, produced>>
      /\ UNCHANGED <<pc, done, lastBank, drdyFlag, isrAttached, sent, stuck, lastData, dataReady>>
  BY <1>1 DEF burstFails, RestBytes, takeReadFifo, device, memVars, fifoVars, endEarly, taskUnchanged, startVars
<1>3. n \in Nat /\ n >= 2 /\ k \in Nat /\ rest \in Seq(Bytes) /\ Len(rest) = n - 2
  BY <1>burst DEF NextFrame
<1>bytes. \A i \in 1 .. n - 2 : rest[i] = ByteAt(Consumed + k + 2 + i - 1)
  BY <1>burst DEF NextFrame
<1>4. IcmTypeOK /\ StreamInv /\ AlignedInv /\ fifo \in Seq(Bytes)
  BY DEF IcmInv, IcmTypeOK, DeviceTypeOK
<1> DEFINE x == produced * PacketSize
<1>5. x \in Nat /\ Consumed \in Nat /\ x = Consumed + k + n /\ Len(<<>>) = 0
  BY <1>1, StreamLength
<1>6. Consumed' = x - Len(fifo') - 0
  BY <1>2, <1>5 DEF Consumed
<1>7. Running /\ Fresh /\ phase \in Tasking
  BY <1>2 DEF Running, Tasking, Fresh
<1> HIDE DEF x
<1>8. /\ fifo' \in Seq(Bytes) /\ Len(fifo') <= Len(fifo)
      /\ fifo' = fifo => Consumed' = Consumed + k
      /\ fifo' = rest => Consumed' = Consumed + k + 2
      /\ fifo' = <<>> => Consumed' = x
  BY <1>1, <1>2, <1>3, <1>4, <1>5, <1>6
<1>9. Consumed' \in Nat /\ Consumed <= Consumed'
  BY <1>2, <1>3, <1>5, <1>8
<1>10. StreamInv'
  <2>1. CASE fifo' = fifo
    <3>1. \A i \in 1 .. n : fifo[i] = ByteAt(Consumed + k + i - 1)
      BY <1>1, <1>4 DEF StreamInv
    <3>2. \A i \in 1 .. n : Consumed' + 0 + i - 1 = Consumed + k + i - 1
      BY <1>3, <1>5, <1>8, <2>1
    <3>3. \A i \in 1 .. n : fifo'[i] = ByteAt(Consumed' + 0 + i - 1)
      BY <2>1, <3>1, <3>2
    <3>4. QED
      BY <1>1, <1>2, <1>5, <1>9, <2>1, <3>3 DEF StreamInv
  <2>2. CASE fifo' = rest
    <3>1. \A i \in 1 .. n - 2 : Consumed' + 0 + i - 1 = Consumed + k + 2 + i - 1
      BY <1>3, <1>5, <1>8, <2>2
    <3>2. \A i \in 1 .. n - 2 : fifo'[i] = ByteAt(Consumed' + 0 + i - 1)
      BY <1>3, <1>bytes, <2>2, <3>1
    <3>3. QED
      BY <1>2, <1>3, <1>5, <1>9, <2>2, <3>2 DEF StreamInv
  <2>3. QED
    BY <1>2, <2>1, <2>2
<1>11. phase' \in {"publish", "idle"} /\ (phase' = "publish" => dataReady')
  BY <1>2 DEF checked
<1>12. BurstInv' /\ AnnouncedInv'
  BY <1>2, <1>11 DEF BurstInv, AnnouncedInv, Starting, Loading
<1>13. SentInv'
  BY <1>2, <1>7, <1>9, <1>11, SentKept
<1>14. AlignedInv'
  <2>1. SUFFICES ASSUME ~cut' PROVE \E j \in Nat : Consumed' = j * PacketSize
    BY DEF AlignedInv
  <2>2. CASE fifo' = <<>>
    BY <1>4, <1>8, <2>2, Sizes DEF x, IcmTypeOK, DeviceTypeOK
  <2>3. CASE fifo' # <<>>
    <3>1. ~cut /\ fifo' = fifo /\ fifoBuffer = <<>>
      BY <1>2, <2>1, <2>3
    <3>2. k = 0 /\ Consumed' = Consumed
      BY <1>1, <1>5, <1>8, <3>1
    <3>3. QED
      BY <1>4, <1>7, <3>1, <3>2 DEF AlignedInv
  <2>4. QED
    BY <2>2, <2>3
<1>15. Running'
  BY <1>11 DEF Running, Tasking
<1>16. /\ cut' \in BOOLEAN /\ dmpInt' \in BOOLEAN /\ drdyFlag' \in BOOLEAN
       /\ dataReady' \in BOOLEAN /\ skipped' \in BOOLEAN
       /\ packetsLeft' \in 0 .. ResetThreshold \div PacketSize
       /\ fifoBuffer' \in Seq(Bytes) /\ Len(fifoBuffer') < PacketSize
       /\ lastData' = <<>> \/ lastData' \in [1 .. PacketSize -> Bytes]
  <2>1. 0 \in 0 .. ResetThreshold \div PacketSize /\ <<>> \in Seq(Bytes) /\ 0 < PacketSize
    BY Sizes
  <2>2. cut' \in BOOLEAN
    BY <1>2, <1>4 DEF IcmTypeOK
  <2>3. QED
    BY <1>2, <1>4, <1>5, <2>1, <2>2 DEF IcmTypeOK, DeviceTypeOK
<1>17. ResetKept'
  BY <1>2, <1>7, NoReset
<1>18. QED
  BY <1>2, <1>7, <1>8, <1>10, <1>12, <1>13, <1>14, <1>15, <1>16, <1>17, TaskStep
-----------------------------------------------------------------------------
(***************************************************************************)
(* The theorems.                                                           *)
(***************************************************************************)
LEMMA IcmStarts == IcmInit => IcmInv
<1> SUFFICES ASSUME IcmInit PROVE IcmInv
  OBVIOUS
<1>1. /\ bank = 0 /\ power = {"SLEEP"} /\ userCtrl = {}
      /\ memBank = 0 /\ memAddr = 0 /\ sram = [c \in Cells |-> 0]
      /\ fifo = <<>> /\ fifoRst = FALSE /\ dmpInt = FALSE /\ produced = 0
      /\ phase = "off" /\ pc = 1 /\ done = 0 /\ lastBank = NoBank
      /\ drdyFlag = FALSE /\ isrAttached = FALSE
      /\ packetsLeft = 0 /\ fifoBuffer = <<>> /\ lastData = <<>> /\ dataReady = FALSE
      /\ sent = <<>> /\ cut = FALSE /\ skipped = FALSE /\ stuck = FALSE
  BY DEF IcmInit, DeviceInit
<1>2. DeviceTypeOK
  <2>1. 0 \in CellValues /\ 0 \in 0 .. MemBanks - 1 /\ 0 \in 0 .. MemBankSize - 1
    BY Layout, MemoryAssumption DEF CellValues, Tuned, NoBank
  <2>2. sram \in [Cells -> CellValues]
    BY <1>1, <2>1
  <2>3. <<>> \in Seq(Bytes) /\ Len(<<>>) = 0 /\ 0 <= MaxSamples * PacketSize
    BY Sizes DEF Room
  <2>4. power \subseteq Bits /\ userCtrl \subseteq Bits
    BY <1>1 DEF Bits
  <2>5. 0 \in 0 .. 3 /\ 0 \in 0 .. MaxSamples
    BY Sizes
  <2>6. QED
    BY <1>1, <2>1, <2>2, <2>3, <2>4, <2>5 DEF DeviceTypeOK
<1>3. IcmTypeOK
  <2>1. 1 \in 1 .. Len(configDmpInit)
    BY AtEach
  <2>2. 0 \in 0 .. ImageSize /\ NoBank \in 0 .. NoBank
    BY MemoryAssumption, Layout
  <2>3. 0 \in 0 .. ResetThreshold \div PacketSize
    BY Sizes
  <2>4. <<>> \in Seq(Bytes) /\ Len(<<>>) < PacketSize
    BY Sizes
  <2>5. QED
    BY <1>1, <1>2, <2>1, <2>2, <2>3, <2>4 DEF IcmTypeOK
<1>4. /\ KnownInv /\ StartedDelivers /\ DmpHasFirmware /\ HeldInv
      /\ LoadInv /\ BurstInv /\ AnnouncedInv
  BY <1>1 DEF KnownInv, StartedDelivers, DmpHasFirmware, HeldInv, LoadInv, BurstInv, AnnouncedInv,
              Starting, Loading, Tasking
<1>5. StreamInv
  <2>1. Consumed = 0
    <3>1. 0 * PacketSize = 0
      BY Sizes
    <3>2. QED
      BY <1>1, <3>1 DEF Consumed
  <2>2. QED
    BY <1>1, <2>1 DEF StreamInv
<1>6. SentInv
  BY <1>1 DEF SentInv, SentOnce, Tasking
<1>7. AlignedInv
  BY <1>1 DEF AlignedInv, Fresh, Starting, Loading, Tasking
<1>8. QED
  BY <1>3, <1>4, <1>5, <1>6, <1>7 DEF IcmInv

LEMMA StutterKeeps == ASSUME IcmInv, UNCHANGED icmVars PROVE IcmInv'
<1>1. /\ UNCHANGED <<bank, power, userCtrl, memBank, memAddr, sram, fifo, fifoRst, dmpInt, produced>>
      /\ UNCHANGED <<phase, pc, done, lastBank, drdyFlag, isrAttached, packetsLeft,
                     fifoBuffer, lastData, dataReady, sent, cut, skipped, stuck>>
  BY DEF icmVars, device, driver, memVars, fifoVars, startVars, readVars, history
<1>2. IcmTypeOK'
  BY <1>1 DEF IcmInv, IcmTypeOK, DeviceTypeOK
<1>3. FirmwareLoaded' = FirmwareLoaded /\ Consumed' = Consumed /\ Starting' = Starting
      /\ operation' = operation /\ Remaining' = Remaining
  BY <1>1 DEF FirmwareLoaded, Consumed, Starting, operation, Remaining
<1>4. Holds(At[pc])' = Holds(At[pc])
  BY <1>1, <1>3 DEF Holds
<1>5. KnownInv'
  BY <1>1, <1>3, <1>4 DEF IcmInv, KnownInv
<1>6. StartedDelivers' /\ DmpHasFirmware' /\ LoadInv' /\ HeldInv'
  BY <1>1, <1>3 DEF IcmInv, StartedDelivers, dmpRuns, DmpHasFirmware, LoadInv, loadAddress, HeldInv
<1>7. StreamInv' /\ BurstInv'
  BY <1>1, <1>3 DEF IcmInv, StreamInv, BurstInv
<1>8. AnnouncedInv'
  BY <1>1, <1>3 DEF IcmInv, AnnouncedInv, Announced
<1>9. SentInv' /\ AlignedInv'
  BY <1>1, <1>3 DEF IcmInv, SentInv, SentOnce, AlignedInv, Fresh
<1>10. QED
  BY <1>2, <1>5, <1>6, <1>7, <1>8, <1>9 DEF IcmInv

LEMMA IcmStepKeeps == IcmInv /\ [IcmNext]_icmVars => IcmInv'
<1> SUFFICES ASSUME IcmInv, [IcmNext]_icmVars PROVE IcmInv'
  OBVIOUS
<1>1. CASE register
  BY <1>1, RegisterKeeps
<1>2. CASE registerAccess
  BY <1>2, RegisterAccessKeeps
<1>3. CASE dmpWriteBytes
  BY <1>3, DmpWriteBytesKeeps
<1>4. CASE loadBegin
  BY <1>4, LoadBeginKeeps
<1>5. CASE loadBankSel
  BY <1>5, LoadBankSelKeeps
<1>6. CASE loadStartAddr
  BY <1>6, LoadStartAddrKeeps
<1>7. CASE loadData
  BY <1>7, LoadDataKeeps
<1>8. CASE loadPrime
  BY <1>8, LoadPrimeKeeps
<1>9. CASE taskBegin
  BY <1>9, TaskBeginKeeps
<1>10. CASE readIntStatus
  BY <1>10, ReadIntStatusKeeps
<1>11. CASE readDmpIntStatus
  BY <1>11, ReadDmpIntStatusKeeps
<1>12. CASE readFifoCount
  BY <1>12, ReadFifoCountKeeps
<1>13. CASE fifoReset
  BY <1>13, FifoResetKeeps
<1>14. CASE fifoResetEnd
  BY <1>14, FifoResetEndKeeps
<1>15. CASE burstFrame
  BY <1>15, BurstFrameKeeps
<1>16. CASE burstFails
  BY <1>16, BurstFailsKeeps
<1>17. CASE publishSample
  BY <1>17, PublishSampleKeeps
<1>18. CASE sampleReady
  BY <1>18, SampleReadyKeeps
<1>19. CASE restart
  BY <1>19, RestartKeeps
<1>20. CASE UNCHANGED icmVars
  BY <1>20, StutterKeeps
<1>21. QED
  BY <1>1, <1>2, <1>3, <1>4, <1>5, <1>6, <1>7, <1>8, <1>9, <1>10, <1>11, <1>12, <1>13,
     <1>14, <1>15, <1>16, <1>17, <1>18, <1>19, <1>20 DEF IcmNext, StartNext, TaskNext

\* The inductive invariant of the driver and its device.
THEOREM IcmSound == IcmSpec => []IcmInv
<1>1. QED
  BY IcmStarts, IcmStepKeeps, PTL DEF IcmSpec

\* The types, with the bounds of the FIFO and of the packet buffer: no burst
\* reads more than a packet into it, and the DMP memory is written in place.
THEOREM IcmTyped == IcmSpec => []IcmTypeOK
<1>1. IcmInv => IcmTypeOK
  BY DEF IcmInv
<1>2. QED
  BY <1>1, IcmSound, PTL

\* Every register is accessed in its own bank, by the start of a driver that
\* has failed or restarted anywhere before, and by the task.
THEOREM BankAlwaysRight == IcmSpec => []BankRight
<1>1. ASSUME IcmInv PROVE BankRight
  <2>1. pc \in 1 .. Len(configDmpInit) /\ KnownInv /\ StartedDelivers
    BY <1>1 DEF IcmInv, IcmTypeOK
  <2> DEFINE op == operation
             s == At[pc]
  <2>2. op \in Operations /\ Allowed(s, op)
    BY <2>1, AtOperation
  <2> HIDE DEF op
  <2>3. /\ Resets(op) => s.known > 0 /\ op.reg \in BankRegs[s.bank]
        /\ op.do = "write" /\ ~ Resets(op) => s.known = 2 /\ op.reg \in BankRegs[s.bank]
        /\ op.do = "read" => s.known > 0 /\ op.reg \in BankRegs[s.bank]
        /\ op.do = "param" => s.known = 2 /\ s.bank = 0
        /\ op.do = "load" => s.known = 2 /\ s.bank = 0
    BY <2>2, AllowedOperation
  <2>4. Starting => Holds(s)
    BY <2>1 DEF KnownInv
  <2>5. Starting /\ op.do \in {"write", "read"} => op.reg \in BankRegs[bank]
    BY <2>3, <2>4 DEF Holds
  <2>6. Starting /\ op.do \in {"param", "load"} => bank = 0
    BY <2>3, <2>4 DEF Holds
  <2>7. phase \in Loading => op.do = "load"
    BY <2>1 DEF KnownInv, op
  <2>8. phase \in Tasking => bank = 0
    BY <2>1 DEF StartedDelivers
  <2>9. phase = "starting" \/ phase \in Loading => Starting
    BY DEF Starting
  <2>10. QED
    BY <2>5, <2>6, <2>7, <2>8, <2>9 DEF BankRight, op
<1>2. IcmInv => BankRight
  BY <1>1
<1>3. QED
  BY <1>2, IcmSound, PTL

\* An enabled DMP has every byte of its firmware in place.
THEOREM FirmwareBeforeDmp == IcmSpec => []DmpHasFirmware
<1>1. IcmInv => DmpHasFirmware
  BY DEF IcmInv
<1>2. QED
  BY <1>1, IcmSound, PTL

\* When start has returned OK the sensor makes samples.
THEOREM StartedSensorDelivers == IcmSpec => []StartedDelivers
<1>1. IcmInv => StartedDelivers
  BY DEF IcmInv
<1>2. QED
  BY <1>1, IcmSound, PTL

\* Between two tasks no whole packet waits without the flag that will have it
\* read, wherever in a task the DMP has made it.
THEOREM NoSampleUnannounced == IcmSpec => []NoLostWakeup
<1>1. IcmInv => NoLostWakeup
  BY DEF IcmInv, AnnouncedInv, Announced, NoLostWakeup
<1>2. QED
  BY <1>1, IcmSound, PTL

\* No sample is published twice or out of order.
THEOREM PublishedOnce == IcmSpec => []SentOnce
<1>1. IcmInv => SentOnce
  BY DEF IcmInv, SentInv
<1>2. QED
  BY <1>1, IcmSound, PTL

\* Only the last frame of a burst parses a packet.
LEMMA OnlyFramesParse ==
  ASSUME [IcmNext]_icmVars, lastData' # lastData, lastData' # <<>>
  PROVE  burstFrame
<1>1. ~ UNCHANGED readVars /\ ~ UNCHANGED lastData /\ ~ UNCHANGED icmVars
  BY DEF icmVars, driver, readVars
<1>2. ~ register /\ ~ sampleReady /\ ~ publishSample /\ ~ restart
  BY <1>1 DEF register, sampleReady, publishSample, restart
<1>3. ~ startUnchanged
  BY <1>1 DEF startUnchanged
<1>4. ~ registerAccess /\ ~ dmpWriteBytes /\ ~ loadBegin /\ ~ loadBankSel
      /\ ~ loadStartAddr /\ ~ loadData /\ ~ loadPrime
  BY <1>3 DEF registerAccess, dmpWriteBytes, loadBegin, loadBankSel, loadStartAddr,
              loadData, loadPrime
<1>5. ~ taskBegin /\ ~ readFifoCount /\ ~ burstFails
  BY <1>1 DEF taskBegin, readFifoCount, burstFails
<1>6. ~ noParse
  BY <1>1 DEF noParse
<1>7. ~ readIntStatus /\ ~ readDmpIntStatus /\ ~ fifoReset /\ ~ fifoResetEnd
  BY <1>6 DEF readIntStatus, readDmpIntStatus, fifoReset, fifoResetEnd
<1>8. QED
  BY <1>1, <1>2, <1>4, <1>5, <1>7 DEF IcmNext, StartNext, TaskNext

\* What is parsed is one packet from its first byte to its last, unless a
\* transfer has failed inside a packet since the FIFO was last empty.
THEOREM PacketsWhole == IcmSpec => FramedUnlessCut
<1>1. ASSUME IcmInv, [IcmNext]_icmVars, lastData' # lastData, lastData' # <<>>, ~cut
      PROVE  Framed(lastData')
  <2>burst. burstFrame /\ phase = "burst"
    BY <1>1, OnlyFramesParse DEF burstFrame
  <2>frame. PICK n, k, rest, buf : NextFrame(n, k, rest, buf)
    BY <1>1, <2>burst, InBurst
  <2>1. n = Len(fifo) /\ k = Len(fifoBuffer) /\ rest = RestBytes /\ buf = NextBuffer
    BY <2>frame DEF NextFrame
  <2>3. phase = "burst" /\ lastData' = buf /\ Len(buf) = PacketSize
    BY <1>1, <2>1, <2>burst DEF burstFrame, burstOver, NextBuffer
  <2>4. /\ n \in Nat /\ n >= 2 /\ k \in Nat /\ buf \in Seq(Bytes) /\ Len(buf) = k + 2
        /\ \A i \in 1 .. k + 2 : buf[i] = ByteAt(Consumed + i - 1)
    BY <2>frame DEF NextFrame
  <2>5. PICK j \in Nat : Consumed = j * PacketSize
    BY <1>1, <2>3 DEF IcmInv, AlignedInv, Fresh, Tasking
  <2>6. \A i \in 1 .. PacketSize : buf[i] = <<j + 1, i>>
    BY <2>3, <2>4, <2>5, PacketBytes
  <2>7. j + 1 \in 1 .. MaxSamples
    <3> DEFINE x == produced * PacketSize
    <3>1. x \in Nat /\ Consumed \in Nat /\ x = Consumed + k + n
      BY <1>1, <2>1, StreamLength
    <3>2. Consumed < x
      BY <2>4, <3>1
    <3>3. produced \in 0 .. MaxSamples /\ produced \in Nat
      BY <1>1, Sizes DEF IcmInv, IcmTypeOK, DeviceTypeOK
    <3>4. ~ (produced <= j)
      <4>1. SUFFICES ASSUME produced <= j PROVE FALSE
        OBVIOUS
      <4>2. produced * PacketSize <= j * PacketSize
        BY <3>3, <4>1, Sizes
      <4> HIDE DEF x
      <4>3. x <= Consumed
        BY <2>5, <4>2 DEF x
      <4>4. QED
        BY <3>1, <3>2, <4>3
    <3>5. QED
      BY <3>3, <3>4, Sizes
  <2>8. buf = [i \in 1 .. PacketSize |-> <<j + 1, i>>]
    <3>1. buf \in [1 .. PacketSize -> Bytes]
      BY <2>3, <2>4
    <3>2. QED
      BY <2>6, <3>1
  <2>9. QED
    BY <2>3, <2>7, <2>8 DEF Framed
<1>2. IcmInv /\ [IcmNext]_icmVars =>
        [lastData' # lastData /\ lastData' # <<>> => cut \/ Framed(lastData')]_icmVars
  BY <1>1
<1>3. QED
  BY <1>2, IcmSound, PTL DEF IcmSpec, FramedUnlessCut
=============================================================================
