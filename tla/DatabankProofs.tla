--------------------------- MODULE DatabankProofs ---------------------------
(***************************************************************************)
(* Proofs about Databank for every pool size.                              *)
(***************************************************************************)
EXTENDS Databank, FiniteSetTheorems, TLAPS

\* The inductive invariant: every step keeps the parts only together.  That
\* the packet getPacket pops is not leased needs Partition and FreeDistinct;
\* that the push of a leased packet fits needs Conservation.
BankInv == BankTypeOK /\ FreeDistinct /\ Partition /\ Conservation

USE DatabankSizeAssumption, PointersAssumption

LEMMA PacketsFinite == IsFiniteSet(Packets)
  BY FS_Interval DEF Packets

LEMMA LeasedFinite == BankTypeOK => IsFiniteSet(leased)
  BY PacketsFinite, FS_Subset DEF BankTypeOK

\* Before init the pool is empty and nothing is out.
LEMMA NothingBeforeInit ==
  ASSUME BankTypeOK, Partition, ~s_initialized
  PROVE  freeCount = 0 /\ leased = {}
<1>1. FreePackets = {} /\ leased = {}
  BY DEF Partition
<1>2. FreeSlots = {}
  BY <1>1 DEF FreePackets
<1>3. QED
  BY <1>1, <1>2 DEF FreeSlots, BankTypeOK

\* databank.c:64-95 takes back exactly what is out: when a packet is leased
\* no free slot holds it and there is room for it.
LEMMA GuardExact ==
  ASSUME BankInv, NEW ptr \in Pointers
  PROVE  returnAccepts(ptr) <=> ptr \in leased
<1>1. CASE ~s_initialized
  <2>1. ptr \notin Packets
    BY <1>1 DEF Pointers, Packets
  <2>2. leased = {}
    BY <1>1, NothingBeforeInit DEF BankInv
  <2>3. QED
    BY <2>1, <2>2 DEF returnAccepts
<1>2. CASE s_initialized /\ ptr \in leased
  <2>1. ptr \in Packets /\ ptr # NULL
    BY <1>2 DEF BankInv, BankTypeOK, Packets
  <2>2. \A i \in FreeSlots : p_freePackets[i] # ptr
    BY <1>2 DEF BankInv, Partition, FreePackets
  <2>3. Cardinality(leased) \in Nat \ {0}
    BY <1>2, LeasedFinite, FS_CardinalityType, FS_EmptySet DEF BankInv
  <2>4. freeCount < DatabankSize
    BY <1>2, <2>3 DEF BankInv, Conservation, BankTypeOK
  <2>5. QED
    BY <1>2, <2>1, <2>2, <2>4 DEF returnAccepts
<1>3. CASE s_initialized /\ ptr \notin leased
  <2>1. ptr \in Packets => \E i \in FreeSlots : p_freePackets[i] = ptr
    BY <1>3 DEF BankInv, Partition, FreePackets
  <2>2. QED
    BY <1>3, <2>1 DEF returnAccepts
<1>4. QED
  BY <1>1, <1>2, <1>3

LEMMA InitInv == BankInit => BankInv
<1> SUFFICES ASSUME BankInit PROVE BankInv
  OBVIOUS
<1>1. FreeSlots = {} /\ FreePackets = {}
  BY DEF BankInit, FreeSlots, FreePackets
<1>2. BankTypeOK
  <2>1. p_freePackets \in [Packets -> Packets \union {NULL}]
    BY DEF BankInit
  <2>2. freeCount \in 0 .. DatabankSize
    BY DEF BankInit
  <2>3. QED
    BY <2>1, <2>2 DEF BankInit, BankTypeOK
<1>3. FreeDistinct /\ Partition /\ Conservation
  BY <1>1 DEF BankInit, FreeDistinct, Partition, Conservation
<1>4. QED
  BY <1>2, <1>3 DEF BankInv

LEMMA InitStep ==
  ASSUME BankInv, fillStack, ~s_initialized
  PROVE  BankInv'
<1>1. leased = {} /\ leased' = {}
  BY NothingBeforeInit DEF BankInv, fillStack
<1>2. BankTypeOK'
  BY <1>1 DEF fillStack, BankTypeOK, Packets
<1>3. FreeDistinct'
  BY DEF fillStack, FreeDistinct, FreeSlots, Packets
<1>4. FreePackets' = Packets
  <2>1. ASSUME NEW p \in Packets PROVE p \in FreePackets'
    <3>1. DatabankSize - 1 - p \in FreeSlots'
      BY DEF fillStack, FreeSlots, Packets
    <3>2. p_freePackets'[DatabankSize - 1 - p] = p
      BY DEF fillStack, Packets
    <3>3. QED
      BY <3>1, <3>2 DEF FreePackets
  <2>2. FreePackets' \subseteq Packets
    BY DEF fillStack, FreePackets, FreeSlots, Packets
  <2>3. QED
    BY <2>1, <2>2
<1>5. Partition'
  BY <1>1, <1>4 DEF Partition, fillStack
<1>6. Conservation'
  BY <1>1, FS_EmptySet DEF Conservation, fillStack
<1>7. QED
  BY <1>2, <1>3, <1>5, <1>6 DEF BankInv

\* databank.c:53-62: the packet on top is one that was free, and only that.
LEMMA GetStep ==
  ASSUME BankInv, getPacket
  PROVE  BankInv' /\ topPacket \in Packets /\ topPacket \notin leased
<1>1. freeCount \in 1 .. DatabankSize /\ freeCount' = freeCount - 1
  BY DEF getPacket, CanGet, BankInv, BankTypeOK
<1>2. freeCount - 1 \in FreeSlots /\ topPacket \in FreePackets
  BY <1>1 DEF FreeSlots, FreePackets, topPacket
<1>3. topPacket \in Packets /\ topPacket \notin leased
  BY <1>2 DEF getPacket, CanGet, BankInv, Partition
<1>4. FreeSlots' = FreeSlots \ {freeCount - 1}
  BY <1>1 DEF FreeSlots
<1>5. BankTypeOK'
  BY <1>1, <1>3 DEF getPacket, BankInv, BankTypeOK
<1>6. FreeDistinct'
  BY <1>4 DEF getPacket, BankInv, FreeDistinct
<1>7. FreePackets' = FreePackets \ {topPacket}
  BY <1>2, <1>4 DEF getPacket, BankInv, FreeDistinct, FreePackets, topPacket
<1>8. Partition'
  BY <1>2, <1>7 DEF getPacket, CanGet, BankInv, Partition
<1>9. Conservation'
  <2>1. Cardinality(leased') = Cardinality(leased) + 1
    BY <1>3, LeasedFinite, FS_AddElement DEF getPacket, BankInv
  <2>2. Cardinality(leased) \in Nat
    BY LeasedFinite, FS_CardinalityType DEF BankInv
  <2>3. QED
    BY <1>1, <2>1, <2>2 DEF getPacket, BankInv, Conservation
<1>10. QED
  BY <1>3, <1>5, <1>6, <1>8, <1>9 DEF BankInv

\* databank.c:92-94: the push of an accepted packet.
LEMMA ReturnStep ==
  ASSUME BankInv, NEW ptr \in Pointers, returnAccepts(ptr), returnPacket(ptr)
  PROVE  BankInv'
<1>1. ptr \in leased /\ ptr \in Packets
  BY GuardExact DEF returnAccepts
<1>2. s_initialized /\ s_initialized'
  BY <1>1, NothingBeforeInit DEF returnPacket, BankInv
<1>3. freeCount \in 0 .. DatabankSize - 1 /\ freeCount' = freeCount + 1
  BY DEF returnAccepts, returnPacket, BankInv, BankTypeOK
<1>4. FreeSlots' = FreeSlots \union {freeCount} /\ freeCount \notin FreeSlots
  BY <1>3 DEF FreeSlots
<1>5. BankTypeOK'
  <2>1. p_freePackets' \in [Packets -> Packets \union {NULL}]
    BY <1>1 DEF returnPacket, BankInv, BankTypeOK
  <2>2. freeCount' \in 0 .. DatabankSize
    BY <1>3
  <2>3. QED
    BY <1>2, <2>1, <2>2 DEF returnPacket, BankInv, BankTypeOK
<1>6. /\ p_freePackets'[freeCount] = ptr
      /\ \A i \in FreeSlots : p_freePackets'[i] = p_freePackets[i]
  BY <1>3 DEF returnPacket, BankInv, BankTypeOK, FreeSlots, Packets
<1>7. FreeDistinct'
  BY <1>4, <1>6 DEF returnAccepts, BankInv, FreeDistinct
<1>8. FreePackets' = FreePackets \union {ptr}
  BY <1>4, <1>6 DEF FreePackets
<1>9. Partition'
  BY <1>1, <1>2, <1>8 DEF returnPacket, BankInv, Partition
<1>10. Conservation'
  <2>1. Cardinality(leased') = Cardinality(leased) - 1
    BY <1>1, LeasedFinite, FS_RemoveElement DEF returnPacket, BankInv
  <2>2. Cardinality(leased) \in Nat
    BY LeasedFinite, FS_CardinalityType DEF BankInv
  <2>3. QED
    BY <1>2, <1>3, <2>1, <2>2 DEF BankInv, Conservation
<1>11. QED
  BY <1>5, <1>7, <1>9, <1>10 DEF BankInv

LEMMA StutterStep == ASSUME BankInv, UNCHANGED bankVars PROVE BankInv'
<1>1. BankTypeOK'
  BY DEF bankVars, BankInv, BankTypeOK
<1>2. FreeSlots' = FreeSlots /\ FreePackets' = FreePackets
  BY DEF bankVars, FreeSlots, FreePackets
<1>3. QED
  BY <1>1, <1>2 DEF BankInv, bankVars, FreeDistinct, Partition, Conservation

LEMMA NextInv == BankInv /\ [BankNext]_bankVars => BankInv'
<1> SUFFICES ASSUME BankInv, [BankNext]_bankVars PROVE BankInv'
  OBVIOUS
<1>1. CASE databankInit
  BY <1>1, InitStep, StutterStep DEF databankInit
<1>2. CASE getPacket
  BY <1>2, GetStep
<1>3. CASE getPacketNull
  BY <1>3, StutterStep DEF getPacketNull
<1>4. ASSUME NEW ptr \in Pointers, returnPacket(ptr) PROVE BankInv'
  BY <1>4, ReturnStep, StutterStep DEF returnPacket
<1>5. CASE UNCHANGED bankVars
  BY <1>5, StutterStep
<1>6. QED
  BY <1>1, <1>2, <1>3, <1>4, <1>5 DEF BankNext

\* The pool is sound for every size: well typed, no packet twice on the
\* stack, every packet free or leased, and freeCount what is left.
THEOREM BankInvariant == BankSpec => []BankInv
<1>1. BankInit => BankInv
  BY InitInv
<1>2. BankInv /\ [BankNext]_bankVars => BankInv'
  BY NextInv
<1>3. QED
  BY <1>1, <1>2, PTL DEF BankSpec

\* getPacket and returnPacket neither lose nor duplicate a packet.
THEOREM PoolPartition == BankSpec => [](Partition /\ FreeDistinct)
<1>1. BankInv => Partition /\ FreeDistinct
  BY DEF BankInv
<1>2. QED
  BY <1>1, BankInvariant, PTL

\* freeCount is the size of the pool less the packets that are out.
THEOREM PoolConservation == BankSpec => []Conservation
<1>1. BankInv => Conservation
  BY DEF BankInv
<1>2. QED
  BY <1>1, BankInvariant, PTL

\* returnPacket accepts a pointer exactly when that packet is leased.
THEOREM ReturnExact == BankSpec => []ReturnGuardExact
<1>1. BankInv => ReturnGuardExact
  BY GuardExact DEF ReturnGuardExact
<1>2. QED
  BY <1>1, BankInvariant, PTL

\* What is out is of the pool, every slot of the free list holds a packet of
\* it or nothing, and the count stays within its size.
THEOREM PoolTyped == BankSpec => []BankTypeOK
<1>1. BankInv => BankTypeOK
  BY DEF BankInv
<1>2. QED
  BY <1>1, BankInvariant, PTL
=============================================================================
