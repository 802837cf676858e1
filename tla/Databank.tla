------------------------------ MODULE Databank ------------------------------
(***************************************************************************)
(* services/databank/databank.c: the fixed pool of packets and the stack   *)
(* of free ones.  A packet pointer is the index of the packet in           *)
(* s_packets; NULL and Foreign stand for the null pointer and for any      *)
(* pointer outside the pool.  "leased" is a history variable: the packets  *)
(* getPacket has handed out and returnPacket has not taken back.           *)
(***************************************************************************)
EXTENDS Naturals, FiniteSets

CONSTANTS DatabankSize,   \* K_SPP_DATABANK_SIZE
          NULL,
          Foreign

ASSUME DatabankSizeAssumption == DatabankSize \in Nat \ {0}
ASSUME PointersAssumption     == NULL \notin Nat /\ Foreign \notin Nat

VARIABLES s_initialized, p_freePackets, freeCount, leased

bankVars == <<s_initialized, p_freePackets, freeCount, leased>>

Packets == 0 .. DatabankSize - 1

\* The live part of the stack; the slots above it keep stale pointers.
FreeSlots   == 0 .. freeCount - 1
FreePackets == {p_freePackets[i] : i \in FreeSlots}

BankInit ==
  /\ s_initialized = FALSE
  /\ p_freePackets = [i \in Packets |-> NULL]
  /\ freeCount = 0
  /\ leased = {}

\* Fault: the index of the packets is off by one.
fillStack_offByOne ==
  /\ s_initialized' = TRUE
  /\ p_freePackets' = [i \in Packets |-> DatabankSize - i]
  /\ freeCount' = DatabankSize
  /\ UNCHANGED leased

fillStack ==
  /\ s_initialized' = TRUE
  /\ p_freePackets' = [i \in Packets |-> DatabankSize - 1 - i]
  /\ freeCount' = DatabankSize
  /\ UNCHANGED leased

\* Fault: init does not look at s_initialized.
databankInit_again == fillStack

(***************************************************************************)
(* SPP_SERVICES_DATABANK_init: the first call fills the stack so that      *)
(* packet 0 is on top; every later one returns ALREADY_INITIALIZED.        *)
(***************************************************************************)
databankInit == IF s_initialized THEN UNCHANGED bankVars ELSE fillStack

CanGet == s_initialized /\ freeCount # 0

\* What getPacket returns in the current state.
topPacket == p_freePackets[freeCount - 1]

\* SPP_SERVICES_DATABANK_getPacket when it does not return NULL.
getPacket ==
  /\ CanGet
  /\ freeCount' = freeCount - 1
  /\ leased' = leased \union {topPacket}
  /\ UNCHANGED <<s_initialized, p_freePackets>>

\* SPP_SERVICES_DATABANK_getPacket when it returns NULL.
getPacketNull == ~CanGet /\ UNCHANGED bankVars

\* Fault: the "pool is full" test is off by one.
returnAccepts_fullEarly(ptr) ==
  /\ ptr # NULL
  /\ ptr \in Packets
  /\ \A i \in FreeSlots : p_freePackets[i] # ptr
  /\ freeCount < DatabankSize - 1

\* Fault: no scan for a packet that is free already.
returnAccepts_noScan(ptr) ==
  /\ ptr # NULL
  /\ ptr \in Packets
  /\ freeCount < DatabankSize

\* The checks of returnPacket that all have to pass before the push.
returnAccepts(ptr) ==
  /\ ptr # NULL
  /\ ptr \in Packets
  /\ \A i \in FreeSlots : p_freePackets[i] # ptr
  /\ freeCount < DatabankSize

\* SPP_SERVICES_DATABANK_returnPacket: push the packet, or refuse it.
returnPacket(ptr) ==
  IF returnAccepts(ptr)
  THEN /\ p_freePackets' = [p_freePackets EXCEPT ![freeCount] = ptr]
       /\ freeCount' = freeCount + 1
       /\ leased' = leased \ {ptr}
       /\ UNCHANGED s_initialized
  ELSE UNCHANGED bankVars

\* A pool pointer comes from getPacket only, so none exists before init.
Pointers == {NULL, Foreign} \union IF s_initialized THEN Packets ELSE {}

BankNext ==
  \/ databankInit
  \/ getPacket
  \/ getPacketNull
  \/ \E ptr \in Pointers : returnPacket(ptr)

BankSpec == BankInit /\ [][BankNext]_bankVars

-----------------------------------------------------------------------------
\* Types of the variables of databank.c.
BankTypeOK ==
  /\ s_initialized \in BOOLEAN
  /\ p_freePackets \in [Packets -> Packets \union {NULL}]
  /\ freeCount \in 0 .. DatabankSize
  /\ leased \subseteq Packets

\* The stack never holds a packet twice: two getPacket calls cannot return
\* the same pointer without a returnPacket between them.
FreeDistinct ==
  \A i, j \in FreeSlots : p_freePackets[i] = p_freePackets[j] => i = j

\* A packet is free or leased, never both and, once the pool exists, never
\* neither: getPacket and returnPacket lose and duplicate nothing.
Partition ==
  /\ FreePackets \intersect leased = {}
  /\ FreePackets \union leased = IF s_initialized THEN Packets ELSE {}

\* freeCount, the number databank.c reports, is what is left of the pool.
Conservation ==
  s_initialized => freeCount + Cardinality(leased) = DatabankSize

\* returnPacket takes back exactly the packets that are out: its guard
\* refuses NULL, foreign pointers and double returns, and neither that guard
\* nor the "pool is full" one ever refuses a packet that is leased.
ReturnGuardExact ==
  \A ptr \in Pointers : returnAccepts(ptr) <=> ptr \in leased
=============================================================================
