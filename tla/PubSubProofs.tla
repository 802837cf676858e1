---------------------------- MODULE PubSubProofs ----------------------------
(***************************************************************************)
(* Proofs about PubSub for every pool, ring and table size, every set of   *)
(* subscriptions and every depth of nested calls: the safety invariants.   *)
(*                                                                         *)
(* The invariants of the bus are stated over the stack of the calls in     *)
(* progress, whatever other calls an application adds to it: F is the set  *)
(* of names of calls and W the set of their owners.  PubSub itself has the *)
(* calls BusCalls of Handlers; Superloop adds its own.                     *)
(***************************************************************************)
EXTENDS PubSub, DatabankProofs, DataLemmas

BusCalls == {"publish", "dropping", "consume", "log", "handler"}

Frames(F, W) == [fn : F, pkt : Packets \union {NULL}, idx : Nat, who : W]

Covers(F, W) == BusCalls \subseteq F /\ Handlers \union {NULL} \subseteq W

-----------------------------------------------------------------------------
(***************************************************************************)
(* The inductive invariant.                                                *)
(***************************************************************************)
\* The calls that own the packet they work on.
Owning == {"publish", "dropping", "reading", "failed"}

\* A call of publish has a packet and is at an entry of the table.
Sound(f) ==
  f.fn \in {"publish", "dropping"} => f.pkt # NULL /\ f.idx # 0

Holds(f)    == f.fn \in Owning /\ f.pkt # NULL
Holders(st) == {i \in DOMAIN st : Holds(st[i])}
Held(st)    == {st[i].pkt : i \in Holders(st)}

\* No packet has two owners on the stack.
OneHolder(st) ==
  /\ \A i, j \in Holders(st) : st[i].pkt = st[j].pkt => i = j
  /\ \A i \in DOMAIN st : Sound(st[i])

Occupied == {q \in Slots : s_queue[q].p_pkt # NULL}
InRing   == {s_queue[q].p_pkt : q \in Occupied}

\* OwnedOnce without counting: the owners of a packet are all different.
OwnInv ==
  /\ leased = InRing \union Held(stack)
  /\ InRing \intersect Held(stack) = {}
  /\ OneHolder(stack)
  /\ \A q, r \in Occupied : s_queue[q].p_pkt = s_queue[r].p_pkt => q = r

\* Before boot the bus is empty, so that boot, which empties it, loses nothing.
ResetInv ==
  main = "reset" =>
    /\ stack = <<>> /\ s_subs = <<>> /\ s_qCount = 0
    /\ ~s_initialized /\ ~busInitialized

BusTypes ==
  /\ LogTypeOK
  /\ busInitialized \in BOOLEAN
  /\ s_subs \in Seq(Subscriptions) /\ Len(s_subs) <= MaxSubscribers
  /\ s_queue \in [Slots -> [p_pkt : Packets \union {NULL}, nextSubIdx : Nat \ {0}]]
  /\ s_head \in Slots /\ s_tail \in Slots /\ s_qCount \in 0 .. QueueSize
  /\ s_overflowCount \in [ApidBits -> 0 .. CounterMax]
  /\ apidOf \in [Packets -> SUBSET ApidBits]
  /\ s_logBusy \in BOOLEAN
  /\ main \in {"reset", "setup", "loop"}
  /\ dispatched \in [Packets -> [Handlers -> 0 .. 2]]

BusInv(F, W) ==
  /\ BankInv /\ BusTypes
  /\ stack \in Seq(Frames(F, W))
  /\ RingConsistent
  /\ OwnInv
  /\ ResetInv

-----------------------------------------------------------------------------
(***************************************************************************)
(* Stacks.                                                                 *)
(***************************************************************************)
LEMMA NullIsNoPacket == NULL \notin Packets
  BY PointersAssumption, DatabankSizeAssumption DEF Packets

LEMMA QueueSizeType == QueueSize \in Nat \ {0}
  BY PubSubAssumption

LEMMA HandlerCallsType == \A h \in Handlers : HandlerCalls[h] \in Nat
  BY PubSubAssumption DEF Handlers

\* What a call pushed on a stack owns is added to what the stack owns.
LEMMA HeldPush ==
  ASSUME NEW S, NEW rest \in Seq(S), NEW f \in S
  PROVE  /\ Held(<<f>> \o rest) =
              Held(rest) \union (IF Holds(f) THEN {f.pkt} ELSE {})
         /\ OneHolder(<<f>> \o rest) <=>
              /\ OneHolder(rest)
              /\ Holds(f) => f.pkt \notin Held(rest)
              /\ Sound(f)
<1> DEFINE t == <<f>> \o rest
<1>1. /\ DOMAIN t = 1 .. Len(rest) + 1 /\ t[1] = f
      /\ \A i \in 1 .. Len(rest) : t[i + 1] = rest[i]
      /\ \A i \in 2 .. Len(rest) + 1 : t[i] = rest[i - 1]
  BY PushProperties
<1>2. Len(rest) \in Nat /\ DOMAIN rest = 1 .. Len(rest)
  BY LenProperties
<1> HIDE DEF t
<1>3. \A i \in DOMAIN rest : i \in Holders(rest) <=> i + 1 \in Holders(t)
  BY <1>1, <1>2 DEF Holders
<1>4. \A i \in DOMAIN t \ {1} : i \in Holders(t) <=> i - 1 \in Holders(rest)
  BY <1>1, <1>2 DEF Holders
<1>5. 1 \in Holders(t) <=> Holds(f)
  BY <1>1, <1>2 DEF Holders
<1>6. Held(t) = Held(rest) \union (IF Holds(f) THEN {f.pkt} ELSE {})
  <2>1. ASSUME NEW i \in Holders(t)
        PROVE  t[i].pkt \in Held(rest) \union (IF Holds(f) THEN {f.pkt} ELSE {})
    <3>1. CASE i = 1
      BY <3>1, <1>1, <1>5
    <3>2. CASE i # 1
      <4>1. i \in 2 .. Len(rest) + 1
        BY <3>2, <1>1, <1>2 DEF Holders
      <4>2. i - 1 \in Holders(rest) /\ t[i] = rest[i - 1]
        BY <4>1, <1>1, <1>2, <1>4
      <4>3. QED
        BY <4>2 DEF Held
    <3>3. QED
      BY <3>1, <3>2
  <2>2. ASSUME NEW i \in Holders(rest) PROVE rest[i].pkt \in Held(t)
    <3>1. i + 1 \in Holders(t) /\ t[i + 1] = rest[i]
      BY <1>1, <1>2, <1>3 DEF Holders
    <3>2. QED
      BY <3>1 DEF Held
  <2>3. Holds(f) => f.pkt \in Held(t)
    BY <1>1, <1>5 DEF Held
  <2>4. QED
    BY <2>1, <2>2, <2>3 DEF Held
<1>7. ASSUME OneHolder(t)
      PROVE  /\ OneHolder(rest)
             /\ Holds(f) => f.pkt \notin Held(rest)
             /\ Sound(f)
  <2>1. ASSUME NEW i \in Holders(rest), NEW j \in Holders(rest),
               rest[i].pkt = rest[j].pkt
        PROVE  i = j
    <3>1. i + 1 \in Holders(t) /\ t[i + 1] = rest[i] /\ i \in Int
      BY <1>1, <1>2, <1>3 DEF Holders
    <3>2. j + 1 \in Holders(t) /\ t[j + 1] = rest[j] /\ j \in Int
      BY <1>1, <1>2, <1>3 DEF Holders
    <3>3. i + 1 = j + 1
      BY <1>7, <2>1, <3>1, <3>2 DEF OneHolder
    <3>4. QED
      BY <3>1, <3>2, <3>3
  <2>2. ASSUME NEW i \in DOMAIN rest PROVE Sound(rest[i])
    <3>1. i + 1 \in DOMAIN t /\ t[i + 1] = rest[i]
      BY <1>1, <1>2
    <3>2. QED
      BY <1>7, <3>1 DEF OneHolder
  <2>3. ASSUME Holds(f), NEW i \in Holders(rest) PROVE f.pkt # rest[i].pkt
    <3>1. i + 1 \in Holders(t) /\ t[i + 1] = rest[i] /\ i + 1 # 1
      BY <1>1, <1>2, <1>3 DEF Holders
    <3>2. QED
      BY <1>1, <1>5, <1>7, <2>3, <3>1 DEF OneHolder
  <2>4. Sound(f)
    BY <1>1, <1>2, <1>7 DEF OneHolder
  <2>5. QED
    BY <2>1, <2>2, <2>3, <2>4 DEF OneHolder, Held
<1>8. ASSUME OneHolder(rest),
             Holds(f) => f.pkt \notin Held(rest),
             Sound(f)
      PROVE  OneHolder(t)
  <2>1. ASSUME NEW i \in Holders(t), NEW j \in Holders(t),
               t[i].pkt = t[j].pkt, i # 1, j # 1
        PROVE  i = j
    <3>1. i - 1 \in Holders(rest) /\ t[i] = rest[i - 1] /\ i \in Int
      BY <2>1, <1>1, <1>2, <1>4 DEF Holders
    <3>2. j - 1 \in Holders(rest) /\ t[j] = rest[j - 1] /\ j \in Int
      BY <2>1, <1>1, <1>2, <1>4 DEF Holders
    <3>3. i - 1 = j - 1
      BY <1>8, <2>1, <3>1, <3>2 DEF OneHolder
    <3>4. QED
      BY <3>1, <3>2, <3>3
  <2>2. ASSUME NEW i \in Holders(t), i # 1, 1 \in Holders(t)
        PROVE  t[i].pkt # t[1].pkt
    <3>1. i - 1 \in Holders(rest) /\ t[i] = rest[i - 1]
      BY <2>2, <1>1, <1>2, <1>4 DEF Holders
    <3>2. t[i].pkt \in Held(rest)
      BY <3>1 DEF Held
    <3>3. QED
      BY <3>2, <1>1, <1>5, <1>8, <2>2
  <2>3. ASSUME NEW i \in DOMAIN t PROVE Sound(t[i])
    <3>1. CASE i = 1
      BY <3>1, <1>1, <1>8
    <3>2. CASE i # 1
      <4>1. i - 1 \in DOMAIN rest /\ t[i] = rest[i - 1]
        BY <3>2, <1>1, <1>2
      <4>2. QED
        BY <4>1, <1>8 DEF OneHolder
    <3>3. QED
      BY <3>1, <3>2
  <2>4. QED
    BY <2>1, <2>2, <2>3 DEF OneHolder
<1>9. QED
  BY <1>6, <1>7, <1>8 DEF t

\* A call that owns nothing changes no owner.
LEMMA PushIdle ==
  ASSUME NEW S, NEW rest \in Seq(S), NEW f \in S,
         ~Holds(f), Sound(f)
  PROVE  /\ <<f>> \o rest \in Seq(S)
         /\ Held(<<f>> \o rest) = Held(rest)
         /\ OneHolder(<<f>> \o rest) <=> OneHolder(rest)
<1>1. <<f>> \o rest \in Seq(S)
  BY PushProperties
<1>2. Held(<<f>> \o rest) = Held(rest)
  BY HeldPush
<1>3. OneHolder(<<f>> \o rest) <=> OneHolder(rest)
  BY HeldPush
<1>4. QED
  BY <1>1, <1>2, <1>3

LEMMA HeldEmpty == Held(<<>>) = {} /\ OneHolder(<<>>)
<1>1. DOMAIN <<>> = {}
  OBVIOUS
<1>2. QED
  BY <1>1 DEF Held, Holders, OneHolder

\* The calls the bus pushes are frames, and HandlerFrame owns nothing.
LEMMA FramesPushed ==
  ASSUME NEW F, NEW W, Covers(F, W)
  PROVE  /\ \A p \in Packets : PublishFrame(p) \in Frames(F, W)
         /\ LogFrame \in Frames(F, W)
         /\ \A h \in Handlers, p \in Packets \union {NULL} :
              HandlerFrame(h, p) \in Frames(F, W)
         /\ \A j \in Nat : Frame("consume", NULL, j, NULL) \in Frames(F, W)
  BY HandlerCallsType
  DEF Covers, BusCalls, Frames, PublishFrame, LogFrame, HandlerFrame, Frame

\* The innermost call and its callers.
LEMMA TopOfStack ==
  ASSUME NEW F, NEW W, stack \in Seq(Frames(F, W)), stack # <<>>
  PROVE  /\ Top \in Frames(F, W) /\ Caller \in Seq(Frames(F, W))
         /\ stack = <<Top>> \o Caller
         /\ Held(stack) = Held(Caller) \union (IF Holds(Top) THEN {Top.pkt} ELSE {})
         /\ OneHolder(stack) <=>
              /\ OneHolder(Caller)
              /\ Holds(Top) => Top.pkt \notin Held(Caller)
              /\ Sound(Top)
<1>1. Top \in Frames(F, W) /\ Caller \in Seq(Frames(F, W)) /\ stack = <<Top>> \o Caller
  BY PopProperties DEF Top, Caller
<1>2. QED
  BY <1>1, HeldPush

-----------------------------------------------------------------------------
(***************************************************************************)
(* The pool, as the bus uses it.                                           *)
(***************************************************************************)
LEMMA BankGet ==
  ASSUME BankInv, getPacket
  PROVE  /\ BankInv' /\ s_initialized' = s_initialized /\ s_initialized
         /\ topPacket \in Packets \ leased
         /\ leased' = leased \union {topPacket}
  BY GetStep DEF getPacket, CanGet

LEMMA BankReturn ==
  ASSUME BankInv, NEW p \in leased, returnPacket(p)
  PROVE  BankInv' /\ s_initialized' = s_initialized /\ leased' = leased \ {p}
<1>1. s_initialized
  BY NothingBeforeInit DEF BankInv
<1>2. p \in Pointers
  BY <1>1 DEF Pointers, BankInv, BankTypeOK
<1>3. returnAccepts(p)
  BY <1>2, GuardExact
<1>4. QED
  BY <1>2, <1>3, ReturnStep DEF returnPacket

-----------------------------------------------------------------------------
(***************************************************************************)
(* Ownership: what a step does to the ring and to the stack.               *)
(***************************************************************************)
\* The same packets wait in the same slots.
SameWaiting == \A q \in Slots : s_queue'[q].p_pkt = s_queue[q].p_pkt

LEMMA SameRing ==
  ASSUME SameWaiting
  PROVE  Occupied' = Occupied /\ InRing' = InRing
<1>1. Slots' = Slots
  BY DEF Slots
<1>2. Occupied' = Occupied
  BY <1>1 DEF SameWaiting, Occupied
<1>3. QED
  BY <1>2 DEF SameWaiting, InRing, Occupied

LEMMA OwnKept ==
  ASSUME OwnInv, SameWaiting, OneHolder(stack'), UNCHANGED leased,
         Held(stack') = Held(stack)
  PROVE  OwnInv'
<1>1. Occupied' = Occupied /\ InRing' = InRing /\ Occupied \subseteq Slots
  BY SameRing DEF Occupied
<1>2. Held(stack)' = Held(stack') /\ OneHolder(stack)' = OneHolder(stack')
  BY DEF Held, Holders, OneHolder
<1>3. QED
  BY <1>1, <1>2 DEF OwnInv, SameWaiting

LEMMA OwnTaken ==
  ASSUME OwnInv, SameWaiting, OneHolder(stack'),
         NEW p, p \notin leased, leased' = leased \union {p},
         Held(stack') = Held(stack) \union {p}
  PROVE  OwnInv'
<1>1. Occupied' = Occupied /\ InRing' = InRing /\ Occupied \subseteq Slots
  BY SameRing DEF Occupied
<1>2. Held(stack)' = Held(stack') /\ OneHolder(stack)' = OneHolder(stack')
  BY DEF Held, Holders, OneHolder
<1>3. QED
  BY <1>1, <1>2 DEF OwnInv, SameWaiting

LEMMA OwnReturned ==
  ASSUME OwnInv, SameWaiting, OneHolder(stack'),
         NEW p \in Held(stack), leased' = leased \ {p},
         Held(stack') = Held(stack) \ {p}
  PROVE  OwnInv'
<1>1. Occupied' = Occupied /\ InRing' = InRing /\ Occupied \subseteq Slots
  BY SameRing DEF Occupied
<1>2. Held(stack)' = Held(stack') /\ OneHolder(stack)' = OneHolder(stack')
  BY DEF Held, Holders, OneHolder
<1>3. QED
  BY <1>1, <1>2 DEF OwnInv, SameWaiting
-----------------------------------------------------------------------------
(***************************************************************************)
(* The steps keep BusInv.                                                  *)
(***************************************************************************)
\* A call of the bus or of an application that moves no packet.
LEMMA CallsMove ==
  ASSUME NEW F, NEW W, BusInv(F, W),
         UNCHANGED <<bankVars, ringVars>>, BusTypes',
         stack' \in Seq(Frames(F, W)), OneHolder(stack'),
         Held(stack') = Held(stack),
         main' # "reset"
  PROVE  BusInv(F, W)'
<1>1. BankInv'
  BY StutterStep DEF BusInv
<1>2. OwnInv'
  BY OwnKept DEF BusInv, bankVars, ringVars, SameWaiting
<1>3. RingConsistent'
  BY DEF BusInv, RingConsistent, ringVars, Slots
<1>4. ResetInv'
  BY DEF ResetInv
<1>5. Frames(F, W)' = Frames(F, W)
  BY DEF Frames, Packets
<1>6. QED
  BY <1>1, <1>2, <1>3, <1>4, <1>5 DEF BusInv

LEMMA NobodyType == toNobody \in [Handlers -> 0 .. 2]
  BY DEF toNobody

\* getPacket, packetData and the call of publish.
LEMMA FillStep ==
  ASSUME NEW F, NEW W, Covers(F, W), BusInv(F, W),
         NEW apid \in SUBSET ApidBits,
         NEW rest \in Seq(Frames(F, W)), OneHolder(rest), Held(rest) = Held(stack),
         fillAndPublish(apid, rest),
         UNCHANGED <<logVars, busVars, main>>, s_logBusy' \in BOOLEAN
  PROVE  BusInv(F, W)'
<1>1. /\ BankInv' /\ topPacket \in Packets \ leased
      /\ leased' = leased \union {topPacket} /\ s_initialized
  BY BankGet DEF BusInv, fillAndPublish
<1>2. PublishFrame(topPacket) \in Frames(F, W) /\ Holds(PublishFrame(topPacket))
  BY <1>1, FramesPushed, NullIsNoPacket DEF Holds, PublishFrame, Frame, Owning
<1>3. PublishFrame(topPacket).pkt = topPacket /\ Sound(PublishFrame(topPacket))
  BY <1>1, NullIsNoPacket DEF PublishFrame, Frame, Sound
<1>4. topPacket \notin Held(rest) /\ topPacket # NULL
  BY <1>1, NullIsNoPacket DEF BusInv, OwnInv
<1>5. /\ stack' \in Seq(Frames(F, W))
      /\ Held(stack') = Held(stack) \union {topPacket}
      /\ OneHolder(stack')
  BY <1>2, <1>3, <1>4, HeldPush, PushProperties DEF fillAndPublish
<1>6. OwnInv'
  BY <1>1, <1>5, OwnTaken DEF BusInv, busVars, ringVars, SameWaiting
<1>7. RingConsistent'
  BY DEF BusInv, RingConsistent, busVars, ringVars, Slots
<1>8. ResetInv'
  BY <1>1 DEF BusInv, ResetInv
<1>9. BusTypes'
  <2>1. apidOf' \in [Packets -> SUBSET ApidBits]
    BY <1>1 DEF BusInv, BusTypes, fillAndPublish
  <2>2. dispatched' \in [Packets -> [Handlers -> 0 .. 2]]
    BY <1>1, NobodyType DEF BusInv, BusTypes, fillAndPublish
  <2>3. QED
    BY <2>1, <2>2
    DEF BusInv, BusTypes, busVars, ringVars, logVars, LogTypeOK, Slots, Packets,
        Handlers
<1>10. Frames(F, W)' = Frames(F, W)
  BY DEF Frames, Packets
<1>11. QED
  BY <1>1, <1>5, <1>6, <1>7, <1>8, <1>9, <1>10 DEF BusInv

\* SPP_SERVICES_LOG_emit: the line is published, or nothing happens.
LEMMA LogStep ==
  ASSUME NEW F, NEW W, Covers(F, W), BusInv(F, W), NEW level,
         NEW rest \in Seq(Frames(F, W)), OneHolder(rest), Held(rest) = Held(stack),
         logCall(level, rest),
         UNCHANGED <<logVars, busVars, main>>, main # "reset"
  PROVE  BusInv(F, W)'
<1>1. CASE logPasses(level)
  <2>1. LogFrame \in Frames(F, W) /\ ~Holds(LogFrame) /\ Sound(LogFrame)
    BY FramesPushed DEF LogFrame, Frame, Holds, Sound, Owning
  <2>2. /\ <<LogFrame>> \o rest \in Seq(Frames(F, W))
        /\ OneHolder(<<LogFrame>> \o rest)
        /\ Held(<<LogFrame>> \o rest) = Held(stack)
    BY <2>1, PushIdle
  <2>3. LogApid \in SUBSET ApidBits
    BY PubSubAssumption
  <2>4. fillAndPublish(LogApid, <<LogFrame>> \o rest) /\ s_logBusy' \in BOOLEAN
    BY <1>1 DEF logCall
  <2>5. QED
    BY <2>2, <2>3, <2>4, FillStep
<1>2. CASE ~logPasses(level)
  <2>1. stack' = rest /\ UNCHANGED <<bankVars, apidOf, dispatched, s_logBusy>>
    BY <1>2 DEF logCall
  <2>2. BusTypes'
    BY <2>1 DEF BusInv, BusTypes, busVars, ringVars, logVars, LogTypeOK, Slots,
       Packets, Handlers
  <2>3. QED
    BY <2>1, <2>2, CallsMove DEF busVars
<1>3. QED
  BY <1>1, <1>2
\* The counter of calls of a handler stays within its range.
LEMMA NoteType ==
  ASSUME BusTypes, NEW p \in Packets, NEW h \in Handlers, noteCall(p, h)
  PROVE  /\ dispatched' \in [Packets -> [Handlers -> 0 .. 2]]
         /\ dispatched' = [dispatched EXCEPT ![p][h] =
              IF dispatched[p][h] < 2 THEN dispatched[p][h] + 1 ELSE 2]
<1>1. dispatched[p][h] \in 0 .. 2 /\ dispatched \in [Packets -> [Handlers -> 0 .. 2]]
  BY DEF BusTypes
<1>2. dispatched[p][h] + 1 \in Int /\ 2 \in Int
  BY <1>1
<1>3. Min({dispatched[p][h] + 1, 2}) =
        IF dispatched[p][h] + 1 <= 2 THEN dispatched[p][h] + 1 ELSE 2
  BY <1>2, MinOfTwo
<1>4. dispatched' = [dispatched EXCEPT ![p][h] =
              IF dispatched[p][h] < 2 THEN dispatched[p][h] + 1 ELSE 2]
  <2> DEFINE n == Min({dispatched[p][h] + 1, 2})
  <2>1. dispatched' = [dispatched EXCEPT ![p][h] = n]
    BY DEF noteCall
  <2>2. n = IF dispatched[p][h] < 2 THEN dispatched[p][h] + 1 ELSE 2
    BY <1>1, <1>3
  <2> HIDE DEF n
  <2>3. QED
    BY <2>1, <2>2
<1>5. QED
  BY <1>1, <1>4

\* An entry of the table has a handler and a priority.
LEMMA EntryType ==
  ASSUME BusTypes, NEW j \in DOMAIN s_subs
  PROVE  /\ s_subs[j] \in Subscriptions /\ s_subs[j].handler \in Handlers
         /\ s_subs[j].prio \in 0 .. 3
<1>1. s_subs[j] \in Subscriptions
  BY DEF BusTypes
<1>2. QED
  BY <1>1, PubSubAssumption DEF Handlers

\* The entry publish goes on with.
LEMMA SyncLeftMin ==
  ASSUME BusTypes, NEW i \in Nat \ {0}, NEW p, SyncLeft(i, p) # {}
  PROVE  /\ Min(SyncLeft(i, p)) \in SyncLeft(i, p)
         /\ \A j \in SyncLeft(i, p) : Min(SyncLeft(i, p)) <= j
         /\ Min(SyncLeft(i, p)) \in DOMAIN s_subs
<1>1. Len(s_subs) \in Nat /\ DOMAIN s_subs = 1 .. Len(s_subs)
  BY DEF BusTypes
<1>2. SyncLeft(i, p) \subseteq Nat /\ SyncLeft(i, p) \subseteq DOMAIN s_subs
  BY <1>1 DEF SyncLeft
<1>3. QED
  BY <1>2, MinOfNats

\* The entry callConsumers goes on with.
LEMMA DeferredLeftMin ==
  ASSUME BusTypes, NEW i \in Nat \ {0}, NEW p, DeferredLeft(i, p) # {}
  PROVE  /\ Min(DeferredLeft(i, p)) \in DeferredLeft(i, p)
         /\ \A j \in DeferredLeft(i, p) : Min(DeferredLeft(i, p)) <= j
         /\ Min(DeferredLeft(i, p)) \in DOMAIN s_subs
<1>1. Len(s_subs) \in Nat /\ DOMAIN s_subs = 1 .. Len(s_subs)
  BY DEF BusTypes
<1>2. DeferredLeft(i, p) \subseteq Nat /\ DeferredLeft(i, p) \subseteq DOMAIN s_subs
  BY <1>1 DEF DeferredLeft
<1>3. QED
  BY <1>2, MinOfNats

\* A running publish works on a packet of its own.
LEMMA PublishRuns ==
  ASSUME NEW F, NEW W, BusInv(F, W), stack # <<>>,
         Top.fn \in {"publish", "dropping"}
  PROVE  /\ Top.pkt \in Packets \intersect leased /\ Top.pkt \in Held(stack)
         /\ Top.idx \in Nat \ {0} /\ Holds(Top)
         /\ OneHolder(Caller) /\ Held(Caller) = Held(stack) \ {Top.pkt}
<1>1. OneHolder(stack) /\ stack \in Seq(Frames(F, W)) /\ Held(stack) \subseteq leased
  BY DEF BusInv, OwnInv
<1>2. Top \in Frames(F, W) /\ Sound(Top) /\ OneHolder(Caller)
      /\ (Holds(Top) => Top.pkt \notin Held(Caller))
  BY <1>1, TopOfStack
<1>3. /\ Top.pkt \in Packets \union {NULL} /\ Top.idx \in Nat
      /\ Top.pkt # NULL /\ Top.idx # 0
  BY <1>2 DEF Frames, Sound
<1>4. Holds(Top)
  BY <1>3 DEF Holds, Owning
<1>5. Held(stack) = Held(Caller) \union {Top.pkt}
  BY <1>1, <1>4, TopOfStack
<1>6. QED
  BY <1>1, <1>2, <1>3, <1>4, <1>5

\* pubsub.c publish, part 1.
LEMMA PublishSyncStep ==
  ASSUME NEW F, NEW W, Covers(F, W), BusInv(F, W), publishSync
  PROVE  BusInv(F, W)'
<1> DEFINE p == Top.pkt
           j == Min(SyncLeft(Top.idx, p))
           h == s_subs[j].handler
           goOn == [Top EXCEPT !.idx = j + 1]
<1>1. stack # <<>> /\ Top.fn = "publish" /\ SyncLeft(Top.idx, p) # {}
  BY DEF publishSync, Running, Top
<1>2. p \in Packets /\ Top.idx \in Nat \ {0} /\ Holds(Top)
  BY <1>1, PublishRuns
<1>3. j \in DOMAIN s_subs /\ j \in Nat \ {0} /\ h \in Handlers
  <2>1. BusTypes
    BY DEF BusInv
  <2>2. j \in DOMAIN s_subs
    BY <1>1, <1>2, <2>1, SyncLeftMin
  <2>3. QED
    BY <2>1, <2>2, EntryType DEF BusTypes
<1>4. /\ Top \in Frames(F, W) /\ Caller \in Seq(Frames(F, W))
      /\ OneHolder(stack) /\ stack = <<Top>> \o Caller
  BY <1>1, TopOfStack DEF BusInv, OwnInv
<1>5. /\ goOn \in Frames(F, W) /\ Holds(goOn) /\ Sound(goOn)
      /\ goOn.pkt = p
  <2>1. j + 1 \in Nat \ {0}
    BY <1>3
  <2>2. goOn \in Frames(F, W) /\ goOn.pkt = p /\ goOn.fn = Top.fn /\ goOn.idx = j + 1
    BY <2>1, <1>4 DEF Frames
  <2>3. QED
    BY <2>1, <2>2, <1>1, <1>2, NullIsNoPacket DEF Holds, Sound
<1>6. /\ HandlerFrame(h, p) \in Frames(F, W) /\ ~Holds(HandlerFrame(h, p))
      /\ Sound(HandlerFrame(h, p))
  BY <1>2, <1>3, FramesPushed DEF HandlerFrame, Frame, Holds, Owning, Sound
<1>7. stack' = <<HandlerFrame(h, p)>> \o (<<goOn>> \o Caller)
  <2>1. stack' = <<HandlerFrame(h, p), goOn>> \o Caller
    BY DEF publishSync
  <2> DEFINE handler == HandlerFrame(h, p)
  <2> HIDE DEF goOn, handler
  <2>2. QED
    BY <2>1, <1>4, <1>5, <1>6, PushTwice DEF handler
<1> HIDE DEF goOn, h, j
<1>8. /\ <<goOn>> \o Caller \in Seq(Frames(F, W))
      /\ OneHolder(<<goOn>> \o Caller)
      /\ Held(<<goOn>> \o Caller) = Held(stack)
  <2>1. OneHolder(Caller) /\ p \notin Held(Caller) /\ Held(stack) = Held(Caller) \union {p}
    BY <1>1, PublishRuns
  <2>2. Held(<<goOn>> \o Caller) = Held(Caller) \union {p}
    BY <1>4, <1>5, HeldPush
  <2>3. OneHolder(<<goOn>> \o Caller)
    BY <1>4, <1>5, <2>1, HeldPush
  <2>4. QED
    BY <1>4, <1>5, <2>1, <2>2, <2>3, PushProperties
<1>9. /\ stack' \in Seq(Frames(F, W)) /\ OneHolder(stack')
      /\ Held(stack') = Held(stack)
  BY <1>6, <1>7, <1>8, PushIdle
<1>10. BusTypes'
  <2>1. dispatched' \in [Packets -> [Handlers -> 0 .. 2]]
    BY <1>2, <1>3, NoteType DEF BusInv, publishSync, h, j
  <2>2. QED
    BY <2>1 DEF publishSync, BusInv, BusTypes, busVars, ringVars, logVars,
       LogTypeOK, Slots, Packets, Handlers
<1>11. main' # "reset"
  BY <1>1 DEF publishSync, BusInv, ResetInv
<1>12. QED
  BY <1>9, <1>10, <1>11, CallsMove DEF publishSync, busVars
-----------------------------------------------------------------------------
(***************************************************************************)
(* The ring.                                                               *)
(***************************************************************************)
slotAt(h, k) == (h + k) % QueueSize

\* The k-th slot from the head, for k up to the size of the ring.
LEMMA SlotValue ==
  ASSUME NEW h \in Slots, NEW k \in 0 .. QueueSize
  PROVE  /\ slotAt(h, k) = IF h + k < QueueSize THEN h + k ELSE h + k - QueueSize
         /\ slotAt(h, k) \in Slots
<1>1. h \in 0 .. QueueSize - 1 /\ QueueSize \in Nat \ {0}
  BY QueueSizeType DEF Slots
<1> DEFINE n == h + k
<1>2. n \in 0 .. 2 * QueueSize - 1
  BY <1>1
<1>3. n % QueueSize = IF n < QueueSize THEN n ELSE n - QueueSize
  <2> HIDE DEF n
  <2>1. QED
    BY <1>1, <1>2, ModOnce
<1>4. QED
  BY <1>1, <1>3 DEF slotAt, Slots

LEMMA SlotsDiffer ==
  ASSUME BusTypes, NEW k \in 0 .. QueueSize - 1, NEW l \in 0 .. QueueSize - 1,
         slotAt(s_head, k) = slotAt(s_head, l)
  PROVE  k = l
<1>1. s_head \in Slots /\ s_head \in 0 .. QueueSize - 1 /\ QueueSize \in Nat \ {0}
  BY QueueSizeType DEF BusTypes, Slots
<1>2. k \in 0 .. QueueSize /\ l \in 0 .. QueueSize
  BY <1>1
<1>3. QED
  BY <1>1, <1>2, SlotValue

\* Masking steps to the next slot.
LEMMA NextSlotValue ==
  ASSUME NEW q \in Slots
  PROVE  /\ nextSlot(q) = IF q + 1 < QueueSize THEN q + 1 ELSE 0
         /\ nextSlot(q) \in Slots
<1> DEFINE n == q + 1
<1>1. n \in 0 .. 2 * QueueSize - 1 /\ QueueSize \in Nat \ {0}
  BY QueueSizeType DEF Slots
<1>2. n % QueueSize = IF n < QueueSize THEN n ELSE n - QueueSize
  <2> HIDE DEF n
  <2>1. QED
    BY <1>1, ModOnce
<1>3. QED
  BY <1>1, <1>2 DEF nextSlot, Slots

\* The slots that hold a packet are the s_qCount ones from the head on.
LEMMA RingSlots ==
  ASSUME BusTypes, RingConsistent
  PROVE  /\ s_tail = slotAt(s_head, s_qCount)
         /\ \A q \in Slots : q \in Occupied <=> \E k \in 0 .. s_qCount - 1 : q = slotAt(s_head, k)
         /\ \A k \in 0 .. s_qCount - 1 :
              slotAt(s_head, k) \in Occupied /\ s_queue[slotAt(s_head, k)].p_pkt \in Packets
<1>1. /\ s_tail = slotAt(s_head, s_qCount)
      /\ \A q \in Slots : q \in Occupied <=> \E k \in 0 .. s_qCount - 1 : q = slotAt(s_head, k)
  BY DEF RingConsistent, slotAt, Occupied
<1>2. ASSUME NEW k \in 0 .. s_qCount - 1
      PROVE  slotAt(s_head, k) \in Occupied /\ s_queue[slotAt(s_head, k)].p_pkt \in Packets
  <2>1. k \in 0 .. QueueSize
    BY QueueSizeType DEF BusTypes
  <2>2. slotAt(s_head, k) \in Slots
    BY <2>1, SlotValue DEF BusTypes
  <2>3. slotAt(s_head, k) \in Occupied
    BY <1>1, <2>2
  <2>4. QED
    BY <2>2, <2>3 DEF Occupied, BusTypes
<1>3. QED
  BY <1>1, <1>2

\* callConsumers never finds a NULL packet at the head of a ring in use.
LEMMA HeadTaken ==
  ASSUME BusTypes, RingConsistent, s_qCount > 0
  PROVE  s_head \in Occupied /\ headPacket \in Packets /\ slotAt(s_head, 0) = s_head
<1>1. /\ 0 \in 0 .. s_qCount - 1 /\ s_head \in Slots /\ 0 \in 0 .. QueueSize
      /\ s_head \in 0 .. QueueSize - 1
  BY QueueSizeType DEF BusTypes, Slots
<1>2. slotAt(s_head, 0) = s_head
  BY <1>1, SlotValue, QueueSizeType
<1>3. QED
  BY <1>1, <1>2, RingSlots DEF headPacket

\* publish never overwrites a waiting packet.
LEMMA TailFree ==
  ASSUME BusTypes, RingConsistent, ~ringFull
  PROVE  s_tail \in Slots \ Occupied /\ s_qCount \in 0 .. QueueSize - 1
<1>1. s_qCount \in 0 .. QueueSize - 1 /\ QueueSize \in Nat \ {0}
  BY QueueSizeType DEF BusTypes, ringFull
<1>2. \A k \in 0 .. s_qCount - 1 : slotAt(s_head, k) # slotAt(s_head, s_qCount)
  BY <1>1, SlotsDiffer
<1>3. QED
  BY <1>1, <1>2, RingSlots DEF BusTypes

\* Appending keeps the ring consistent.
LEMMA RingAppend ==
  ASSUME BusTypes, RingConsistent, ~ringFull, NEW p \in Packets,
         s_queue' = [s_queue EXCEPT ![s_tail] = [p_pkt |-> p, nextSubIdx |-> 1]],
         s_tail' = nextSlot(s_tail), s_qCount' = s_qCount + 1, UNCHANGED s_head
  PROVE  /\ RingConsistent'
         /\ Occupied' = Occupied \union {s_tail}
         /\ s_queue'[s_tail].p_pkt = p
         /\ \A q \in Slots \ {s_tail} : s_queue'[q] = s_queue[q]
<1>1. /\ s_tail \in Slots \ Occupied /\ s_qCount \in 0 .. QueueSize - 1
      /\ s_head \in Slots /\ s_head \in 0 .. QueueSize - 1
      /\ QueueSize \in Nat \ {0}
  BY TailFree, QueueSizeType DEF BusTypes, Slots
<1>2. /\ s_queue'[s_tail].p_pkt = p
      /\ \A q \in Slots \ {s_tail} : s_queue'[q] = s_queue[q]
  BY <1>1 DEF BusTypes
<1>3. Occupied' = Occupied \union {s_tail}
  <2>1. Slots' = Slots /\ p # NULL
    BY NullIsNoPacket DEF Slots
  <2>2. QED
    BY <1>1, <1>2, <2>1 DEF Occupied
<1>4. s_tail = slotAt(s_head, s_qCount)
  BY RingSlots
<1>5. s_tail' = slotAt(s_head, s_qCount')
  <2>1. s_tail = IF s_head + s_qCount < QueueSize THEN s_head + s_qCount
                                             ELSE s_head + s_qCount - QueueSize
    <3>1. s_qCount \in 0 .. QueueSize
      BY <1>1
    <3>2. QED
      BY <1>1, <1>4, <3>1, SlotValue
  <2>2. slotAt(s_head, s_qCount + 1) =
          IF s_head + (s_qCount + 1) < QueueSize THEN s_head + (s_qCount + 1)
                                          ELSE s_head + (s_qCount + 1) - QueueSize
    <3>1. s_qCount + 1 \in 0 .. QueueSize
      BY <1>1
    <3>2. QED
      BY <1>1, <3>1, SlotValue
  <2>3. s_tail' = IF s_tail + 1 < QueueSize THEN s_tail + 1 ELSE 0
    BY <1>1, NextSlotValue
  <2>4. QED
    BY <1>1, <2>1, <2>2, <2>3
<1>6. ASSUME NEW q \in Slots
      PROVE  q \in Occupied' <=> \E k \in 0 .. s_qCount' - 1 : q = slotAt(s_head, k)
  <2>1. q \in Occupied <=> \E k \in 0 .. s_qCount - 1 : q = slotAt(s_head, k)
    BY RingSlots
  <2>2. 0 .. s_qCount' - 1 = (0 .. s_qCount - 1) \union {s_qCount}
    BY <1>1
  <2>3. QED
    BY <1>3, <1>4, <2>1, <2>2
<1>7. QED
  BY <1>2, <1>3, <1>5, <1>6 DEF RingConsistent, slotAt, Occupied, Slots

\* Retiring the head keeps the ring consistent.
LEMMA RingRetire ==
  ASSUME BusTypes, RingConsistent, s_qCount > 0,
         s_queue' = [s_queue EXCEPT ![s_head].p_pkt = NULL],
         s_head' = nextSlot(s_head), s_qCount' = s_qCount - 1, UNCHANGED s_tail
  PROVE  /\ RingConsistent'
         /\ Occupied' = Occupied \ {s_head}
         /\ \A q \in Slots \ {s_head} : s_queue'[q] = s_queue[q]
         /\ \A k \in 0 .. s_qCount - 1 : slotAt(s_head', k) = slotAt(s_head, k + 1)
<1>1. /\ s_qCount \in 1 .. QueueSize /\ s_head \in Slots
      /\ s_head \in 0 .. QueueSize - 1 /\ QueueSize \in Nat \ {0}
  BY QueueSizeType DEF BusTypes, Slots
<1>2. /\ s_queue'[s_head].p_pkt = NULL
      /\ \A q \in Slots \ {s_head} : s_queue'[q] = s_queue[q]
  BY <1>1 DEF BusTypes
<1>3. Occupied' = Occupied \ {s_head}
  <2>1. Slots' = Slots
    BY DEF Slots
  <2>2. QED
    BY <1>1, <1>2, <2>1 DEF Occupied
<1>4. s_head' \in Slots /\ s_head' = IF s_head + 1 < QueueSize THEN s_head + 1 ELSE 0
  BY <1>1, NextSlotValue
<1>5. ASSUME NEW k \in 0 .. s_qCount - 1 PROVE slotAt(s_head', k) = slotAt(s_head, k + 1)
  <2>1. k \in 0 .. QueueSize
    BY <1>1
  <2>2. slotAt(s_head', k) = IF s_head' + k < QueueSize THEN s_head' + k
                                            ELSE s_head' + k - QueueSize
    BY <1>4, <2>1, SlotValue
  <2>3. slotAt(s_head, k + 1) = IF s_head + (k + 1) < QueueSize THEN s_head + (k + 1)
                                            ELSE s_head + (k + 1) - QueueSize
    BY <1>1, SlotValue
  <2>4. QED
    BY <1>1, <1>4, <2>2, <2>3
<1>6. s_tail' = slotAt(s_head', s_qCount')
  <2>1. s_qCount - 1 \in 0 .. s_qCount - 1 /\ (s_qCount - 1) + 1 = s_qCount
    BY <1>1
  <2>2. slotAt(s_head', s_qCount - 1) = slotAt(s_head, s_qCount)
    BY <2>1, <1>5
  <2>3. QED
    BY <2>2, RingSlots
<1>7. ASSUME NEW q \in Slots
      PROVE  q \in Occupied' <=> \E k \in 0 .. s_qCount' - 1 : q = slotAt(s_head', k)
  <2>1. q \in Occupied <=> \E k \in 0 .. s_qCount - 1 : q = slotAt(s_head, k)
    BY RingSlots
  <2>2. slotAt(s_head, 0) = s_head /\ \A k \in 1 .. s_qCount - 1 : slotAt(s_head, k) # s_head
    <3>1. slotAt(s_head, 0) = s_head
      BY <1>1, HeadTaken
    <3>2. \A k \in 1 .. s_qCount - 1 : slotAt(s_head, k) # slotAt(s_head, 0)
      BY <1>1, SlotsDiffer
    <3>3. QED
      BY <3>1, <3>2
  <2>3. ASSUME q \in Occupied' PROVE \E k \in 0 .. s_qCount' - 1 : q = slotAt(s_head', k)
    <3>1. PICK k \in 0 .. s_qCount - 1 : q = slotAt(s_head, k)
      BY <1>3, <2>1, <2>3
    <3>2. k # 0
      BY <1>3, <2>2, <2>3, <3>1
    <3>3. k - 1 \in 0 .. s_qCount' - 1 /\ k - 1 \in 0 .. s_qCount - 1 /\ (k - 1) + 1 = k
      BY <1>1, <3>2
    <3>4. slotAt(s_head', k - 1) = q
      BY <1>5, <3>1, <3>3
    <3>5. QED
      BY <3>3, <3>4
  <2>4. ASSUME NEW k \in 0 .. s_qCount' - 1, q = slotAt(s_head', k) PROVE q \in Occupied'
    <3>1. k \in 0 .. s_qCount - 1 /\ k + 1 \in 1 .. s_qCount - 1 /\ k + 1 \in 0 .. s_qCount - 1
      BY <1>1
    <3>2. q = slotAt(s_head, k + 1)
      BY <1>5, <2>4, <3>1
    <3>3. QED
      BY <1>3, <2>1, <2>2, <3>1, <3>2
  <2>5. QED
    BY <2>3, <2>4
<1>8. QED
  BY <1>2, <1>3, <1>5, <1>6, <1>7 DEF RingConsistent, slotAt, Occupied, Slots
-----------------------------------------------------------------------------
(***************************************************************************)
(* The other steps of the bus.                                             *)
(***************************************************************************)
\* publish's last act, with or without a subscriber: the packet goes back.
LEMMA GiveBack ==
  ASSUME NEW F, NEW W, BusInv(F, W), stack # <<>>, Holds(Top),
         returnPacket(Top.pkt), stack' = Caller,
         BusTypes', UNCHANGED <<ringVars, s_subs, busInitialized, main>>
  PROVE  BusInv(F, W)'
<1>1. /\ Caller \in Seq(Frames(F, W)) /\ OneHolder(Caller)
      /\ Held(stack) = Held(Caller) \union {Top.pkt} /\ Top.pkt \notin Held(Caller)
  BY TopOfStack DEF BusInv, OwnInv
<1>2. Top.pkt \in leased
  BY <1>1 DEF BusInv, OwnInv
<1>3. BankInv' /\ s_initialized' = s_initialized /\ leased' = leased \ {Top.pkt}
  BY <1>2, BankReturn DEF BusInv
<1>4. OwnInv'
  BY <1>1, <1>3, OwnReturned DEF BusInv, ringVars, SameWaiting
<1>5. RingConsistent'
  BY DEF BusInv, RingConsistent, ringVars, Slots
<1>6. ResetInv'
  BY DEF BusInv, ResetInv
<1>7. Frames(F, W)' = Frames(F, W)
  BY DEF Frames, Packets
<1>8. QED
  BY <1>1, <1>3, <1>4, <1>5, <1>6, <1>7 DEF BusInv

LEMMA PublishReturnStep ==
  ASSUME NEW F, NEW W, BusInv(F, W), publishReturn
  PROVE  BusInv(F, W)'
<1>1. stack # <<>> /\ Top.fn \in {"publish", "dropping"}
  BY DEF publishReturn, SyncDone, Running, Top
<1>2. Holds(Top)
  BY <1>1, PublishRuns
<1>3. BusTypes'
  BY DEF publishReturn, BusInv, BusTypes, busVars, ringVars, logVars, LogTypeOK,
     Slots, Packets, Handlers
<1>4. QED
  BY <1>1, <1>2, <1>3, GiveBack DEF publishReturn, busVars

LEMMA OverflowType ==
  ASSUME BusTypes, NEW apid \in SUBSET ApidBits, overflowIncrement(apid)
  PROVE  s_overflowCount' \in [ApidBits -> 0 .. CounterMax]
<1>1. CounterMax \in Nat
  BY PubSubAssumption
<1>2. \A b \in ApidBits : s_overflowCount[b] \in 0 .. CounterMax
  BY DEF BusTypes
<1>3. QED
  BY <1>1, <1>2 DEF overflowIncrement

LEMMA PublishDropStep ==
  ASSUME NEW F, NEW W, BusInv(F, W), publishDrop
  PROVE  BusInv(F, W)'
<1>1. stack # <<>> /\ Top.fn \in {"publish", "dropping"}
  BY DEF publishDrop, Running, Top
<1>2. Holds(Top) /\ Top.pkt \in Packets
  BY <1>1, PublishRuns
<1>3. BusTypes'
  <2>1. apidOf[Top.pkt] \in SUBSET ApidBits
    BY <1>2 DEF BusInv, BusTypes
  <2>2. s_overflowCount' \in [ApidBits -> 0 .. CounterMax]
    BY <2>1, OverflowType DEF BusInv, publishDrop
  <2>3. QED
    BY <2>2 DEF publishDrop, BusInv, BusTypes, ringVars, logVars, LogTypeOK,
       Slots, Packets, Handlers
<1>4. QED
  BY <1>1, <1>2, <1>3, GiveBack DEF publishDrop

LEMMA PublishFullStep ==
  ASSUME NEW F, NEW W, Covers(F, W), BusInv(F, W), publishFull
  PROVE  BusInv(F, W)'
<1> DEFINE full == [Top EXCEPT !.fn = "dropping"]
           rest == <<full>> \o Caller
<1>1. stack # <<>> /\ Top.fn \in {"publish", "dropping"}
  BY DEF publishFull, SyncDone, Running, Top
<1>2. /\ OneHolder(Caller) /\ Held(Caller) = Held(stack) \ {Top.pkt}
      /\ Holds(Top) /\ Top.pkt \in Packets /\ Top.idx \in Nat \ {0}
      /\ Top.pkt \in Held(stack)
  BY <1>1, PublishRuns
<1>3. Top \in Frames(F, W) /\ Caller \in Seq(Frames(F, W)) /\ "dropping" \in F
  BY <1>1, TopOfStack DEF BusInv, Covers, BusCalls
<1>4. /\ full \in Frames(F, W) /\ full.fn = "dropping" /\ full.pkt = Top.pkt
      /\ full.idx = Top.idx
  BY <1>3 DEF Frames
<1> HIDE DEF full
<1>5. Holds(full) /\ Sound(full)
  BY <1>2, <1>4, NullIsNoPacket DEF Holds, Owning, Sound
<1>6. rest \in Seq(Frames(F, W))
  BY <1>3, <1>4, PushProperties
<1>7. Held(rest) = Held(stack)
  <2>1. Held(rest) = Held(Caller) \union {Top.pkt}
    BY <1>3, <1>4, <1>5, HeldPush
  <2>2. QED
    BY <1>2, <2>1
<1>8. OneHolder(rest)
  BY <1>2, <1>3, <1>4, <1>5, HeldPush
<1>9. logCall(LogWARN, rest) /\ UNCHANGED <<logVars, busVars, main>>
  BY DEF publishFull, full
<1>10. main # "reset"
  BY <1>1 DEF BusInv, ResetInv
<1> HIDE DEF rest
<1>11. QED
  BY <1>6, <1>7, <1>8, <1>9, <1>10, LogStep

\* pubsub.c publish, part 3: the packet moves from the call to the ring.
LEMMA PublishEnqueueStep ==
  ASSUME NEW F, NEW W, BusInv(F, W), publishEnqueue
  PROVE  BusInv(F, W)'
<1> DEFINE p == Top.pkt
<1>1. stack # <<>> /\ Top.fn \in {"publish", "dropping"}
  BY DEF publishEnqueue, SyncDone, Running, Top
<1>2. /\ OneHolder(Caller) /\ Held(Caller) = Held(stack) \ {p}
      /\ p \in Packets /\ p \in Held(stack) /\ p \in leased
  BY <1>1, PublishRuns
<1>3. Caller \in Seq(Frames(F, W))
  BY <1>1, TopOfStack DEF BusInv
<1>4. /\ RingConsistent' /\ Occupied' = Occupied \union {s_tail}
      /\ s_queue'[s_tail].p_pkt = p
      /\ \A q \in Slots \ {s_tail} : s_queue'[q] = s_queue[q]
  BY <1>2, RingAppend DEF BusInv, publishEnqueue
<1>5. s_tail \in Slots \ Occupied /\ s_qCount \in 0 .. QueueSize - 1
  BY TailFree DEF BusInv, publishEnqueue
<1>6. InRing' = InRing \union {p}
  <2>1. \A q \in Occupied : q \in Slots \ {s_tail}
    BY <1>5 DEF Occupied
  <2>2. QED
    BY <1>4, <2>1 DEF InRing
<1>7. OwnInv'
  <2>1. leased' = leased /\ stack' = Caller
    BY DEF publishEnqueue, bankVars
  <2>2. Held(stack)' = Held(Caller) /\ OneHolder(stack)'
    BY <1>2, <2>1 DEF Held, Holders, OneHolder
  <2>3. \A q \in Occupied : q \in Slots \ {s_tail} /\ s_queue[q].p_pkt \in InRing
    BY <1>5 DEF Occupied, InRing
  <2>4. p \notin InRing
    BY <1>2 DEF BusInv, OwnInv
  <2>5. \A q, r \in Occupied' : s_queue'[q].p_pkt = s_queue'[r].p_pkt => q = r
    BY <1>4, <2>3, <2>4 DEF BusInv, OwnInv
  <2>6. leased' = InRing' \union Held(stack)' /\ InRing' \intersect Held(stack)' = {}
    BY <1>2, <1>6, <2>1, <2>2 DEF BusInv, OwnInv
  <2>7. QED
    BY <2>2, <2>5, <2>6 DEF OwnInv
<1>8. BusTypes'
  <2>1. s_queue' \in [Slots -> [p_pkt : Packets \union {NULL}, nextSubIdx : Nat \ {0}]]
    BY <1>2 DEF publishEnqueue, BusInv, BusTypes
  <2>2. s_tail' \in Slots /\ s_qCount' \in 0 .. QueueSize
    BY <1>5, NextSlotValue, QueueSizeType DEF publishEnqueue
  <2>3. QED
    BY <2>1, <2>2 DEF publishEnqueue, BusInv, BusTypes, logVars, LogTypeOK,
       Slots, Packets, Handlers
<1>9. BankInv'
  BY StutterStep DEF publishEnqueue, BusInv
<1>10. ResetInv'
  BY <1>1 DEF publishEnqueue, BusInv, ResetInv
<1>11. stack' \in Seq(Frames(F, W)')
  BY <1>3 DEF publishEnqueue, Frames, Packets
<1>12. QED
  BY <1>4, <1>7, <1>8, <1>9, <1>10, <1>11 DEF BusInv
LEMMA LogReturnStep ==
  ASSUME NEW F, NEW W, BusInv(F, W), logReturn
  PROVE  BusInv(F, W)'
<1>1. stack # <<>> /\ Top.fn = "log"
  BY DEF logReturn, Running, Top
<1>2. /\ Caller \in Seq(Frames(F, W)) /\ OneHolder(Caller)
      /\ Held(Caller) = Held(stack)
  BY <1>1, TopOfStack DEF BusInv, OwnInv, Holds, Owning
<1>3. BusTypes'
  BY DEF logReturn, BusInv, BusTypes, busVars, ringVars, logVars, LogTypeOK,
     Slots, Packets, Handlers
<1>4. QED
  BY <1>1, <1>2, <1>3, CallsMove DEF logReturn, busVars, BusInv, ResetInv

LEMMA HandlerReturnStep ==
  ASSUME NEW F, NEW W, BusInv(F, W), handlerReturn
  PROVE  BusInv(F, W)'
<1>1. stack # <<>> /\ Top.fn = "handler"
  BY DEF handlerReturn, Running, Top
<1>2. /\ Caller \in Seq(Frames(F, W)) /\ OneHolder(Caller)
      /\ Held(Caller) = Held(stack)
  BY <1>1, TopOfStack DEF BusInv, OwnInv, Holds, Owning
<1>3. BusTypes'
  BY DEF handlerReturn, BusInv, BusTypes, busVars, ringVars, logVars, LogTypeOK,
     Slots, Packets, Handlers
<1>4. QED
  BY <1>1, <1>2, <1>3, CallsMove DEF handlerReturn, busVars, BusInv, ResetInv

\* A handler about to make one of its calls.
LEMMA HandlerCall ==
  ASSUME NEW F, NEW W, BusInv(F, W), Running("handler"), Top.idx > 0
  PROVE  /\ oneCallLess \in Seq(Frames(F, W)) /\ OneHolder(oneCallLess)
         /\ Held(oneCallLess) = Held(stack)
         /\ main # "reset"
<1> DEFINE less == [Top EXCEPT !.idx = @ - 1]
<1>1. stack # <<>> /\ Top.fn = "handler"
  BY DEF Running, Top
<1>2. /\ Caller \in Seq(Frames(F, W)) /\ OneHolder(Caller) /\ Top \in Frames(F, W)
      /\ Held(Caller) = Held(stack)
  BY <1>1, TopOfStack DEF BusInv, OwnInv, Holds, Owning
<1>3. less \in Frames(F, W) /\ less.fn = "handler"
  <2>1. Top.idx - 1 \in Nat
    BY <1>2 DEF Frames
  <2>2. QED
    BY <2>1, <1>1, <1>2 DEF Frames
<1>4. oneCallLess = <<less>> \o Caller
  BY DEF oneCallLess
<1> HIDE DEF less
<1>5. ~Holds(less) /\ Sound(less)
  BY <1>3 DEF Holds, Owning, Sound
<1>6. QED
  BY <1>1, <1>2, <1>3, <1>4, <1>5, PushIdle DEF BusInv, ResetInv

LEMMA HandlerNextStep ==
  ASSUME NEW F, NEW W, Covers(F, W), BusInv(F, W), HandlerNext
  PROVE  BusInv(F, W)'
<1>1. ASSUME NEW level, handlerLog(level) PROVE BusInv(F, W)'
  BY <1>1, HandlerCall, LogStep DEF handlerLog
<1>2. ASSUME NEW apid \in Apids, handlerPublish(apid) PROVE BusInv(F, W)'
  <2>1. apid \in SUBSET ApidBits
    BY PubSubAssumption
  <2>2. s_logBusy' \in BOOLEAN
    BY <1>2 DEF handlerPublish, BusInv, BusTypes
  <2>3. QED
    BY <1>2, <2>1, <2>2, HandlerCall, FillStep DEF handlerPublish
<1>3. CASE handlerReturn
  BY <1>3, HandlerReturnStep
<1>4. QED
  BY <1>1, <1>2, <1>3 DEF HandlerNext

\* pubsub.c callConsumers: the next subscriber is called ...
LEMMA ConsumeCallStep ==
  ASSUME NEW F, NEW W, Covers(F, W), BusInv(F, W), consumeCall, main # "reset"
  PROVE  BusInv(F, W)'
<1> DEFINE j == Min(headLeft)
           h == s_subs[j].handler
           handler == HandlerFrame(h, headPacket)
           waits == Frame("consume", NULL, j, NULL)
<1>1. headPacket \in Packets /\ s_head \in Slots /\ BusTypes
  BY HeadTaken DEF consumeCall, BusInv, Occupied
<1>2. j \in DOMAIN s_subs /\ j \in Nat /\ h \in Handlers
  <2>1. s_queue[s_head].nextSubIdx \in Nat \ {0}
    BY <1>1 DEF BusTypes
  <2>2. j \in DOMAIN s_subs
    BY <1>1, <2>1, DeferredLeftMin DEF consumeCall, headLeft
  <2>3. QED
    BY <1>1, <2>2, EntryType DEF BusTypes
<1>3. handler \in Frames(F, W) /\ waits \in Frames(F, W)
  BY <1>1, <1>2, FramesPushed
<1>4. ~Holds(handler) /\ Sound(handler) /\ ~Holds(waits) /\ Sound(waits)
  BY DEF HandlerFrame, Frame, Holds, Owning, Sound
<1>5. stack' = <<handler, waits>> /\ noteCall(headPacket, h)
  BY DEF consumeCall
<1> HIDE DEF handler, waits
<1>6. stack' = <<handler>> \o (<<waits>> \o <<>>)
  BY <1>3, <1>5, PairIsPush
<1>7. stack = <<>> /\ <<>> \in Seq(Frames(F, W))
  BY DEF consumeCall
<1>8. /\ stack' \in Seq(Frames(F, W)) /\ OneHolder(stack')
      /\ Held(stack') = Held(stack)
  <2>1. /\ <<waits>> \o <<>> \in Seq(Frames(F, W)) /\ OneHolder(<<waits>> \o <<>>)
        /\ Held(<<waits>> \o <<>>) = {}
    BY <1>3, <1>4, <1>7, PushIdle, HeldEmpty
  <2>2. QED
    BY <2>1, <1>3, <1>4, <1>6, <1>7, PushIdle, HeldEmpty
<1>9. BusTypes'
  <2>1. dispatched' \in [Packets -> [Handlers -> 0 .. 2]]
    BY <1>1, <1>2, <1>5, NoteType
  <2>2. QED
    BY <2>1, <1>1 DEF consumeCall, BusTypes, busVars, ringVars, logVars,
       LogTypeOK, Slots, Packets, Handlers
<1>10. QED
  BY <1>8, <1>9, CallsMove DEF consumeCall, busVars

\* ... the progress is saved ...
LEMMA ConsumeReturnStep ==
  ASSUME NEW F, NEW W, BusInv(F, W), consumeReturn
  PROVE  BusInv(F, W)'
<1>1. stack # <<>> /\ Top.fn = "consume"
  BY DEF consumeReturn, Running, Top
<1>2. /\ Caller \in Seq(Frames(F, W)) /\ OneHolder(Caller) /\ Top \in Frames(F, W)
      /\ Held(Caller) = Held(stack)
  BY <1>1, TopOfStack DEF BusInv, OwnInv, Holds, Owning
<1>3. afterServed \in Nat \ {0} /\ s_head \in Slots
  BY <1>2 DEF Frames, afterServed, BusInv, BusTypes
<1>4. s_queue' \in [Slots -> [p_pkt : Packets \union {NULL}, nextSubIdx : Nat \ {0}]]
  BY <1>3 DEF consumeReturn, BusInv, BusTypes
<1>5. SameWaiting
  BY <1>3 DEF consumeReturn, BusInv, BusTypes, SameWaiting
<1>6. OwnInv'
  BY <1>2, <1>5, OwnKept DEF consumeReturn, BusInv, bankVars
<1>7. RingConsistent'
  BY <1>5 DEF consumeReturn, BusInv, RingConsistent, SameWaiting, Slots
<1>8. BusTypes'
  BY <1>4 DEF consumeReturn, BusInv, BusTypes, logVars, LogTypeOK, Slots,
     Packets, Handlers
<1>9. BankInv' /\ ResetInv'
  BY <1>1, StutterStep DEF consumeReturn, BusInv, ResetInv
<1>10. stack' \in Seq(Frames(F, W)')
  BY <1>2 DEF consumeReturn, Frames, Packets
<1>11. QED
  BY <1>6, <1>7, <1>8, <1>9, <1>10 DEF BusInv

\* ... or the packet is retired.
LEMMA ConsumeRetireStep ==
  ASSUME NEW F, NEW W, BusInv(F, W), consumeRetire
  PROVE  BusInv(F, W)'
<1>1. /\ s_head \in Occupied /\ s_head \in Slots /\ headPacket \in Packets
      /\ headPacket \in InRing /\ headPacket \in leased
  <2>1. s_head \in Occupied /\ headPacket \in Packets
    BY HeadTaken DEF consumeRetire, BusInv
  <2>2. QED
    BY <2>1 DEF Occupied, InRing, headPacket, BusInv, OwnInv
<1>2. BankInv' /\ s_initialized' = s_initialized /\ leased' = leased \ {headPacket}
  BY <1>1, BankReturn DEF consumeRetire, BusInv
<1>3. /\ RingConsistent' /\ Occupied' = Occupied \ {s_head}
      /\ \A q \in Slots \ {s_head} : s_queue'[q] = s_queue[q]
  BY RingRetire DEF consumeRetire, BusInv
<1>4. InRing' = InRing \ {headPacket}
  <2>1. \A q \in Occupied' : q \in Slots \ {s_head} /\ q \in Occupied
    BY <1>3 DEF Occupied
  <2>2. \A q \in Occupied' : s_queue'[q].p_pkt = s_queue[q].p_pkt
    BY <1>3, <2>1
  <2>3. \A q \in Occupied \ {s_head} : s_queue[q].p_pkt # headPacket
    BY <1>1 DEF BusInv, OwnInv, headPacket
  <2>4. InRing' = {s_queue[q].p_pkt : q \in Occupied'}
    BY <2>2 DEF InRing
  <2>5. QED
    BY <1>3, <2>3, <2>4 DEF InRing, headPacket
<1>5. OwnInv'
  <2>1. stack' = stack
    BY DEF consumeRetire
  <2>2. Held(stack)' = Held(stack) /\ OneHolder(stack)'
    BY <2>1 DEF BusInv, OwnInv, Held, Holders, OneHolder
  <2>3. \A q \in Occupied' : q \in Occupied /\ s_queue'[q].p_pkt = s_queue[q].p_pkt
    BY <1>3 DEF Occupied
  <2>4. \A q, r \in Occupied' : s_queue'[q].p_pkt = s_queue'[r].p_pkt => q = r
    BY <2>3 DEF BusInv, OwnInv
  <2>5. leased' = InRing' \union Held(stack)' /\ InRing' \intersect Held(stack)' = {}
    BY <1>1, <1>2, <1>4, <2>2 DEF BusInv, OwnInv
  <2>6. QED
    BY <2>2, <2>4, <2>5 DEF OwnInv
<1>6. BusTypes'
  <2>1. s_queue' \in [Slots -> [p_pkt : Packets \union {NULL}, nextSubIdx : Nat \ {0}]]
    BY DEF consumeRetire, BusInv, BusTypes
  <2>2. s_head' \in Slots /\ s_qCount' \in 0 .. QueueSize
    BY <1>1, NextSlotValue, QueueSizeType DEF consumeRetire, BusInv, BusTypes
  <2>3. QED
    BY <2>1, <2>2 DEF consumeRetire, BusInv, BusTypes, logVars, LogTypeOK,
       Slots, Packets, Handlers
<1>7. ResetInv'
  BY <1>1, NothingBeforeInit DEF consumeRetire, BusInv, BankInv, ResetInv
<1>8. stack' \in Seq(Frames(F, W)')
  BY DEF consumeRetire, BusInv, Frames, Packets
<1>9. QED
  BY <1>2, <1>3, <1>5, <1>6, <1>7, <1>8 DEF BusInv
LEMMA BusNextStep ==
  ASSUME NEW F, NEW W, Covers(F, W), BusInv(F, W), BusNext
  PROVE  BusInv(F, W)'
<1>1. CASE publishSync
  BY <1>1, PublishSyncStep
<1>2. CASE publishReturn
  BY <1>2, PublishReturnStep
<1>3. CASE publishEnqueue
  BY <1>3, PublishEnqueueStep
<1>4. CASE publishFull
  BY <1>4, PublishFullStep
<1>5. CASE publishDrop
  BY <1>5, PublishDropStep
<1>6. CASE consumeReturn
  BY <1>6, ConsumeReturnStep
<1>7. CASE logReturn
  BY <1>7, LogReturnStep
<1>8. QED
  BY <1>1, <1>2, <1>3, <1>4, <1>5, <1>6, <1>7 DEF BusNext

LEMMA BusStutter ==
  ASSUME NEW F, NEW W, BusInv(F, W), UNCHANGED vars
  PROVE  BusInv(F, W)'
<1>1. BankInv'
  BY StutterStep DEF BusInv, vars
<1>2. BusTypes'
  BY DEF vars, BusInv, BusTypes, busVars, ringVars, logVars, LogTypeOK, Slots,
     Packets, Handlers
<1>3. OwnInv'
  <2>1. stack' = stack /\ leased' = leased /\ SameWaiting
    BY DEF vars, busVars, ringVars, bankVars, SameWaiting
  <2>2. QED
    BY <2>1, OwnKept DEF BusInv, OwnInv
<1>4. RingConsistent' /\ ResetInv'
  BY DEF vars, BusInv, busVars, bankVars, ringVars, RingConsistent, ResetInv, Slots
<1>5. stack' \in Seq(Frames(F, W)')
  BY DEF vars, BusInv, Frames, Packets
<1>6. QED
  BY <1>1, <1>2, <1>3, <1>4, <1>5 DEF BusInv

LEMMA CallConsumersStep ==
  ASSUME NEW F, NEW W, Covers(F, W), BusInv(F, W), callConsumers, main # "reset"
  PROVE  BusInv(F, W)'
BY ConsumeCallStep, ConsumeRetireStep, BusStutter DEF callConsumers, consumeNothing

-----------------------------------------------------------------------------
(***************************************************************************)
(* The subscription table.                                                 *)
(***************************************************************************)
LEMMA InsertionPointType ==
  ASSUME BusTypes, NEW s \in Subscriptions
  PROVE  insertionPoint(s) \in 0 .. Len(s_subs)
<1>1. Len(s_subs) \in Nat /\ DOMAIN s_subs = 1 .. Len(s_subs)
  BY DEF BusTypes
<1> DEFINE before == {i \in DOMAIN s_subs : s_subs[i].prio <= s.prio}
<1>2. before \in SUBSET (1 .. Len(s_subs))
  BY <1>1
<1>3. IsFiniteSet(1 .. Len(s_subs)) /\ Cardinality(1 .. Len(s_subs)) = Len(s_subs)
  BY <1>1, CountUpTo
<1>4. IsFiniteSet(before) /\ Cardinality(before) <= Len(s_subs)
  BY <1>2, <1>3, FS_Subset
<1>5. Cardinality(before) \in Nat
  BY <1>4, FS_CardinalityType
<1>6. QED
  BY <1>1, <1>4, <1>5 DEF insertionPoint

LEMMA InsertType ==
  ASSUME BusTypes, NEW s \in Subscriptions
  PROVE  /\ insertSub(s) \in Seq(Subscriptions)
         /\ Len(insertSub(s)) = Len(s_subs) + 1
<1>1. Len(s_subs) \in Nat /\ \A i \in 1 .. Len(s_subs) : s_subs[i] \in Subscriptions
  BY DEF BusTypes
<1> DEFINE ins == insertionPoint(s)
<1>2. ins \in 0 .. Len(s_subs)
  BY InsertionPointType
<1> HIDE DEF ins
<1>3. insertSub(s) = [i \in 1 .. Len(s_subs) + 1 |->
        IF i <= ins THEN s_subs[i] ELSE IF i = ins + 1 THEN s ELSE s_subs[i - 1]]
  BY DEF insertSub, ins
<1>4. \A i \in 1 .. Len(s_subs) + 1 :
        (IF i <= ins THEN s_subs[i] ELSE IF i = ins + 1 THEN s ELSE s_subs[i - 1])
          \in Subscriptions
  BY <1>1, <1>2
<1>5. QED
  BY <1>1, <1>3, <1>4

\* pubsub.c subscribe, called once boot has been or without effect.
LEMMA SubscribeStep ==
  ASSUME NEW F, NEW W, Covers(F, W), BusInv(F, W), NEW s \in Subscriptions,
         NEW rest \in Seq(Frames(F, W)), OneHolder(rest), Held(rest) = Held(stack),
         subscribe(s, rest), main # "reset"
  PROVE  BusInv(F, W)'
<1>1. CASE busInitialized /\ tableFull
  <2>1. logCall(LogERROR, rest) /\ UNCHANGED <<logVars, busVars, main>>
    BY <1>1 DEF subscribe, busVars
  <2>2. QED
    BY <2>1, LogStep
<1>2. CASE ~ (busInitialized /\ tableFull)
  <2>1. /\ stack' = rest /\ UNCHANGED <<bankVars, apidOf, s_logBusy, dispatched>>
        /\ UNCHANGED <<logVars, busInitialized, ringVars, s_overflowCount, main>>
    BY <1>2 DEF subscribe
  <2>2. s_subs' \in Seq(Subscriptions) /\ Len(s_subs') <= MaxSubscribers
    <3>1. CASE busInitialized
      <4>1. s_subs' = insertSub(s) /\ Len(s_subs) < MaxSubscribers
        <5>1. Len(s_subs) \in Nat /\ MaxSubscribers \in Nat
          BY PubSubAssumption DEF BusInv, BusTypes
        <5>2. QED
          BY <1>2, <3>1, <5>1 DEF subscribe, tableFull
      <4>2. Len(s_subs) \in Nat /\ MaxSubscribers \in Nat
        BY PubSubAssumption DEF BusInv, BusTypes
      <4>3. QED
        BY <4>1, <4>2, InsertType DEF BusInv
    <3>2. CASE ~busInitialized
      BY <3>2 DEF subscribe, BusInv, BusTypes
    <3>3. QED
      BY <3>1, <3>2
  <2>3. BusTypes'
    BY <2>1, <2>2 DEF BusInv, BusTypes, ringVars, logVars, LogTypeOK, Slots,
       Packets, Handlers
  <2>4. QED
    BY <2>1, <2>3, CallsMove
<1>3. QED
  BY <1>1, <1>2

-----------------------------------------------------------------------------
(***************************************************************************)
(* Boot and the main line.                                                 *)
(***************************************************************************)
\* An empty ring.
LEMMA EmptyRing ==
  ASSUME s_queue = [q \in Slots |-> emptySlot], s_head = 0, s_tail = 0, s_qCount = 0
  PROVE  /\ RingConsistent /\ Occupied = {} /\ InRing = {}
         /\ s_queue \in [Slots -> [p_pkt : Packets \union {NULL}, nextSubIdx : Nat \ {0}]]
         /\ s_head \in Slots /\ s_tail \in Slots /\ s_qCount \in 0 .. QueueSize
<1>1. QueueSize \in Nat \ {0} /\ 0 \in Slots
  BY QueueSizeType DEF Slots
<1>2. 0 % QueueSize = 0
  BY <1>1, ModOnce
<1>3. \A q \in Slots : s_queue[q].p_pkt = NULL
  BY DEF emptySlot
<1>4. Occupied = {} /\ InRing = {}
  BY <1>3 DEF Occupied, InRing
<1>5. RingConsistent
  BY <1>1, <1>2, <1>3 DEF RingConsistent
<1>6. QED
  BY <1>1, <1>4, <1>5 DEF emptySlot

LEMMA BusInit ==
  ASSUME NEW F, NEW W, Init
  PROVE  BusInv(F, W)
<1>1. BankInv
  BY InitInv DEF Init
<1>2. RingConsistent /\ Occupied = {} /\ InRing = {}
  BY EmptyRing DEF Init
<1>3. OwnInv
  <2>1. leased = {} /\ stack = <<>>
    BY DEF Init, BankInit
  <2>2. QED
    BY <1>2, <2>1, HeldEmpty DEF OwnInv
<1>4. BusTypes
  <2>1. toNobody \in [Handlers -> 0 .. 2] /\ MaxSubscribers \in Nat /\ CounterMax \in Nat
    BY NobodyType, PubSubAssumption
  <2>2. s_subs \in Seq(Subscriptions) /\ Len(s_subs) <= MaxSubscribers
    BY <2>1 DEF Init
  <2>3. /\ s_overflowCount \in [ApidBits -> 0 .. CounterMax]
        /\ apidOf \in [Packets -> SUBSET ApidBits]
        /\ dispatched \in [Packets -> [Handlers -> 0 .. 2]]
    BY <2>1 DEF Init
  <2>4. /\ s_queue \in [Slots -> [p_pkt : Packets \union {NULL}, nextSubIdx : Nat \ {0}]]
        /\ s_head \in Slots /\ s_tail \in Slots /\ s_qCount \in 0 .. QueueSize
    BY EmptyRing DEF Init
  <2>5. QED
    BY <2>2, <2>3, <2>4 DEF Init, BusTypes, LogInit, LogTypeOK, LogVERBOSE
<1>5. ResetInv /\ stack \in Seq(Frames(F, W))
  BY DEF Init, BankInit, ResetInv
<1>6. QED
  BY <1>1, <1>2, <1>3, <1>4, <1>5 DEF BusInv

LEMMA BootStep ==
  ASSUME NEW F, NEW W, BusInv(F, W), boot
  PROVE  BusInv(F, W)'
<1>1. /\ main = "reset" /\ stack = <<>> /\ ~s_initialized
      /\ fillStack /\ pubsubInit
      /\ UNCHANGED <<apidOf, s_logBusy, stack, dispatched>>
      /\ s_level' = LogVERBOSE /\ s_outFn' = TRUE /\ main' = "setup"
  BY DEF boot, bootCalls, databankInit, BusInv, ResetInv
<1>2. BankInv'
  BY <1>1, InitStep DEF BusInv
<1>3. leased' = {}
  BY <1>1, NothingBeforeInit DEF BusInv, BankInv, fillStack
<1>4. (/\ RingConsistent /\ Occupied = {} /\ InRing = {}
       /\ s_queue \in [Slots -> [p_pkt : Packets \union {NULL}, nextSubIdx : Nat \ {0}]]
       /\ s_head \in Slots /\ s_tail \in Slots /\ s_qCount \in 0 .. QueueSize)'
  <2>1. (/\ s_queue = [q \in Slots |-> emptySlot] /\ s_head = 0 /\ s_tail = 0
         /\ s_qCount = 0)'
    BY <1>1 DEF pubsubInit, Slots, emptySlot
  <2>2. QED
    BY <2>1, EmptyRing, PTL
<1>5. OwnInv'
  <2>1. stack' = <<>>
    BY <1>1
  <2>2. Held(stack)' = {} /\ OneHolder(stack)'
    BY <2>1, HeldEmpty DEF Held, Holders, OneHolder
  <2>3. QED
    BY <1>3, <1>4, <2>2 DEF OwnInv
<1>6. BusTypes'
  <2>1. MaxSubscribers \in Nat /\ CounterMax \in Nat
    BY PubSubAssumption
  <2>2. s_subs' \in Seq(Subscriptions) /\ Len(s_subs') <= MaxSubscribers
    BY <1>1, <2>1 DEF pubsubInit
  <2>3. s_overflowCount' \in [ApidBits -> 0 .. CounterMax]
    BY <1>1, <2>1 DEF pubsubInit
  <2>4. QED
    BY <1>1, <1>4, <2>2, <2>3
    DEF BusInv, BusTypes, pubsubInit, LogTypeOK, LogVERBOSE, Packets, Handlers
<1>7. ResetInv' /\ stack' \in Seq(Frames(F, W)')
  BY <1>1 DEF ResetInv, BusInv, Frames, Packets
<1>8. QED
  BY <1>2, <1>4, <1>5, <1>6, <1>7 DEF BusInv

LEMMA EnterLoopStep ==
  ASSUME NEW F, NEW W, BusInv(F, W), enterLoop
  PROVE  BusInv(F, W)'
<1>1. BusTypes'
  BY DEF enterLoop, BusInv, BusTypes, busVars, ringVars, logVars, LogTypeOK,
     Slots, Packets, Handlers
<1>2. stack' = stack /\ main' # "reset"
  BY DEF enterLoop
<1>3. QED
  BY <1>1, <1>2, CallsMove DEF enterLoop, busVars, BusInv, OwnInv
LEMMA MainNextStep ==
  ASSUME NEW F, NEW W, Covers(F, W), BusInv(F, W), MainNext
  PROVE  BusInv(F, W)'
<1>1. CASE boot
  BY <1>1, BootStep
<1>2. CASE enterLoop
  BY <1>2, EnterLoopStep
<1>3. CASE mainSetLog
  <2>1. BusTypes'
    <3>1. LogTypeOK'
      BY <1>3, LevelsAssumption
      DEF mainSetLog, setLevel, setOutput, BusInv, BusTypes, LogTypeOK
    <3>2. QED
      BY <1>3, <3>1 DEF mainSetLog, BusInv, BusTypes, busVars, ringVars, Slots,
         Packets, Handlers
  <2>2. stack' = stack /\ main' # "reset"
    BY <1>3 DEF mainSetLog
  <2>3. QED
    BY <1>3, <2>1, <2>2, CallsMove DEF mainSetLog, busVars, BusInv, OwnInv
<1>4. ASSUME stack = <<>> PROVE <<>> \in Seq(Frames(F, W)) /\ OneHolder(<<>>)
                                /\ Held(<<>>) = Held(stack)
  BY <1>4, HeldEmpty
<1>5. ASSUME NEW level, mainLog(level) PROVE BusInv(F, W)'
  BY <1>4, <1>5, LogStep DEF mainLog
<1>6. ASSUME NEW apid \in Apids, mainPublish(apid) PROVE BusInv(F, W)'
  <2>1. apid \in SUBSET ApidBits
    BY PubSubAssumption
  <2>2. s_logBusy' \in BOOLEAN
    BY <1>6 DEF mainPublish, BusInv, BusTypes
  <2>3. QED
    BY <1>4, <1>6, <2>1, <2>2, FillStep DEF mainPublish
<1>7. ASSUME NEW s \in Subscriptions, mainSubscribe(s) PROVE BusInv(F, W)'
  <2>1. CASE main # "reset"
    BY <1>4, <1>7, <2>1, SubscribeStep DEF mainSubscribe
  <2>2. CASE main = "reset"
    <3>1. ~busInitialized /\ stack = <<>>
      BY <2>2 DEF BusInv, ResetInv
    <3>2. UNCHANGED vars
      BY <1>7, <3>1 DEF mainSubscribe, subscribe, vars, busVars
    <3>3. QED
      BY <3>2, BusStutter
  <2>3. QED
    BY <2>1, <2>2
<1>8. CASE mainConsume
  BY <1>8, CallConsumersStep DEF mainConsume
<1>9. QED
  BY <1>1, <1>2, <1>3, <1>5, <1>6, <1>7, <1>8 DEF MainNext

-----------------------------------------------------------------------------
(***************************************************************************)
(* PubSub itself: the calls are BusCalls, their owners are handlers.       *)
(***************************************************************************)
CoreInv == BusInv(BusCalls, Handlers \union {NULL})

LEMMA CoreNext == CoreInv /\ [Next]_vars => CoreInv'
<1> SUFFICES ASSUME CoreInv, [Next]_vars PROVE CoreInv'
  OBVIOUS
<1> DEFINE F == BusCalls
           W == Handlers \union {NULL}
<1>1. Covers(F, W)
  BY DEF Covers
<1>2. BusInv(F, W)
  BY DEF CoreInv
<1> HIDE DEF F, W
<1>3. BusInv(F, W)'
  BY <1>1, <1>2, MainNextStep, HandlerNextStep, BusNextStep, BusStutter DEF Next
<1>4. QED
  BY <1>3 DEF CoreInv, F, W

LEMMA CoreInvariant == Spec => []CoreInv
<1>1. Init => CoreInv
  BY BusInit DEF CoreInv
<1>2. QED
  BY <1>1, CoreNext, PTL DEF Spec

\* Every variable of the bus keeps its type: no index leaves the table or the
\* ring, no handler and no call but the five of the bus is ever on the stack.
THEOREM BusTyped == Spec => []TypeOK
<1>1. CoreInv => TypeOK
  <2> SUFFICES ASSUME CoreInv PROVE TypeOK
    OBVIOUS
  <2>1. BankTypeOK /\ BusTypes
    BY DEF CoreInv, BusInv, BankInv
  <2>2. stack \in Seq(FrameType)
    BY DEF CoreInv, BusInv, Frames, FrameType, BusCalls
  <2>3. s_queue \in [Slots -> [p_pkt : Packets \union {NULL}, nextSubIdx : Nat]]
    BY <2>1 DEF BusTypes
  <2>4. QED
    BY <2>1, <2>2, <2>3 DEF BusTypes, TypeOK
<1>2. QED
  BY <1>1, CoreInvariant, PTL

\* pubsub.c's head, tail and count agree, also across the wrap-around, for
\* every ring size: callConsumers finds a packet wherever it looks and
\* publish never overwrites one.
THEOREM RingSound == Spec => []RingConsistent
<1>1. CoreInv => RingConsistent
  BY DEF CoreInv, BusInv
<1>2. QED
  BY <1>1, CoreInvariant, PTL
-----------------------------------------------------------------------------
(***************************************************************************)
(* Counting the owners.                                                    *)
(***************************************************************************)
\* The queue of the abstract specification lists what waits in the ring.
LEMMA QueuedInRing ==
  ASSUME BusTypes, RingConsistent
  PROVE  /\ queuedPackets \in Seq(Packets) /\ Len(queuedPackets) = s_qCount
         /\ \A k \in 1 .. s_qCount :
              /\ queuedPackets[k] = s_queue[slotAt(s_head, k - 1)].p_pkt
              /\ slotAt(s_head, k - 1) \in Occupied
         /\ {queuedPackets[k] : k \in 1 .. s_qCount} = InRing
<1>1. s_qCount \in Nat /\ s_head \in Int
  BY QueueSizeType DEF BusTypes, Slots
<1>2. ASSUME NEW k \in 1 .. s_qCount
      PROVE  /\ queuedPackets[k] = s_queue[slotAt(s_head, k - 1)].p_pkt
             /\ slotAt(s_head, k - 1) \in Occupied /\ queuedPackets[k] \in Packets
  <2>1. k - 1 \in 0 .. s_qCount - 1 /\ s_head + k - 1 = s_head + (k - 1)
    BY <1>1
  <2>2. queuedPackets[k] = s_queue[slotAt(s_head, k - 1)].p_pkt
    BY <2>1 DEF queuedPackets, slotAt
  <2>3. QED
    BY <2>1, <2>2, RingSlots
<1>3. queuedPackets \in Seq(Packets) /\ Len(queuedPackets) = s_qCount
  <2>1. queuedPackets \in [1 .. s_qCount -> Packets]
    BY <1>2 DEF queuedPackets
  <2>2. QED
    BY <1>1, <2>1
<1>4. {queuedPackets[k] : k \in 1 .. s_qCount} \subseteq InRing
  BY <1>2 DEF InRing
<1>5. ASSUME NEW q \in Occupied
      PROVE  \E k \in 1 .. s_qCount : s_queue[q].p_pkt = queuedPackets[k]
  <2>1. PICK k \in 0 .. s_qCount - 1 : q = slotAt(s_head, k)
    BY RingSlots DEF Occupied
  <2>2. k + 1 \in 1 .. s_qCount /\ (k + 1) - 1 = k
    BY <1>1
  <2>3. QED
    BY <1>2, <2>1, <2>2
<1>6. {queuedPackets[k] : k \in 1 .. s_qCount} = InRing
  <2>1. \A p \in InRing : p \in {queuedPackets[k] : k \in 1 .. s_qCount}
    BY <1>5 DEF InRing
  <2>2. QED
    BY <1>4, <2>1
<1>7. QED
  BY <1>2, <1>3, <1>6

LEMMA RingCounted ==
  ASSUME BusTypes, RingConsistent, OwnInv
  PROVE  IsFiniteSet(InRing) /\ Cardinality(InRing) = s_qCount
<1> DEFINE f == [k \in 1 .. s_qCount |-> queuedPackets[k]]
<1>1. s_qCount \in Nat /\ s_qCount <= QueueSize /\ QueueSize \in Nat
  BY QueueSizeType DEF BusTypes
<1>2. f \in Surjection(1 .. s_qCount, InRing)
  <2>1. \A k \in 1 .. s_qCount : f[k] \in InRing
    BY QueuedInRing
  <2>2. \A p \in InRing : \E k \in 1 .. s_qCount : f[k] = p
    BY QueuedInRing
  <2>3. QED
    BY <2>1, <2>2 DEF Surjection
<1>3. ASSUME NEW k \in 1 .. s_qCount, NEW l \in 1 .. s_qCount, f[k] = f[l]
      PROVE  k = l
  <2>1. slotAt(s_head, k - 1) = slotAt(s_head, l - 1)
    BY <1>3, QueuedInRing DEF OwnInv
  <2>2. k - 1 \in 0 .. QueueSize - 1 /\ l - 1 \in 0 .. QueueSize - 1
    BY <1>1
  <2>3. k - 1 = l - 1
    BY <2>1, <2>2, SlotsDiffer
  <2>4. QED
    BY <2>3
<1>4. ExistsBijection(1 .. s_qCount, InRing)
  <2>1. f \in Injection(1 .. s_qCount, InRing)
    BY <1>2, <1>3 DEF Injection, IsInjective, Surjection
  <2>2. QED
    BY <1>2, <2>1 DEF ExistsBijection, Bijection
<1>5. IsFiniteSet(1 .. s_qCount) /\ Cardinality(1 .. s_qCount) = s_qCount
  BY <1>1, CountUpTo
<1>6. QED
  BY <1>4, <1>5, FS_Bijection

LEMMA HeldCounted ==
  ASSUME NEW S, NEW st \in Seq(S), OneHolder(st)
  PROVE  /\ IsFiniteSet(Holders(st)) /\ IsFiniteSet(Held(st))
         /\ Cardinality(Held(st)) = Cardinality(Holders(st))
<1> DEFINE f == [i \in Holders(st) |-> st[i].pkt]
<1>1. IsFiniteSet(Holders(st))
  <2>1. IsFiniteSet(1 .. Len(st)) /\ Holders(st) \in SUBSET (1 .. Len(st))
    <3>1. Len(st) \in Nat /\ DOMAIN st = 1 .. Len(st)
      OBVIOUS
    <3>2. QED
      BY <3>1, CountUpTo DEF Holders
  <2>2. QED
    BY <2>1, FS_Subset
<1>2. f \in Surjection(Holders(st), Held(st))
  BY DEF Surjection, Held
<1>3. f \in Injection(Holders(st), Held(st))
  <2>1. \A i, j \in Holders(st) : st[i].pkt = st[j].pkt => i = j
    BY DEF OneHolder
  <2>2. QED
    BY <2>1 DEF Injection, IsInjective, Held
<1>4. ExistsBijection(Holders(st), Held(st))
  BY <1>2, <1>3 DEF ExistsBijection, Bijection
<1>5. QED
  BY <1>1, <1>4, FS_Bijection

\* Each packet that is out of the pool has one place or one owner.
LEMMA Accounted ==
  ASSUME NEW F, NEW W, BusInv(F, W)
  PROVE  /\ leased = {queuedPackets[k] : k \in 1 .. s_qCount} \union Held(stack)
         /\ Cardinality(leased) = s_qCount + Cardinality(Holders(stack))
<1>1. BusTypes /\ RingConsistent /\ OwnInv /\ stack \in Seq(Frames(F, W))
  BY DEF BusInv
<1>2. {queuedPackets[k] : k \in 1 .. s_qCount} = InRing
  BY <1>1, QueuedInRing
<1>3. IsFiniteSet(InRing) /\ Cardinality(InRing) = s_qCount
  BY <1>1, RingCounted
<1>4. IsFiniteSet(Held(stack)) /\ Cardinality(Held(stack)) = Cardinality(Holders(stack))
  BY <1>1, HeldCounted DEF OwnInv
<1>5. leased = InRing \union Held(stack) /\ InRing \intersect Held(stack) = {}
  BY <1>1 DEF OwnInv
<1>6. Cardinality(InRing \intersect Held(stack)) = 0
  BY <1>5, FS_EmptySet
<1>7. Cardinality(leased) = s_qCount + Cardinality(Holders(stack)) - 0
  BY <1>3, <1>4, <1>5, <1>6, FS_Union
<1>8. Cardinality(Holders(stack)) \in Nat /\ s_qCount \in Nat
  BY <1>1, <1>3, <1>4, FS_CardinalityType
<1>9. QED
  BY <1>2, <1>5, <1>7, <1>8

\* In PubSub the owners are the publish calls.
LEMMA PublishersHold ==
  ASSUME CoreInv
  PROVE  Publishing = Holders(stack) /\ publishedPackets = Held(stack)
<1>1. ASSUME NEW i \in DOMAIN stack
      PROVE  stack[i].fn \in BusCalls /\ Sound(stack[i])
  <2>1. stack \in Seq(Frames(BusCalls, Handlers \union {NULL})) /\ OneHolder(stack)
    BY DEF CoreInv, BusInv, OwnInv
  <2>2. stack[i] \in Frames(BusCalls, Handlers \union {NULL})
    BY <2>1
  <2>3. QED
    BY <2>1, <2>2 DEF OneHolder, Frames
<1>2. Publishing = Holders(stack)
  BY <1>1 DEF Publishing, Holders, Holds, Owning, BusCalls, Sound
<1>3. QED
  BY <1>2 DEF publishedPackets, Held

\* For any pool, ring and depth of nesting: a packet that is out of the pool
\* is in the ring or in the hands of one publish call, in one place only.
\* publish and callConsumers leak no packet and give none back twice.
THEOREM EveryPacketOwnedOnce == Spec => []OwnedOnce
<1>1. CoreInv => OwnedOnce
  BY Accounted, PublishersHold DEF CoreInv, OwnedOnce
<1>2. QED
  BY <1>1, CoreInvariant, PTL
-----------------------------------------------------------------------------
(***************************************************************************)
(* The table stays sorted, and no handler is in it twice.                  *)
(***************************************************************************)
HandlersDiffer ==
  \A i, j \in DOMAIN s_subs : s_subs[i].handler = s_subs[j].handler => i = j

TableInv == SubsSorted /\ HandlersDiffer

\* The entries a new one goes behind are a prefix of a sorted table.
LEMMA InsertionPoint ==
  ASSUME BusTypes, SubsSorted, NEW s \in Subscriptions
  PROVE  /\ insertionPoint(s) \in 0 .. Len(s_subs)
         /\ \A i \in 1 .. Len(s_subs) :
              i <= insertionPoint(s) <=> s_subs[i].prio <= s.prio
<1> DEFINE before == {i \in DOMAIN s_subs : s_subs[i].prio <= s.prio}
<1>1. Len(s_subs) \in Nat /\ DOMAIN s_subs = 1 .. Len(s_subs)
  BY DEF BusTypes
<1>2. \A i \in DOMAIN s_subs : s_subs[i].prio \in Int
  BY EntryType
<1>3. s.prio \in Int
  BY PubSubAssumption
<1>4. before \in SUBSET (1 .. Len(s_subs))
  BY <1>1
<1>5. ASSUME NEW i \in before, NEW j \in 1 .. i PROVE j \in before
  <2>1. j \in DOMAIN s_subs /\ i \in DOMAIN s_subs /\ j <= i
    BY <1>1
  <2>2. s_subs[j].prio <= s_subs[i].prio
    BY <2>1 DEF SubsSorted
  <2>3. QED
    BY <1>2, <1>3, <2>1, <2>2
<1>6. Cardinality(before) \in 0 .. Len(s_subs) /\ before = 1 .. Cardinality(before)
  <2> HIDE DEF before
  <2>1. QED
    BY <1>1, <1>4, <1>5, DownClosed
<1>7. insertionPoint(s) = Cardinality(before)
  BY DEF insertionPoint
<1>8. \A i \in 1 .. Len(s_subs) : i <= Cardinality(before) <=> i \in before
  <2> HIDE DEF before
  <2>1. QED
    BY <1>1, <1>6
<1>9. QED
  BY <1>1, <1>6, <1>7, <1>8

\* What insertSub puts where.
LEMMA InsertedAt ==
  ASSUME BusTypes, NEW s \in Subscriptions
  PROVE  /\ \A i \in 1 .. insertionPoint(s) : insertSub(s)[i] = s_subs[i]
         /\ insertSub(s)[insertionPoint(s) + 1] = s
         /\ \A i \in insertionPoint(s) + 2 .. Len(s_subs) + 1 :
              insertSub(s)[i] = s_subs[i - 1]
         /\ DOMAIN insertSub(s) = 1 .. Len(s_subs) + 1
<1> DEFINE ins == insertionPoint(s)
<1>1. Len(s_subs) \in Nat /\ ins \in 0 .. Len(s_subs)
  BY InsertionPointType DEF BusTypes
<1> HIDE DEF ins
<1>2. insertSub(s) = [i \in 1 .. Len(s_subs) + 1 |->
        IF i <= ins THEN s_subs[i] ELSE IF i = ins + 1 THEN s ELSE s_subs[i - 1]]
  BY DEF insertSub, ins
<1>3. /\ \A i \in 1 .. ins : insertSub(s)[i] = s_subs[i]
      /\ insertSub(s)[ins + 1] = s
      /\ \A i \in ins + 2 .. Len(s_subs) + 1 : insertSub(s)[i] = s_subs[i - 1]
      /\ DOMAIN insertSub(s) = 1 .. Len(s_subs) + 1
  BY <1>1, <1>2
<1>4. QED
  BY <1>3 DEF ins

LEMMA TableInsert ==
  ASSUME BusTypes, TableInv, NEW s \in Subscriptions, s.handler \notin subscribed,
         s_subs' = insertSub(s)
  PROVE  TableInv'
<1> DEFINE ins == insertionPoint(s)
           n == Len(s_subs)
           new == insertSub(s)
<1>1. n \in Nat /\ DOMAIN s_subs = 1 .. n
  BY DEF BusTypes
<1>2. /\ ins \in 0 .. n
      /\ \A i \in 1 .. n : i <= ins <=> s_subs[i].prio <= s.prio
  BY InsertionPoint DEF TableInv
<1>3. /\ \A i \in 1 .. ins : new[i] = s_subs[i]
      /\ new[ins + 1] = s
      /\ \A i \in ins + 2 .. n + 1 : new[i] = s_subs[i - 1]
      /\ DOMAIN new = 1 .. n + 1
  BY InsertedAt
<1>4. s.prio \in Int /\ \A i \in 1 .. n : s_subs[i].prio \in Int
  BY <1>1, EntryType, PubSubAssumption
<1>5. /\ \A i, j \in 1 .. n : i <= j => s_subs[i].prio <= s_subs[j].prio
      /\ \A i, j \in 1 .. n : s_subs[i].handler = s_subs[j].handler => i = j
      /\ \A i \in 1 .. n : s_subs[i].handler # s.handler
  BY <1>1 DEF TableInv, SubsSorted, HandlersDiffer, subscribed
<1> HIDE DEF ins, n, new
<1>6. ASSUME NEW i \in 1 .. n + 1, NEW j \in 1 .. n + 1, i <= j
      PROVE  new[i].prio <= new[j].prio
  <2>1. CASE j <= ins
    BY <2>1, <1>1, <1>2, <1>3, <1>5, <1>6
  <2>2. CASE j = ins + 1
    <3>1. CASE i = j
      BY <2>2, <3>1, <1>3, <1>4
    <3>2. CASE i # j
      BY <2>2, <3>2, <1>1, <1>2, <1>3, <1>6
    <3>3. QED
      BY <3>1, <3>2
  <2>3. CASE j > ins + 1
    <3>0. j - 1 \in 1 .. n /\ ~ (j - 1 <= ins) /\ new[j] = s_subs[j - 1]
      BY <2>3, <1>1, <1>2, <1>3
    <3>1. CASE i <= ins
      <4>1. i \in 1 .. n /\ i <= j - 1 /\ new[i] = s_subs[i]
        BY <3>0, <3>1, <2>3, <1>1, <1>2, <1>3
      <4>2. QED
        BY <4>1, <3>0, <1>5
    <3>2. CASE i = ins + 1
      BY <3>0, <3>2, <1>2, <1>3, <1>4
    <3>3. CASE i > ins + 1
      <4>1. i - 1 \in 1 .. n /\ i - 1 <= j - 1 /\ new[i] = s_subs[i - 1]
        BY <3>3, <1>1, <1>2, <1>3, <1>6
      <4>2. QED
        BY <4>1, <3>0, <1>5
    <3>4. QED
      BY <3>1, <3>2, <3>3, <1>1, <1>2
  <2>4. QED
    BY <2>1, <2>2, <2>3, <1>1, <1>2
<1>7. ASSUME NEW i \in 1 .. n + 1, NEW j \in 1 .. n + 1, i < j
      PROVE  new[i].handler # new[j].handler
  <2>1. CASE j <= ins
    BY <2>1, <1>1, <1>2, <1>3, <1>5, <1>7
  <2>2. CASE j = ins + 1
    BY <2>2, <1>1, <1>2, <1>3, <1>5, <1>7
  <2>3. CASE j > ins + 1
    <3>0. j - 1 \in 1 .. n /\ new[j] = s_subs[j - 1]
      BY <2>3, <1>1, <1>2, <1>3
    <3>1. CASE i <= ins
      <4>1. i \in 1 .. n /\ i # j - 1 /\ new[i] = s_subs[i]
        BY <3>0, <3>1, <2>3, <1>1, <1>2, <1>3
      <4>2. QED
        BY <4>1, <3>0, <1>5
    <3>2. CASE i = ins + 1
      BY <3>0, <3>2, <1>3, <1>5
    <3>3. CASE i > ins + 1
      <4>1. i - 1 \in 1 .. n /\ i - 1 # j - 1 /\ new[i] = s_subs[i - 1]
        BY <3>3, <1>1, <1>2, <1>3, <1>7
      <4>2. QED
        BY <4>1, <3>0, <1>5
    <3>4. QED
      BY <3>1, <3>2, <3>3, <1>1, <1>2
  <2>4. QED
    BY <2>1, <2>2, <2>3, <1>1, <1>2
<1>8. s_subs' = new
  BY DEF new
<1>9. SubsSorted'
  BY <1>3, <1>6, <1>8 DEF SubsSorted
<1>10. HandlersDiffer'
  <2>1. \A i, j \in 1 .. n + 1 : i = j \/ i < j \/ j < i
    BY <1>1
  <2>2. QED
    BY <2>1, <1>3, <1>7, <1>8 DEF HandlersDiffer
<1>11. QED
  BY <1>9, <1>10 DEF TableInv

\* The table changes when boot clears it or when subscribe inserts.
LEMMA TableStep ==
  ASSUME CoreInv, [Next]_vars
  PROVE  \/ UNCHANGED s_subs
         \/ boot /\ s_subs' = <<>>
         \/ \E s \in Subscriptions :
              /\ mainSubscribe(s) /\ main # "reset"
              /\ s.handler \notin subscribed /\ s_subs' = insertSub(s)
<1> USE DEF busVars
<1>1. ASSUME MainNext PROVE \/ UNCHANGED s_subs
                            \/ boot /\ s_subs' = <<>>
                            \/ \E s \in Subscriptions : mainSubscribe(s)
  BY <1>1 DEF MainNext, boot, bootCalls, pubsubInit, enterLoop, mainSetLog, mainLog,
     mainPublish, mainConsume, callConsumers, consumeCall, consumeRetire,
     consumeNothing, vars
<1>2. ASSUME HandlerNext PROVE UNCHANGED s_subs
  BY <1>2 DEF HandlerNext, handlerLog, handlerPublish, handlerReturn
<1>3. ASSUME BusNext PROVE UNCHANGED s_subs
  BY <1>3 DEF BusNext, publishSync, publishReturn, publishEnqueue, publishFull,
     publishDrop, consumeReturn, logReturn
<1>4. ASSUME NEW s \in Subscriptions, mainSubscribe(s), s_subs' # s_subs
      PROVE  /\ main # "reset" /\ s.handler \notin subscribed
             /\ s_subs' = insertSub(s)
  BY <1>4 DEF mainSubscribe, subscribe, CoreInv, BusInv, ResetInv
<1>5. QED
  BY <1>1, <1>2, <1>3, <1>4 DEF Next, vars

LEMMA TableInvariant == Spec => []TableInv
<1>1. Init => TableInv
  <2>1. ASSUME Init PROVE DOMAIN s_subs = {}
    BY <2>1 DEF Init
  <2>2. QED
    BY <2>1 DEF TableInv, SubsSorted, HandlersDiffer
<1>2. CoreInv /\ TableInv /\ [Next]_vars => TableInv'
  <2> SUFFICES ASSUME CoreInv, TableInv, [Next]_vars PROVE TableInv'
    OBVIOUS
  <2>1. CASE UNCHANGED s_subs
    BY <2>1 DEF TableInv, SubsSorted, HandlersDiffer
  <2>2. CASE s_subs' = <<>>
    <3>1. DOMAIN s_subs' = {}
      BY <2>2
    <3>2. QED
      BY <3>1 DEF TableInv, SubsSorted, HandlersDiffer
  <2>3. ASSUME NEW s \in Subscriptions, s.handler \notin subscribed,
               s_subs' = insertSub(s)
        PROVE  TableInv'
    BY <2>3, TableInsert DEF CoreInv, BusInv
  <2>4. QED
    BY <2>1, <2>2, <2>3, TableStep
<1>3. QED
  BY <1>1, <1>2, CoreInvariant, PTL DEF Spec

\* The insertion of subscribe keeps the table sorted by priority, whatever
\* the order of the subscriptions: publish's early break skips no SYNC entry.
THEOREM TableSorted == Spec => []SubsSorted
<1>1. TableInv => SubsSorted
  BY DEF TableInv
<1>2. QED
  BY <1>1, TableInvariant, PTL
=============================================================================
