--------------------------- MODULE DispatchProofs ---------------------------
(***************************************************************************)
(* Proofs about PubSub for every pool, ring and table size, every set of   *)
(* subscriptions and every depth of nested calls: how the calls nest, who  *)
(* has been called for a packet, and that the bus implements Delivery.     *)
(***************************************************************************)
EXTENDS PubSubProofs

Calls == Frames(BusCalls, Handlers \union {NULL})

-----------------------------------------------------------------------------
(***************************************************************************)
(* How the calls nest, for the packet "first" at the head of a ring of     *)
(* "count" packets: a handler runs inside the publish call of its packet   *)
(* or inside callConsumers, which only the main line calls; a publish call *)
(* that is dropping its packet has found a full ring, and it stays full.   *)
(***************************************************************************)
NestedOn(f, rest, first, count, mode) ==
  /\ f.fn = "handler" =>
       /\ rest # <<>>
       /\ \/ rest[1].fn = "publish" /\ rest[1].pkt = f.pkt
          \/ rest[1].fn = "consume" /\ f.pkt = first
  /\ f.fn = "consume" => rest = <<>> /\ count > 0 /\ mode = "loop"
  /\ f.fn = "dropping" => count = QueueSize

Nested(st, first, count, mode) ==
  \A i \in DOMAIN st :
    /\ st[i].fn = "handler" =>
         /\ i + 1 \in DOMAIN st
         /\ \/ st[i + 1].fn = "publish" /\ st[i + 1].pkt = st[i].pkt
            \/ st[i + 1].fn = "consume" /\ st[i].pkt = first
    /\ st[i].fn = "consume" => i = Len(st) /\ count > 0 /\ mode = "loop"
    /\ st[i].fn = "dropping" => count = QueueSize

\* At most one log line is on its way, and s_logBusy says whether one is.
Logging(st) == {i \in DOMAIN st : st[i].fn = "log"}

OneLog(st) == \A i, j \in Logging(st) : i = j

Guarded(st, busy) == OneLog(st) /\ (busy <=> Logging(st) # {})

NestInv ==
  /\ Nested(stack, headPacket, s_qCount, main)
  /\ Guarded(stack, s_logBusy)

LEMMA NestedPush ==
  ASSUME NEW S, NEW rest \in Seq(S), NEW f \in S,
         NEW first, NEW count, NEW mode
  PROVE  Nested(<<f>> \o rest, first, count, mode) <=>
           /\ Nested(rest, first, count, mode)
           /\ NestedOn(f, rest, first, count, mode)
<1> DEFINE t == <<f>> \o rest
<1>1. /\ t \in Seq(S) /\ Len(t) = Len(rest) + 1
      /\ DOMAIN t = 1 .. Len(rest) + 1 /\ t[1] = f
      /\ \A i \in 1 .. Len(rest) : t[i + 1] = rest[i]
      /\ \A i \in 2 .. Len(rest) + 1 : t[i] = rest[i - 1]
  BY PushProperties
<1>2. Len(rest) \in Nat /\ DOMAIN rest = 1 .. Len(rest)
  BY LenProperties
<1>3. rest # <<>> <=> 1 \in DOMAIN rest
  BY <1>2
<1> HIDE DEF t
<1>4. ASSUME Nested(t, first, count, mode)
      PROVE  Nested(rest, first, count, mode) /\ NestedOn(f, rest, first, count, mode)
  <2>1. ASSUME NEW i \in DOMAIN rest
        PROVE  /\ rest[i].fn = "handler" =>
                    /\ i + 1 \in DOMAIN rest
                    /\ \/ rest[i + 1].fn = "publish" /\ rest[i + 1].pkt = rest[i].pkt
                       \/ rest[i + 1].fn = "consume" /\ rest[i].pkt = first
               /\ rest[i].fn = "consume" => i = Len(rest) /\ count > 0 /\ mode = "loop"
               /\ rest[i].fn = "dropping" => count = QueueSize
    <3>1. i + 1 \in DOMAIN t /\ t[i + 1] = rest[i] /\ i \in Nat
      BY <1>1, <1>2
    <3>2. i + 1 + 1 \in DOMAIN t => i + 1 \in DOMAIN rest /\ t[i + 1 + 1] = rest[i + 1]
      BY <1>1, <1>2, <3>1
    <3>3. i + 1 = Len(t) => i = Len(rest)
      BY <1>1, <1>2, <3>1
    <3>4. QED
      BY <1>4, <3>1, <3>2, <3>3 DEF Nested
  <2>2. NestedOn(f, rest, first, count, mode)
    <3>1. 1 \in DOMAIN t /\ t[1] = f
      BY <1>1, <1>2
    <3>2. 1 + 1 \in DOMAIN t => rest # <<>> /\ t[1 + 1] = rest[1]
      BY <1>1, <1>2, <1>3
    <3>3. 1 = Len(t) => rest = <<>>
      BY <1>1, <1>2, <1>3
    <3>4. QED
      BY <1>4, <3>1, <3>2, <3>3 DEF Nested, NestedOn
  <2>3. QED
    BY <2>1, <2>2 DEF Nested
<1>5. ASSUME Nested(rest, first, count, mode), NestedOn(f, rest, first, count, mode)
      PROVE  Nested(t, first, count, mode)
  <2>1. ASSUME NEW i \in DOMAIN t
        PROVE  /\ t[i].fn = "handler" =>
                    /\ i + 1 \in DOMAIN t
                    /\ \/ t[i + 1].fn = "publish" /\ t[i + 1].pkt = t[i].pkt
                       \/ t[i + 1].fn = "consume" /\ t[i].pkt = first
               /\ t[i].fn = "consume" => i = Len(t) /\ count > 0 /\ mode = "loop"
               /\ t[i].fn = "dropping" => count = QueueSize
    <3>1. CASE i = 1
      <4>1. rest # <<>> => 1 + 1 \in DOMAIN t /\ t[1 + 1] = rest[1]
        BY <1>1, <1>2, <1>3
      <4>2. rest = <<>> => Len(t) = 1
        BY <1>1
      <4>3. QED
        BY <1>1, <1>5, <3>1, <4>1, <4>2 DEF NestedOn
    <3>2. CASE i # 1
      <4>1. i - 1 \in DOMAIN rest /\ t[i] = rest[i - 1] /\ i \in Nat
        BY <1>1, <1>2, <3>2
      <4>2. i - 1 + 1 \in DOMAIN rest => i + 1 \in DOMAIN t /\ t[i + 1] = rest[i - 1 + 1]
        BY <1>1, <1>2, <4>1
      <4>3. i - 1 = Len(rest) => i = Len(t)
        BY <1>1, <1>2, <4>1
      <4>4. QED
        BY <1>5, <4>1, <4>2, <4>3 DEF Nested
    <3>3. QED
      BY <3>1, <3>2
  <2>2. QED
    BY <2>1 DEF Nested
<1>6. QED
  BY <1>4, <1>5 DEF t

LEMMA LoggingPush ==
  ASSUME NEW S, NEW rest \in Seq(S), NEW f \in S
  PROVE  /\ Logging(<<f>> \o rest) # {} <=> f.fn = "log" \/ Logging(rest) # {}
         /\ OneLog(<<f>> \o rest) <=>
              /\ OneLog(rest)
              /\ f.fn = "log" => Logging(rest) = {}
<1> DEFINE t == <<f>> \o rest
<1>1. /\ DOMAIN t = 1 .. Len(rest) + 1 /\ t[1] = f
      /\ \A i \in 1 .. Len(rest) : t[i + 1] = rest[i]
      /\ \A i \in 2 .. Len(rest) + 1 : t[i] = rest[i - 1]
  BY PushProperties
<1>2. Len(rest) \in Nat /\ DOMAIN rest = 1 .. Len(rest)
  BY LenProperties
<1> HIDE DEF t
<1>3. \A i \in Logging(rest) : i + 1 \in Logging(t) /\ i \in Nat
  BY <1>1, <1>2 DEF Logging
<1>4. \A i \in Logging(t) : i = 1 \/ (i - 1 \in Logging(rest) /\ i \in Nat)
  BY <1>1, <1>2 DEF Logging
<1>5. 1 \in Logging(t) <=> f.fn = "log"
  BY <1>1, <1>2 DEF Logging
<1>6. CASE f.fn # "log"
  <2>1. Logging(t) # {} <=> Logging(rest) # {}
    BY <1>3, <1>4, <1>5, <1>6
  <2>2. (\A i, j \in Logging(rest) : i = j) => \A i, j \in Logging(t) : i = j
    <3>1. ASSUME \A i, j \in Logging(rest) : i = j,
                 NEW i \in Logging(t), NEW j \in Logging(t)
          PROVE  i = j
      <4>1. i - 1 \in Logging(rest) /\ j - 1 \in Logging(rest) /\ i \in Nat /\ j \in Nat
        BY <1>4, <1>5, <1>6, <3>1
      <4>2. i - 1 = j - 1
        BY <3>1, <4>1
      <4>3. QED
        BY <4>1, <4>2
    <3>2. QED
      BY <3>1
  <2>3. (\A i, j \in Logging(t) : i = j) => \A i, j \in Logging(rest) : i = j
    <3>1. ASSUME \A i, j \in Logging(t) : i = j,
                 NEW i \in Logging(rest), NEW j \in Logging(rest)
          PROVE  i = j
      <4>1. i + 1 \in Logging(t) /\ j + 1 \in Logging(t) /\ i \in Nat /\ j \in Nat
        BY <1>3
      <4>2. i + 1 = j + 1
        BY <3>1, <4>1
      <4>3. QED
        BY <4>1, <4>2
    <3>2. QED
      BY <3>1
  <2>4. QED
    BY <1>6, <2>1, <2>2, <2>3 DEF OneLog, t
<1>7. CASE f.fn = "log"
  <2>1. 1 \in Logging(t)
    BY <1>5, <1>7
  <2>2. \A i \in Logging(rest) : i + 1 # 1 /\ i + 1 \in Logging(t)
    BY <1>2, <1>3 DEF Logging
  <2>3. (\A i, j \in Logging(t) : i = j) <=> Logging(rest) = {}
    BY <1>4, <2>1, <2>2
  <2>4. QED
    BY <1>7, <2>1, <2>3 DEF OneLog, t
<1>8. QED
  BY <1>6, <1>7
\* A log line or a call of publish may be on top of any calls.
LEMMA NestInvPush ==
  ASSUME NEW rest \in Seq(Calls), NEW f \in Calls, NEW busy \in BOOLEAN,
         NEW first, NEW count, NEW mode, f.fn # "log"
  PROVE  /\ Nested(<<f>> \o rest, first, count, mode) <=>
              Nested(rest, first, count, mode) /\ NestedOn(f, rest, first, count, mode)
         /\ Guarded(<<f>> \o rest, busy) <=> Guarded(rest, busy)
<1>1. Nested(<<f>> \o rest, first, count, mode) <=>
        Nested(rest, first, count, mode) /\ NestedOn(f, rest, first, count, mode)
  BY NestedPush
<1>2. Guarded(<<f>> \o rest, busy) <=> Guarded(rest, busy)
  BY LoggingPush DEF Guarded
<1>3. QED
  BY <1>1, <1>2

\* What a handler, publish or the main line has on the stack when it calls
\* getPacket and publish.
LEMMA FillNests ==
  ASSUME CoreInv, NEW apid, NEW rest \in Seq(Calls),
         Nested(rest, headPacket, s_qCount, main), Guarded(rest, s_logBusy'),
         s_logBusy' \in BOOLEAN,
         fillAndPublish(apid, rest), UNCHANGED <<ringVars, main>>
  PROVE  NestInv'
<1> DEFINE f == PublishFrame(topPacket)
<1>1. topPacket \in Packets
  BY BankGet DEF CoreInv, BusInv, fillAndPublish
<1>2. f \in Calls /\ f.fn = "publish"
  BY <1>1, FramesPushed DEF Covers, Calls, PublishFrame, Frame
<1>3. stack' = <<f>> \o rest
  BY DEF fillAndPublish
<1> HIDE DEF f
<1>4. NestedOn(f, rest, headPacket, s_qCount, main)
  BY <1>2 DEF NestedOn
<1>5. Nested(<<f>> \o rest, headPacket, s_qCount, main) /\ Guarded(<<f>> \o rest, s_logBusy')
  BY <1>2, <1>4, NestInvPush
<1>6. headPacket' = headPacket /\ s_qCount' = s_qCount /\ main' = main
  BY DEF headPacket, ringVars
<1>7. QED
  BY <1>3, <1>5, <1>6 DEF NestInv

LEMMA LogNests ==
  ASSUME CoreInv, NEW level, NEW rest \in Seq(Calls),
         Nested(rest, headPacket, s_qCount, main), Guarded(rest, s_logBusy),
         logCall(level, rest), UNCHANGED <<ringVars, main>>
  PROVE  NestInv'
<1>1. s_logBusy \in BOOLEAN
  BY DEF CoreInv, BusInv, BusTypes
<1>2. CASE logPasses(level)
  <2>1. LogFrame \in Calls /\ LogFrame.fn = "log"
    BY FramesPushed DEF Covers, Calls, LogFrame, Frame
  <2>2. ~s_logBusy /\ s_logBusy' = TRUE /\ fillAndPublish(LogApid, <<LogFrame>> \o rest)
    BY <1>2 DEF logPasses, logCall
  <2> DEFINE f == LogFrame
  <2> HIDE DEF f
  <2>3. f \in Calls /\ f.fn = "log"
    BY <2>1 DEF f
  <2>4. Guarded(<<f>> \o rest, TRUE)
    BY <1>1, <2>2, <2>3, LoggingPush DEF Guarded
  <2>5. Nested(<<f>> \o rest, headPacket, s_qCount, main)
    BY <2>3, NestedPush DEF NestedOn
  <2>6. <<f>> \o rest \in Seq(Calls)
    BY <2>3, PushProperties
  <2>7. fillAndPublish(LogApid, <<f>> \o rest)
    BY <2>2 DEF f
  <2>8. QED
    BY <2>2, <2>4, <2>5, <2>6, <2>7, FillNests
<1>3. CASE ~logPasses(level)
  <2>1. stack' = rest /\ s_logBusy' = s_logBusy
    BY <1>3 DEF logCall
  <2>2. headPacket' = headPacket /\ s_qCount' = s_qCount /\ main' = main
    BY DEF headPacket, ringVars
  <2>3. QED
    BY <2>1, <2>2 DEF NestInv
<1>4. QED
  BY <1>2, <1>3

\* The calls below the innermost one nest as well, and it nests on them.
LEMMA NestedBelow ==
  ASSUME CoreInv, NestInv, stack # <<>>
  PROVE  /\ Top \in Calls /\ Caller \in Seq(Calls) /\ s_logBusy \in BOOLEAN
         /\ Nested(Caller, headPacket, s_qCount, main)
         /\ NestedOn(Top, Caller, headPacket, s_qCount, main)
         /\ Top.fn # "log" => Guarded(Caller, s_logBusy)
         /\ Top.fn = "log" => s_logBusy /\ Guarded(Caller, FALSE)
<1>1. Top \in Calls /\ Caller \in Seq(Calls) /\ stack = <<Top>> \o Caller
  BY TopOfStack DEF CoreInv, BusInv, Calls
<1>2. s_logBusy \in BOOLEAN
  BY DEF CoreInv, BusInv, BusTypes
<1>3. /\ Nested(<<Top>> \o Caller, headPacket, s_qCount, main)
      /\ Guarded(<<Top>> \o Caller, s_logBusy)
  BY <1>1 DEF NestInv
<1>4. /\ Nested(Caller, headPacket, s_qCount, main)
      /\ NestedOn(Top, Caller, headPacket, s_qCount, main)
  BY <1>1, <1>3, NestedPush
<1>5. /\ Top.fn # "log" => Guarded(Caller, s_logBusy)
      /\ Top.fn = "log" => s_logBusy /\ Guarded(Caller, FALSE)
  BY <1>1, <1>2, <1>3, LoggingPush DEF Guarded
<1>6. QED
  BY <1>1, <1>2, <1>4, <1>5

\* A call that returns, with the ring and the log guard as they were.
LEMMA ReturnNests ==
  ASSUME CoreInv, NestInv, stack # <<>>, Top.fn # "log", stack' = Caller,
         headPacket' = headPacket, UNCHANGED <<s_qCount, main, s_logBusy>>
  PROVE  NestInv'
  BY NestedBelow DEF NestInv

LEMMA PublishSyncNests ==
  ASSUME CoreInv, NestInv, publishSync
  PROVE  NestInv'
<1> DEFINE p == Top.pkt
           j == Min(SyncLeft(Top.idx, p))
           h == s_subs[j].handler
           goOn == [Top EXCEPT !.idx = j + 1]
           handler == HandlerFrame(h, p)
<1>1. stack # <<>> /\ Top.fn = "publish" /\ SyncLeft(Top.idx, p) # {}
  BY DEF publishSync, Running, Top
<1>2. BusInv(BusCalls, Handlers \union {NULL}) /\ BusTypes
  BY DEF CoreInv, BusInv
<1>3. p \in Packets /\ Top.idx \in Nat \ {0}
  BY <1>1, <1>2, PublishRuns
<1>4. j \in DOMAIN s_subs
  BY <1>1, <1>2, <1>3, SyncLeftMin
<1>5. j \in Nat /\ h \in Handlers
  BY <1>2, <1>4, EntryType DEF BusTypes
<1>6. /\ Top \in Calls /\ Caller \in Seq(Calls) /\ s_logBusy \in BOOLEAN
      /\ Nested(Caller, headPacket, s_qCount, main) /\ Guarded(Caller, s_logBusy)
  BY <1>1, NestedBelow
<1>7. goOn \in Calls /\ goOn.fn = "publish" /\ goOn.pkt = p
  BY <1>1, <1>5, <1>6 DEF Calls, Frames
<1>8. handler \in Calls /\ handler.fn = "handler" /\ handler.pkt = p
  BY <1>3, <1>5, FramesPushed DEF Covers, Calls, HandlerFrame, Frame
<1>9. stack' = <<handler, goOn>> \o Caller
  BY DEF publishSync
<1> HIDE DEF handler, goOn, p
<1> DEFINE rest == <<goOn>> \o Caller
<1>10. stack' = <<handler>> \o rest
  BY <1>6, <1>7, <1>8, <1>9, PushTwice
<1>11. rest \in Seq(Calls) /\ rest # <<>> /\ rest[1] = goOn
  BY <1>6, <1>7, PushProperties
<1>12. Nested(rest, headPacket, s_qCount, main) /\ Guarded(rest, s_logBusy)
  <2>1. NestedOn(goOn, Caller, headPacket, s_qCount, main)
    BY <1>7 DEF NestedOn
  <2>2. QED
    BY <1>6, <1>7, <2>1, NestInvPush
<1> HIDE DEF rest
<1>13. Nested(stack', headPacket, s_qCount, main) /\ Guarded(stack', s_logBusy)
  <2>1. NestedOn(handler, rest, headPacket, s_qCount, main)
    BY <1>7, <1>8, <1>11 DEF NestedOn
  <2>2. QED
    BY <1>6, <1>8, <1>10, <1>11, <1>12, <2>1, NestInvPush
<1>14. UNCHANGED <<headPacket, s_qCount, main, s_logBusy>>
  BY DEF publishSync, busVars, ringVars, headPacket
<1>15. QED
  BY <1>13, <1>14 DEF NestInv

\* Appending changes the head of an empty ring only.
LEMMA PublishEnqueueNests ==
  ASSUME CoreInv, NestInv, publishEnqueue
  PROVE  NestInv'
<1>1. stack # <<>> /\ Top.fn = "publish"
  BY DEF publishEnqueue, SyncDone, Running, Top
<1>2. /\ Nested(Caller, headPacket, s_qCount, main) /\ Guarded(Caller, s_logBusy)
  BY <1>1, NestedBelow
<1>3. BusTypes /\ RingConsistent /\ ~ringFull
  BY DEF CoreInv, BusInv, publishEnqueue
<1>4. /\ s_tail \in Slots \ Occupied /\ s_qCount \in 0 .. QueueSize - 1
      /\ s_head \in Slots
  BY <1>3, TailFree DEF BusTypes
<1>5. s_qCount > 0 => headPacket' = headPacket
  <2>1. ASSUME s_qCount > 0 PROVE s_head # s_tail
    BY <1>3, <1>4, <2>1, HeadTaken
  <2>2. s_head # s_tail => s_queue'[s_head] = s_queue[s_head]
    BY <1>3, <1>4 DEF publishEnqueue, BusTypes
  <2>3. s_head' = s_head
    BY DEF publishEnqueue
  <2>4. QED
    BY <2>1, <2>2, <2>3 DEF headPacket
<1>6. Nested(Caller, headPacket', s_qCount + 1, main)
  <2> DEFINE st == Caller
             new == headPacket'
  <2> HIDE DEF st, new
  <2>1. Nested(st, headPacket, s_qCount, main)
    BY <1>2 DEF st
  <2>2. s_qCount > 0 => new = headPacket
    BY <1>5 DEF new
  <2>3. s_qCount + 1 > 0 /\ s_qCount # QueueSize
    BY <1>4, QueueSizeType
  <2>4. Nested(st, new, s_qCount + 1, main)
    BY <2>1, <2>2, <2>3 DEF Nested
  <2>5. QED
    BY <2>4 DEF st, new
<1>7. QED
  BY <1>2, <1>6 DEF publishEnqueue, NestInv
\* publish marks its packet as dropped only when the ring is full.
LEMMA PublishFullNests ==
  ASSUME CoreInv, NestInv, publishFull
  PROVE  NestInv'
<1> DEFINE full == [Top EXCEPT !.fn = "dropping"]
<1>1. stack # <<>> /\ Top.fn = "publish"
  BY DEF publishFull, SyncDone, Running, Top
<1>2. /\ Top \in Calls /\ Caller \in Seq(Calls) /\ s_logBusy \in BOOLEAN
      /\ Nested(Caller, headPacket, s_qCount, main) /\ Guarded(Caller, s_logBusy)
  BY <1>1, NestedBelow
<1>3. full \in Calls /\ full.fn = "dropping"
  BY <1>2 DEF Calls, Frames, BusCalls
<1>4. logCall(LogWARN, <<full>> \o Caller) /\ UNCHANGED <<ringVars, main>>
  BY DEF publishFull, busVars
<1> HIDE DEF full
<1>5. s_qCount = QueueSize
  BY QueueSizeType DEF publishFull, ringFull, CoreInv, BusInv, BusTypes
<1>6. NestedOn(full, Caller, headPacket, s_qCount, main)
  BY <1>3, <1>5 DEF NestedOn
<1> DEFINE rest == <<full>> \o Caller
<1>7. /\ rest \in Seq(Calls)
      /\ Nested(rest, headPacket, s_qCount, main) /\ Guarded(rest, s_logBusy)
  BY <1>2, <1>3, <1>6, NestInvPush, PushProperties
<1> HIDE DEF rest
<1>8. logCall(LogWARN, rest)
  BY <1>4 DEF rest
<1>9. QED
  BY <1>4, <1>7, <1>8, LogNests

LEMMA BusNextNests ==
  ASSUME CoreInv, NestInv, BusNext
  PROVE  NestInv'
<1>1. ASSUME publishReturn \/ publishDrop PROVE NestInv'
  <2>1. stack # <<>> /\ Top.fn # "log" /\ stack' = Caller
    BY <1>1 DEF publishReturn, publishDrop, SyncDone, Running, Top
  <2>2. headPacket' = headPacket /\ UNCHANGED <<s_qCount, main, s_logBusy>>
    BY <1>1 DEF publishReturn, publishDrop, busVars, ringVars, headPacket
  <2>3. QED
    BY <2>1, <2>2, ReturnNests
<1>2. CASE consumeReturn
  <2>1. stack # <<>> /\ Top.fn # "log" /\ stack' = Caller
    BY <1>2 DEF consumeReturn, Running, Top
  <2>2. headPacket' = headPacket
    BY <1>2 DEF consumeReturn, headPacket, CoreInv, BusInv, BusTypes
  <2>3. QED
    BY <1>2, <2>1, <2>2, ReturnNests DEF consumeReturn
<1>3. CASE logReturn
  <2>1. stack # <<>> /\ Top.fn = "log"
    BY <1>3 DEF logReturn, Running, Top
  <2>2. Nested(Caller, headPacket, s_qCount, main) /\ Guarded(Caller, FALSE)
    BY <2>1, NestedBelow
  <2>3. /\ stack' = Caller /\ s_logBusy' = FALSE /\ headPacket' = headPacket
        /\ UNCHANGED <<s_qCount, main>>
    BY <1>3 DEF logReturn, busVars, ringVars, headPacket
  <2>4. QED
    BY <2>2, <2>3 DEF NestInv
<1>4. QED
  BY <1>1, <1>2, <1>3, PublishSyncNests, PublishEnqueueNests, PublishFullNests
  DEF BusNext

\* A handler makes its calls from where it runs.
LEMMA HandlerNests ==
  ASSUME CoreInv, NestInv, HandlerNext
  PROVE  NestInv'
<1> DEFINE less == [Top EXCEPT !.idx = @ - 1]
<1>1. ASSUME Running("handler"), Top.idx > 0
      PROVE  /\ oneCallLess \in Seq(Calls) /\ s_logBusy \in BOOLEAN
             /\ Nested(oneCallLess, headPacket, s_qCount, main)
             /\ Guarded(oneCallLess, s_logBusy)
  <2>1. stack # <<>> /\ Top.fn = "handler"
    BY <1>1 DEF Running, Top
  <2>2. /\ Top \in Calls /\ Caller \in Seq(Calls) /\ s_logBusy \in BOOLEAN
        /\ Nested(Caller, headPacket, s_qCount, main) /\ Guarded(Caller, s_logBusy)
        /\ NestedOn(Top, Caller, headPacket, s_qCount, main)
    BY <2>1, NestedBelow
  <2>3. less \in Calls /\ less.fn = Top.fn /\ less.pkt = Top.pkt
    <3>1. Top.idx - 1 \in Nat
      BY <1>1, <2>2 DEF Calls, Frames
    <3>2. QED
      BY <2>2, <3>1 DEF Calls, Frames
  <2>4. oneCallLess = <<less>> \o Caller
    BY DEF oneCallLess
  <2> HIDE DEF less
  <2>5. NestedOn(less, Caller, headPacket, s_qCount, main)
    BY <2>2, <2>3 DEF NestedOn
  <2>6. QED
    BY <2>1, <2>2, <2>3, <2>4, <2>5, NestInvPush, PushProperties
<1>2. ASSUME NEW level, handlerLog(level) PROVE NestInv'
  BY <1>1, <1>2, LogNests DEF handlerLog, busVars
<1>3. ASSUME NEW apid \in Apids, handlerPublish(apid) PROVE NestInv'
  <2>1. UNCHANGED <<ringVars, main, s_logBusy>> /\ fillAndPublish(apid, oneCallLess)
    BY <1>3 DEF handlerPublish, busVars
  <2>2. Running("handler") /\ Top.idx > 0
    BY <1>3 DEF handlerPublish
  <2>3. /\ oneCallLess \in Seq(Calls) /\ s_logBusy' \in BOOLEAN
        /\ Nested(oneCallLess, headPacket, s_qCount, main)
        /\ Guarded(oneCallLess, s_logBusy')
    BY <1>1, <2>1, <2>2
  <2>4. QED
    BY <2>1, <2>3, FillNests
<1>4. CASE handlerReturn
  <2>1. stack # <<>> /\ Top.fn # "log" /\ stack' = Caller
    BY <1>4 DEF handlerReturn, Running, Top
  <2>2. headPacket' = headPacket /\ UNCHANGED <<s_qCount, main, s_logBusy>>
    BY <1>4 DEF handlerReturn, busVars, ringVars, headPacket
  <2>3. QED
    BY <2>1, <2>2, ReturnNests
<1>5. QED
  BY <1>2, <1>3, <1>4 DEF HandlerNext

\* An empty stack nests and the log guard is free, whatever the ring.
LEMMA NothingNests ==
  ASSUME NEW first, NEW count, NEW mode
  PROVE  Nested(<<>>, first, count, mode) /\ Guarded(<<>>, FALSE)
<1>1. DOMAIN <<>> = {}
  OBVIOUS
<1>2. QED
  BY <1>1 DEF Nested, Guarded, OneLog, Logging

\* callConsumers calls a handler with the packet at the head of the ring.
LEMMA ConsumeCallNests ==
  ASSUME CoreInv, NestInv, consumeCall, main = "loop"
  PROVE  NestInv'
<1> DEFINE j == Min(headLeft)
           h == s_subs[j].handler
           handler == HandlerFrame(h, headPacket)
           waits == Frame("consume", NULL, j, NULL)
<1>1. headPacket \in Packets /\ s_head \in Slots /\ BusTypes
  BY HeadTaken DEF consumeCall, CoreInv, BusInv, Occupied
<1>2. s_queue[s_head].nextSubIdx \in Nat \ {0}
  BY <1>1 DEF BusTypes
<1>3. j \in DOMAIN s_subs
  BY <1>1, <1>2, DeferredLeftMin DEF consumeCall, headLeft
<1>4. j \in Nat /\ h \in Handlers
  BY <1>1, <1>3, EntryType DEF BusTypes
<1>5. /\ handler \in Calls /\ waits \in Calls
      /\ handler.fn = "handler" /\ handler.pkt = headPacket /\ waits.fn = "consume"
  BY <1>1, <1>4, FramesPushed DEF Covers, Calls, HandlerFrame, Frame
<1>6. stack = <<>> /\ stack' = <<handler, waits>> /\ s_qCount > 0
  BY DEF consumeCall
<1> HIDE DEF handler, waits
<1> DEFINE rest == <<waits>> \o <<>>
<1>7. stack' = <<handler>> \o rest
  BY <1>5, <1>6, PairIsPush
<1>8. Guarded(<<>>, s_logBusy) /\ s_logBusy \in BOOLEAN /\ <<>> \in Seq(Calls)
  BY <1>1, <1>6 DEF NestInv, BusTypes
<1>9. rest \in Seq(Calls) /\ rest # <<>> /\ rest[1] = waits
  BY <1>5, <1>8, PushProperties
<1>10. Nested(rest, headPacket, s_qCount, main) /\ Guarded(rest, s_logBusy)
  <2> DEFINE below == <<>>
  <2>1. NestedOn(waits, below, headPacket, s_qCount, main)
    BY <1>5, <1>6 DEF NestedOn
  <2>2. Nested(below, headPacket, s_qCount, main) /\ Guarded(below, s_logBusy)
    BY <1>8, NothingNests
  <2>3. below \in Seq(Calls) /\ rest = <<waits>> \o below
    BY <1>8
  <2> HIDE DEF below, rest
  <2>4. QED
    BY <1>5, <1>8, <2>1, <2>2, <2>3, NestInvPush
<1> HIDE DEF rest
<1>11. Nested(stack', headPacket, s_qCount, main) /\ Guarded(stack', s_logBusy)
  <2>1. NestedOn(handler, rest, headPacket, s_qCount, main)
    BY <1>5, <1>9 DEF NestedOn
  <2>2. QED
    BY <1>5, <1>7, <1>8, <1>9, <1>10, <2>1, NestInvPush
<1>12. UNCHANGED <<headPacket, s_qCount, main, s_logBusy>>
  BY DEF consumeCall, busVars, ringVars, headPacket
<1>13. QED
  BY <1>11, <1>12 DEF NestInv

LEMMA MainNests ==
  ASSUME CoreInv, NestInv, MainNext
  PROVE  NestInv'
<1>1. ASSUME stack' = <<>>, stack = <<>>, UNCHANGED s_logBusy PROVE NestInv'
  <2>1. Guarded(<<>>, s_logBusy)
    BY <1>1 DEF NestInv
  <2>2. QED
    BY <1>1, <2>1, NothingNests DEF NestInv
<1>2. ASSUME stack = <<>>
      PROVE  /\ <<>> \in Seq(Calls) /\ Nested(<<>>, headPacket, s_qCount, main)
             /\ Guarded(<<>>, s_logBusy) /\ s_logBusy \in BOOLEAN
  BY <1>2, NothingNests DEF NestInv, CoreInv, BusInv, BusTypes
<1>3. ASSUME boot \/ enterLoop \/ mainSetLog PROVE NestInv'
  BY <1>1, <1>3 DEF boot, bootCalls, enterLoop, mainSetLog
<1>4. ASSUME NEW level, mainLog(level) PROVE NestInv'
  BY <1>2, <1>4, LogNests DEF mainLog, busVars
<1>5. ASSUME NEW apid \in Apids, mainPublish(apid) PROVE NestInv'
  <2>1. /\ UNCHANGED <<ringVars, main, s_logBusy>> /\ fillAndPublish(apid, <<>>)
        /\ stack = <<>>
    BY <1>5 DEF mainPublish, busVars
  <2>2. Guarded(<<>>, s_logBusy') /\ s_logBusy' \in BOOLEAN
    BY <1>2, <2>1
  <2>3. QED
    BY <1>2, <2>1, <2>2, FillNests
<1>6. ASSUME NEW s \in Subscriptions, mainSubscribe(s) PROVE NestInv'
  <2>1. stack = <<>> /\ UNCHANGED <<ringVars, main>>
    BY <1>6 DEF mainSubscribe, subscribe
  <2>2. logCall(LogERROR, <<>>) \/ (stack' = <<>> /\ UNCHANGED s_logBusy)
    BY <1>6 DEF mainSubscribe, subscribe
  <2>3. QED
    BY <1>1, <1>2, <2>1, <2>2, LogNests
<1>7. CASE mainConsume
  <2>1. CASE consumeRetire
    BY <1>1, <2>1 DEF consumeRetire
  <2>2. CASE consumeNothing
    BY <1>1, <2>2 DEF consumeNothing, vars
  <2>3. QED
    BY <1>7, <2>1, <2>2, ConsumeCallNests DEF mainConsume, callConsumers
<1>8. QED
  BY <1>3, <1>4, <1>5, <1>6, <1>7 DEF MainNext

LEMMA NestInvariant == Spec => []NestInv
<1>1. Init => NestInv
  <2>1. Init => stack = <<>> /\ s_logBusy = FALSE
    BY DEF Init
  <2>2. QED
    BY <2>1, NothingNests DEF NestInv
<1>2. CoreInv /\ NestInv /\ [Next]_vars => NestInv'
  <2>1. ASSUME NestInv, UNCHANGED vars PROVE NestInv'
    BY <2>1 DEF NestInv, vars, busVars, ringVars, headPacket
  <2>2. QED
    BY <2>1, MainNests, HandlerNests, BusNextNests DEF Next
<1>3. QED
  BY <1>1, <1>2, CoreInvariant, PTL DEF Spec

\* core.c's guard s_logBusy is held exactly while one log line is being
\* published, at every depth of nesting: lines never recurse, and every
\* return of coreLogOutput frees the guard.
THEOREM LogNeverRecurses == Spec => []LogGuard
<1>1. CoreInv /\ NestInv => LogGuard
  <2> SUFFICES ASSUME CoreInv, NestInv PROVE LogGuard
    OBVIOUS
  <2>1. s_logBusy \in BOOLEAN
    BY DEF CoreInv, BusInv, BusTypes
  <2>2. Cardinality(Logging(stack)) = IF Logging(stack) = {} THEN 0 ELSE 1
    BY AtMostOne DEF NestInv, Guarded, OneLog
  <2>3. QED
    BY <2>1, <2>2 DEF LogGuard, Logging, NestInv, Guarded
<1>2. QED
  BY <1>1, CoreInvariant, NestInvariant, PTL

\* The packet a handler was given is out of the pool until it returns: it is
\* held by the publish call below it or waits at the head of the ring.
THEOREM HandlersReadLivePackets == Spec => []HandlerPacketLive
<1>1. CoreInv /\ NestInv => HandlerPacketLive
  <2> SUFFICES ASSUME CoreInv, NestInv,
                      NEW i \in DOMAIN stack, stack[i].fn = "handler"
               PROVE  stack[i].pkt \in leased
    BY DEF HandlerPacketLive
  <2>1. stack \in Seq(Calls) /\ BusTypes /\ RingConsistent /\ OwnInv
    BY DEF CoreInv, BusInv, Calls
  <2>2. i + 1 \in DOMAIN stack
    BY DEF NestInv, Nested
  <2>3. CASE stack[i + 1].fn = "publish" /\ stack[i + 1].pkt = stack[i].pkt
    <3>1. stack[i + 1].pkt # NULL
      BY <2>1, <2>2, <2>3 DEF OwnInv, OneHolder, Sound
    <3>2. i + 1 \in Holders(stack)
      BY <2>2, <2>3, <3>1 DEF Holders, Holds, Owning
    <3>3. stack[i + 1].pkt \in Held(stack)
      BY <3>2 DEF Held
    <3>4. QED
      BY <2>1, <2>3, <3>3 DEF OwnInv
  <2>4. CASE stack[i + 1].fn = "consume" /\ stack[i].pkt = headPacket
    <3>1. s_qCount > 0
      BY <2>2, <2>4 DEF NestInv, Nested
    <3>2. s_head \in Occupied
      BY <2>1, <3>1, HeadTaken
    <3>3. headPacket \in InRing
      BY <3>2 DEF InRing, headPacket
    <3>4. QED
      BY <2>1, <2>4, <3>3 DEF OwnInv
  <2>5. QED
    BY <2>2, <2>3, <2>4 DEF NestInv, Nested
<1>2. QED
  BY <1>1, CoreInvariant, NestInvariant, PTL

\* Calls nest only as deep as the pool is large, although a handler may
\* publish what it receives: every publish on the stack, and callConsumers
\* at its bottom, is about a packet of its own, and each has at most one
\* handler above it.
THEOREM NestingBounded == Spec => []StackBounded
<1>1. CoreInv /\ NestInv => StackBounded
  <2> SUFFICES ASSUME CoreInv, NestInv PROVE StackBounded
    OBVIOUS
  <2> DEFINE handlers == {i \in DOMAIN stack : stack[i].fn = "handler"}
             loops == {i \in DOMAIN stack : stack[i].fn = "consume"}
             below == {i - 1 : i \in Publishing \union loops}
             n == Len(stack)
             pubs == Cardinality(Publishing)
  <2>1. /\ n \in Nat /\ DOMAIN stack = 1 .. n
        /\ \A i \in DOMAIN stack : stack[i].fn \in BusCalls
        /\ BusTypes /\ OwnedOnce /\ BankInv
    <3>1. stack \in Seq(Calls)
      BY DEF CoreInv, BusInv, Calls
    <3>2. \A i \in DOMAIN stack : stack[i].fn \in BusCalls
      <4>1. \A i \in DOMAIN stack : stack[i] \in Calls
        BY <3>1
      <4>2. QED
        BY <4>1 DEF Calls, Frames
    <3>3. OwnedOnce
      BY Accounted, PublishersHold DEF CoreInv, OwnedOnce
    <3>4. QED
      BY <3>1, <3>2, <3>3 DEF CoreInv, BusInv
  <2>2. IsFiniteSet(DOMAIN stack) /\ Cardinality(DOMAIN stack) = n
    BY <2>1, CountUpTo
  <2>3. /\ IsFiniteSet(Publishing) /\ pubs \in Nat
        /\ IsFiniteSet(loops) /\ Cardinality(loops) \in Nat
        /\ IsFiniteSet(handlers) /\ Cardinality(handlers) \in Nat
        /\ IsFiniteSet(Logging(stack)) /\ Cardinality(Logging(stack)) \in Nat
    BY <2>2, FS_Subset, FS_CardinalityType DEF Publishing, Logging
  <2>4. /\ Cardinality(loops) <= 1 /\ (Cardinality(loops) = 1 => s_qCount >= 1)
    <3>1. \A i \in loops : i = n /\ s_qCount > 0
      BY DEF NestInv, Nested
    <3> HIDE DEF loops
    <3>2. Cardinality(loops) = IF loops = {} THEN 0 ELSE 1
      BY <3>1, AtMostOne
    <3>3. s_qCount \in Nat
      BY <2>1 DEF BusTypes
    <3>4. QED
      BY <3>1, <3>2, <3>3
  <2>5. Cardinality(Logging(stack)) <= 1
    BY AtMostOne DEF NestInv, Guarded, OneLog
  <2>6. s_qCount + pubs <= DatabankSize
    <3>1. leased \subseteq Packets /\ Cardinality(leased) = s_qCount + pubs
      BY <2>1 DEF OwnedOnce, BankInv, BankTypeOK
    <3>2. Cardinality(Packets) = DatabankSize
      BY FS_Interval, DatabankSizeAssumption DEF Packets
    <3>3. QED
      BY <3>1, <3>2, PacketsFinite, FS_Subset
  <2> HIDE DEF loops, handlers, n, pubs
  <2>7. Cardinality(Publishing \union loops) <= pubs + Cardinality(loops)
        /\ IsFiniteSet(Publishing \union loops)
        /\ Cardinality(Publishing \union loops) \in Nat
    BY <2>3, UnionAtMost DEF pubs
  <2>8. Cardinality(handlers) <= Cardinality(Publishing \union loops)
    <3>1. IsFiniteSet(below) /\ Cardinality(below) <= Cardinality(Publishing \union loops)
      BY <2>7, BeforeAtMost
    <3>2. handlers \subseteq below
      <4>1. ASSUME NEW i \in handlers PROVE i + 1 \in Publishing \union loops /\ i \in Nat
        BY <4>1, <2>1 DEF NestInv, Nested, handlers, loops, Publishing
      <4>2. \A i \in handlers : (i + 1) - 1 = i
        BY <4>1
      <4>3. QED
        BY <4>1, <4>2
    <3>3. Cardinality(handlers) <= Cardinality(below) /\ Cardinality(below) \in Nat
      BY <3>1, <3>2, FS_Subset, FS_CardinalityType
    <3>4. QED
      BY <2>3, <2>7, <3>1, <3>3
  <2>9. n <= Cardinality(handlers) + Cardinality(Publishing \union loops)
             + Cardinality(Logging(stack))
    <3> DEFINE rest == handlers \union (Publishing \union loops)
    <3>1. DOMAIN stack = rest \union Logging(stack)
      BY <2>1 DEF handlers, loops, Publishing, Logging, BusCalls
    <3>2. /\ IsFiniteSet(rest) /\ Cardinality(rest) \in Nat
          /\ Cardinality(rest) <= Cardinality(handlers) + Cardinality(Publishing \union loops)
      BY <2>3, <2>7, UnionAtMost
    <3> HIDE DEF rest
    <3>3. Cardinality(DOMAIN stack) <= Cardinality(rest) + Cardinality(Logging(stack))
      BY <2>3, <3>1, <3>2, UnionAtMost
    <3> DEFINE a == Cardinality(handlers)
               c == Cardinality(Publishing \union loops)
               d == Cardinality(Logging(stack))
               r == Cardinality(rest)
    <3>4. /\ a \in Nat /\ c \in Nat /\ d \in Nat /\ r \in Nat /\ r <= a + c
          /\ Cardinality(DOMAIN stack) <= r + d /\ Cardinality(DOMAIN stack) = n
      BY <2>2, <2>3, <2>7, <3>2, <3>3 DEF n
    <3> HIDE DEF a, c, d, r
    <3>5. n <= a + c + d
      <4>1. n \in Nat
        BY <2>1 DEF n
      <4>2. QED
        BY <3>4, <4>1
    <3>6. QED
      BY <3>5 DEF a, c, d
  <2>10. n <= 2 * DatabankSize + 1
    <3>1. s_qCount \in Nat /\ DatabankSize \in Nat /\ n \in Nat
      BY <2>1, DatabankSizeAssumption, QueueSizeType DEF BusTypes, n
    <3> DEFINE a == Cardinality(handlers)
               b == Cardinality(loops)
               c == Cardinality(Publishing \union loops)
               d == Cardinality(Logging(stack))
    <3>2. /\ a \in Nat /\ b \in Nat /\ c \in Nat /\ d \in Nat /\ pubs \in Nat
          /\ n <= a + c + d /\ a <= c /\ c <= pubs + b /\ d <= 1 /\ b <= 1
          /\ b = 1 => s_qCount >= 1
      BY <2>3, <2>4, <2>5, <2>7, <2>8, <2>9
    <3> HIDE DEF a, b, c, d
    <3>3. QED
      BY <2>6, <3>1, <3>2
  <2>11. QED
    BY <2>10 DEF StackBounded, n
<1>2. QED
  BY <1>1, CoreInvariant, NestInvariant, PTL
-----------------------------------------------------------------------------
(***************************************************************************)
(* Who has been called: t is the table, a the APIDs of the packets and d   *)
(* the calls noted.                                                        *)
(***************************************************************************)
Matching(j, p, t, a) == apidMatches(t[j].apid, a[p])

\* Of the entries that match p, the SYNC ones before n were called, once.
ShownSync(p, n, t, a, d) ==
  \A j \in DOMAIN t :
    Matching(j, p, t, a) =>
      d[p][t[j].handler] = IF t[j].prio = SYNC /\ j < n THEN 1 ELSE 0

\* Of the deferred entries that match p, those before n were called, once.
ShownDeferred(p, n, t, a, d) ==
  \A j \in DOMAIN t :
    Matching(j, p, t, a) /\ t[j].prio # SYNC =>
      d[p][t[j].handler] = IF j < n THEN 1 ELSE 0

\* What the call f has done for its packet; callConsumers works on "first".
Serves(f, t, a, d, first) ==
  /\ f.fn = "publish"  => ShownSync(f.pkt, f.idx, t, a, d)
  /\ f.fn = "dropping" => ShownSync(f.pkt, Len(t) + 1, t, a, d)
  /\ f.fn = "consume"  => ShownDeferred(first, f.idx + 1, t, a, d)

Serving(st, t, a, d, first) ==
  \A i \in DOMAIN st : Serves(st[i], t, a, d, first)

NoneConsumes(st) == \A i \in DOMAIN st : st[i].fn # "consume"

\* nextSubIdx of a slot is the progress of its packet, except at the head
\* while callConsumers waits for a handler and has not saved it yet.
SlotsServe ==
  \A q \in Occupied :
    (q = s_head => NoneConsumes(stack)) =>
      ShownDeferred(s_queue[q].p_pkt, s_queue[q].nextSubIdx, s_subs, apidOf, dispatched)

ServeInv ==
  /\ Serving(stack, s_subs, apidOf, dispatched, headPacket)
  /\ SlotsServe
  /\ \A p \in leased, h \in Handlers : h \notin subscribed => dispatched[p][h] = 0
  /\ main # "loop" => \A q \in Occupied : s_queue[q].nextSubIdx = 1

\* All that the proofs about dispatching assume of a state.
BusState == CoreInv /\ NestInv /\ TableInv /\ ServeInv

LEMMA ServingPush ==
  ASSUME NEW S, NEW rest \in Seq(S), NEW f \in S,
         NEW t, NEW a, NEW d, NEW first
  PROVE  /\ Serving(<<f>> \o rest, t, a, d, first) <=>
              Serves(f, t, a, d, first) /\ Serving(rest, t, a, d, first)
         /\ NoneConsumes(<<f>> \o rest) <=> f.fn # "consume" /\ NoneConsumes(rest)
<1> DEFINE st == <<f>> \o rest
<1>1. /\ DOMAIN st = 1 .. Len(rest) + 1 /\ st[1] = f
      /\ \A i \in 1 .. Len(rest) : st[i + 1] = rest[i]
      /\ \A i \in 2 .. Len(rest) + 1 : st[i] = rest[i - 1]
  BY PushProperties
<1>2. Len(rest) \in Nat /\ DOMAIN rest = 1 .. Len(rest)
  BY LenProperties
<1> HIDE DEF st
<1>3. \A i \in DOMAIN rest : i + 1 \in DOMAIN st /\ st[i + 1] = rest[i]
  BY <1>1, <1>2
<1>4. \A i \in DOMAIN st : i = 1 \/ (i - 1 \in DOMAIN rest /\ st[i] = rest[i - 1])
  BY <1>1, <1>2
<1>5. 1 \in DOMAIN st
  BY <1>1, <1>2
<1>6. Serving(st, t, a, d, first) <=>
        Serves(f, t, a, d, first) /\ Serving(rest, t, a, d, first)
  BY <1>1, <1>3, <1>4, <1>5 DEF Serving
<1>7. NoneConsumes(st) <=> f.fn # "consume" /\ NoneConsumes(rest)
  BY <1>1, <1>3, <1>4, <1>5 DEF NoneConsumes
<1>8. QED
  BY <1>6, <1>7 DEF st

\* What is noted about p does not concern the calls about other packets.
LEMMA ServingElsewhere ==
  ASSUME NEW st \in Seq(Calls), OneHolder(st), NEW p, p \notin Held(st),
         NEW t, NEW a, NEW a2, NEW d, NEW d2, NEW first,
         \A r \in Packets \ {p} : a2[r] = a[r] /\ d2[r] = d[r],
         NoneConsumes(st) \/ first \in Packets \ {p},
         Serving(st, t, a, d, first)
  PROVE  Serving(st, t, a2, d2, first)
<1> SUFFICES ASSUME NEW i \in DOMAIN st PROVE Serves(st[i], t, a2, d2, first)
  BY DEF Serving
<1> DEFINE f == st[i]
<1>1. f \in Calls /\ Sound(f) /\ Serves(f, t, a, d, first)
  BY DEF OneHolder, Serving
<1>2. ASSUME f.fn \in {"publish", "dropping"} PROVE f.pkt \in Packets \ {p}
  <2>1. f.pkt # NULL /\ f.pkt \in Packets \union {NULL}
    BY <1>1, <1>2 DEF Sound, Calls, Frames
  <2>2. i \in Holders(st)
    BY <1>2, <2>1 DEF Holders, Holds, Owning
  <2>3. f.pkt \in Held(st)
    BY <2>2 DEF Held
  <2>4. QED
    BY <2>1, <2>3
<1>3. f.fn = "consume" => first \in Packets \ {p}
  BY DEF NoneConsumes
<1> HIDE DEF f
<1>4. Serves(f, t, a2, d2, first)
  BY <1>1, <1>2, <1>3 DEF Serves, ShownSync, ShownDeferred, Matching
<1>5. QED
  BY <1>4 DEF f

\* While callConsumers waits, its packet is in the ring.
LEMMA ConsumedIsQueued ==
  ASSUME CoreInv, NestInv
  PROVE  NoneConsumes(stack) \/ (headPacket \in InRing \intersect Packets /\ s_qCount > 0)
<1>1. BusTypes /\ RingConsistent
  BY DEF CoreInv, BusInv
<1>2. NoneConsumes(stack) \/ s_qCount > 0
  BY DEF NoneConsumes, NestInv, Nested
<1>3. ASSUME s_qCount > 0 PROVE headPacket \in InRing \intersect Packets
  BY <1>1, <1>3, HeadTaken DEF InRing, headPacket
<1>4. QED
  BY <1>2, <1>3
\* Steps that call nobody and leave the ring, the table and the packets alone.
LEMMA QuietServes ==
  ASSUME ServeInv, UNCHANGED <<s_subs, ringVars, apidOf, dispatched>>,
         leased' \subseteq leased, main' # "loop" => main # "loop",
         Serving(stack', s_subs, apidOf, dispatched, headPacket),
         NoneConsumes(stack') => NoneConsumes(stack)
  PROVE  ServeInv'
<1>1. /\ Occupied' = Occupied /\ headPacket' = headPacket
      /\ s_queue' = s_queue /\ s_head' = s_head
      /\ s_subs' = s_subs /\ subscribed' = subscribed
  BY DEF ringVars, Occupied, Slots, headPacket, subscribed
<1>2. SlotsServe'
  BY <1>1 DEF ServeInv, SlotsServe
<1>3. Serving(stack, s_subs, apidOf, dispatched, headPacket)'
  BY <1>1
<1>4. (\A p \in leased, h \in Handlers : h \notin subscribed => dispatched[p][h] = 0)'
  BY <1>1 DEF ServeInv, Handlers
<1>5. (main # "loop" => \A q \in Occupied : s_queue[q].nextSubIdx = 1)'
  BY <1>1 DEF ServeInv
<1>6. QED
  BY <1>2, <1>3, <1>4, <1>5 DEF ServeInv

\* The innermost call, and what its callers have done.
LEMMA ServingBelow ==
  ASSUME BusState, stack # <<>>
  PROVE  /\ Top \in Calls /\ Caller \in Seq(Calls)
         /\ Serves(Top, s_subs, apidOf, dispatched, headPacket)
         /\ Serving(Caller, s_subs, apidOf, dispatched, headPacket)
         /\ NoneConsumes(stack) <=> Top.fn # "consume" /\ NoneConsumes(Caller)
<1>1. Top \in Calls /\ Caller \in Seq(Calls) /\ stack = <<Top>> \o Caller
  BY TopOfStack DEF BusState, CoreInv, BusInv, Calls
<1>2. Serving(<<Top>> \o Caller, s_subs, apidOf, dispatched, headPacket)
  BY <1>1 DEF BusState, ServeInv
<1>3. NoneConsumes(stack) <=> NoneConsumes(<<Top>> \o Caller)
  BY <1>1
<1>4. QED
  BY <1>1, <1>2, <1>3, ServingPush

LEMMA ReturnServes ==
  ASSUME BusState, stack # <<>>, Top.fn # "consume", stack' = Caller,
         UNCHANGED <<s_subs, ringVars, apidOf, dispatched, main>>,
         leased' \subseteq leased
  PROVE  ServeInv'
<1>1. /\ Serving(Caller, s_subs, apidOf, dispatched, headPacket)
      /\ NoneConsumes(Caller) => NoneConsumes(stack)
  BY ServingBelow
<1>2. QED
  BY <1>1, QuietServes DEF BusState

\* A packet just taken from the pool was shown to nobody.
LEMMA FillServes ==
  ASSUME BusState, NEW apid, NEW rest \in Seq(Calls),
         OneHolder(rest), Held(rest) = Held(stack),
         Serving(rest, s_subs, apidOf, dispatched, headPacket),
         NoneConsumes(rest) <=> NoneConsumes(stack),
         fillAndPublish(apid, rest), UNCHANGED <<busVars, main>>
  PROVE  ServeInv'
<1> DEFINE p == topPacket
           f == PublishFrame(p)
<1>1. /\ p \in Packets \ leased /\ leased' = leased \union {p}
      /\ BusTypes /\ OwnInv
  BY BankGet DEF BusState, CoreInv, BusInv, fillAndPublish
<1>2. /\ apidOf' = [apidOf EXCEPT ![p] = apid]
      /\ dispatched' = [dispatched EXCEPT ![p] = toNobody]
      /\ stack' = <<f>> \o rest
  BY DEF fillAndPublish
<1>3. f \in Calls /\ f.fn = "publish" /\ f.pkt = p /\ f.idx = 1
  BY <1>1, FramesPushed DEF Covers, Calls, PublishFrame, Frame
<1> HIDE DEF p, f
<1>4. \A r \in Packets \ {p} : apidOf'[r] = apidOf[r] /\ dispatched'[r] = dispatched[r]
  BY <1>1, <1>2 DEF BusTypes
<1>5. dispatched'[p] = toNobody
  BY <1>1, <1>2 DEF BusTypes
<1>6. /\ Occupied' = Occupied /\ headPacket' = headPacket
      /\ s_queue' = s_queue /\ s_head' = s_head /\ s_subs' = s_subs
      /\ subscribed' = subscribed
  BY DEF busVars, ringVars, Occupied, Slots, headPacket, subscribed
<1>7. p \notin InRing /\ p \notin Held(stack)
  BY <1>1 DEF OwnInv
<1>8. Serving(rest, s_subs, apidOf', dispatched', headPacket)
  <2>1. NoneConsumes(rest) \/ headPacket \in Packets \ {p}
    BY <1>7, ConsumedIsQueued DEF BusState
  <2>2. QED
    BY <1>4, <1>7, <2>1, ServingElsewhere
<1>9. Serves(f, s_subs, apidOf', dispatched', headPacket)
  <2>1. \A j \in DOMAIN s_subs : s_subs[j].handler \in Handlers /\ ~ (j < 1)
    BY <1>1, EntryType DEF BusTypes
  <2>2. ShownSync(p, 1, s_subs, apidOf', dispatched')
    BY <1>5, <2>1 DEF ShownSync, toNobody
  <2>3. QED
    BY <1>3, <2>2 DEF Serves
<1>10. /\ Serving(stack, s_subs, apidOf, dispatched, headPacket)'
       /\ NoneConsumes(stack') => NoneConsumes(stack)
  <2>1. /\ Serving(<<f>> \o rest, s_subs, apidOf', dispatched', headPacket)
        /\ NoneConsumes(<<f>> \o rest) => NoneConsumes(stack)
    BY <1>3, <1>8, <1>9, ServingPush
  <2>2. QED
    BY <1>2, <1>6, <2>1
<1>11. SlotsServe'
  <2> SUFFICES ASSUME NEW q \in Occupied, q = s_head => NoneConsumes(stack')
               PROVE  ShownDeferred(s_queue[q].p_pkt, s_queue[q].nextSubIdx, s_subs,
                                    apidOf', dispatched')
    BY <1>6 DEF SlotsServe
  <2>1. ShownDeferred(s_queue[q].p_pkt, s_queue[q].nextSubIdx, s_subs, apidOf, dispatched)
    BY <1>10 DEF BusState, ServeInv, SlotsServe
  <2>2. s_queue[q].p_pkt \in Packets \ {p}
    BY <1>1, <1>7 DEF Occupied, InRing, BusTypes
  <2>3. QED
    BY <1>4, <2>1, <2>2 DEF ShownDeferred, Matching
<1>12. (\A r \in leased, h \in Handlers : h \notin subscribed => dispatched[r][h] = 0)'
  <2> SUFFICES ASSUME NEW r \in leased', NEW h \in Handlers, h \notin subscribed
               PROVE  dispatched'[r][h] = 0
    BY <1>6 DEF Handlers
  <2>1. CASE r = p
    BY <1>5, <2>1 DEF toNobody
  <2>2. CASE r # p
    <3>1. r \in leased /\ r \in Packets
      BY <1>1, <2>2 DEF BusState, CoreInv, BusInv, BankInv, BankTypeOK
    <3>2. QED
      BY <1>4, <2>2, <3>1 DEF BusState, ServeInv
  <2>3. QED
    BY <2>1, <2>2
<1>13. (main # "loop" => \A q \in Occupied : s_queue[q].nextSubIdx = 1)'
  BY <1>6 DEF BusState, ServeInv
<1>14. QED
  BY <1>10, <1>11, <1>12, <1>13 DEF ServeInv

LEMMA LogServes ==
  ASSUME BusState, NEW level, NEW rest \in Seq(Calls),
         OneHolder(rest), Held(rest) = Held(stack),
         Serving(rest, s_subs, apidOf, dispatched, headPacket),
         NoneConsumes(rest) <=> NoneConsumes(stack),
         logCall(level, rest), UNCHANGED <<busVars, main>>
  PROVE  ServeInv'
<1>1. CASE logPasses(level)
  <2> DEFINE f == LogFrame
  <2>1. f \in Calls /\ f.fn = "log"
    BY FramesPushed DEF Covers, Calls, LogFrame, Frame
  <2>2. fillAndPublish(LogApid, <<f>> \o rest)
    BY <1>1 DEF logCall
  <2> HIDE DEF f
  <2>3. ~Holds(f) /\ Sound(f) /\ Serves(f, s_subs, apidOf, dispatched, headPacket)
    BY <2>1 DEF Holds, Owning, Sound, Serves
  <2>4. /\ <<f>> \o rest \in Seq(Calls) /\ OneHolder(<<f>> \o rest)
        /\ Held(<<f>> \o rest) = Held(stack)
    BY <2>1, <2>3, PushIdle
  <2>5. /\ Serving(<<f>> \o rest, s_subs, apidOf, dispatched, headPacket)
        /\ NoneConsumes(<<f>> \o rest) <=> NoneConsumes(stack)
    BY <2>1, <2>3, ServingPush
  <2> DEFINE logging == <<f>> \o rest
  <2> HIDE DEF logging
  <2>6. /\ logging \in Seq(Calls) /\ OneHolder(logging) /\ Held(logging) = Held(stack)
        /\ Serving(logging, s_subs, apidOf, dispatched, headPacket)
        /\ NoneConsumes(logging) <=> NoneConsumes(stack)
        /\ fillAndPublish(LogApid, logging)
    BY <2>2, <2>4, <2>5 DEF logging
  <2>7. QED
    BY <2>6, FillServes
<1>2. CASE ~logPasses(level)
  <2>1. stack' = rest /\ UNCHANGED <<bankVars, apidOf, dispatched>>
    BY <1>2 DEF logCall
  <2>2. leased' \subseteq leased
    BY <2>1 DEF bankVars
  <2>3. QED
    BY <2>1, <2>2, QuietServes DEF BusState, busVars
<1>3. QED
  BY <1>1, <1>2
-----------------------------------------------------------------------------
(***************************************************************************)
(* The two loops over the table.                                           *)
(***************************************************************************)
\* publish's loop goes on with an entry not called yet, and after that call
\* it has called just the SYNC entries up to this one.
LEMMA NextSync ==
  ASSUME BusTypes, TableInv, NEW p \in Packets, NEW i \in Nat \ {0},
         SyncLeft(i, p) # {}, ShownSync(p, i, s_subs, apidOf, dispatched),
         NEW j, j = Min(SyncLeft(i, p)), NEW d,
         d[p][s_subs[j].handler] = 1,
         \A h \in Handlers \ {s_subs[j].handler} : d[p][h] = dispatched[p][h]
  PROVE  /\ j \in DOMAIN s_subs /\ s_subs[j].prio = SYNC /\ Wants(j, p)
         /\ dispatched[p][s_subs[j].handler] = 0
         /\ ShownSync(p, j + 1, s_subs, apidOf, d)
<1>1. /\ j \in SyncLeft(i, p) /\ j \in DOMAIN s_subs
      /\ \A k \in SyncLeft(i, p) : j <= k
  BY SyncLeftMin
<1>2. /\ DOMAIN s_subs = 1 .. Len(s_subs) /\ Len(s_subs) \in Nat
      /\ j \in Nat /\ i <= j
  BY <1>1 DEF BusTypes, SyncLeft
<1>3. Wants(j, p) /\ \A k \in i .. j : s_subs[k].prio = SYNC
  BY <1>1 DEF SyncLeft
<1>4. s_subs[j].prio = SYNC
  BY <1>2, <1>3
<1>5. dispatched[p][s_subs[j].handler] = 0
  BY <1>1, <1>2, <1>3 DEF ShownSync, Wants, Matching
<1>6. ASSUME NEW k \in DOMAIN s_subs, Matching(k, p, s_subs, apidOf)
      PROVE  d[p][s_subs[k].handler] = IF s_subs[k].prio = SYNC /\ k < j + 1 THEN 1 ELSE 0
  <2>1. k \in Nat /\ s_subs[k].handler \in Handlers
    BY <1>2, EntryType
  <2>2. CASE k = j
    BY <1>2, <1>4, <2>2
  <2>3. CASE k # j
    <3>1. s_subs[k].handler # s_subs[j].handler
      BY <1>1, <2>3 DEF TableInv, HandlersDiffer
    <3>2. d[p][s_subs[k].handler] = dispatched[p][s_subs[k].handler]
      BY <2>1, <3>1
    <3>3. ~ (i <= k /\ k < j)
      <4>1. ASSUME i <= k, k < j PROVE k \in SyncLeft(i, p)
        BY <1>2, <1>3, <1>6, <2>1, <4>1 DEF SyncLeft, Wants, Matching
      <4>2. QED
        BY <1>1, <1>2, <2>1, <4>1
    <3>4. k < i <=> k < j + 1
      BY <1>2, <2>1, <2>3, <3>3
    <3>5. QED
      BY <1>6, <3>2, <3>4 DEF ShownSync
  <2>4. QED
    BY <2>2, <2>3
<1>7. QED
  BY <1>1, <1>3, <1>4, <1>5, <1>6 DEF ShownSync

\* When publish's loop ends, every SYNC entry that matches was called: the
\* early break skips none, because the table is sorted.
LEMMA SyncAllShown ==
  ASSUME BusTypes, TableInv, NEW p, NEW i \in Nat \ {0},
         SyncLeft(i, p) = {}, ShownSync(p, i, s_subs, apidOf, dispatched)
  PROVE  ShownSync(p, Len(s_subs) + 1, s_subs, apidOf, dispatched)
<1>1. DOMAIN s_subs = 1 .. Len(s_subs) /\ Len(s_subs) \in Nat
  BY DEF BusTypes
<1>2. ASSUME NEW j \in DOMAIN s_subs, Matching(j, p, s_subs, apidOf),
             s_subs[j].prio = SYNC, i <= j
      PROVE  FALSE
  <2>1. \A k \in i .. j : k \in DOMAIN s_subs /\ k <= j
    BY <1>1, <1>2
  <2>2. \A k \in i .. j : s_subs[k].prio <= SYNC /\ s_subs[k].prio \in 0 .. 3
    BY <1>2, <2>1, EntryType DEF TableInv, SubsSorted
  <2>3. \A k \in i .. j : s_subs[k].prio = SYNC
    BY <2>2 DEF SYNC
  <2>4. j \in SyncLeft(i, p)
    BY <1>1, <1>2, <2>3 DEF SyncLeft, Wants, Matching
  <2>5. QED
    BY <2>4
<1>3. QED
  BY <1>1, <1>2 DEF ShownSync

\* callConsumers goes on with an entry not called yet, the first one in the
\* order of the table, and after that call it has called just the deferred
\* entries up to this one.
LEMMA NextDeferred ==
  ASSUME BusTypes, TableInv, NEW p \in Packets, NEW i \in Nat \ {0},
         DeferredLeft(i, p) # {}, ShownDeferred(p, i, s_subs, apidOf, dispatched),
         NEW j, j = Min(DeferredLeft(i, p)), NEW d,
         d[p][s_subs[j].handler] = 1,
         \A h \in Handlers \ {s_subs[j].handler} : d[p][h] = dispatched[p][h]
  PROVE  /\ j \in DOMAIN s_subs /\ s_subs[j].prio # SYNC /\ Wants(j, p)
         /\ dispatched[p][s_subs[j].handler] = 0
         /\ \A k \in DOMAIN s_subs :
              /\ Wants(k, p) /\ s_subs[k].prio # SYNC
              /\ dispatched[p][s_subs[k].handler] = 0
              => j <= k
         /\ ShownDeferred(p, j + 1, s_subs, apidOf, d)
<1>1. /\ j \in DeferredLeft(i, p) /\ j \in DOMAIN s_subs
      /\ \A k \in DeferredLeft(i, p) : j <= k
  BY DeferredLeftMin
<1>2. /\ DOMAIN s_subs = 1 .. Len(s_subs) /\ Len(s_subs) \in Nat
      /\ j \in Nat /\ i <= j /\ Wants(j, p) /\ s_subs[j].prio # SYNC
  BY <1>1 DEF BusTypes, DeferredLeft
<1>3. dispatched[p][s_subs[j].handler] = 0
  BY <1>1, <1>2 DEF ShownDeferred, Wants, Matching
<1>4. ASSUME NEW k \in DOMAIN s_subs, Wants(k, p), s_subs[k].prio # SYNC, i <= k
      PROVE  j <= k
  BY <1>1, <1>2, <1>4 DEF DeferredLeft
<1>5. ASSUME NEW k \in DOMAIN s_subs, Wants(k, p), s_subs[k].prio # SYNC,
             dispatched[p][s_subs[k].handler] = 0
      PROVE  j <= k
  <2>1. ~ (k < i)
    BY <1>5 DEF ShownDeferred, Wants, Matching
  <2>2. QED
    BY <1>2, <1>4, <1>5, <2>1
<1>6. ASSUME NEW k \in DOMAIN s_subs, Matching(k, p, s_subs, apidOf),
             s_subs[k].prio # SYNC
      PROVE  d[p][s_subs[k].handler] = IF k < j + 1 THEN 1 ELSE 0
  <2>1. k \in Nat /\ s_subs[k].handler \in Handlers
    BY <1>2, EntryType
  <2>2. CASE k = j
    BY <1>2, <2>2
  <2>3. CASE k # j
    <3>1. s_subs[k].handler # s_subs[j].handler
      BY <1>1, <2>3 DEF TableInv, HandlersDiffer
    <3>2. d[p][s_subs[k].handler] = dispatched[p][s_subs[k].handler]
      BY <2>1, <3>1
    <3>3. i <= k => j <= k
      BY <1>4, <1>6 DEF Wants, Matching
    <3>4. k < i <=> k < j + 1
      BY <1>2, <2>1, <2>3, <3>3
    <3>5. QED
      BY <1>6, <3>2, <3>4 DEF ShownDeferred
  <2>4. QED
    BY <2>2, <2>3
<1>7. QED
  BY <1>1, <1>2, <1>3, <1>5, <1>6 DEF ShownDeferred

\* The first call of a handler for a packet, as it is noted.
LEMMA NotedOnce ==
  ASSUME BusTypes, NEW p \in Packets, NEW h \in Handlers,
         dispatched[p][h] = 0, noteCall(p, h)
  PROVE  /\ dispatched' = [dispatched EXCEPT ![p][h] = @ + 1]
         /\ dispatched'[p][h] = 1
         /\ \A g \in Handlers \ {h} : dispatched'[p][g] = dispatched[p][g]
         /\ \A r \in Packets \ {p} : dispatched'[r] = dispatched[r]
<1>1. dispatched' = [dispatched EXCEPT ![p][h] =
              IF dispatched[p][h] < 2 THEN dispatched[p][h] + 1 ELSE 2]
  BY NoteType
<1>2. dispatched' = [dispatched EXCEPT ![p][h] = dispatched[p][h] + 1]
  BY <1>1
<1>3. dispatched \in [Packets -> [Handlers -> 0 .. 2]]
  BY DEF BusTypes
<1>4. QED
  BY <1>2, <1>3
-----------------------------------------------------------------------------
(***************************************************************************)
(* The steps keep ServeInv.                                                *)
(***************************************************************************)
\* What publish and callConsumers know of the packet they show next.
LEMMA SyncCall ==
  ASSUME BusState, publishSync,
         NEW p, p = Top.pkt, NEW j, j = Min(SyncLeft(Top.idx, p)),
         NEW h, h = s_subs[j].handler
  PROVE  /\ p \in Packets /\ p \in Held(stack) /\ p \in leased
         /\ j \in DOMAIN s_subs /\ j \in Nat /\ h \in Handlers
         /\ s_subs[j].prio = SYNC /\ Wants(j, p) /\ dispatched[p][h] = 0
         /\ dispatched' = [dispatched EXCEPT ![p][h] = @ + 1]
         /\ dispatched'[p][h] = 1
         /\ \A g \in Handlers \ {h} : dispatched'[p][g] = dispatched[p][g]
         /\ \A r \in Packets \ {p} : dispatched'[r] = dispatched[r]
         /\ ShownSync(p, j + 1, s_subs, apidOf, dispatched')
<1>1. /\ stack # <<>> /\ Top.fn = "publish" /\ SyncLeft(Top.idx, p) # {}
      /\ noteCall(p, h)
  BY DEF publishSync, Running, Top
<1>2. BusInv(BusCalls, Handlers \union {NULL}) /\ BusTypes /\ TableInv
  BY DEF BusState, CoreInv, BusInv
<1>3. /\ p \in Packets /\ p \in leased /\ p \in Held(stack)
      /\ Top.idx \in Nat \ {0}
  BY <1>1, <1>2, PublishRuns
<1>4. j \in DOMAIN s_subs
  BY <1>1, <1>2, <1>3, SyncLeftMin
<1>5. j \in Nat /\ h \in Handlers
  BY <1>2, <1>4, EntryType DEF BusTypes
<1>6. ShownSync(p, Top.idx, s_subs, apidOf, dispatched)
  BY <1>1, ServingBelow DEF Serves
<1>7. dispatched[p][h] = 0
  <2>1. j \in SyncLeft(Top.idx, p)
    BY <1>1, <1>2, <1>3, SyncLeftMin
  <2>2. Wants(j, p) /\ Top.idx <= j
    BY <2>1 DEF SyncLeft
  <2>3. QED
    BY <1>3, <1>4, <1>5, <1>6, <2>2 DEF ShownSync, Wants, Matching
<1>8. /\ dispatched' = [dispatched EXCEPT ![p][h] = @ + 1]
      /\ dispatched'[p][h] = 1
      /\ \A g \in Handlers \ {h} : dispatched'[p][g] = dispatched[p][g]
      /\ \A r \in Packets \ {p} : dispatched'[r] = dispatched[r]
  BY <1>1, <1>2, <1>3, <1>5, <1>7, NotedOnce
<1>9. /\ s_subs[j].prio = SYNC /\ Wants(j, p)
      /\ ShownSync(p, j + 1, s_subs, apidOf, dispatched')
  <2> DEFINE i == Top.idx
             d == dispatched'
  <2>1. /\ i \in Nat \ {0} /\ SyncLeft(i, p) # {} /\ j = Min(SyncLeft(i, p))
        /\ ShownSync(p, i, s_subs, apidOf, dispatched)
    BY <1>1, <1>3, <1>6
  <2>2. /\ d[p][s_subs[j].handler] = 1
        /\ \A g \in Handlers \ {s_subs[j].handler} : d[p][g] = dispatched[p][g]
    BY <1>8
  <2> HIDE DEF i, d
  <2>3. /\ s_subs[j].prio = SYNC /\ Wants(j, p)
        /\ ShownSync(p, j + 1, s_subs, apidOf, d)
    BY <1>2, <1>3, <2>1, <2>2, NextSync
  <2>4. QED
    BY <2>3 DEF d
<1>10. QED
  BY <1>3, <1>4, <1>5, <1>7, <1>8, <1>9

LEMMA DeferredCall ==
  ASSUME BusState, consumeCall,
         NEW p, p = headPacket, NEW j, j = Min(headLeft),
         NEW h, h = s_subs[j].handler
  PROVE  /\ p \in Packets /\ p \in InRing /\ s_head \in Occupied
         /\ j \in DOMAIN s_subs /\ j \in Nat /\ h \in Handlers
         /\ s_subs[j].prio # SYNC /\ Wants(j, p) /\ dispatched[p][h] = 0
         /\ \A k \in DOMAIN s_subs :
              /\ Wants(k, p) /\ s_subs[k].prio # SYNC
              /\ dispatched[p][s_subs[k].handler] = 0
              => j <= k
         /\ dispatched' = [dispatched EXCEPT ![p][h] = @ + 1]
         /\ \A r \in Packets \ {p} : dispatched'[r] = dispatched[r]
         /\ ShownDeferred(p, j + 1, s_subs, apidOf, dispatched')
<1> DEFINE i == s_queue[s_head].nextSubIdx
<1>1. /\ stack = <<>> /\ s_qCount > 0 /\ DeferredLeft(i, p) # {}
      /\ j = Min(DeferredLeft(i, p)) /\ noteCall(p, h)
  BY DEF consumeCall, headLeft
<1>2. BusTypes /\ RingConsistent /\ TableInv
  BY DEF BusState, CoreInv, BusInv
<1>3. /\ s_head \in Occupied /\ p \in Packets /\ p \in InRing /\ i \in Nat \ {0}
  <2>1. s_head \in Occupied /\ p \in Packets
    BY <1>1, <1>2, HeadTaken
  <2>2. p \in InRing /\ s_head \in Slots
    BY <2>1 DEF InRing, Occupied, headPacket
  <2>3. QED
    BY <1>2, <2>1, <2>2 DEF BusTypes
<1>4. ShownDeferred(p, i, s_subs, apidOf, dispatched)
  <2>1. NoneConsumes(stack)
    BY <1>1 DEF NoneConsumes
  <2>2. QED
    BY <1>3, <2>1 DEF BusState, ServeInv, SlotsServe, headPacket
<1> HIDE DEF i
<1>5. j \in DeferredLeft(i, p) /\ j \in DOMAIN s_subs
  BY <1>1, <1>2, <1>3, DeferredLeftMin
<1>6. j \in Nat /\ h \in Handlers
  BY <1>2, <1>5, EntryType DEF BusTypes
<1>7. dispatched[p][h] = 0
  <2>1. Wants(j, p) /\ i <= j /\ s_subs[j].prio # SYNC
    BY <1>5 DEF DeferredLeft
  <2>2. QED
    BY <1>3, <1>4, <1>5, <1>6, <2>1 DEF ShownDeferred, Wants, Matching
<1>8. /\ dispatched' = [dispatched EXCEPT ![p][h] = @ + 1]
      /\ dispatched'[p][h] = 1
      /\ \A g \in Handlers \ {h} : dispatched'[p][g] = dispatched[p][g]
      /\ \A r \in Packets \ {p} : dispatched'[r] = dispatched[r]
  BY <1>1, <1>2, <1>3, <1>6, <1>7, NotedOnce
<1>9. /\ s_subs[j].prio # SYNC /\ Wants(j, p)
      /\ \A k \in DOMAIN s_subs :
           /\ Wants(k, p) /\ s_subs[k].prio # SYNC
           /\ dispatched[p][s_subs[k].handler] = 0
           => j <= k
      /\ ShownDeferred(p, j + 1, s_subs, apidOf, dispatched')
  <2> DEFINE d == dispatched'
  <2>1. /\ d[p][s_subs[j].handler] = 1
        /\ \A g \in Handlers \ {s_subs[j].handler} : d[p][g] = dispatched[p][g]
    BY <1>8
  <2> HIDE DEF d
  <2>2. /\ s_subs[j].prio # SYNC /\ Wants(j, p)
        /\ \A k \in DOMAIN s_subs :
             /\ Wants(k, p) /\ s_subs[k].prio # SYNC
             /\ dispatched[p][s_subs[k].handler] = 0
             => j <= k
        /\ ShownDeferred(p, j + 1, s_subs, apidOf, d)
    BY <1>1, <1>2, <1>3, <1>4, <2>1, NextDeferred
  <2>3. QED
    BY <2>2 DEF d
<1>10. QED
  BY <1>3, <1>5, <1>6, <1>7, <1>8, <1>9

\* A call of a subscribed handler for p that leaves the ring alone.
LEMMA CallServes ==
  ASSUME BusState, NEW p \in Packets, NEW j \in DOMAIN s_subs,
         \A g \in Handlers \ {s_subs[j].handler} : dispatched'[p][g] = dispatched[p][g],
         \A r \in Packets \ {p} : dispatched'[r] = dispatched[r],
         UNCHANGED <<bankVars, busVars, apidOf, main>>,
         Serving(stack', s_subs, apidOf, dispatched', headPacket),
         \A q \in Occupied :
           (q = s_head => NoneConsumes(stack')) =>
             p # s_queue[q].p_pkt /\ (q = s_head => NoneConsumes(stack))
  PROVE  ServeInv'
<1>1. /\ Occupied' = Occupied /\ headPacket' = headPacket
      /\ s_queue' = s_queue /\ s_head' = s_head /\ s_subs' = s_subs
      /\ subscribed' = subscribed /\ leased' = leased /\ apidOf' = apidOf
  BY DEF busVars, ringVars, bankVars, Occupied, Slots, headPacket, subscribed
<1>2. BusTypes /\ leased \subseteq Packets
  BY DEF BusState, CoreInv, BusInv, BankInv, BankTypeOK
<1>3. Serving(stack, s_subs, apidOf, dispatched, headPacket)'
  BY <1>1
<1>4. SlotsServe'
  <2> SUFFICES ASSUME NEW q \in Occupied, q = s_head => NoneConsumes(stack')
               PROVE  ShownDeferred(s_queue[q].p_pkt, s_queue[q].nextSubIdx, s_subs,
                                    apidOf, dispatched')
    BY <1>1 DEF SlotsServe
  <2>1. ShownDeferred(s_queue[q].p_pkt, s_queue[q].nextSubIdx, s_subs, apidOf, dispatched)
    BY DEF BusState, ServeInv, SlotsServe
  <2>2. s_queue[q].p_pkt \in Packets \ {p}
    BY <1>2 DEF Occupied, BusTypes
  <2>3. QED
    BY <2>1, <2>2 DEF ShownDeferred, Matching
<1>5. (\A r \in leased, h \in Handlers : h \notin subscribed => dispatched[r][h] = 0)'
  <2> SUFFICES ASSUME NEW r \in leased, NEW h \in Handlers, h \notin subscribed
               PROVE  dispatched'[r][h] = 0
    BY <1>1 DEF Handlers
  <2>1. dispatched[r][h] = 0 /\ r \in Packets
    BY <1>2 DEF BusState, ServeInv
  <2>2. h # s_subs[j].handler
    BY DEF subscribed
  <2>3. QED
    BY <2>1, <2>2
<1>6. (main # "loop" => \A q \in Occupied : s_queue[q].nextSubIdx = 1)'
  BY <1>1 DEF BusState, ServeInv
<1>7. QED
  BY <1>3, <1>4, <1>5, <1>6 DEF ServeInv

LEMMA PublishSyncServes ==
  ASSUME BusState, publishSync
  PROVE  ServeInv'
<1> DEFINE p == Top.pkt
           j == Min(SyncLeft(Top.idx, p))
           h == s_subs[j].handler
           goOn == [Top EXCEPT !.idx = j + 1]
           handler == HandlerFrame(h, p)
<1>1. /\ p \in Packets /\ p \in Held(stack)
      /\ j \in DOMAIN s_subs /\ j \in Nat /\ h \in Handlers
      /\ \A g \in Handlers \ {h} : dispatched'[p][g] = dispatched[p][g]
      /\ \A r \in Packets \ {p} : dispatched'[r] = dispatched[r]
      /\ ShownSync(p, j + 1, s_subs, apidOf, dispatched')
  BY SyncCall
<1>2. stack # <<>> /\ Top.fn = "publish"
  BY DEF publishSync, Running, Top
<1>3. /\ Top \in Calls /\ Caller \in Seq(Calls)
      /\ Serving(Caller, s_subs, apidOf, dispatched, headPacket)
      /\ NoneConsumes(stack) <=> NoneConsumes(Caller)
  BY <1>2, ServingBelow
<1>4. OneHolder(Caller) /\ Held(Caller) = Held(stack) \ {p}
  BY <1>2, PublishRuns DEF BusState, CoreInv
<1>5. goOn \in Calls /\ goOn.fn = "publish" /\ goOn.pkt = p /\ goOn.idx = j + 1
  BY <1>1, <1>2, <1>3 DEF Calls, Frames
<1>6. handler \in Calls /\ handler.fn = "handler"
  BY <1>1, FramesPushed DEF Covers, Calls, HandlerFrame, Frame
<1>7. stack' = <<handler, goOn>> \o Caller
  BY DEF publishSync
<1>8. p \notin InRing /\ UNCHANGED <<bankVars, busVars, apidOf, main>>
  BY <1>1 DEF publishSync, BusState, CoreInv, BusInv, OwnInv
<1> HIDE DEF handler, goOn, p, j
<1> DEFINE rest == <<goOn>> \o Caller
<1>9. stack' = <<handler>> \o rest /\ rest \in Seq(Calls)
  BY <1>3, <1>5, <1>6, <1>7, PushTwice, PushProperties
<1>10. Serving(Caller, s_subs, apidOf, dispatched', headPacket)
  <2>1. NoneConsumes(Caller) \/ headPacket \in Packets \ {p}
    BY <1>3, <1>8, ConsumedIsQueued DEF BusState
  <2>2. QED
    BY <1>1, <1>3, <1>4, <2>1, ServingElsewhere
<1>11. /\ Serving(rest, s_subs, apidOf, dispatched', headPacket)
       /\ NoneConsumes(rest) <=> NoneConsumes(stack)
  <2>1. Serves(goOn, s_subs, apidOf, dispatched', headPacket)
    BY <1>1, <1>5 DEF Serves
  <2>2. QED
    BY <1>3, <1>5, <1>10, <2>1, ServingPush
<1> HIDE DEF rest
<1>12. /\ Serving(stack', s_subs, apidOf, dispatched', headPacket)
       /\ NoneConsumes(stack') <=> NoneConsumes(stack)
  <2>1. Serves(handler, s_subs, apidOf, dispatched', headPacket)
    BY <1>6 DEF Serves
  <2>2. QED
    BY <1>6, <1>9, <1>11, <2>1, ServingPush
<1>13. \A q \in Occupied : p # s_queue[q].p_pkt
  BY <1>8 DEF InRing
<1>14. QED
  BY <1>1, <1>8, <1>12, <1>13, CallServes
\* At the end of publish's loop every matching SYNC entry was called.
LEMMA SyncDoneShown ==
  ASSUME BusState, SyncDone
  PROVE  /\ stack # <<>> /\ Top.fn = "publish" /\ Top \in Calls
         /\ Top.pkt \in Packets /\ Top.pkt \in leased
         /\ ShownSync(Top.pkt, Len(s_subs) + 1, s_subs, apidOf, dispatched)
<1> DEFINE p == Top.pkt
           i == Top.idx
<1>1. stack # <<>> /\ Top.fn = "publish" /\ SyncLeft(i, p) = {}
  BY DEF SyncDone, Running, Top
<1>2. p \in Packets /\ p \in leased /\ i \in Nat \ {0}
  BY <1>1, PublishRuns DEF BusState, CoreInv
<1>3. Top \in Calls /\ ShownSync(p, i, s_subs, apidOf, dispatched)
  BY <1>1, ServingBelow DEF Serves
<1> HIDE DEF p, i
<1>4. ShownSync(p, Len(s_subs) + 1, s_subs, apidOf, dispatched)
  BY <1>1, <1>2, <1>3, SyncAllShown DEF BusState, CoreInv, BusInv
<1>5. QED
  BY <1>1, <1>2, <1>3, <1>4 DEF p

LEMMA PublishFullServes ==
  ASSUME BusState, publishFull
  PROVE  ServeInv'
<1> DEFINE p == Top.pkt
           full == [Top EXCEPT !.fn = "dropping"]
<1>1. /\ stack # <<>> /\ Top.fn = "publish" /\ p \in Packets
      /\ ShownSync(p, Len(s_subs) + 1, s_subs, apidOf, dispatched)
  BY SyncDoneShown DEF publishFull
<1>2. /\ Top \in Calls /\ Caller \in Seq(Calls)
      /\ Serving(Caller, s_subs, apidOf, dispatched, headPacket)
      /\ NoneConsumes(stack) <=> NoneConsumes(Caller)
  BY <1>1, ServingBelow
<1>3. /\ OneHolder(Caller) /\ Held(Caller) = Held(stack) \ {p} /\ p \in Held(stack)
      /\ Top.idx \in Nat \ {0}
  BY <1>1, PublishRuns DEF BusState, CoreInv
<1>4. /\ full \in Calls /\ full.fn = "dropping" /\ full.pkt = p
      /\ full.idx = Top.idx
  BY <1>2 DEF Calls, Frames, BusCalls
<1>5. logCall(LogWARN, <<full>> \o Caller) /\ UNCHANGED <<busVars, main>>
  BY DEF publishFull
<1> HIDE DEF p, full
<1>6. /\ Serves(full, s_subs, apidOf, dispatched, headPacket)
      /\ Holds(full) /\ Sound(full)
  BY <1>1, <1>3, <1>4, NullIsNoPacket DEF Serves, Holds, Owning, Sound
<1> DEFINE rest == <<full>> \o Caller
<1>7. /\ rest \in Seq(Calls)
      /\ Serving(rest, s_subs, apidOf, dispatched, headPacket)
      /\ NoneConsumes(rest) <=> NoneConsumes(stack)
  BY <1>2, <1>4, <1>6, ServingPush, PushProperties
<1>8. Held(rest) = Held(Caller) \union {p}
  BY <1>2, <1>4, <1>6, HeldPush
<1>9. OneHolder(rest) /\ Held(rest) = Held(stack)
  <2>1. p \notin Held(Caller)
    BY <1>3
  <2>2. OneHolder(rest)
    BY <1>2, <1>3, <1>4, <1>6, <2>1, HeldPush
  <2>3. QED
    BY <1>3, <1>8, <2>2
<1>10. logCall(LogWARN, rest)
  BY <1>5
<1> HIDE DEF rest
<1>11. QED
  BY <1>5, <1>7, <1>9, <1>10, LogServes

\* A packet goes into the ring before any deferred subscriber was called.
LEMMA PublishEnqueueServes ==
  ASSUME BusState, publishEnqueue
  PROVE  ServeInv'
<1> DEFINE p == Top.pkt
<1>1. /\ stack # <<>> /\ Top.fn = "publish" /\ p \in Packets
      /\ ShownSync(p, Len(s_subs) + 1, s_subs, apidOf, dispatched)
  BY SyncDoneShown DEF publishEnqueue
<1>2. /\ Caller \in Seq(Calls)
      /\ Serving(Caller, s_subs, apidOf, dispatched, headPacket)
      /\ NoneConsumes(stack) <=> NoneConsumes(Caller)
  BY <1>1, ServingBelow
<1> HIDE DEF p
<1>3. BusTypes /\ RingConsistent /\ ~ringFull
  BY DEF BusState, CoreInv, BusInv, publishEnqueue
<1>4. /\ s_tail \in Slots \ Occupied /\ s_head \in Slots
  BY <1>3, TailFree DEF BusTypes
<1>5. /\ Occupied' = Occupied \union {s_tail}
      /\ \A q \in Slots \ {s_tail} : s_queue'[q] = s_queue[q]
  BY <1>1, <1>3, RingAppend DEF publishEnqueue, p
<1>6. s_queue'[s_tail] = [p_pkt |-> p, nextSubIdx |-> 1]
  BY <1>3, <1>4 DEF publishEnqueue, BusTypes, p
<1>7. /\ UNCHANGED <<s_subs, s_head, apidOf, dispatched, main>> /\ stack' = Caller
      /\ leased' = leased /\ subscribed' = subscribed
  BY DEF publishEnqueue, bankVars, subscribed
<1>8. NoneConsumes(stack) \/ (s_head \in Occupied /\ headPacket' = headPacket)
  <2>1. s_qCount > 0 => s_head \in Occupied
    BY <1>3, HeadTaken
  <2>2. s_head \in Occupied => s_queue'[s_head] = s_queue[s_head]
    BY <1>4, <1>5
  <2>3. s_head \in Occupied => headPacket' = headPacket
    BY <1>7, <2>2 DEF headPacket
  <2>4. QED
    BY <2>1, <2>3, ConsumedIsQueued DEF BusState
<1>9. Serving(Caller, s_subs, apidOf, dispatched, headPacket')
  BY <1>2, <1>8 DEF Serving, Serves, NoneConsumes
<1>10. SlotsServe'
  <2> SUFFICES ASSUME NEW q \in Occupied', q = s_head => NoneConsumes(Caller)
               PROVE  ShownDeferred(s_queue'[q].p_pkt, s_queue'[q].nextSubIdx, s_subs,
                                    apidOf, dispatched)
    BY <1>7 DEF SlotsServe
  <2>1. CASE q = s_tail
    <3>1. \A j \in DOMAIN s_subs : ~ (j < 1)
      BY <1>3 DEF BusTypes
    <3>2. ShownDeferred(p, 1, s_subs, apidOf, dispatched)
      BY <1>1, <3>1 DEF ShownSync, ShownDeferred
    <3>3. QED
      BY <1>6, <2>1, <3>2
  <2>2. CASE q # s_tail
    <3>1. q \in Occupied /\ q \in Slots /\ s_queue'[q] = s_queue[q]
      BY <1>5, <2>2 DEF Occupied
    <3>2. QED
      BY <1>2, <3>1 DEF BusState, ServeInv, SlotsServe
  <2>3. QED
    BY <2>1, <2>2
<1>11. (main # "loop" => \A q \in Occupied : s_queue[q].nextSubIdx = 1)'
  <2> SUFFICES ASSUME main # "loop", NEW q \in Occupied' PROVE s_queue'[q].nextSubIdx = 1
    BY <1>7
  <2>1. q # s_tail => q \in Occupied /\ q \in Slots /\ s_queue'[q] = s_queue[q]
    BY <1>5 DEF Occupied
  <2>2. QED
    BY <1>6, <2>1 DEF BusState, ServeInv
<1>12. (\A r \in leased, h \in Handlers : h \notin subscribed => dispatched[r][h] = 0)'
  BY <1>7 DEF BusState, ServeInv, Handlers
<1>13. QED
  BY <1>7, <1>9, <1>10, <1>11, <1>12 DEF ServeInv

\* callConsumers saves the progress its call has made.
LEMMA ConsumeReturnServes ==
  ASSUME BusState, consumeReturn
  PROVE  ServeInv'
<1>1. stack # <<>> /\ Top.fn = "consume"
  BY DEF consumeReturn, Running, Top
<1>2. /\ Caller \in Seq(Calls) /\ Top \in Calls
      /\ Serves(Top, s_subs, apidOf, dispatched, headPacket)
      /\ Serving(Caller, s_subs, apidOf, dispatched, headPacket)
  BY <1>1, ServingBelow
<1>3. ShownDeferred(headPacket, Top.idx + 1, s_subs, apidOf, dispatched)
  BY <1>1, <1>2 DEF Serves
<1>4. Caller = <<>> /\ main = "loop"
  BY <1>1, NestedBelow DEF NestedOn, BusState
<1>5. /\ UNCHANGED <<s_subs, s_head, apidOf, dispatched, main>> /\ stack' = <<>>
      /\ leased' = leased /\ subscribed' = subscribed
      /\ s_queue' = [s_queue EXCEPT ![s_head].nextSubIdx = Top.idx + 1]
  BY <1>4 DEF consumeReturn, bankVars, subscribed, afterServed
<1>6. BusTypes /\ s_head \in Slots
  BY DEF BusState, CoreInv, BusInv, BusTypes
<1>7. /\ s_queue'[s_head].p_pkt = headPacket
      /\ s_queue'[s_head].nextSubIdx = Top.idx + 1
      /\ \A q \in Slots \ {s_head} : s_queue'[q] = s_queue[q]
  BY <1>5, <1>6 DEF BusTypes, headPacket
<1>8. Occupied' \subseteq Slots /\ \A q \in Occupied' \ {s_head} : q \in Occupied
  BY <1>7 DEF Occupied, Slots
<1>9. SlotsServe'
  <2> SUFFICES ASSUME NEW q \in Occupied'
               PROVE  ShownDeferred(s_queue'[q].p_pkt, s_queue'[q].nextSubIdx, s_subs,
                                    apidOf, dispatched)
    BY <1>5 DEF SlotsServe
  <2>1. CASE q = s_head
    BY <1>3, <1>7, <2>1
  <2>2. CASE q # s_head
    <3>1. q \in Occupied /\ s_queue'[q] = s_queue[q]
      BY <1>7, <1>8, <2>2
    <3>2. QED
      BY <2>2, <3>1 DEF BusState, ServeInv, SlotsServe
  <2>3. QED
    BY <2>1, <2>2
<1>10. Serving(<<>>, s_subs, apidOf, dispatched, headPacket')
  BY DEF Serving
<1>11. (\A r \in leased, h \in Handlers : h \notin subscribed => dispatched[r][h] = 0)'
  BY <1>5 DEF BusState, ServeInv, Handlers
<1>12. (main # "loop" => \A q \in Occupied : s_queue[q].nextSubIdx = 1)'
  BY <1>4, <1>5
<1>13. QED
  BY <1>5, <1>9, <1>10, <1>11, <1>12 DEF ServeInv

LEMMA BusNextServes ==
  ASSUME BusState, BusNext
  PROVE  ServeInv'
<1>1. ASSUME publishReturn \/ publishDrop PROVE ServeInv'
  <2>1. stack # <<>> /\ Top.fn \in {"publish", "dropping"} /\ stack' = Caller
    BY <1>1 DEF publishReturn, publishDrop, SyncDone, Running, Top
  <2>2. Top.pkt \in leased /\ BankInv
    BY <2>1, PublishRuns DEF BusState, CoreInv, BusInv
  <2>3. leased' \subseteq leased
    BY <1>1, <2>2, BankReturn DEF publishReturn, publishDrop
  <2>4. UNCHANGED <<s_subs, ringVars, apidOf, dispatched, main>>
    BY <1>1 DEF publishReturn, publishDrop, busVars
  <2>5. QED
    BY <2>1, <2>3, <2>4, ReturnServes
<1>2. CASE logReturn
  <2>1. stack # <<>> /\ Top.fn # "consume" /\ stack' = Caller
    BY <1>2 DEF logReturn, Running, Top
  <2>2. QED
    BY <1>2, <2>1, ReturnServes DEF logReturn, busVars, bankVars
<1>3. QED
  BY <1>1, <1>2, PublishSyncServes, PublishEnqueueServes, PublishFullServes,
     ConsumeReturnServes DEF BusNext
LEMMA HandlerServes ==
  ASSUME BusState, HandlerNext
  PROVE  ServeInv'
<1> DEFINE less == [Top EXCEPT !.idx = @ - 1]
<1>1. ASSUME Running("handler"), Top.idx > 0
      PROVE  /\ oneCallLess \in Seq(Calls)
             /\ OneHolder(oneCallLess) /\ Held(oneCallLess) = Held(stack)
             /\ Serving(oneCallLess, s_subs, apidOf, dispatched, headPacket)
             /\ NoneConsumes(oneCallLess) <=> NoneConsumes(stack)
  <2>1. stack # <<>> /\ Top.fn = "handler"
    BY <1>1 DEF Running, Top
  <2>2. /\ Top \in Calls /\ Caller \in Seq(Calls)
        /\ Serving(Caller, s_subs, apidOf, dispatched, headPacket)
        /\ NoneConsumes(stack) <=> NoneConsumes(Caller)
    BY <2>1, ServingBelow
  <2>3. less \in Calls /\ less.fn = "handler"
    <3>1. Top.idx - 1 \in Nat
      BY <1>1, <2>2 DEF Calls, Frames
    <3>2. QED
      BY <2>1, <2>2, <3>1 DEF Calls, Frames
  <2>4. oneCallLess = <<less>> \o Caller
    BY DEF oneCallLess
  <2> HIDE DEF less
  <2>5. Serves(less, s_subs, apidOf, dispatched, headPacket)
    BY <2>3 DEF Serves
  <2>6. /\ oneCallLess \in Seq(Calls)
        /\ OneHolder(oneCallLess) /\ Held(oneCallLess) = Held(stack)
    BY <1>1, HandlerCall DEF BusState, CoreInv, Calls
  <2>7. /\ Serving(oneCallLess, s_subs, apidOf, dispatched, headPacket)
        /\ NoneConsumes(oneCallLess) <=> NoneConsumes(stack)
    BY <2>2, <2>3, <2>4, <2>5, ServingPush
  <2>8. QED
    BY <2>6, <2>7
<1>2. ASSUME NEW level, handlerLog(level) PROVE ServeInv'
  BY <1>1, <1>2, LogServes DEF handlerLog
<1>3. ASSUME NEW apid \in Apids, handlerPublish(apid) PROVE ServeInv'
  BY <1>1, <1>3, FillServes DEF handlerPublish
<1>4. CASE handlerReturn
  <2>1. stack # <<>> /\ Top.fn # "consume" /\ stack' = Caller
    BY <1>4 DEF handlerReturn, Running, Top
  <2>2. QED
    BY <1>4, <2>1, ReturnServes DEF handlerReturn, busVars, bankVars
<1>5. QED
  BY <1>2, <1>3, <1>4 DEF HandlerNext

\* With no call in progress.
LEMMA IdleServes ==
  ASSUME NEW t, NEW a, NEW d, NEW first
  PROVE  /\ Serving(<<>>, t, a, d, first) /\ NoneConsumes(<<>>)
         /\ <<>> \in Seq(Calls) /\ OneHolder(<<>>) /\ Held(<<>>) = {}
<1>1. DOMAIN <<>> = {}
  OBVIOUS
<1>2. QED
  BY <1>1, HeldEmpty DEF Serving, NoneConsumes

LEMMA ConsumeCallServes ==
  ASSUME BusState, consumeCall
  PROVE  ServeInv'
<1> DEFINE p == headPacket
           j == Min(headLeft)
           h == s_subs[j].handler
           handler == HandlerFrame(h, p)
           waits == Frame("consume", NULL, j, NULL)
<1>1. /\ p \in Packets /\ s_head \in Occupied
      /\ j \in DOMAIN s_subs /\ j \in Nat /\ h \in Handlers
      /\ dispatched' = [dispatched EXCEPT ![p][h] = @ + 1]
      /\ \A r \in Packets \ {p} : dispatched'[r] = dispatched[r]
      /\ ShownDeferred(p, j + 1, s_subs, apidOf, dispatched')
  BY DeferredCall
<1>2. \A g \in Handlers \ {h} : dispatched'[p][g] = dispatched[p][g]
  BY <1>1 DEF BusState, CoreInv, BusInv, BusTypes
<1>3. handler \in Calls /\ waits \in Calls /\ handler.fn = "handler"
      /\ waits.fn = "consume" /\ waits.idx = j
  BY <1>1, FramesPushed DEF Covers, Calls, HandlerFrame, Frame
<1>4. /\ stack = <<>> /\ stack' = <<handler, waits>>
      /\ UNCHANGED <<bankVars, busVars, apidOf, main>>
  BY DEF consumeCall
<1> HIDE DEF handler, waits, j
<1> DEFINE rest == <<waits>> \o <<>>
<1>5. stack' = <<handler>> \o rest /\ rest \in Seq(Calls)
  BY <1>3, <1>4, PairIsPush, PushProperties, IdleServes
<1>6. Serving(rest, s_subs, apidOf, dispatched', p) /\ ~NoneConsumes(rest)
  <2>1. Serves(waits, s_subs, apidOf, dispatched', p)
    BY <1>1, <1>3 DEF Serves
  <2>2. QED
    BY <1>3, <2>1, ServingPush, IdleServes
<1> HIDE DEF rest
<1>7. Serving(stack', s_subs, apidOf, dispatched', p) /\ ~NoneConsumes(stack')
  <2>1. Serves(handler, s_subs, apidOf, dispatched', p)
    BY <1>3 DEF Serves
  <2>2. QED
    BY <1>3, <1>5, <1>6, <2>1, ServingPush
<1>8. \A q \in Occupied \ {s_head} : p # s_queue[q].p_pkt
  BY <1>1 DEF BusState, CoreInv, BusInv, OwnInv, headPacket
<1>9. QED
  BY <1>1, <1>2, <1>4, <1>7, <1>8, CallServes

\* A retired packet leaves no trace, and the others keep their progress.
LEMMA ConsumeRetireServes ==
  ASSUME BusState, consumeRetire
  PROVE  ServeInv'
<1>1. BusTypes /\ RingConsistent /\ BankInv
  BY DEF BusState, CoreInv, BusInv
<1>2. /\ Occupied' = Occupied \ {s_head}
      /\ \A q \in Slots \ {s_head} : s_queue'[q] = s_queue[q]
  BY <1>1, RingRetire DEF consumeRetire
<1>3. leased' \subseteq leased
  <2>1. headPacket \in leased
    BY <1>1, HeadTaken DEF consumeRetire, BusState, CoreInv, BusInv, OwnInv, InRing,
       headPacket
  <2>2. QED
    BY <1>1, <2>1, BankReturn DEF consumeRetire
<1>4. /\ UNCHANGED <<s_subs, apidOf, dispatched, main>> /\ stack = <<>> /\ stack' = <<>>
      /\ subscribed' = subscribed
  BY DEF consumeRetire, subscribed
<1>5. \A q \in Occupied' : q \in Occupied \ {s_head} /\ s_queue'[q] = s_queue[q]
  BY <1>2 DEF Occupied
<1>6. SlotsServe'
  BY <1>4, <1>5 DEF BusState, ServeInv, SlotsServe
<1>7. (\A r \in leased, h \in Handlers : h \notin subscribed => dispatched[r][h] = 0)'
  BY <1>3, <1>4 DEF BusState, ServeInv, Handlers
<1>8. (main # "loop" => \A q \in Occupied : s_queue[q].nextSubIdx = 1)'
  BY <1>4, <1>5 DEF BusState, ServeInv
<1>9. Serving(stack, s_subs, apidOf, dispatched, headPacket)'
  BY <1>4, IdleServes
<1>10. QED
  BY <1>6, <1>7, <1>8, <1>9 DEF ServeInv

\* The insertion adds its entry and keeps the others.
LEMMA InsertAdds ==
  ASSUME BusTypes, NEW s \in Subscriptions
  PROVE  /\ \A i \in DOMAIN insertSub(s) :
              insertSub(s)[i] = s \/ \E k \in DOMAIN s_subs : insertSub(s)[i] = s_subs[k]
         /\ \A k \in DOMAIN s_subs : \E i \in DOMAIN insertSub(s) : insertSub(s)[i] = s_subs[k]
         /\ \E i \in DOMAIN insertSub(s) : insertSub(s)[i] = s
<1> DEFINE ins == insertionPoint(s)
           n == Len(s_subs)
           new == insertSub(s)
<1>1. ins \in 0 .. n /\ n \in Nat /\ DOMAIN s_subs = 1 .. n
  BY InsertionPointType DEF BusTypes
<1>2. /\ \A i \in 1 .. ins : new[i] = s_subs[i]
      /\ new[ins + 1] = s
      /\ \A i \in ins + 2 .. n + 1 : new[i] = s_subs[i - 1]
      /\ DOMAIN new = 1 .. n + 1
  BY InsertedAt
<1> HIDE DEF ins, n, new
<1>3. ASSUME NEW i \in DOMAIN new
      PROVE  new[i] = s \/ \E k \in DOMAIN s_subs : new[i] = s_subs[k]
  <2>1. /\ i \in 1 .. ins => i \in DOMAIN s_subs
        /\ i \in ins + 2 .. n + 1 => i - 1 \in DOMAIN s_subs
        /\ i \in 1 .. ins \/ i = ins + 1 \/ i \in ins + 2 .. n + 1
    BY <1>1, <1>2
  <2>2. QED
    BY <1>2, <2>1
<1>4. ASSUME NEW k \in DOMAIN s_subs
      PROVE  \E i \in DOMAIN new : new[i] = s_subs[k]
  <2>1. CASE k <= ins
    <3>1. k \in DOMAIN new /\ new[k] = s_subs[k]
      BY <1>1, <1>2, <2>1
    <3>2. QED
      BY <3>1
  <2>2. CASE k > ins
    <3> DEFINE i == k + 1
    <3>1. i \in DOMAIN new /\ i \in ins + 2 .. n + 1 /\ i - 1 = k
      BY <1>1, <1>2, <2>2
    <3> HIDE DEF i
    <3>2. QED
      BY <1>2, <3>1
  <2>3. QED
    BY <1>1, <2>1, <2>2
<1>5. ins + 1 \in DOMAIN new
  BY <1>1, <1>2
<1>6. QED
  BY <1>2, <1>3, <1>4, <1>5 DEF new

\* An entry inserted before the superloop starts finds every waiting packet
\* not yet shown to a deferred subscriber.
LEMMA InsertServes ==
  ASSUME BusState, NEW s \in Subscriptions, s.handler \notin subscribed,
         main # "loop", stack = <<>>, stack' = <<>>, s_subs' = insertSub(s),
         UNCHANGED <<bankVars, ringVars, apidOf, dispatched, main>>
  PROVE  ServeInv'
<1>1. /\ Occupied' = Occupied /\ s_queue' = s_queue /\ s_head' = s_head
      /\ leased' = leased
  BY DEF ringVars, bankVars, Occupied, Slots
<1>2. BusTypes /\ SubsSorted /\ s.handler \in Handlers
  BY DEF BusState, CoreInv, BusInv, TableInv, Handlers
<1>3. \A i \in DOMAIN s_subs' :
        s_subs'[i] = s \/ \E k \in DOMAIN s_subs : s_subs'[i] = s_subs[k]
  BY <1>2, InsertAdds
<1>4. DOMAIN s_subs' = 1 .. Len(s_subs) + 1 /\ Len(s_subs) \in Nat
  BY <1>2 DEF insertSub, BusTypes
<1>5. \A q \in Occupied, h \in Handlers :
        h \notin subscribed => dispatched[s_queue[q].p_pkt][h] = 0
  BY DEF BusState, CoreInv, BusInv, OwnInv, InRing, ServeInv
<1>6. SlotsServe'
  <2> SUFFICES ASSUME NEW q \in Occupied, NEW i \in DOMAIN s_subs',
                      Matching(i, s_queue[q].p_pkt, s_subs', apidOf),
                      s_subs'[i].prio # SYNC
               PROVE  dispatched[s_queue[q].p_pkt][s_subs'[i].handler] =
                        IF i < s_queue[q].nextSubIdx THEN 1 ELSE 0
    BY <1>1 DEF SlotsServe, ShownDeferred
  <2>1. s_queue[q].nextSubIdx = 1 /\ ~ (i < 1)
    BY <1>4 DEF BusState, ServeInv
  <2>2. ShownDeferred(s_queue[q].p_pkt, 1, s_subs, apidOf, dispatched)
    BY <2>1 DEF BusState, ServeInv, SlotsServe, NoneConsumes
  <2>3. CASE s_subs'[i] = s
    BY <1>2, <1>5, <2>1, <2>3
  <2>4. ASSUME NEW k \in DOMAIN s_subs, s_subs'[i] = s_subs[k]
        PROVE  dispatched[s_queue[q].p_pkt][s_subs'[i].handler] = 0
    <3>1. Matching(k, s_queue[q].p_pkt, s_subs, apidOf) /\ s_subs[k].prio # SYNC
      BY <2>4 DEF Matching
    <3>2. ~ (k < 1)
      BY <1>2 DEF BusTypes
    <3>3. QED
      BY <2>2, <2>4, <3>1, <3>2 DEF ShownDeferred
  <2>5. QED
    BY <1>3, <2>1, <2>3, <2>4
<1>7. subscribed \subseteq subscribed'
  <2>1. \A k \in DOMAIN s_subs : \E i \in DOMAIN s_subs' : s_subs'[i] = s_subs[k]
    BY <1>2, InsertAdds
  <2>2. QED
    BY <2>1 DEF subscribed
<1>8. (\A r \in leased, h \in Handlers : h \notin subscribed => dispatched[r][h] = 0)'
  BY <1>1, <1>7 DEF BusState, ServeInv, Handlers
<1>9. (main # "loop" => \A q \in Occupied : s_queue[q].nextSubIdx = 1)'
  BY <1>1 DEF BusState, ServeInv
<1>10. Serving(stack, s_subs, apidOf, dispatched, headPacket)'
  BY IdleServes
<1>11. QED
  BY <1>6, <1>8, <1>9, <1>10 DEF ServeInv
LEMMA SubscribeServes ==
  ASSUME BusState, NEW s \in Subscriptions, mainSubscribe(s)
  PROVE  ServeInv'
<1>1. stack = <<>> /\ main # "loop" /\ subscribe(s, <<>>)
  BY DEF mainSubscribe
<1>2. CASE busInitialized /\ tableFull
  <2>1. logCall(LogERROR, <<>>) /\ UNCHANGED <<busVars, main>>
    BY <1>1, <1>2 DEF subscribe, busVars
  <2>2. QED
    BY <1>1, <2>1, IdleServes, LogServes
<1>3. CASE ~ (busInitialized /\ tableFull)
  <2>1. /\ stack' = <<>> /\ UNCHANGED <<bankVars, ringVars, apidOf, dispatched, main>>
        /\ s.handler \notin subscribed
        /\ s_subs' = insertSub(s) \/ UNCHANGED s_subs
    BY <1>1, <1>3 DEF subscribe
  <2>2. CASE s_subs' = insertSub(s)
    BY <1>1, <2>1, <2>2, InsertServes
  <2>3. CASE UNCHANGED s_subs
    BY <1>1, <2>1, <2>3, QuietServes, IdleServes DEF BusState, bankVars
  <2>4. QED
    BY <2>1, <2>2, <2>3
<1>4. QED
  BY <1>2, <1>3

LEMMA BootServes ==
  ASSUME BusState, boot
  PROVE  ServeInv'
<1>1. /\ main = "reset" /\ stack = <<>> /\ ~s_initialized
      /\ fillStack /\ pubsubInit /\ stack' = <<>>
  BY DEF boot, bootCalls, databankInit, BusState, CoreInv, BusInv, ResetInv
<1>2. leased' = {}
  BY <1>1, NothingBeforeInit DEF BusState, CoreInv, BusInv, BankInv, fillStack
<1>3. \A q \in Slots : s_queue'[q].p_pkt = NULL
  BY <1>1 DEF pubsubInit, emptySlot
<1>4. Occupied' = {}
  BY <1>3 DEF Occupied, Slots
<1>5. Serving(stack, s_subs, apidOf, dispatched, headPacket)'
  BY <1>1, IdleServes
<1>6. QED
  BY <1>2, <1>4, <1>5 DEF ServeInv, SlotsServe

LEMMA MainServes ==
  ASSUME BusState, MainNext
  PROVE  ServeInv'
<1>1. ASSUME stack = <<>>
      PROVE  /\ Serving(<<>>, s_subs, apidOf, dispatched, headPacket)
             /\ NoneConsumes(<<>>) <=> NoneConsumes(stack)
             /\ <<>> \in Seq(Calls) /\ OneHolder(<<>>) /\ Held(<<>>) = Held(stack)
  BY <1>1, IdleServes
<1>2. ASSUME enterLoop \/ mainSetLog PROVE ServeInv'
  <2>1. /\ stack = <<>> /\ stack' = <<>> /\ leased' \subseteq leased
        /\ UNCHANGED <<s_subs, ringVars, apidOf, dispatched>>
    BY <1>2 DEF enterLoop, mainSetLog, busVars, bankVars
  <2>2. main' # "loop" => main # "loop"
    BY <1>2 DEF enterLoop, mainSetLog
  <2>3. QED
    BY <1>1, <2>1, <2>2, QuietServes DEF BusState
<1>3. ASSUME NEW level, mainLog(level) PROVE ServeInv'
  BY <1>1, <1>3, LogServes DEF mainLog
<1>4. ASSUME NEW apid \in Apids, mainPublish(apid) PROVE ServeInv'
  BY <1>1, <1>4, FillServes DEF mainPublish
<1>5. CASE mainConsume
  <2>1. CASE consumeNothing
    <3>1. /\ stack = <<>> /\ stack' = <<>>
          /\ UNCHANGED <<bankVars, s_subs, ringVars, apidOf, dispatched, main>>
      BY <2>1 DEF consumeNothing, vars, busVars
    <3>2. QED
      BY <1>1, <3>1, QuietServes DEF BusState, bankVars
  <2>2. QED
    BY <1>5, <2>1, ConsumeCallServes, ConsumeRetireServes
    DEF mainConsume, callConsumers
<1>6. QED
  BY <1>2, <1>3, <1>4, <1>5, BootServes, SubscribeServes DEF MainNext

LEMMA ServeInvariant == Spec => []ServeInv
<1>1. Init => ServeInv
  <2> SUFFICES ASSUME Init PROVE ServeInv
    OBVIOUS
  <2>1. stack = <<>> /\ leased = {} /\ \A q \in Slots : s_queue[q].p_pkt = NULL
    BY DEF Init, BankInit, emptySlot
  <2>2. Occupied = {}
    BY <2>1 DEF Occupied
  <2>3. QED
    BY <2>1, <2>2, IdleServes DEF ServeInv, SlotsServe
<1>2. CoreInv /\ NestInv /\ TableInv /\ ServeInv /\ [Next]_vars => ServeInv'
  <2> SUFFICES ASSUME BusState, [Next]_vars PROVE ServeInv'
    BY DEF BusState
  <2>1. CASE UNCHANGED vars
    <3>1. UNCHANGED <<s_subs, ringVars, apidOf, dispatched, leased, main, stack>>
      BY <2>1 DEF vars, busVars, bankVars
    <3>2. /\ Serving(stack', s_subs, apidOf, dispatched, headPacket)
          /\ NoneConsumes(stack') => NoneConsumes(stack)
      BY <3>1 DEF BusState, ServeInv
    <3>3. QED
      BY <3>1, <3>2, QuietServes DEF BusState
  <2>2. QED
    BY <2>1, MainServes, HandlerServes, BusNextServes DEF Next
<1>3. QED
  BY <1>1, <1>2, CoreInvariant, NestInvariant, TableInvariant, PTL DEF Spec

LEMMA BusStateInvariant == Spec => []BusState
<1>1. CoreInv /\ NestInv /\ TableInv /\ ServeInv => BusState
  BY DEF BusState
<1>2. QED
  BY <1>1, CoreInvariant, NestInvariant, TableInvariant, ServeInvariant, PTL
-----------------------------------------------------------------------------
(***************************************************************************)
(* Which packets the steps take and give back.                             *)
(***************************************************************************)
\* A log line or a call of publish takes a packet or none.
LEMMA FillTakes ==
  ASSUME CoreInv, NEW apid, NEW rest, fillAndPublish(apid, rest)
  PROVE  /\ topPacket \in Packets \ leased /\ leased' = leased \union {topPacket}
         /\ apidOf' = [apidOf EXCEPT ![topPacket] = apid]
         /\ dispatched' = [dispatched EXCEPT ![topPacket] = toNobody]
  BY BankGet DEF CoreInv, BusInv, fillAndPublish

LEMMA LogTakes ==
  ASSUME CoreInv, NEW level, NEW rest, logCall(level, rest)
  PROVE  \/ UNCHANGED <<leased, apidOf, dispatched>>
         \/ /\ topPacket \in Packets \ leased /\ leased' = leased \union {topPacket}
            /\ apidOf' = [apidOf EXCEPT ![topPacket] = LogApid]
            /\ dispatched' = [dispatched EXCEPT ![topPacket] = toNobody]
<1>1. CASE logPasses(level)
  <2>1. fillAndPublish(LogApid, <<LogFrame>> \o rest)
    BY <1>1 DEF logCall
  <2>2. QED
    BY <2>1, FillTakes
<1>2. CASE ~logPasses(level)
  BY <1>2 DEF logCall, bankVars
<1>3. QED
  BY <1>1, <1>2

\* The steps that only let a packet in, or do not touch the packets at all.
Arrives ==
  /\ UNCHANGED <<s_subs, ringVars>>
  /\ \/ UNCHANGED <<leased, apidOf, dispatched>>
     \/ \E p \in Packets \ leased, a \in SUBSET ApidBits :
          /\ leased' = leased \union {p}
          /\ apidOf' = [apidOf EXCEPT ![p] = a]
          /\ dispatched' = [dispatched EXCEPT ![p] = toNobody]

\* Every step is one of those, a step of publish or callConsumers, a new
\* subscription, or the boot of a bus that is empty.
LEMMA StepKinds ==
  ASSUME CoreInv, [Next]_vars
  PROVE  \/ Arrives
         \/ publishSync \/ publishReturn \/ publishDrop \/ publishEnqueue
         \/ consumeCall \/ consumeRetire
         \/ consumeReturn
         \/ boot
         \/ \E s \in Subscriptions :
              /\ s.handler \notin subscribed /\ s_subs' = insertSub(s)
              /\ UNCHANGED <<leased, ringVars, apidOf, dispatched>>
<1>1. LogApid \in SUBSET ApidBits /\ \A apid \in Apids : apid \in SUBSET ApidBits
  BY PubSubAssumption
<1>2. ASSUME NEW level, NEW rest, logCall(level, rest), UNCHANGED <<s_subs, ringVars>>
      PROVE  Arrives
  BY <1>1, <1>2, LogTakes DEF Arrives
<1>3. ASSUME NEW apid \in Apids, NEW rest, fillAndPublish(apid, rest),
             UNCHANGED <<s_subs, ringVars>>
      PROVE  Arrives
  BY <1>1, <1>3, FillTakes DEF Arrives
<1>4. ASSUME UNCHANGED <<bankVars, s_subs, ringVars, apidOf, dispatched>> PROVE Arrives
  BY <1>4 DEF Arrives, bankVars
<1>5. ASSUME HandlerNext PROVE Arrives
  BY <1>2, <1>3, <1>4, <1>5 DEF HandlerNext, handlerLog, handlerPublish, handlerReturn,
     busVars
<1>6. ASSUME publishFull \/ logReturn PROVE Arrives
  BY <1>2, <1>4, <1>6 DEF publishFull, logReturn, busVars
<1>7. ASSUME enterLoop \/ mainSetLog PROVE Arrives
  BY <1>4, <1>7 DEF enterLoop, mainSetLog, busVars
<1>8. ASSUME NEW level, mainLog(level) PROVE Arrives
  BY <1>2, <1>8 DEF mainLog, busVars
<1>9. ASSUME NEW apid \in Apids, mainPublish(apid) PROVE Arrives
  BY <1>3, <1>9 DEF mainPublish, busVars
<1>10. ASSUME NEW s \in Subscriptions, mainSubscribe(s)
       PROVE  \/ Arrives
              \/ /\ s.handler \notin subscribed /\ s_subs' = insertSub(s)
                 /\ UNCHANGED <<leased, ringVars, apidOf, dispatched>>
  <2>1. subscribe(s, <<>>)
    BY <1>10 DEF mainSubscribe
  <2>2. CASE busInitialized /\ tableFull
    BY <1>2, <2>1, <2>2 DEF subscribe
  <2>3. CASE ~ (busInitialized /\ tableFull)
    BY <1>4, <2>1, <2>3 DEF subscribe, bankVars
  <2>4. QED
    BY <2>2, <2>3
<1>11. ASSUME UNCHANGED vars PROVE Arrives
  BY <1>4, <1>11 DEF vars, busVars
<1>12. ASSUME mainConsume PROVE consumeCall \/ consumeRetire \/ Arrives
  BY <1>11, <1>12 DEF mainConsume, callConsumers, consumeNothing
<1>13. ASSUME MainNext PROVE \/ Arrives \/ boot \/ consumeCall \/ consumeRetire
                            \/ \E s \in Subscriptions :
                                 /\ s.handler \notin subscribed /\ s_subs' = insertSub(s)
                                 /\ UNCHANGED <<leased, ringVars, apidOf, dispatched>>
  BY <1>7, <1>8, <1>9, <1>10, <1>12, <1>13 DEF MainNext
<1>14. QED
  BY <1>5, <1>6, <1>11, <1>13 DEF Next, BusNext

\* The steps that give a packet back.
LEMMA GivenBack ==
  ASSUME CoreInv
  PROVE  /\ publishReturn \/ publishDrop =>
              /\ Top.pkt \in Packets \intersect leased /\ Top.pkt \notin InRing
              /\ leased' = leased \ {Top.pkt}
         /\ consumeRetire =>
              /\ headPacket \in Packets /\ headPacket \in InRing
              /\ leased' = leased \ {headPacket}
<1>1. ASSUME publishReturn \/ publishDrop
      PROVE  /\ Top.pkt \in Packets \intersect leased /\ Top.pkt \notin InRing
             /\ leased' = leased \ {Top.pkt}
  <2>1. stack # <<>> /\ Top.fn \in {"publish", "dropping"} /\ returnPacket(Top.pkt)
    BY <1>1 DEF publishReturn, publishDrop, SyncDone, Running, Top
  <2>2. Top.pkt \in Packets \intersect leased /\ Top.pkt \in Held(stack)
    BY <2>1, PublishRuns DEF CoreInv
  <2>3. QED
    BY <2>1, <2>2, BankReturn DEF CoreInv, BusInv, OwnInv
<1>2. ASSUME consumeRetire
      PROVE  /\ headPacket \in Packets /\ headPacket \in InRing
             /\ leased' = leased \ {headPacket}
  <2>1. s_head \in Occupied /\ headPacket \in Packets
    BY <1>2, HeadTaken DEF consumeRetire, CoreInv, BusInv
  <2>2. headPacket \in InRing /\ headPacket \in leased
    BY <2>1 DEF InRing, headPacket, CoreInv, BusInv, OwnInv
  <2>3. QED
    BY <1>2, <2>1, <2>2, BankReturn DEF consumeRetire, CoreInv, BusInv
<1>3. QED
  BY <1>1, <1>2

-----------------------------------------------------------------------------
(***************************************************************************)
(* No silent drop.                                                         *)
(***************************************************************************)
\* pubsub.c gives a packet back for one of three reasons, for every table,
\* ring and pool: every deferred subscriber that matches was called, it has
\* none, or the ring was full and the counter of each of its APID bits moved.
THEOREM DropsAreCounted == Spec => NoSilentDrop
<1> DEFINE Reason(p) ==
      \/ \A i \in DOMAIN s_subs :
           s_subs[i].prio # SYNC /\ Wants(i, p) => dispatched[p][s_subs[i].handler] > 0
      \/ /\ s_qCount = QueueSize
         /\ \A b \in apidOf[p] :
              s_overflowCount'[b] = Min({s_overflowCount[b] + 1, CounterMax})
    Accounts == main # "reset" => \A p \in leased \ leased' : Reason(p)
<1>1. ASSUME BusState, [Next]_vars PROVE Accounts
  <2> SUFFICES ASSUME main # "reset", NEW p \in leased \ leased' PROVE Reason(p)
    OBVIOUS
  <2>1. BusTypes /\ RingConsistent /\ CoreInv
    BY <1>1 DEF BusState, CoreInv, BusInv
  <2>2. ASSUME leased \subseteq leased' PROVE FALSE
    BY <2>2
  <2>3. CASE publishReturn
    <3>1. p = Top.pkt /\ DeferredLeft(1, Top.pkt) = {}
      BY <2>1, <2>3, GivenBack DEF publishReturn, HasDeferred
    <3>2. \A i \in DOMAIN s_subs : i \in 1 .. Len(s_subs)
      BY <2>1 DEF BusTypes
    <3>3. QED
      BY <3>1, <3>2 DEF DeferredLeft
  <2>4. CASE publishDrop
    <3>1. p = Top.pkt /\ overflowIncrement(apidOf[p]) /\ p \in Packets
      BY <2>1, <2>4, GivenBack DEF publishDrop
    <3>2. s_qCount = QueueSize
      <4>1. stack # <<>> /\ Top.fn = "dropping"
        BY <2>4 DEF publishDrop, Running, Top
      <4>2. QED
        BY <1>1, <4>1, NestedBelow DEF BusState, NestedOn
    <3>3. ASSUME NEW b \in apidOf[p]
          PROVE  s_overflowCount'[b] = Min({s_overflowCount[b] + 1, CounterMax})
      <4>1. b \in ApidBits /\ s_overflowCount[b] \in 0 .. CounterMax /\ CounterMax \in Nat
        BY <2>1, <3>1, PubSubAssumption DEF BusTypes
      <4>2. s_overflowCount'[b] = IF s_overflowCount[b] < CounterMax
                                  THEN s_overflowCount[b] + 1 ELSE s_overflowCount[b]
        BY <3>1, <4>1 DEF overflowIncrement
      <4> DEFINE n == s_overflowCount[b]
      <4>3. n \in 0 .. CounterMax /\ n + 1 \in Int /\ CounterMax \in Int
        BY <4>1
      <4> HIDE DEF n
      <4>4. Min({n + 1, CounterMax}) = IF n + 1 <= CounterMax THEN n + 1 ELSE CounterMax
        BY <4>3, MinOfTwo
      <4>5. Min({n + 1, CounterMax}) = IF n < CounterMax THEN n + 1 ELSE n
        BY <4>3, <4>4
      <4>6. QED
        BY <4>2, <4>5 DEF n
    <3>4. QED
      BY <3>2, <3>3
  <2>5. CASE consumeRetire
    <3>1. /\ p = headPacket /\ s_head \in Occupied /\ stack = <<>>
          /\ DeferredLeft(s_queue[s_head].nextSubIdx, p) = {}
      BY <2>1, <2>5, GivenBack, HeadTaken DEF consumeRetire, headLeft
    <3>2. ShownDeferred(p, s_queue[s_head].nextSubIdx, s_subs, apidOf, dispatched)
      BY <1>1, <3>1 DEF BusState, ServeInv, SlotsServe, NoneConsumes, headPacket
    <3>3. s_queue[s_head].nextSubIdx \in Nat /\ DOMAIN s_subs = 1 .. Len(s_subs)
      BY <2>1, <3>1 DEF BusTypes, Occupied
    <3>4. ASSUME NEW i \in DOMAIN s_subs, s_subs[i].prio # SYNC, Wants(i, p)
          PROVE  dispatched[p][s_subs[i].handler] = 1
      <4>1. i < s_queue[s_head].nextSubIdx
        BY <3>1, <3>3, <3>4 DEF DeferredLeft
      <4>2. QED
        BY <3>2, <3>4, <4>1 DEF ShownDeferred, Wants, Matching
    <3>5. QED
      BY <3>4
  <2>6. ASSUME \/ publishSync \/ publishEnqueue \/ consumeCall \/ consumeReturn \/ boot
        PROVE  FALSE
    BY <2>2, <2>6 DEF publishSync, publishEnqueue, consumeCall, consumeReturn, boot,
       bankVars
  <2>7. ASSUME Arrives PROVE FALSE
    BY <2>2, <2>7 DEF Arrives
  <2>8. QED
    BY <1>1, <2>1, <2>2, <2>3, <2>4, <2>5, <2>6, <2>7, StepKinds
<1>2. QED
  BY <1>1, BusStateInvariant, PTL DEF Spec, NoSilentDrop
-----------------------------------------------------------------------------
(***************************************************************************)
(* The bus implements Delivery.                                            *)
(***************************************************************************)
Entries == {s_subs[i] : i \in DOMAIN s_subs}

\* The packets in calls of publish are those out of the pool and not in the
\* ring, and the ring lists the queued ones.
LEMMA Projection ==
  CoreInv => /\ publishedPackets = leased \ InRing
             /\ queuedPackets \in Seq(Packets) /\ Len(queuedPackets) = s_qCount
             /\ Promise!Queued = InRing
             /\ InRing \subseteq leased /\ leased \subseteq Packets
<1> SUFFICES ASSUME CoreInv
             PROVE  /\ publishedPackets = leased \ InRing
                    /\ queuedPackets \in Seq(Packets) /\ Len(queuedPackets) = s_qCount
                    /\ Promise!Queued = InRing
                    /\ InRing \subseteq leased /\ leased \subseteq Packets
  OBVIOUS
<1>1. publishedPackets = Held(stack)
  BY PublishersHold
<1>2. BusTypes /\ RingConsistent /\ OwnInv /\ leased \subseteq Packets
  BY DEF CoreInv, BusInv, BankInv, BankTypeOK
<1>3. /\ queuedPackets \in Seq(Packets) /\ Len(queuedPackets) = s_qCount
      /\ {queuedPackets[k] : k \in 1 .. s_qCount} = InRing
  BY <1>2, QueuedInRing
<1>4. DOMAIN queuedPackets = 1 .. s_qCount
  BY <1>3
<1>5. Promise!Queued = InRing
  BY <1>3, <1>4 DEF Promise!Queued
<1>6. QED
  BY <1>1, <1>2, <1>3, <1>5 DEF OwnInv

LEMMA ProjectionNext ==
  ASSUME CoreInv'
  PROVE  publishedPackets' = leased' \ InRing'
<1>1. (CoreInv => publishedPackets = leased \ InRing)'
  BY Projection, PTL
<1>2. QED
  BY <1>1

\* The subscriptions Delivery counts as waiting, in terms of the table.
LEMMA WaitingSync ==
  ASSUME NEW p, NEW s
  PROVE  s \in Promise!Waiting(p, TRUE) <=>
           \E j \in DOMAIN s_subs : /\ s = s_subs[j] /\ s.prio = SYNC /\ Wants(j, p)
                                   /\ dispatched[p][s.handler] = 0
<1>1. \A t : (t.prio = 0) = TRUE <=> t.prio = 0
  OBVIOUS
<1>2. QED
  BY <1>1, Zenon DEF Promise!Waiting, Wants, SYNC

LEMMA WaitingDeferred ==
  ASSUME NEW p, NEW s
  PROVE  s \in Promise!Waiting(p, FALSE) <=>
           \E j \in DOMAIN s_subs : /\ s = s_subs[j] /\ s.prio # SYNC /\ Wants(j, p)
                                   /\ dispatched[p][s.handler] = 0
<1>1. \A t : (t.prio = 0) = FALSE <=> t.prio # 0
  OBVIOUS
<1>2. QED
  BY <1>1, Zenon DEF Promise!Waiting, Wants, SYNC

LEMMA NobodySame == Promise!toNobody = toNobody
  BY DEF Promise!toNobody, toNobody, Handlers

\* Nobody waits for a packet whose entries of that kind were all called.
LEMMA NoSyncWaits ==
  ASSUME BusTypes, NEW p, ShownSync(p, Len(s_subs) + 1, s_subs, apidOf, dispatched)
  PROVE  /\ Promise!Waiting(p, TRUE) = {}
         /\ Promise!Waiting(p, FALSE) = {} <=> DeferredLeft(1, p) = {}
<1>1. DOMAIN s_subs = 1 .. Len(s_subs) /\ Len(s_subs) \in Nat
  BY DEF BusTypes
<1>2. \A j \in DOMAIN s_subs :
        Wants(j, p) => dispatched[p][s_subs[j].handler] =
                         IF s_subs[j].prio = SYNC THEN 1 ELSE 0
  BY <1>1 DEF ShownSync, Wants, Matching
<1>3. ASSUME NEW s \in Promise!Waiting(p, TRUE) PROVE FALSE
  <2>1. PICK j \in DOMAIN s_subs : /\ s = s_subs[j] /\ s.prio = SYNC /\ Wants(j, p)
                                  /\ dispatched[p][s.handler] = 0
    BY <1>3, WaitingSync
  <2>2. dispatched[p][s_subs[j].handler] = 1
    BY <1>2, <2>1
  <2>3. QED
    BY <2>1, <2>2
<1>4. ASSUME NEW s \in Promise!Waiting(p, FALSE) PROVE DeferredLeft(1, p) # {}
  <2>1. PICK j \in DOMAIN s_subs : s = s_subs[j] /\ s.prio # SYNC /\ Wants(j, p)
    BY <1>4, WaitingDeferred
  <2>2. QED
    BY <1>1, <2>1 DEF DeferredLeft
<1>5. ASSUME NEW j \in DeferredLeft(1, p) PROVE s_subs[j] \in Promise!Waiting(p, FALSE)
  <2>1. j \in DOMAIN s_subs /\ s_subs[j].prio # SYNC /\ Wants(j, p)
    BY <1>1, <1>5 DEF DeferredLeft
  <2>2. dispatched[p][s_subs[j].handler] = 0
    BY <1>2, <2>1
  <2>3. QED
    BY <2>1, <2>2, WaitingDeferred
<1>6. QED
  BY <1>3, <1>4, <1>5
-----------------------------------------------------------------------------
(***************************************************************************)
(* The ring as the queue of Delivery.                                      *)
(***************************************************************************)
LEMMA QueueContents ==
  CoreInv => /\ queuedPackets \in Seq(Packets) /\ Len(queuedPackets) = s_qCount
             /\ \A k \in 1 .. s_qCount :
                  queuedPackets[k] = s_queue[slotAt(s_head, k - 1)].p_pkt
  BY QueuedInRing DEF CoreInv, BusInv

LEMMA QueueContentsNext ==
  ASSUME CoreInv'
  PROVE  /\ queuedPackets' \in Seq(Packets) /\ Len(queuedPackets') = s_qCount'
         /\ \A k \in 1 .. s_qCount' :
              queuedPackets'[k] = s_queue'[slotAt(s_head', k - 1)].p_pkt
<1>1. (CoreInv => /\ queuedPackets \in Seq(Packets) /\ Len(queuedPackets) = s_qCount
                  /\ \A k \in 1 .. s_qCount :
                       queuedPackets[k] = s_queue[slotAt(s_head, k - 1)].p_pkt)'
  BY QueueContents, PTL
<1>2. Packets' = Packets
  BY DEF Packets
<1>3. \A h, k : slotAt(h, k)' = slotAt(h, k)
  BY DEF slotAt
<1>4. QED
  BY <1>1, <1>2, <1>3 DEF slotAt

\* The head of the ring is the head of the queue.
LEMMA QueueHead ==
  ASSUME CoreInv, s_qCount > 0
  PROVE  queuedPackets # <<>> /\ Head(queuedPackets) = headPacket
<1>1. /\ queuedPackets \in Seq(Packets) /\ Len(queuedPackets) = s_qCount
      /\ \A k \in 1 .. s_qCount : queuedPackets[k] = s_queue[slotAt(s_head, k - 1)].p_pkt
  BY QueueContents
<1>2. slotAt(s_head, 0) = s_head /\ s_qCount \in Nat
  BY HeadTaken, QueueSizeType DEF CoreInv, BusInv, BusTypes
<1>3. 1 \in 1 .. s_qCount /\ 1 - 1 = 0
  BY <1>2
<1>4. queuedPackets[1] = headPacket
  BY <1>1, <1>2, <1>3 DEF headPacket
<1>5. queuedPackets # <<>>
  BY <1>1, <1>2
<1>6. QED
  BY <1>1, <1>4, <1>5

LEMMA QueueAppended ==
  ASSUME CoreInv, CoreInv', publishEnqueue
  PROVE  queuedPackets' = Append(queuedPackets, Top.pkt)
<1> DEFINE p == Top.pkt
           new == Append(queuedPackets, p)
           old == queuedPackets
           next == queuedPackets'
<1>1. BusTypes /\ RingConsistent /\ p \in Packets
  <2>1. stack # <<>> /\ Top.fn = "publish"
    BY DEF publishEnqueue, SyncDone, Running, Top
  <2>2. QED
    BY <2>1, PublishRuns DEF CoreInv, BusInv
<1>2. /\ s_qCount' = s_qCount + 1 /\ s_head' = s_head
      /\ s_queue'[s_tail].p_pkt = p
      /\ \A q \in Slots \ {s_tail} : s_queue'[q] = s_queue[q]
  BY <1>1, RingAppend DEF publishEnqueue
<1>3. /\ s_tail \in Slots \ Occupied /\ s_qCount \in Nat
      /\ s_tail = slotAt(s_head, s_qCount)
  BY <1>1, TailFree, RingSlots, QueueSizeType DEF publishEnqueue
<1>4. /\ old \in Seq(Packets) /\ Len(old) = s_qCount
      /\ \A k \in 1 .. s_qCount : old[k] = s_queue[slotAt(s_head, k - 1)].p_pkt
  BY QueueContents
<1>5. /\ next \in Seq(Packets) /\ Len(next) = s_qCount + 1
      /\ \A k \in 1 .. s_qCount + 1 : next[k] = s_queue'[slotAt(s_head, k - 1)].p_pkt
  BY <1>2, QueueContentsNext
<1> HIDE DEF old, next, p
<1>6. /\ new \in Seq(Packets) /\ Len(new) = s_qCount + 1 /\ new[s_qCount + 1] = p
      /\ \A k \in 1 .. s_qCount : new[k] = old[k]
  BY <1>1, <1>3, <1>4 DEF old
<1>7. ASSUME NEW k \in 1 .. s_qCount + 1 PROVE next[k] = new[k]
  <2>1. CASE k = s_qCount + 1
    <3>1. k - 1 = s_qCount
      BY <1>3, <2>1
    <3>2. QED
      BY <1>2, <1>3, <1>5, <1>6, <2>1, <3>1
  <2>2. CASE k # s_qCount + 1
    <3>1. k \in 1 .. s_qCount /\ k - 1 \in 0 .. s_qCount - 1
      BY <1>3, <2>2
    <3>2. slotAt(s_head, k - 1) \in Occupied
      BY <1>1, <3>1, RingSlots
    <3>3. slotAt(s_head, k - 1) \in Slots \ {s_tail}
      BY <1>3, <3>2 DEF Occupied
    <3>4. QED
      BY <1>2, <1>4, <1>5, <1>6, <3>1, <3>3
  <2>3. QED
    BY <2>1, <2>2
<1> HIDE DEF new
<1>8. next = new
  BY <1>3, <1>5, <1>6, <1>7, SeqEqual
<1>9. QED
  BY <1>8 DEF next, new, old, p

LEMMA QueueRetired ==
  ASSUME CoreInv, CoreInv', consumeRetire
  PROVE  queuedPackets' = Tail(queuedPackets)
<1> DEFINE old == queuedPackets
           new == Tail(queuedPackets)
           next == queuedPackets'
<1>1. BusTypes /\ RingConsistent /\ s_qCount > 0 /\ s_qCount \in Nat \ {0}
  BY QueueSizeType DEF CoreInv, BusInv, BusTypes, consumeRetire
<1>2. /\ s_qCount' = s_qCount - 1
      /\ Occupied' = Occupied \ {s_head}
      /\ \A q \in Slots \ {s_head} : s_queue'[q] = s_queue[q]
      /\ \A k \in 0 .. s_qCount - 1 : slotAt(s_head', k) = slotAt(s_head, k + 1)
  BY <1>1, RingRetire DEF consumeRetire
<1>3. /\ old \in Seq(Packets) /\ Len(old) = s_qCount
      /\ \A k \in 1 .. s_qCount : old[k] = s_queue[slotAt(s_head, k - 1)].p_pkt
  BY QueueContents
<1>4. /\ next \in Seq(Packets) /\ Len(next) = s_qCount - 1
      /\ \A k \in 1 .. s_qCount - 1 : next[k] = s_queue'[slotAt(s_head', k - 1)].p_pkt
  BY <1>2, QueueContentsNext
<1> HIDE DEF old, next
<1>5. /\ new \in Seq(Packets) /\ Len(new) = s_qCount - 1
      /\ \A k \in 1 .. s_qCount - 1 : new[k] = old[k + 1]
  BY <1>1, <1>3 DEF old
<1>6. ASSUME NEW k \in 1 .. s_qCount - 1 PROVE next[k] = new[k]
  <2>1. /\ k - 1 \in 0 .. s_qCount - 1 /\ k \in 0 .. s_qCount - 1 /\ (k - 1) + 1 = k
        /\ k + 1 \in 1 .. s_qCount /\ (k + 1) - 1 = k
    BY <1>1
  <2>2. slotAt(s_head', k - 1) = slotAt(s_head, k)
    BY <1>2, <2>1
  <2>3. slotAt(s_head, k) \in Slots \ {s_head}
    <3>1. slotAt(s_head, k) \in Slots
      BY <1>1, <2>1, RingSlots DEF Occupied
    <3>2. slotAt(s_head, k) # slotAt(s_head, 0)
      <4>1. k \in 0 .. QueueSize - 1 /\ 0 \in 0 .. QueueSize - 1 /\ k # 0
        BY <1>1, QueueSizeType DEF BusTypes
      <4>2. QED
        BY <1>1, <4>1, SlotsDiffer
    <3>3. QED
      BY <1>1, <3>1, <3>2, HeadTaken
  <2>4. QED
    BY <1>2, <1>3, <1>4, <1>5, <2>1, <2>2, <2>3
<1> HIDE DEF new
<1>7. next = new
  BY <1>1, <1>4, <1>5, <1>6, SeqEqual
<1>8. QED
  BY <1>7 DEF next, new

\* A step that leaves the packets of the ring where they are.
LEMMA QueueKept ==
  ASSUME CoreInv, CoreInv', UNCHANGED <<s_head, s_qCount>>,
         \A q \in Occupied : s_queue'[q].p_pkt = s_queue[q].p_pkt
  PROVE  queuedPackets' = queuedPackets
<1> DEFINE old == queuedPackets
           next == queuedPackets'
<1>1. BusTypes /\ RingConsistent /\ s_qCount \in Nat
  BY QueueSizeType DEF CoreInv, BusInv, BusTypes
<1>2. /\ old \in Seq(Packets) /\ Len(old) = s_qCount
      /\ \A k \in 1 .. s_qCount : old[k] = s_queue[slotAt(s_head, k - 1)].p_pkt
  BY QueueContents
<1>3. /\ next \in Seq(Packets) /\ Len(next) = s_qCount
      /\ \A k \in 1 .. s_qCount : next[k] = s_queue'[slotAt(s_head, k - 1)].p_pkt
  BY QueueContentsNext
<1> HIDE DEF old, next
<1>4. ASSUME NEW k \in 1 .. s_qCount PROVE next[k] = old[k]
  <2>1. k - 1 \in 0 .. s_qCount - 1
    BY <1>1
  <2>2. slotAt(s_head, k - 1) \in Occupied
    BY <1>1, <2>1, RingSlots
  <2>3. QED
    BY <1>2, <1>3, <2>2
<1>5. next = old
  BY <1>1, <1>2, <1>3, <1>4, SeqEqual
<1>6. QED
  BY <1>5 DEF next, old
-----------------------------------------------------------------------------
(***************************************************************************)
(* The steps, as steps of Delivery.                                        *)
(***************************************************************************)
LEMMA SameTable ==
  ASSUME UNCHANGED s_subs
  PROVE  Entries' = Entries
  BY DEF Entries

LEMMA SameQueue ==
  ASSUME CoreInv, CoreInv', UNCHANGED ringVars
  PROVE  queuedPackets' = queuedPackets /\ InRing' = InRing
<1>1. SameWaiting /\ s_head' = s_head /\ s_qCount' = s_qCount
      /\ \A q \in Occupied : s_queue'[q].p_pkt = s_queue[q].p_pkt
  BY DEF ringVars, SameWaiting
<1>2. QED
  BY <1>1, QueueKept, SameRing

\* A packet handed to publish arrives.
LEMMA ArrivesRefines ==
  ASSUME CoreInv, CoreInv', Arrives
  PROVE  [Promise!Next]_(Promise!dvars)
<1>1. Entries' = Entries /\ queuedPackets' = queuedPackets /\ InRing' = InRing
  BY SameTable, SameQueue DEF Arrives
<1>2. publishedPackets = leased \ InRing /\ publishedPackets' = leased' \ InRing
  BY <1>1, Projection, ProjectionNext
<1>3. CASE UNCHANGED <<leased, apidOf, dispatched>>
  BY <1>1, <1>2, <1>3 DEF Promise!dvars, Entries
<1>4. CASE \E p \in Packets \ leased, a \in SUBSET ApidBits :
             /\ leased' = leased \union {p}
             /\ apidOf' = [apidOf EXCEPT ![p] = a]
             /\ dispatched' = [dispatched EXCEPT ![p] = toNobody]
  <2>1. PICK p \in Packets \ leased, a \in SUBSET ApidBits :
             /\ leased' = leased \union {p}
             /\ apidOf' = [apidOf EXCEPT ![p] = a]
             /\ dispatched' = [dispatched EXCEPT ![p] = toNobody]
    BY <1>4
  <2>2. Promise!Queued = InRing /\ InRing \subseteq leased
    BY Projection
  <2>3. p \notin publishedPackets \union Promise!Queued
    BY <1>2, <2>2
  <2>4. publishedPackets' = publishedPackets \union {p}
    BY <1>2, <2>1, <2>2
  <2>5. Promise!Arrive(p, a)
    BY <1>1, <2>1, <2>3, <2>4, NobodySame DEF Promise!Arrive, Entries
  <2>6. QED
    BY <2>1, <2>5 DEF Promise!Next
<1>5. QED
  BY <1>3, <1>4 DEF Arrives

\* publish shows its packet to the next SYNC entry.
LEMMA ServeSyncRefines ==
  ASSUME BusState, CoreInv', publishSync
  PROVE  [Promise!Next]_(Promise!dvars)
<1> DEFINE p == Top.pkt
           j == Min(SyncLeft(Top.idx, p))
           s == s_subs[j]
<1>1. CoreInv /\ BusTypes
  BY DEF BusState, CoreInv, BusInv
<1>2. /\ UNCHANGED <<s_subs, ringVars, leased, apidOf>>
  BY DEF publishSync, busVars, bankVars
<1>3. /\ Entries' = Entries /\ queuedPackets' = queuedPackets /\ InRing' = InRing
  BY <1>1, <1>2, SameTable, SameQueue
<1>4. publishedPackets = leased \ InRing /\ publishedPackets' = publishedPackets
  BY <1>1, <1>2, <1>3, Projection, ProjectionNext
<1>5. /\ p \in Packets /\ p \in Held(stack)
      /\ j \in DOMAIN s_subs /\ s.prio = SYNC /\ Wants(j, p) /\ dispatched[p][s.handler] = 0
      /\ dispatched' = [dispatched EXCEPT ![p][s.handler] = @ + 1]
  BY SyncCall
<1>6. p \in publishedPackets
  BY <1>1, <1>5, PublishersHold
<1> HIDE DEF p, j
<1>7. s \in Promise!Waiting(p, TRUE)
  BY <1>5, WaitingSync
<1>8. ASSUME NEW t \in Promise!Waiting(p, TRUE) PROVE t.prio = 0
  BY <1>8, WaitingSync DEF SYNC
<1>9. ASSUME NEW t \in Promise!Waiting(p, TRUE) PROVE s.prio <= t.prio
  <2>1. s.prio = 0
    BY <1>5 DEF SYNC
  <2>2. t.prio = 0
    BY <1>8, <1>9
  <2>3. 0 <= 0
    OBVIOUS
  <2>4. QED
    BY <2>1, <2>2, <2>3
<1>10. Promise!Serve(p, TRUE)
  BY <1>2, <1>3, <1>4, <1>5, <1>7, <1>9 DEF Promise!Serve, Entries
<1>11. QED
  BY <1>5, <1>6, <1>10 DEF Promise!Next, Promise!ServeSync

\* publish gives its packet back.
LEMMA RefuseRefines ==
  ASSUME BusState, CoreInv', publishReturn \/ publishDrop
  PROVE  [Promise!Next]_(Promise!dvars)
<1> DEFINE p == Top.pkt
<1>1. CoreInv /\ BusTypes /\ NestInv
  BY DEF BusState, CoreInv, BusInv
<1>2. /\ UNCHANGED <<s_subs, ringVars, apidOf, dispatched>>
      /\ leased' = leased \ {p} /\ p \in Packets \intersect leased /\ p \notin InRing
  BY <1>1, GivenBack DEF publishReturn, publishDrop, busVars
<1>3. /\ Entries' = Entries /\ queuedPackets' = queuedPackets /\ InRing' = InRing
  BY <1>1, <1>2, SameTable, SameQueue
<1>4. /\ p \in publishedPackets
      /\ publishedPackets' = publishedPackets \ {p}
  BY <1>1, <1>2, <1>3, Projection, ProjectionNext
<1>5. /\ ShownSync(p, Len(s_subs) + 1, s_subs, apidOf, dispatched)
      /\ DeferredLeft(1, p) = {} \/ s_qCount = QueueSize
  <2>1. CASE publishReturn
    BY <2>1, SyncDoneShown DEF publishReturn, HasDeferred
  <2>2. CASE publishDrop
    <3>1. stack # <<>> /\ Top.fn = "dropping"
      BY <2>2 DEF publishDrop, Running, Top
    <3>2. ShownSync(p, Len(s_subs) + 1, s_subs, apidOf, dispatched)
      BY <3>1, ServingBelow DEF Serves
    <3>3. s_qCount = QueueSize
      BY <1>1, <3>1, NestedBelow DEF NestedOn
    <3>4. QED
      BY <3>2, <3>3
  <2>3. QED
    BY <2>1, <2>2
<1> HIDE DEF p
<1>6. /\ Promise!Waiting(p, TRUE) = {}
      /\ Promise!Waiting(p, FALSE) = {} <=> DeferredLeft(1, p) = {}
  BY <1>1, <1>5, NoSyncWaits
<1>7. Promise!Waiting(p, FALSE) = {} \/ Len(queuedPackets) = QueueSize
  BY <1>1, <1>5, <1>6, Projection
<1>8. Promise!Refuse(p)
  BY <1>2, <1>3, <1>4, <1>6, <1>7 DEF Promise!Refuse, Entries
<1>9. QED
  BY <1>2, <1>8 DEF Promise!Next

\* publish appends its packet to the ring.
LEMMA AcceptRefines ==
  ASSUME BusState, CoreInv', publishEnqueue
  PROVE  [Promise!Next]_(Promise!dvars)
<1> DEFINE p == Top.pkt
<1>1. CoreInv /\ BusTypes /\ RingConsistent /\ OwnInv
  BY DEF BusState, CoreInv, BusInv
<1>2. UNCHANGED <<s_subs, apidOf, dispatched, leased>> /\ SyncDone /\ HasDeferred
      /\ ~ringFull
  BY DEF publishEnqueue, bankVars
<1>3. /\ Top.fn = "publish" /\ stack # <<>> /\ p \in Packets /\ p \in leased
      /\ ShownSync(p, Len(s_subs) + 1, s_subs, apidOf, dispatched)
  BY <1>2, SyncDoneShown
<1>4. p \in Held(stack) /\ p \notin InRing
  <2>1. p \in Held(stack)
    BY <1>1, <1>3, PublishRuns DEF CoreInv
  <2>2. QED
    BY <1>1, <2>1 DEF OwnInv
<1>5. Entries' = Entries /\ queuedPackets' = Append(queuedPackets, p)
  BY <1>1, <1>2, SameTable, QueueAppended
<1>6. InRing' = InRing \union {p}
  <2>1. /\ Occupied' = Occupied \union {s_tail} /\ s_queue'[s_tail].p_pkt = p
        /\ \A q \in Slots \ {s_tail} : s_queue'[q] = s_queue[q]
    BY <1>1, <1>3, RingAppend DEF publishEnqueue
  <2>2. \A q \in Occupied : q \in Slots \ {s_tail}
    BY <1>1, <1>2, TailFree DEF Occupied
  <2>3. QED
    BY <2>1, <2>2 DEF InRing
<1>7. /\ p \in publishedPackets
      /\ publishedPackets' = publishedPackets \ {p}
  BY <1>1, <1>2, <1>3, <1>4, <1>6, Projection, ProjectionNext
<1>8. Len(queuedPackets) < QueueSize
  BY <1>1, <1>2, Projection, QueueSizeType DEF ringFull, BusTypes
<1>9. DeferredLeft(1, p) # {}
  BY <1>2 DEF HasDeferred
<1> HIDE DEF p
<1>10. Promise!Waiting(p, TRUE) = {} /\ Promise!Waiting(p, FALSE) # {}
  BY <1>1, <1>3, <1>9, NoSyncWaits
<1>11. Promise!Accept(p)
  BY <1>2, <1>5, <1>7, <1>8, <1>10 DEF Promise!Accept, Entries
<1>12. QED
  BY <1>3, <1>11 DEF Promise!Next
\* callConsumers shows the packet at the head to its next deferred entry.
LEMMA ServeDeferredRefines ==
  ASSUME BusState, CoreInv', consumeCall
  PROVE  [Promise!Next]_(Promise!dvars)
<1> DEFINE p == headPacket
           j == Min(headLeft)
           s == s_subs[j]
<1>1. CoreInv /\ BusTypes /\ TableInv
  BY DEF BusState, CoreInv, BusInv
<1>2. UNCHANGED <<s_subs, ringVars, leased, apidOf>> /\ s_qCount > 0
  BY DEF consumeCall, busVars, bankVars
<1>3. /\ Entries' = Entries /\ queuedPackets' = queuedPackets /\ InRing' = InRing
      /\ queuedPackets # <<>> /\ Head(queuedPackets) = p
  BY <1>1, <1>2, SameTable, SameQueue, QueueHead
<1>4. publishedPackets' = publishedPackets
  BY <1>1, <1>2, <1>3, Projection, ProjectionNext
<1>5. /\ p \in Packets /\ j \in DOMAIN s_subs /\ j \in Nat
      /\ s.prio # SYNC /\ Wants(j, p) /\ dispatched[p][s.handler] = 0
      /\ \A k \in DOMAIN s_subs :
           /\ Wants(k, p) /\ s_subs[k].prio # SYNC
           /\ dispatched[p][s_subs[k].handler] = 0
           => j <= k
      /\ dispatched' = [dispatched EXCEPT ![p][s.handler] = @ + 1]
  BY DeferredCall
<1> HIDE DEF p, j
<1>6. s \in Promise!Waiting(p, FALSE)
  BY <1>5, WaitingDeferred
<1>7. ASSUME NEW t \in Promise!Waiting(p, FALSE) PROVE s.prio <= t.prio
  <2>1. PICK k \in DOMAIN s_subs : /\ t = s_subs[k] /\ t.prio # SYNC /\ Wants(k, p)
                                   /\ dispatched[p][t.handler] = 0
    BY <1>7, WaitingDeferred
  <2>2. j <= k
    BY <1>5, <2>1
  <2>3. QED
    BY <1>1, <1>5, <2>1, <2>2 DEF TableInv, SubsSorted
<1>8. Promise!Serve(p, FALSE)
  BY <1>2, <1>3, <1>4, <1>5, <1>6, <1>7 DEF Promise!Serve, Entries
<1>9. QED
  BY <1>3, <1>8 DEF Promise!Next, Promise!ServeDeferred

\* callConsumers retires a packet nobody waits for any more.
LEMMA ReleaseRefines ==
  ASSUME BusState, CoreInv', consumeRetire
  PROVE  [Promise!Next]_(Promise!dvars)
<1> DEFINE p == headPacket
           i == s_queue[s_head].nextSubIdx
<1>1. CoreInv /\ BusTypes /\ RingConsistent /\ OwnInv
  BY DEF BusState, CoreInv, BusInv
<1>2. /\ UNCHANGED <<s_subs, apidOf, dispatched>> /\ s_qCount > 0 /\ stack = <<>>
      /\ DeferredLeft(i, p) = {}
  BY DEF consumeRetire, headLeft
<1>3. /\ Entries' = Entries /\ queuedPackets' = Tail(queuedPackets)
      /\ queuedPackets # <<>> /\ Head(queuedPackets) = p
  BY <1>1, <1>2, SameTable, QueueRetired, QueueHead
<1>4. /\ s_head \in Occupied /\ p \in InRing /\ leased' = leased \ {p}
      /\ i \in Nat /\ DOMAIN s_subs = 1 .. Len(s_subs)
  BY <1>1, <1>2, GivenBack, HeadTaken DEF Occupied, BusTypes
<1>5. InRing' = InRing \ {p}
  <2>1. /\ Occupied' = Occupied \ {s_head}
        /\ \A q \in Slots \ {s_head} : s_queue'[q] = s_queue[q]
    BY <1>1, <1>2, RingRetire DEF consumeRetire
  <2>2. \A q \in Occupied' : s_queue'[q].p_pkt = s_queue[q].p_pkt
    BY <2>1 DEF Occupied
  <2>3. \A q \in Occupied \ {s_head} : s_queue[q].p_pkt # p
    BY <1>1, <1>4 DEF OwnInv, headPacket
  <2>4. InRing' = {s_queue[q].p_pkt : q \in Occupied'}
    BY <2>2 DEF InRing
  <2>5. QED
    BY <2>1, <2>3, <2>4 DEF InRing, headPacket
<1>6. publishedPackets' = publishedPackets
  BY <1>1, <1>4, <1>5, Projection, ProjectionNext
<1>7. ShownDeferred(p, i, s_subs, apidOf, dispatched)
  BY <1>2, <1>4 DEF BusState, ServeInv, SlotsServe, NoneConsumes, headPacket
<1> HIDE DEF p, i
<1>8. Promise!Waiting(p, FALSE) = {}
  <2>1. ASSUME NEW s \in Promise!Waiting(p, FALSE) PROVE FALSE
    <3>1. PICK k \in DOMAIN s_subs : /\ s = s_subs[k] /\ s.prio # SYNC /\ Wants(k, p)
                                     /\ dispatched[p][s.handler] = 0
      BY <2>1, WaitingDeferred
    <3>2. k < i
      BY <1>2, <1>4, <3>1 DEF DeferredLeft
    <3>3. QED
      BY <1>7, <3>1, <3>2 DEF ShownDeferred, Wants, Matching
  <2>2. QED
    BY <2>1
<1>9. Promise!Release
  BY <1>2, <1>3, <1>6, <1>8 DEF Promise!Release, Entries
<1>10. QED
  BY <1>9 DEF Promise!Next

\* Saving the progress of a packet changes nothing Delivery sees.
LEMMA ProgressRefines ==
  ASSUME BusState, CoreInv', consumeReturn
  PROVE  UNCHANGED Promise!dvars
<1>1. CoreInv /\ BusTypes
  BY DEF BusState, CoreInv, BusInv
<1>2. /\ UNCHANGED <<s_subs, s_head, s_qCount, leased, apidOf, dispatched>>
      /\ s_queue' = [s_queue EXCEPT ![s_head].nextSubIdx = afterServed]
  BY DEF consumeReturn, bankVars
<1>3. \A q \in Slots : s_queue'[q].p_pkt = s_queue[q].p_pkt
  BY <1>1, <1>2 DEF BusTypes
<1>4. queuedPackets' = queuedPackets
  BY <1>1, <1>2, <1>3, QueueKept DEF Occupied
<1>5. InRing' = InRing
  BY <1>3, SameRing DEF SameWaiting
<1>6. publishedPackets' = publishedPackets
  BY <1>1, <1>2, <1>5, Projection, ProjectionNext
<1>7. QED
  BY <1>2, <1>4, <1>6 DEF Promise!dvars

\* Nor does the first boot: the bus was empty.
LEMMA BootRefines ==
  ASSUME BusState, CoreInv', boot
  PROVE  UNCHANGED Promise!dvars
<1>1. CoreInv /\ ResetInv
  BY DEF BusState, CoreInv, BusInv
<1>2. /\ s_subs = <<>> /\ s_subs' = <<>> /\ s_qCount = 0 /\ s_qCount' = 0
      /\ stack' = stack
      /\ UNCHANGED <<apidOf, dispatched>>
  BY <1>1 DEF boot, bootCalls, pubsubInit, ResetInv
<1>3. queuedPackets = <<>> /\ queuedPackets' = <<>>
  <2>1. queuedPackets \in Seq(Packets) /\ Len(queuedPackets) = 0
    BY <1>1, <1>2, QueueContents
  <2>2. queuedPackets' \in Seq(Packets) /\ Len(queuedPackets') = 0
    BY <1>2, QueueContentsNext
  <2>3. QED
    BY <2>1, <2>2, EmptySeq
<1>4. publishedPackets' = publishedPackets
  BY <1>2 DEF publishedPackets, Publishing
<1>5. QED
  BY <1>2, <1>3, <1>4 DEF Promise!dvars

\* A new entry of the table is a new subscription.
LEMMA SubscribeRefines ==
  ASSUME BusState, CoreInv', NEW s \in Subscriptions,
         s.handler \notin subscribed, s_subs' = insertSub(s),
         UNCHANGED <<leased, ringVars, apidOf, dispatched>>
  PROVE  [Promise!Next]_(Promise!dvars)
<1>1. CoreInv /\ BusTypes
  BY DEF BusState, CoreInv, BusInv
<1>2. queuedPackets' = queuedPackets /\ InRing' = InRing
  BY <1>1, SameQueue
<1>3. publishedPackets' = publishedPackets
  BY <1>1, <1>2, Projection, ProjectionNext
<1>4. s \notin Entries
  BY DEF Entries, subscribed
<1>5. Entries' = Entries \union {s}
  <2>1. /\ \A i \in DOMAIN s_subs' :
              s_subs'[i] = s \/ \E k \in DOMAIN s_subs : s_subs'[i] = s_subs[k]
        /\ \A k \in DOMAIN s_subs : \E i \in DOMAIN s_subs' : s_subs'[i] = s_subs[k]
        /\ \E i \in DOMAIN s_subs' : s_subs'[i] = s
    BY <1>1, InsertAdds
  <2>2. QED
    BY <2>1 DEF Entries
<1>6. Promise!Subscribe(s)
  BY <1>2, <1>3, <1>4, <1>5 DEF Promise!Subscribe, Entries
<1>7. QED
  BY <1>6 DEF Promise!Next

LEMMA InitRefines == Init => Promise!Init
<1> SUFFICES ASSUME Init PROVE Promise!Init
  OBVIOUS
<1>1. {s_subs[i] : i \in DOMAIN s_subs} = {}
  BY DEF Init
<1>2. publishedPackets = {}
  BY DEF Init, publishedPackets, Publishing
<1>3. queuedPackets = <<>>
  BY DEF Init, queuedPackets
<1>4. apidOf \in [Packets -> SUBSET ApidBits]
  BY DEF Init
<1>5. dispatched = [p \in Packets |-> Promise!toNobody]
  BY NobodySame DEF Init
<1>6. QED
  BY <1>1, <1>2, <1>3, <1>4, <1>5 DEF Promise!Init

\* For every pool, ring, table and set of handlers, pubsub.c implements
\* Delivery: its packets arrive, are served in publication order and by
\* priority, each matching subscription exactly once, and leave only served,
\* unwanted or refused by a full ring.
THEOREM BusDelivers == Spec => ImplementsDelivery
<1>1. BusState /\ CoreInv' /\ [Next]_vars => [Promise!Next]_(Promise!dvars)
  <2> SUFFICES ASSUME BusState, CoreInv', [Next]_vars
               PROVE  [Promise!Next]_(Promise!dvars)
    OBVIOUS
  <2>1. CoreInv
    BY DEF BusState
  <2>2. QED
    BY <2>1, StepKinds, ArrivesRefines, ServeSyncRefines, RefuseRefines, AcceptRefines,
       ServeDeferredRefines, ReleaseRefines, ProgressRefines, BootRefines, SubscribeRefines
<1>2. QED
  BY <1>1, InitRefines, BusStateInvariant, CoreInvariant, PTL
     DEF Spec, ImplementsDelivery, Promise!Spec
=============================================================================
