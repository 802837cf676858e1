-------------------------- MODULE DataloggerProofs --------------------------
(***************************************************************************)
(* Proofs about Datalogger for every flush period, counter range and queue *)
(* size.                                                                   *)
(***************************************************************************)
EXTENDS Datalogger, TLAPS

USE DataloggerAssumption

-----------------------------------------------------------------------------
(***************************************************************************)
(* The flush period and the counter: arithmetic.                           *)
(***************************************************************************)
LEMMA TimesPositive ==
  ASSUME NEW k \in Nat \ {0}, NEW d \in Nat \ {0}
  PROVE  k * d >= k
  BY SMTT(20)

LEMMA SmallMultiple ==
  ASSUME NEW k \in Nat \ {0}, NEW d \in Int, -k < k * d, k * d < k
  PROVE  d = 0
<1>1. CASE d > 0
  BY <1>1, TimesPositive, SMTT(20)
<1>2. CASE d < 0
  <2>1. k * (-d) >= k
    BY <1>2, TimesPositive, SMTT(20)
  <2>2. k * (-d) = -(k * d)
    BY SMTT(20)
  <2>3. QED
    BY <2>1, <2>2
<1>3. QED
  BY <1>1, <1>2

LEMMA DivMod ==
  ASSUME NEW n \in Nat, NEW k \in Nat \ {0}
  PROVE  /\ n = (k * (n \div k)) + (n % k)
         /\ n \div k \in Int
         /\ n % k \in 0 .. k - 1
  BY SMTT(20)

LEMMA ModOfZero ==
  ASSUME NEW k \in Nat \ {0}
  PROVE  0 % k = 0
  BY SMTT(20)

\* Counting one more, the remainder grows by one.
LEMMA ModStep ==
  ASSUME NEW n \in Nat, NEW k \in Nat \ {0}, (n % k) + 1 < k
  PROVE  (n + 1) % k = (n % k) + 1
<1> DEFINE q == n \div k        r == n % k
           p == (n + 1) \div k  s == (n + 1) % k
<1>1. n = k * q + r /\ n + 1 = k * p + s /\ q \in Int /\ p \in Int
  BY DivMod
<1>2. r \in 0 .. k - 1 /\ s \in 0 .. k - 1 /\ r + 1 < k
  BY DivMod
<1>3. k * (p - q) = r + 1 - s
  BY <1>1, <1>2, SMTT(20)
<1>4. p - q = 0
  <2> HIDE DEF q, r, p, s
  <2>1. -k < k * (p - q) /\ k * (p - q) < k
    BY <1>2, <1>3
  <2>2. QED
    BY <2>1, <1>1, SmallMultiple
<1>5. QED
  BY <1>1, <1>2, <1>3, <1>4

\* Counting one more than the largest remainder starts again at zero.
LEMMA ModTop ==
  ASSUME NEW n \in Nat, NEW k \in Nat \ {0}, (n % k) + 1 = k
  PROVE  (n + 1) % k = 0
<1> DEFINE q == n \div k        r == n % k
           p == (n + 1) \div k  s == (n + 1) % k
<1>1. n = k * q + r /\ n + 1 = k * p + s /\ q \in Int /\ p \in Int
  BY DivMod
<1>2. r \in 0 .. k - 1 /\ s \in 0 .. k - 1 /\ r + 1 = k
  BY DivMod
<1>3. k * (p - q - 1) = -s
  BY <1>1, <1>2, SMTT(20)
<1>4. p - q - 1 = 0
  <2> HIDE DEF q, r, p, s
  <2>1. -k < k * (p - q - 1) /\ k * (p - q - 1) < k
    BY <1>2, <1>3
  <2>2. QED
    BY <2>1, <1>1, SmallMultiple
<1>5. QED
  BY <1>2, <1>3, <1>4

\* The counter counts until its range ends, and then starts at zero.
LEMMA Wraps ==
  ASSUME NEW m \in Nat \ {0}, NEW n \in 0 .. m - 1
  PROVE  (n + 1) % m = IF n + 1 = m THEN 0 ELSE n + 1
  BY SMTT(20)

LEMMA MinOfPair ==
  ASSUME NEW a \in Int, NEW b \in Int
  PROVE  Min({a, b}) \in {a, b} /\ Min({a, b}) <= a /\ Min({a, b}) <= b
<1>1. \E x \in {a, b} : \A y \in {a, b} : x <= y
  <2>1. a <= b \/ b <= a
    OBVIOUS
  <2>2. QED
    BY <2>1
<1>2. QED
  BY <1>1 DEF Min

-----------------------------------------------------------------------------
(***************************************************************************)
(* The card: what the logger, the port and the file system hold.           *)
(***************************************************************************)
InHandler == Writing \union {"flush"}

\* The open phase owns a mounted card without a file; the handler runs only
\* for an open one; before boot nothing is mounted.
CardInv ==
  /\ phase \in {"idle", "open"} \union InHandler
  /\ OpenOnCard
  /\ phase = "open" => ~is_open /\ s_sdMounted /\ vfsMounted
  /\ phase \in InHandler => is_open
  /\ phase # "open" /\ ~is_open => ~s_sdMounted /\ (vfsMounted => unmountFailed)
  /\ s_sdMounted => s_p_halPort

LEMMA CardInit == DlInit => CardInv
  BY DEF DlInit, StorageInit, CardInv, OpenOnCard, InHandler, Writing

LEMMA CardHandler ==
  ASSUME CardInv, callConsumers \/ HandlerStep
  PROVE  CardInv'
<1> USE DEF CardInv, OpenOnCard, InHandler, Writing, sdVars, envVars
<1>1. CASE callConsumers
  BY <1>1 DEF callConsumers, callHandler, releaseHead, callConsumersEmpty, busUnchanged,
     dlVars, fileVars
<1>2. CASE writeLog \/ writeHeader \/ writePayload \/ writeNewline
  BY <1>2 DEF writeLog, writeHeader, writePayload, writeNewline, handlerUnchanged,
     recordWritten, recordFailed, flushOrEnd, onPacketEnds, writeGoesOn
<1>3. CASE onPacketFlush
  BY <1>3 DEF onPacketFlush, onPacketEnds, flushUnchanged
<1>4. QED
  BY <1>1, <1>2, <1>3 DEF HandlerStep

LEMMA CardCalls ==
  ASSUME CardInv, InitStep \/ flush \/ initBegin \/ initNoMount \/ deinit
  PROVE  CardInv'
<1> USE DEF CardInv, OpenOnCard, InHandler, Writing, sdVars, envVars, fileVars,
            initUnchanged
<1>1. CASE flush
  BY <1>1 DEF flush, flushUnchanged
<1>2. CASE initBegin
  BY <1>2 DEF initBegin, halStorageMount, espStorageMount, vfsMount
<1>3. CASE initNoMount
  BY <1>3 DEF initNoMount, initFails, halStorageMount, espStorageMount, vfsMount
<1>4. CASE initOpens
  BY <1>4 DEF initOpens
<1>5. CASE initNoFile
  BY <1>5 DEF initNoFile, initFails, releaseCard, halStorageUnmount, espStorageUnmount,
     vfsUnmount
<1>6. CASE deinit
  BY <1>6 DEF deinit, releaseCard, halStorageUnmount, espStorageUnmount, vfsUnmount
<1>7. QED
  BY <1>1, <1>2, <1>3, <1>4, <1>5, <1>6 DEF InitStep

LEMMA CardEnvironment ==
  ASSUME CardInv,
         (\E kind \in Kinds : produce(kind)) \/ boot \/ cardChanges \/ calmsDown
         \/ UNCHANGED dlVars
  PROVE  CardInv'
  BY DEF CardInv, OpenOnCard, InHandler, Writing, produce, boot, cardChanges,
     calmsDown, dlVars, sdVars, envVars, fileVars

LEMMA CardStep == CardInv /\ [DlNext]_dlVars => CardInv'
  BY CardHandler, CardCalls, CardEnvironment DEF DlNext, LoopStep

\* datalogger.c: an open logger has its file on a mounted card, and a closed
\* one holds no mount, whatever fails in init, in a write or in an unmount.
THEOREM CardInvariant == DlSpec => []CardInv
<1>1. QED
  BY CardInit, CardStep, PTL DEF DlSpec

\* The handler never touches a file that is closed or on an unmounted card.
THEOREM OpenFileOnCard == DlSpec => []OpenOnCard
<1>1. CardInv => OpenOnCard
  BY DEF CardInv
<1>2. QED
  BY <1>1, CardInvariant, PTL

\* A logger that is not open has given the card back.
THEOREM ClosedReleasesCard == DlSpec => []ReleasedCard
<1>1. CardInv => ReleasedCard
  BY DEF CardInv, ReleasedCard
<1>2. QED
  BY <1>1, CardInvariant, PTL

-----------------------------------------------------------------------------
(***************************************************************************)
(* What a power failure costs.                                             *)
(***************************************************************************)
\* Between two flushes the records in danger are not more than the counter's
\* remainder, which is what decides on the next flush.
LossInv ==
  /\ unflushed \in Nat
  /\ logged_packets \in 0 .. CounterMod - 1
  /\ ~streamError => /\ phase = "flush" => unflushed <= FlushEvery
                     /\ phase # "flush" => unflushed <= logged_packets % FlushEvery

LEMMA LossInit == DlInit => LossInv
  BY ModOfZero DEF DlInit, LossInv

LEMMA LossRecord ==
  ASSUME LossInv, phase # "flush", recordWritten
  PROVE  LossInv'
<1> DEFINE count == (logged_packets + 1) % CounterMod
<1>1. /\ logged_packets' = count
      /\ unflushed' = Min({unflushed + 1, FlushEvery + 1})
      /\ streamError' = streamError
      /\ count % FlushEvery = 0 => phase' = "flush"
      /\ count % FlushEvery # 0 => phase' = "idle"
  BY DEF recordWritten, flushOrEnd, flushDue, onPacketEnds
<1>2. /\ unflushed \in Nat /\ logged_packets \in 0 .. CounterMod - 1
      /\ ~streamError => unflushed <= logged_packets % FlushEvery
      /\ logged_packets \in Nat
  BY DEF LossInv
<1>3. unflushed' \in Nat /\ unflushed' <= unflushed + 1 /\ unflushed' <= FlushEvery + 1
  <2> HIDE DEF count
  <2> DEFINE least == Min({unflushed + 1, FlushEvery + 1})
  <2>1. unflushed + 1 \in Nat /\ FlushEvery + 1 \in Nat
    BY <1>2
  <2>2. /\ least \in {unflushed + 1, FlushEvery + 1}
        /\ least <= unflushed + 1 /\ least <= FlushEvery + 1
    <3>1. unflushed + 1 \in Int /\ FlushEvery + 1 \in Int
      BY <2>1
    <3>2. QED
      BY <3>1, MinOfPair, Zenon
  <2>3. unflushed' = least
    BY <1>1
  <2> HIDE DEF least
  <2>4. QED
    BY <2>1, <2>2, <2>3
<1>4. logged_packets % FlushEvery \in 0 .. FlushEvery - 1
  BY <1>2, DivMod
<1>5. count = IF logged_packets + 1 = CounterMod THEN 0 ELSE logged_packets + 1
  BY <1>2, Wraps
<1>6. count \in 0 .. CounterMod - 1
  BY <1>2, <1>5
<1>7. ASSUME ~streamError, phase' = "flush"
      PROVE  unflushed' <= FlushEvery
  BY <1>2, <1>3, <1>4, <1>7
<1>8. ASSUME ~streamError, phase' # "flush"
      PROVE  unflushed' <= count % FlushEvery
  <2>1. count % FlushEvery # 0
    BY <1>1, <1>8
  <2>2. count = logged_packets + 1
    BY <1>5, <2>1, ModOfZero
  <2>3. (logged_packets % FlushEvery) + 1 # FlushEvery
    BY <1>2, <2>1, <2>2, ModTop
  <2>4. count % FlushEvery = (logged_packets % FlushEvery) + 1
    <3>1. (logged_packets % FlushEvery) + 1 < FlushEvery
      BY <1>4, <2>3
    <3>2. QED
      BY <1>2, <2>2, <3>1, ModStep
  <2>5. QED
    BY <1>2, <1>3, <1>4, <1>8, <2>4
<1>9. QED
  BY <1>1, <1>3, <1>6, <1>7, <1>8 DEF LossInv

LEMMA LossHandler ==
  ASSUME LossInv, HandlerStep
  PROVE  LossInv'
<1>1. CASE recordFailed
  BY <1>1 DEF recordFailed, LossInv
<1>2. CASE phase \in Writing /\ recordWritten
  BY <1>2, LossRecord DEF Writing
<1>3. CASE onPacketFlush
  <2>1. logged_packets % FlushEvery \in 0 .. FlushEvery - 1
    BY DivMod DEF LossInv
  <2>2. QED
    BY <1>3, <2>1 DEF onPacketFlush, flushSucceeds, flushFails, onPacketEnds,
       flushUnchanged, LossInv
<1>4. CASE writeHeader /\ ~recordFailed
  BY <1>4 DEF writeHeader, writeGoesOn, LossInv
<1>5. CASE writePayload
  BY <1>5 DEF writePayload, writeGoesOn, LossInv
<1>6. QED
  BY <1>1, <1>2, <1>3, <1>4, <1>5 DEF HandlerStep, writeLog, writeNewline, Writing

LEMMA LossCalls ==
  ASSUME LossInv, InitStep \/ flush \/ initBegin \/ initNoMount \/ deinit
  PROVE  LossInv'
<1> USE DEF LossInv
<1>1. logged_packets % FlushEvery \in 0 .. FlushEvery - 1 /\ 0 % FlushEvery = 0
  BY DivMod, ModOfZero
<1>2. CASE flush
  BY <1>1, <1>2 DEF flush, flushSucceeds, flushFails, flushUnchanged
<1>3. CASE initBegin
  BY <1>3 DEF initBegin, fileVars
<1>4. CASE initNoMount
  BY <1>4 DEF initNoMount, initFails, fileVars
<1>5. CASE initOpens
  BY <1>1, <1>5 DEF initOpens
<1>6. CASE initNoFile
  BY <1>6 DEF initNoFile, initFails, fileVars
<1>7. CASE deinit
  BY <1>1, <1>7 DEF deinit
<1>8. QED
  BY <1>2, <1>3, <1>4, <1>5, <1>6, <1>7 DEF InitStep

LEMMA LossRest ==
  ASSUME LossInv,
         callConsumers \/ (\E kind \in Kinds : produce(kind))
         \/ boot \/ cardChanges \/ calmsDown \/ UNCHANGED dlVars
  PROVE  LossInv'
<1> USE DEF LossInv, fileVars, dlVars
<1>1. CASE callConsumers
  BY <1>1 DEF callConsumers, callHandler, releaseHead, callConsumersEmpty, busUnchanged
<1>2. CASE \E kind \in Kinds : produce(kind)
  BY <1>2 DEF produce
<1>3. CASE boot \/ cardChanges \/ calmsDown \/ UNCHANGED dlVars
  BY <1>3 DEF boot, cardChanges, calmsDown
<1>4. QED
  BY <1>1, <1>2, <1>3

\* datalogger.c: while nothing has failed on the file, a power failure costs
\* fewer records than a flush period, across every wrap of the counter and
\* whether or not the period divides its range.
THEOREM LossBounded == DlSpec => []BoundedLoss
<1>1. LossInv /\ [DlNext]_dlVars => LossInv'
  BY LossHandler, LossCalls, LossRest DEF DlNext, LoopStep
<1>2. LossInv => BoundedLoss
  <2>1. LossInv => logged_packets % FlushEvery \in 0 .. FlushEvery - 1
    BY DivMod DEF LossInv
  <2>2. QED
    BY <2>1 DEF LossInv, BoundedLoss
<1>3. QED
  BY LossInit, <1>1, <1>2, PTL DEF DlSpec

-----------------------------------------------------------------------------
(***************************************************************************)
(* The lines the handler logs.                                             *)
(***************************************************************************)
\* The one line of an activation comes with its last step.
LinesInv ==
  /\ lines \in {0, 1}
  /\ phase \in InHandler => lines = 0

LEMMA LinesStep == LinesInv /\ [DlNext]_dlVars => LinesInv'
<1> SUFFICES ASSUME LinesInv, [DlNext]_dlVars
             PROVE  LinesInv'
  OBVIOUS
<1> USE DEF LinesInv, InHandler, Writing
<1>1. CASE callConsumers
  BY <1>1 DEF callConsumers, callHandler, releaseHead, callConsumersEmpty, dlVars
<1>2. CASE writeLog \/ writeHeader \/ writePayload \/ writeNewline
  BY <1>2 DEF writeLog, writeHeader, writePayload, writeNewline, recordWritten,
     recordFailed, flushOrEnd, onPacketEnds, writeGoesOn
<1>3. CASE onPacketFlush
  BY <1>3 DEF onPacketFlush, onPacketEnds
<1>4. CASE InitStep
  BY <1>4 DEF InitStep, initOpens, initNoFile, initFails, initUnchanged
<1>5. CASE flush \/ initBegin \/ initNoMount \/ deinit
  BY <1>5 DEF flush, initBegin, initNoMount, initFails, deinit, initUnchanged
<1>6. CASE (\E kind \in Kinds : produce(kind)) \/ boot \/ cardChanges \/ calmsDown
           \/ UNCHANGED dlVars
  BY <1>6 DEF produce, boot, cardChanges, calmsDown, dlVars
<1>7. QED
  BY <1>1, <1>2, <1>3, <1>4, <1>5, <1>6 DEF DlNext, LoopStep, HandlerStep

\* datalogger.c: a packet breeds at most one line of the logger's own.
THEOREM OneLinePerPacket == DlSpec => []FeedbackBounded
<1>1. DlInit => LinesInv
  BY DEF DlInit, LinesInv, InHandler, Writing
<1>2. LinesInv => FeedbackBounded
  BY DEF LinesInv, FeedbackBounded
<1>3. QED
  BY <1>1, <1>2, LinesStep, PTL DEF DlSpec
-----------------------------------------------------------------------------
(***************************************************************************)
(* Types.                                                                  *)
(***************************************************************************)
FlagsOK ==
  /\ StorageTypeOK
  /\ subscribed \in BOOLEAN /\ headServed \in BOOLEAN /\ registering \in BOOLEAN
  /\ phase \in {"idle", "open", "flush"} \union Writing
  /\ p_file \in BOOLEAN /\ is_open \in BOOLEAN
  /\ streamError \in BOOLEAN /\ calm \in BOOLEAN /\ unmountFailed \in BOOLEAN

QueueOK == queue \in Seq(Kinds) /\ Len(queue) <= QueueSize

UnflushedOK == unflushed \in 0 .. FlushEvery + 1

LEMMA FlagsHandler == ASSUME FlagsOK, callConsumers \/ HandlerStep PROVE FlagsOK'
<1> USE DEF FlagsOK, StorageTypeOK, Writing, sdVars, envVars
<1>1. CASE callConsumers
  <2>1. CASE callConsumersEmpty
    BY <2>1 DEF callConsumersEmpty, dlVars, busVars, fileVars
  <2>2. CASE callHandler \/ releaseHead
    <3>1. /\ phase' \in {phase, "write"} /\ headServed' \in {headServed, TRUE, FALSE}
          /\ busUnchanged
      BY <2>2 DEF callHandler, releaseHead
    <3>2. headServed' \in BOOLEAN
      BY <3>1
    <3>3. /\ UNCHANGED <<s_sdMounted, vfsMounted, s_p_halPort, cardOk, calm, subscribed>>
          /\ UNCHANGED <<registering, p_file, is_open, streamError, unmountFailed>>
      BY <3>1 DEF busUnchanged, fileVars
    <3>4. QED
      BY <3>1, <3>2, <3>3
  <2>3. QED
    BY <1>1, <2>1, <2>2 DEF callConsumers
<1>2. CASE writeLog \/ writeHeader \/ writeNewline
  <2>1. handlerUnchanged
    BY <1>2 DEF writeLog, writeHeader, writeNewline
  <2>2. \/ recordWritten \/ recordFailed
        \/ phase' = "payload" /\ UNCHANGED <<headServed, streamError>>
    BY <1>2 DEF writeLog, writeHeader, writeNewline, writeGoesOn
  <2>3. /\ phase' \in {"idle", "flush", "payload"} /\ headServed' \in {headServed, TRUE}
        /\ streamError' \in {streamError, TRUE}
    BY <2>2 DEF recordWritten, recordFailed, flushOrEnd, onPacketEnds
  <2>4. headServed' \in BOOLEAN /\ streamError' \in BOOLEAN
    BY <2>3
  <2>5. /\ UNCHANGED <<s_sdMounted, vfsMounted, s_p_halPort, cardOk, calm, subscribed>>
        /\ UNCHANGED <<registering, p_file, is_open, unmountFailed>>
    BY <2>1 DEF handlerUnchanged
  <2>6. QED
    BY <2>3, <2>4, <2>5
<1>3. CASE writePayload
  <2>1. phase' = "newline" /\ UNCHANGED headServed /\ streamError' \in {streamError, TRUE}
    BY <1>3 DEF writePayload, writeGoesOn
  <2>2. handlerUnchanged
    BY <1>3 DEF writePayload
  <2>3. headServed' \in BOOLEAN /\ streamError' \in BOOLEAN
    BY <2>1
  <2>4. /\ UNCHANGED <<s_sdMounted, vfsMounted, s_p_halPort, cardOk, calm, subscribed>>
        /\ UNCHANGED <<registering, p_file, is_open, unmountFailed>>
    BY <2>2 DEF handlerUnchanged
  <2>5. QED
    BY <2>1, <2>3, <2>4
<1>4. CASE onPacketFlush
  BY <1>4 DEF onPacketFlush, flushSucceeds, flushFails, onPacketEnds, flushUnchanged
<1>5. QED
  BY <1>1, <1>2, <1>3, <1>4 DEF HandlerStep

LEMMA FlagsCalls ==
  ASSUME FlagsOK, InitStep \/ flush \/ initBegin \/ initNoMount \/ deinit
  PROVE  FlagsOK'
<1> USE DEF FlagsOK, StorageTypeOK, Writing, sdVars, envVars, fileVars, initUnchanged
<1>1. CASE flush
  BY <1>1 DEF flush, flushSucceeds, flushFails, flushUnchanged
<1>2. CASE initBegin
  BY <1>2 DEF initBegin, halStorageMount, espStorageMount, vfsMount
<1>3. CASE initNoMount
  BY <1>3 DEF initNoMount, initFails, halStorageMount, espStorageMount, vfsMount
<1>4. CASE initOpens
  BY <1>4 DEF initOpens
<1>5. CASE initNoFile
  BY <1>5 DEF initNoFile, initFails, releaseCard, halStorageUnmount, espStorageUnmount,
     vfsUnmount
<1>6. CASE deinit
  BY <1>6 DEF deinit, releaseCard, halStorageUnmount, espStorageUnmount, vfsUnmount
<1>7. QED
  BY <1>1, <1>2, <1>3, <1>4, <1>5, <1>6 DEF InitStep

LEMMA FlagsStep == FlagsOK /\ [DlNext]_dlVars => FlagsOK'
<1> SUFFICES ASSUME FlagsOK, [DlNext]_dlVars PROVE FlagsOK'
  OBVIOUS
<1>1. CASE (\E kind \in Kinds : produce(kind)) \/ UNCHANGED dlVars
  BY <1>1 DEF FlagsOK, StorageTypeOK, produce, dlVars, busVars, sdVars, envVars, fileVars
<1>2. CASE boot \/ cardChanges \/ calmsDown
  BY <1>2 DEF FlagsOK, StorageTypeOK, boot, cardChanges, calmsDown, busVars, sdVars, fileVars
<1>3. QED
  BY <1>1, <1>2, FlagsHandler, FlagsCalls DEF DlNext, LoopStep

\* What is added to the queue was looked at for room.
LEMMA QueueGrows ==
  ASSUME QueueOK, \/ \E kind \in Kinds : publish(kind)
                  \/ UNCHANGED queue
                  \/ queue # <<>> /\ queue' = Tail(queue)
                  \/ queue' \in {<<>>, <<"log">>}
  PROVE  QueueOK'
<1>1. QueueSize \in Nat /\ QueueSize >= 1
  BY DataloggerAssumption
<1>2. ASSUME NEW kind \in Kinds, publish(kind) PROVE QueueOK'
  BY <1>1, <1>2 DEF QueueOK, publish
<1>3. CASE queue # <<>> /\ queue' = Tail(queue)
  BY <1>1, <1>3 DEF QueueOK
<1>4. CASE queue' = <<>>
  BY <1>1, <1>4 DEF QueueOK
<1>5. CASE queue' = <<"log">>
  <2>1. "log" \in Kinds
    BY DEF Kinds
  <2>2. QED
    BY <1>1, <1>5, <2>1 DEF QueueOK
<1>6. CASE UNCHANGED queue
  BY <1>6 DEF QueueOK
<1>7. QED
  BY <1>2, <1>3, <1>4, <1>5, <1>6

LEMMA QueueStep == QueueOK /\ [DlNext]_dlVars => QueueOK'
<1> SUFFICES ASSUME QueueOK, [DlNext]_dlVars PROVE QueueOK'
  OBVIOUS
<1> DEFINE grows == \/ \E kind \in Kinds : publish(kind)
                    \/ UNCHANGED queue
                    \/ queue # <<>> /\ queue' = Tail(queue)
                    \/ queue' \in {<<>>, <<"log">>}
<1>1. /\ UNCHANGED queue => grows
      /\ queue # <<>> /\ queue' = Tail(queue) => grows
      /\ queue' \in {<<>>, <<"log">>} => grows
  OBVIOUS
<1>2. \A kind \in Kinds : publish(kind) => grows
  OBVIOUS
<1>3. logLine => grows
  BY <1>1, <1>2 DEF logLine, Kinds
<1>4. grows => QueueOK'
  BY QueueGrows
<1> HIDE DEF grows
<1>5. ASSUME callConsumers PROVE grows
  BY <1>1, <1>5 DEF callConsumers, callHandler, releaseHead, callConsumersEmpty, dlVars, busVars
<1>6. ASSUME HandlerStep PROVE grows
  BY <1>1, <1>3, <1>6 DEF HandlerStep, writeLog, writeHeader, writePayload, writeNewline,
     recordWritten, recordFailed, writeGoesOn, onPacketFlush, flushSucceeds, flushFails
<1>7. ASSUME InitStep \/ flush \/ initBegin \/ initNoMount \/ deinit PROVE grows
  BY <1>1, <1>3, <1>7 DEF InitStep, initOpens, initNoFile, initFails, flush, flushSucceeds,
     flushFails, initBegin, initNoMount, deinit
<1>8. ASSUME (\E kind \in Kinds : produce(kind)) \/ boot \/ cardChanges \/ calmsDown
             \/ UNCHANGED dlVars
      PROVE  grows
  BY <1>1, <1>2, <1>8 DEF produce, boot, cardChanges, calmsDown, dlVars, busVars
<1>9. QED
  BY <1>4, <1>5, <1>6, <1>7, <1>8 DEF DlNext, LoopStep

LEMMA UnflushedStep == UnflushedOK /\ [DlNext]_dlVars => UnflushedOK'
<1> SUFFICES ASSUME UnflushedOK, [DlNext]_dlVars PROVE UnflushedOK'
  OBVIOUS
<1>1. FlushEvery \in Nat /\ unflushed \in Nat /\ unflushed <= FlushEvery + 1
  BY DataloggerAssumption DEF UnflushedOK
<1>2. CASE recordWritten
  <2> DEFINE least == Min({unflushed + 1, FlushEvery + 1})
  <2>1. unflushed + 1 \in Int /\ FlushEvery + 1 \in Int
    BY <1>1
  <2>2. least \in {unflushed + 1, FlushEvery + 1} /\ least <= FlushEvery + 1
    BY <2>1, MinOfPair, Zenon
  <2>3. unflushed' = least
    BY <1>2 DEF recordWritten
  <2> HIDE DEF least
  <2>4. QED
    BY <1>1, <2>2, <2>3 DEF UnflushedOK
<1>3. CASE unflushed' = 0
  BY <1>1, <1>3 DEF UnflushedOK
<1>4. CASE UNCHANGED unflushed
  BY <1>4 DEF UnflushedOK
<1>5. CASE callConsumers
  BY <1>4, <1>5 DEF callConsumers, callHandler, releaseHead, callConsumersEmpty,
     busUnchanged, dlVars, fileVars
<1>6. CASE HandlerStep
  BY <1>2, <1>3, <1>4, <1>6 DEF HandlerStep, writeLog, writeHeader, writePayload,
     writeNewline, recordFailed, writeGoesOn, onPacketFlush, flushSucceeds, flushFails
<1>7. CASE InitStep \/ flush \/ initBegin \/ initNoMount \/ deinit
  BY <1>3, <1>4, <1>7 DEF InitStep, initOpens, initNoFile, initFails, flush,
     flushSucceeds, flushFails, initBegin, initNoMount, deinit, fileVars
<1>8. CASE (\E kind \in Kinds : produce(kind)) \/ boot \/ cardChanges \/ calmsDown
           \/ UNCHANGED dlVars
  BY <1>4, <1>8 DEF produce, boot, cardChanges, calmsDown, dlVars, fileVars
<1>9. QED
  BY <1>5, <1>6, <1>7, <1>8 DEF DlNext, LoopStep

\* Every variable of the logger keeps its type: the queue is never longer
\* than the bus has room for, and the counter never leaves its width.
THEOREM LoggerTyped == DlSpec => []DlTypeOK
<1>1. DlInit => FlagsOK /\ QueueOK /\ UnflushedOK /\ LinesInv
  <2>1. 0 \in 0 .. FlushEvery + 1 /\ 0 <= QueueSize
    BY DataloggerAssumption
  <2>2. <<>> \in Seq(Kinds) /\ Len(<<>>) = 0
    OBVIOUS
  <2>3. QED
    BY <2>1, <2>2 DEF DlInit, StorageInit, FlagsOK, StorageTypeOK, QueueOK, UnflushedOK,
       LinesInv, InHandler, Writing
<1>2. LossInv /\ [DlNext]_dlVars => LossInv'
  BY LossHandler, LossCalls, LossRest DEF DlNext, LoopStep
<1>3. FlagsOK /\ QueueOK /\ UnflushedOK /\ LinesInv /\ LossInv => DlTypeOK
  BY DEF FlagsOK, QueueOK, UnflushedOK, LinesInv, LossInv, DlTypeOK
<1>4. QED
  BY <1>1, <1>2, <1>3, LossInit, FlagsStep, QueueStep, UnflushedStep, LinesStep, PTL
     DEF DlSpec
=============================================================================
