----------------------------- MODULE Datalogger -----------------------------
(***************************************************************************)
(* services/datalogger/datalogger.c: the subscriber that writes every      *)
(* packet to a file on the card, with the queue its packets wait in and    *)
(* the packets its own log lines become.                                   *)
(*                                                                         *)
(* The bus is the part of PubSub one deferred subscriber sees: a queue     *)
(* whose head stays in it until the call after the one that served it.     *)
(* What is published before the subscription, or into a full queue, is     *)
(* gone; a log line is gone as well when the pool has no packet for it.    *)
(*                                                                         *)
(* External: the C library's file.  fopen may fail.  A write or flush may  *)
(* fail while the card does not work (or is full); the error indicator of  *)
(* the stream then stays set, and a write may report failure for as long   *)
(* as it is.  A power failure may come between any two steps: what it      *)
(* costs is what is unflushed in that state.                               *)
(*                                                                         *)
(* History variables: "unflushed", the records written since the last      *)
(* flush that succeeded; "lines", the log lines of the handler's           *)
(* activation; "unmountFailed".                                            *)
(***************************************************************************)
EXTENDS HalEsp32Storage, Integers, Sequences, FiniteSetsExt

CONSTANTS
  FlushEvery,    \* K_FLUSH_EVERY
  CounterMod,    \* stands for 2^32, where logged_packets wraps
  QueueSize      \* K_SPP_PUBSUB_QUEUE_SIZE

ASSUME DataloggerAssumption ==
  /\ FlushEvery \in Nat \ {0}
  /\ CounterMod \in Nat /\ CounterMod > FlushEvery
  /\ QueueSize \in Nat \ {0}

VARIABLES subscribed,
          queue, headServed,         \* the packets queued; nextSubIdx of the first
          phase,                     \* where the code is
          registering,               \* init was called by register
          p_file, is_open, logged_packets,
          streamError,               \* the error indicator of the file
          calm,                      \* nothing is published or called any more
          unflushed, lines, unmountFailed

busVars  == <<subscribed, queue, headServed>>
fileVars == <<p_file, is_open, logged_packets, streamError, unflushed>>
envVars  == <<s_p_halPort, cardOk, calm>>
dlVars   == <<sdVars, envVars, busVars, phase, registering, fileVars, lines,
              unmountFailed>>

Kinds   == {"log", "data"}
Writing == {"write", "payload", "newline"}

DlInit ==
  /\ StorageInit
  /\ subscribed = FALSE /\ queue = <<>> /\ headServed = FALSE
  /\ phase = "idle" /\ registering = FALSE
  /\ p_file = FALSE /\ is_open = FALSE /\ logged_packets = 0
  /\ streamError = FALSE
  /\ calm = FALSE
  /\ unflushed = 0 /\ lines = 0 /\ unmountFailed = FALSE

-----------------------------------------------------------------------------
(***************************************************************************)
(* The bus.                                                                *)
(***************************************************************************)
\* Fault: a full queue is not noticed.
publish_noRoom(kind) ==
  queue' = IF subscribed THEN Append(queue, kind) ELSE queue

publish(kind) ==
  queue' = IF subscribed /\ Len(queue) < QueueSize THEN Append(queue, kind) ELSE queue

\* A line of the log: a packet of the bus, or nothing without a free packet.
logLine == publish("log") \/ UNCHANGED queue

produce(kind) ==
  /\ phase = "idle" /\ ~calm
  /\ publish(kind)
  /\ UNCHANGED <<sdVars, envVars, subscribed, headServed, phase, registering,
                 fileVars, lines, unmountFailed>>

busUnchanged ==
  UNCHANGED <<sdVars, envVars, subscribed, registering, fileVars, unmountFailed>>

\* The handler is called; onPacket does nothing while the file is closed.
callHandler ==
  /\ phase = "idle" /\ queue # <<>> /\ ~headServed
  /\ IF is_open
     THEN phase' = "write" /\ UNCHANGED headServed
     ELSE headServed' = TRUE /\ UNCHANGED phase
  /\ lines' = 0
  /\ UNCHANGED queue /\ busUnchanged

releaseHead ==
  /\ phase = "idle" /\ queue # <<>> /\ headServed
  /\ queue' = Tail(queue) /\ headServed' = FALSE
  /\ UNCHANGED <<phase, lines>> /\ busUnchanged

callConsumersEmpty ==
  phase = "idle" /\ queue = <<>> /\ UNCHANGED dlVars

callConsumers == callHandler \/ releaseHead \/ callConsumersEmpty

-----------------------------------------------------------------------------
(***************************************************************************)
(* logPacket and what onPacket does after it.                              *)
(***************************************************************************)
writeMayFail == ~cardOk \/ streamError

onPacketEnds == phase' = "idle" /\ headServed' = TRUE

\* Fault: the test for the flush is made after the modulo has been lost.
flushDue_once(count) == count = FlushEvery

flushDue(count) == count % FlushEvery = 0

flushOrEnd(count) ==
  IF flushDue(count) THEN phase' = "flush" /\ UNCHANGED headServed ELSE onPacketEnds

\* logPacket returns K_SPP_OK.
recordWritten ==
  /\ logged_packets' = (logged_packets + 1) % CounterMod
  /\ unflushed' = Min({unflushed + 1, FlushEvery + 1})
  /\ UNCHANGED <<queue, streamError, lines>>
  /\ flushOrEnd(logged_packets')

\* Fault: the handler logs that a packet could not be written.
recordFailed_logs ==
  /\ writeMayFail
  /\ streamError' = TRUE
  /\ logLine /\ lines' = lines + 1
  /\ UNCHANGED <<logged_packets, unflushed>>
  /\ flushOrEnd(logged_packets)

\* logPacket returns an error: nothing, a part or all of the text is in the
\* file; onPacket goes on as if nothing had happened.
recordFailed ==
  /\ writeMayFail
  /\ streamError' = TRUE
  /\ UNCHANGED <<queue, logged_packets, unflushed, lines>>
  /\ flushOrEnd(logged_packets)

handlerUnchanged ==
  UNCHANGED <<sdVars, envVars, subscribed, registering, p_file, is_open, unmountFailed>>

writeLog ==
  /\ phase = "write" /\ Head(queue) = "log"
  /\ recordWritten \/ recordFailed
  /\ handlerUnchanged

writeGoesOn(next) ==
  /\ phase' = next
  /\ UNCHANGED <<queue, headServed, logged_packets, unflushed, lines>>

writeHeader ==
  /\ phase = "write" /\ Head(queue) = "data"
  /\ \/ writeGoesOn("payload") /\ UNCHANGED streamError
     \/ recordFailed
  /\ handlerUnchanged

\* The result of the payload's fprintf calls is not looked at.
writePayload ==
  /\ phase = "payload"
  /\ writeGoesOn("newline")
  /\ streamError' \in IF writeMayFail THEN {streamError, TRUE} ELSE {streamError}
  /\ handlerUnchanged

writeNewline ==
  /\ phase = "newline"
  /\ recordWritten \/ recordFailed
  /\ handlerUnchanged

-----------------------------------------------------------------------------
(***************************************************************************)
(* flush of an open file; of a closed one it only returns an error.        *)
(***************************************************************************)
flushSucceeds ==
  /\ unflushed' = 0
  /\ UNCHANGED <<queue, streamError>>

flushFails ==
  /\ ~cardOk
  /\ streamError' = TRUE
  /\ logLine
  /\ UNCHANGED unflushed

flushUnchanged ==
  UNCHANGED <<sdVars, envVars, subscribed, registering, p_file, is_open,
              logged_packets, unmountFailed>>

onPacketFlush ==
  /\ phase = "flush"
  /\ \/ flushSucceeds /\ UNCHANGED lines
     \/ flushFails /\ lines' = lines + 1
  /\ onPacketEnds
  /\ flushUnchanged

\* SPP_SERVICES_DATALOGGER_flush called by the application.
flush ==
  /\ phase = "idle" /\ is_open /\ ~calm
  /\ flushSucceeds \/ flushFails
  /\ UNCHANGED <<phase, headServed, lines>> /\ flushUnchanged

-----------------------------------------------------------------------------
(***************************************************************************)
(* init, called by the application or by register, and deinit.  The        *)
(* application does not call init for a logger whose file is open.         *)
(***************************************************************************)
initUnchanged == UNCHANGED <<envVars, headServed, lines>>

\* init returns an error: its line, and the line of register.
initFails ==
  /\ phase' = "idle" /\ registering' = FALSE
  /\ logLine
  /\ UNCHANGED <<subscribed, fileVars>>

releaseCard ==
  \E ok \in BOOLEAN :
    /\ halStorageUnmount(ok)
    /\ unmountFailed' = (unmountFailed \/ (s_sdMounted /\ ~ok))

initBegin ==
  /\ phase = "idle" /\ ~is_open /\ ~calm
  /\ registering' \in IF subscribed THEN {FALSE} ELSE BOOLEAN
  /\ halStorageMount(TRUE)
  /\ phase' = "open"
  /\ UNCHANGED <<subscribed, queue, fileVars, unmountFailed>> /\ initUnchanged

initNoMount ==
  /\ phase = "idle" /\ ~is_open /\ ~calm
  /\ halStorageMount(FALSE)
  /\ initFails
  /\ UNCHANGED unmountFailed /\ initUnchanged

\* fopen succeeds.  register subscribes the handler before its own line.
initOpens ==
  /\ phase = "open"
  /\ phase' = "idle" /\ registering' = FALSE
  /\ p_file' = TRUE /\ is_open' = TRUE /\ logged_packets' = 0
  /\ streamError' = FALSE /\ unflushed' = 0
  /\ subscribed' = (subscribed \/ registering)
  /\ IF registering THEN queue' \in {<<>>, <<"log">>} ELSE logLine
  /\ UNCHANGED <<sdVars, unmountFailed>> /\ initUnchanged

\* Fault: the card stays mounted when the file cannot be opened.
initNoFile_mounted ==
  /\ phase = "open"
  /\ initFails
  /\ UNCHANGED <<sdVars, unmountFailed>> /\ initUnchanged

initNoFile ==
  /\ phase = "open"
  /\ initFails
  /\ releaseCard
  /\ initUnchanged

\* Fault: the file is left open.
deinit_noClose ==
  /\ phase = "idle" /\ ~calm
  /\ releaseCard
  /\ logLine
  /\ UNCHANGED <<phase, registering, subscribed, fileVars>> /\ initUnchanged

\* What the last fflush and fclose return is not looked at.
deinit ==
  /\ phase = "idle" /\ ~calm
  /\ p_file' = FALSE /\ is_open' = FALSE
  /\ streamError' = FALSE /\ unflushed' = 0
  /\ releaseCard
  /\ logLine
  /\ UNCHANGED <<phase, registering, subscribed, logged_packets>> /\ initUnchanged

-----------------------------------------------------------------------------
(***************************************************************************)
(* The environment.                                                        *)
(***************************************************************************)
boot ==
  /\ ~s_p_halPort /\ ~calm
  /\ s_p_halPort' = TRUE
  /\ UNCHANGED <<sdVars, cardOk, calm, busVars, phase, registering, fileVars,
                 lines, unmountFailed>>

cardChanges ==
  /\ ~calm
  /\ cardOk' = ~cardOk
  /\ UNCHANGED <<sdVars, s_p_halPort, calm, busVars, phase, registering,
                 fileVars, lines, unmountFailed>>

calmsDown ==
  /\ cardOk /\ calm' = TRUE
  /\ UNCHANGED <<sdVars, s_p_halPort, cardOk, busVars, phase, registering,
                 fileVars, lines, unmountFailed>>

HandlerStep == writeLog \/ writeHeader \/ writePayload \/ writeNewline \/ onPacketFlush

InitStep == initOpens \/ initNoFile

\* What the processor goes on with: the superloop calls callConsumers forever.
LoopStep == callConsumers \/ HandlerStep \/ InitStep

DlNext ==
  \/ \E kind \in Kinds : produce(kind)
  \/ LoopStep
  \/ flush \/ initBegin \/ initNoMount \/ deinit
  \/ boot \/ cardChanges \/ calmsDown

DlSpec == DlInit /\ [][DlNext]_dlVars /\ WF_dlVars(LoopStep)

-----------------------------------------------------------------------------
DlTypeOK ==
  /\ StorageTypeOK
  /\ subscribed \in BOOLEAN /\ headServed \in BOOLEAN
  /\ queue \in Seq(Kinds) /\ Len(queue) <= QueueSize
  /\ phase \in {"idle", "open", "flush"} \union Writing
  /\ registering \in BOOLEAN
  /\ p_file \in BOOLEAN /\ is_open \in BOOLEAN
  /\ logged_packets \in 0 .. CounterMod - 1
  /\ streamError \in BOOLEAN /\ calm \in BOOLEAN
  /\ unflushed \in 0 .. FlushEvery + 1
  /\ lines \in Nat
  /\ unmountFailed \in BOOLEAN

\* A power failure costs fewer records than a flush period, at any time and
\* also when the counter, whose range the period does not divide, wraps; the
\* promise ends with the first operation on the file that fails.
BoundedLoss ==
  ~streamError =>
    unflushed < FlushEvery \/ (phase = "flush" /\ unflushed = FlushEvery)

\* is_open (datalogger.h: "true once mounted and file is open") is what the
\* handler trusts before it touches the stream: never a closed file, nor one
\* on a file system that is gone.
OpenOnCard == is_open => p_file /\ vfsMounted /\ s_sdMounted

\* Unless the card refused the unmount, a logger that is not open has given
\* the file system back, so that the next init can mount it, also after an
\* init that failed half way.
ReleasedCard ==
  phase = "idle" /\ ~is_open => ~s_sdMounted /\ (vfsMounted => unmountFailed)

\* What the handler logs comes back to it as a packet: a packet breeds at most
\* one, whatever fails, so the queue never fills up with the logger's own lines.
FeedbackBounded == lines <= 1

\* Once the card works and nothing else is published, the logger's own lines
\* die out, although the stream's error indicator may stay set.
StormEnds == calm ~> queue = <<>>
=============================================================================
