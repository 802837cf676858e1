----------------------------- MODULE Superloop -----------------------------
(***************************************************************************)
(* services/service.c (the module registry), the produce callbacks of the  *)
(* two sensor services, the interrupt that drives them, and the superloop  *)
(* of README.md around PubSub:                                             *)
(*                                                                         *)
(*    for (;;) { callProducers(); callConsumers(); }                       *)
(*                                                                         *)
(* A module is a name: a sensor (it has a produce callback) or the handler *)
(* of a subscription (it has onPacket).  The stack of PubSub gets frames   *)
(* for the calls made here:                                                *)
(*   register   SPP_SERVICES_register of module "who", at step idx         *)
(*   init, start   the callback that register has called                   *)
(*   task       a produce callback that has found its flag set             *)
(*   reading    a produce callback inside its SPI transfers                *)
(*   failed     bmp390Task after the LOGE that reports a failed read       *)
(* The interrupt may come between any two steps.  "tried" bounds the       *)
(* model: a module is registered once.  "unread" is a history variable:    *)
(* data became ready and no read has begun since.                          *)
(***************************************************************************)
EXTENDS PubSub

CONSTANTS
  Sensors,         \* modules with a produce callback
  PacketFirst,     \* those that take the packet before they read: bmp390
  SensorApid,      \* the APID of each sensor
  MaxServices,     \* K_SPP_MAX_SERVICES
  CallbackLines,   \* bound: log lines of one init or start callback
  SeqMod           \* stands for 2^16, where a sequence counter wraps

ASSUME SuperloopAssumption ==
  /\ PacketFirst \subseteq Sensors
  /\ SensorApid \in [Sensors -> SUBSET ApidBits]
  /\ MaxServices \in Nat /\ CallbackLines \in Nat
  /\ SeqMod \in Nat \ {0}

VARIABLES s_registry,   \* the registered modules, s_count of them
          turn,         \* index of callProducers; past the end, callConsumers
          drdyFlag,     \* set by the interrupt, cleared by the task
          isrAttached,  \* gpioRegisterIsr was called for the sensor
          s_seq,        \* next sequence number of each sensor
          tried, unread

deviceVars == <<drdyFlag, isrAttached, s_seq, unread>>
loopVars   == <<s_registry, turn, deviceVars, tried>>
sysVars    == <<vars, loopVars>>

Modules    == Sensors \union Handlers
registered == {s_registry[i] : i \in DOMAIN s_registry}

SysInit ==
  /\ Init
  /\ s_registry = <<>>
  /\ turn = 1
  /\ drdyFlag = [s \in Sensors |-> FALSE]
  /\ isrAttached = [s \in Sensors |-> FALSE]
  /\ s_seq = [s \in Sensors |-> 0]
  /\ tried = {}
  /\ unread = [s \in Sensors |-> FALSE]

\* The interrupt handler of the port: *p_flag = true.
gpioIsr(s) ==
  /\ isrAttached[s]
  /\ drdyFlag' = [drdyFlag EXCEPT ![s] = TRUE]
  /\ unread' = [unread EXCEPT ![s] = TRUE]
  /\ UNCHANGED <<vars, s_registry, turn, isrAttached, s_seq, tried>>

(***************************************************************************)
(* SPP_SERVICES_register.  Steps: 1 init begins, 2 subscribe, 3 the final  *)
(* LOGI, 4 the LOGE after a failed callback, 5 s_count--.  A callback in   *)
(* progress is a frame of its own, with the log lines it may still write.  *)
(***************************************************************************)
RegisterFrame(m, step) == Frame("register", NULL, step, m)

Callbacks == {"init", "start"}

CallbackFrame(call, m) == Frame(call, NULL, CallbackLines, m)

AtStep(steps) == Running("register") /\ Top.idx \in steps

\* Fault: the test for a full registry is off by one.
registryFull_offByOne == Len(s_registry) > MaxServices

registryFull == Len(s_registry) >= MaxServices

registerCall(m) ==
  /\ stack = <<>> /\ main = "setup" /\ m \notin tried
  /\ tried' = tried \union {m}
  /\ IF registryFull
     THEN logCall(LogERROR, <<>>) /\ UNCHANGED s_registry
     ELSE /\ s_registry' = Append(s_registry, m)
          /\ stack' = <<RegisterFrame(m, 1)>>
          /\ UNCHANGED <<bankVars, apidOf, s_logBusy, dispatched>>
  /\ UNCHANGED <<logVars, busVars, main, turn, deviceVars>>

\* The init callback begins: a sensor clears its flag and attaches the
\* interrupt.
initBegins ==
  /\ AtStep({1})
  /\ stack' = <<CallbackFrame("init", Top.who)>>
  /\ IF Top.who \in Sensors
     THEN /\ drdyFlag' = [drdyFlag EXCEPT ![Top.who] = FALSE]
          /\ isrAttached' = [isrAttached EXCEPT ![Top.who] = TRUE]
          /\ s_seq' = [s_seq EXCEPT ![Top.who] = 0]
          /\ UNCHANGED unread
     ELSE UNCHANGED deviceVars
  /\ UNCHANGED <<bankVars, logVars, busVars, apidOf, s_logBusy, main, dispatched,
                 s_registry, turn, tried>>

InCallback == stack # <<>> /\ Top.fn \in Callbacks

callbackLogs ==
  /\ InCallback /\ Top.idx > 0
  /\ \E level \in {LogINFO, LogERROR} :
       logCall(level, <<[Top EXCEPT !.idx = @ - 1]>>)
  /\ UNCHANGED <<logVars, busVars, main, loopVars>>

\* Fault: a callback that fails is called again.
afterCallback_retries(ok) ==
  IF ~ok THEN CallbackFrame(Top.fn, Top.who)
  ELSE IF Top.fn = "init" THEN CallbackFrame("start", Top.who)
       ELSE RegisterFrame(Top.who, 2)

\* init is followed by start, start by the subscription.
afterCallback(ok) ==
  IF ~ok THEN RegisterFrame(Top.who, 4)
  ELSE IF Top.fn = "init" THEN CallbackFrame("start", Top.who)
       ELSE RegisterFrame(Top.who, 2)

callbackReturns ==
  /\ InCallback
  /\ \E ok \in BOOLEAN : stack' = <<afterCallback(ok)>>
  /\ UNCHANGED <<bankVars, logVars, busVars, apidOf, s_logBusy, main, dispatched,
                 loopVars>>

\* The result of subscribe is ignored.
registerSubscribe ==
  /\ AtStep({2})
  /\ LET rest == <<RegisterFrame(Top.who, 3)>>
     IN IF Top.who \in Handlers
        THEN subscribe(CHOOSE s \in Subscriptions : s.handler = Top.who, rest)
        ELSE stack' = rest /\ UNCHANGED <<bankVars, logVars, busVars, apidOf,
                                          s_logBusy, main, dispatched>>
  /\ UNCHANGED loopVars

registerDone ==
  /\ AtStep({3})
  /\ logCall(LogINFO, <<>>)
  /\ UNCHANGED <<logVars, busVars, main, loopVars>>

registerFailed ==
  /\ AtStep({4})
  /\ logCall(LogERROR, <<RegisterFrame(Top.who, 5)>>)
  /\ UNCHANGED <<logVars, busVars, main, loopVars>>

\* Fault: the oldest entry goes, not the last one.
withoutFailed_oldest == Tail(s_registry)

withoutFailed == SubSeq(s_registry, 1, Len(s_registry) - 1)

registerUndo ==
  /\ AtStep({5})
  /\ s_registry' = withoutFailed
  /\ stack' = <<>>
  /\ UNCHANGED <<bankVars, logVars, busVars, apidOf, s_logBusy, main,
                 dispatched, turn, deviceVars, tried>>

(***************************************************************************)
(* SPP_SERVICES_callProducers: the produce callback of one more module.    *)
(***************************************************************************)
producing == stack = <<>> /\ main = "loop" /\ turn <= Len(s_registry)

busUnchanged == UNCHANGED <<bankVars, logVars, busVars, apidOf, s_logBusy,
                            main, dispatched>>

\* No produce callback, or its flag is not set.
produceIdle ==
  /\ producing
  /\ s_registry[turn] \in Sensors => ~drdyFlag[s_registry[turn]]
  /\ turn' = turn + 1
  /\ busUnchanged
  /\ UNCHANGED <<stack, s_registry, deviceVars, tried>>

\* Fault: a producer is called again until its flag stays clear.
produceClear_again ==
  /\ producing
  /\ LET s == s_registry[turn]
     IN /\ s \in Sensors /\ drdyFlag[s]
        /\ drdyFlag' = [drdyFlag EXCEPT ![s] = FALSE]
        /\ stack' = <<Frame("task", NULL, 0, s)>>
  /\ busUnchanged
  /\ UNCHANGED <<s_registry, turn, isrAttached, s_seq, unread, tried>>

\* The flag is set: clear it and go on.
produceClear ==
  /\ producing
  /\ LET s == s_registry[turn]
     IN /\ s \in Sensors /\ drdyFlag[s]
        /\ drdyFlag' = [drdyFlag EXCEPT ![s] = FALSE]
        /\ stack' = <<Frame("task", NULL, 0, s)>>
  /\ turn' = turn + 1
  /\ busUnchanged
  /\ UNCHANGED <<s_registry, isrAttached, s_seq, unread, tried>>

Reading(p) == <<Frame("reading", p, 0, Top.who)>>

\* A task that takes its packet first finds the pool empty: the sample is
\* given up, its flag cleared and its sequence number not used.
taskNoPacket ==
  /\ Running("task") /\ Top.who \in PacketFirst /\ ~CanGet
  /\ logCall(LogWARN, <<>>)
  /\ unread' = [unread EXCEPT ![Top.who] = FALSE]
  /\ UNCHANGED <<logVars, busVars, main, s_registry, turn, drdyFlag,
                 isrAttached, s_seq, tried>>

\* The first SPI transfer of the read; bmp390Task holds a packet by then.
taskRead ==
  /\ Running("task")
  /\ IF Top.who \in PacketFirst
     THEN getPacket /\ stack' = Reading(topPacket)
     ELSE stack' = Reading(NULL) /\ UNCHANGED bankVars
  /\ unread' = [unread EXCEPT ![Top.who] = FALSE]
  /\ UNCHANGED <<logVars, busVars, apidOf, s_logBusy, main, dispatched,
                 s_registry, turn, drdyFlag, isrAttached, s_seq, tried>>

sequenceUsed == s_seq' = [s_seq EXCEPT ![Top.who] = (@ + 1) % SeqMod]

\* bmp390Task after a good read: fill the packet it holds and publish it.
publishHeld ==
  /\ Running("reading") /\ Top.who \in PacketFirst
  /\ apidOf' = [apidOf EXCEPT ![Top.pkt] = SensorApid[Top.who]]
  /\ dispatched' = [dispatched EXCEPT ![Top.pkt] = toNobody]
  /\ stack' = <<PublishFrame(Top.pkt)>>
  /\ sequenceUsed
  /\ UNCHANGED <<bankVars, logVars, busVars, s_logBusy, main, s_registry,
                 turn, drdyFlag, isrAttached, unread, tried>>

\* bmp390Task after a failed read: a log line, then the packet goes back.
readFailed ==
  /\ Running("reading") /\ Top.who \in PacketFirst
  /\ logCall(LogERROR, <<[Top EXCEPT !.fn = "failed"]>>)
  /\ UNCHANGED <<logVars, busVars, main, loopVars>>

\* Fault: the error path of bmp390Task keeps its packet.
returnHeld_forgets ==
  /\ Running("failed")
  /\ stack' = <<>>
  /\ UNCHANGED <<bankVars, logVars, busVars, apidOf, s_logBusy, main, dispatched,
                 loopVars>>

returnHeld ==
  /\ Running("failed")
  /\ returnPacket(Top.pkt)
  /\ stack' = <<>>
  /\ UNCHANGED <<logVars, busVars, apidOf, s_logBusy, main, dispatched,
                 loopVars>>

\* checkFifoData has two log lines; only its first call writes them, here
\* any call may.
readingLogs ==
  /\ Running("reading") /\ Top.who \notin PacketFirst /\ Top.idx < 2
  /\ logCall(LogINFO, <<[Top EXCEPT !.idx = @ + 1]>>)
  /\ UNCHANGED <<logVars, busVars, main, loopVars>>

\* Fault: the flag is cleared when the read is over.
fifoEmpty_clears ==
  /\ Running("reading") /\ Top.who \notin PacketFirst
  /\ drdyFlag' = [drdyFlag EXCEPT ![Top.who] = FALSE]
  /\ stack' = <<>>
  /\ busUnchanged
  /\ UNCHANGED <<s_registry, turn, isrAttached, s_seq, unread, tried>>

\* icm20948Task after checkFifoData: no sample in the FIFO ...
fifoEmpty ==
  /\ Running("reading") /\ Top.who \notin PacketFirst
  /\ stack' = <<>>
  /\ busUnchanged
  /\ UNCHANGED loopVars

\* ... or one, for which it takes a packet only now.
publishSample ==
  /\ Running("reading") /\ Top.who \notin PacketFirst
  /\ IF CanGet
     THEN /\ fillAndPublish(SensorApid[Top.who], <<>>)
          /\ sequenceUsed
          /\ UNCHANGED s_logBusy
     ELSE logCall(LogINFO, <<>>) /\ UNCHANGED s_seq
  /\ UNCHANGED <<logVars, busVars, main, s_registry, turn, drdyFlag,
                 isrAttached, unread, tried>>

\* SPP_SERVICES_callConsumers, then the next iteration.
loopConsume ==
  /\ main = "loop" /\ turn > Len(s_registry)
  /\ callConsumers
  /\ turn' = 1
  /\ UNCHANGED <<s_registry, deviceVars, tried>>

TaskNext ==
  \/ produceIdle \/ produceClear
  \/ taskNoPacket \/ taskRead
  \/ publishHeld \/ readFailed \/ returnHeld
  \/ readingLogs \/ fifoEmpty \/ publishSample

RegisterNext ==
  \/ \E m \in Modules : registerCall(m)
  \/ initBegins \/ callbackLogs \/ callbackReturns \/ registerSubscribe
  \/ registerDone \/ registerFailed \/ registerUndo

\* Everything the processor executes outside interrupts.
ThreadNext ==
  \/ (boot \/ enterLoop) /\ UNCHANGED loopVars
  \/ (HandlerNext \/ BusNext) /\ UNCHANGED loopVars
  \/ RegisterNext
  \/ TaskNext
  \/ loopConsume

SysNext == ThreadNext \/ \E s \in Sensors : gpioIsr(s)

SysSpec == SysInit /\ [][SysNext]_sysVars /\ WF_sysVars(ThreadNext)

-----------------------------------------------------------------------------
Holding == {i \in DOMAIN stack :
              stack[i].fn \in {"publish", "dropping", "reading", "failed"}
              /\ stack[i].pkt # NULL}

\* Types of the variables this module adds; the stack has more frames here.
SysTypeOK ==
  /\ s_registry \in Seq(Modules) /\ Len(s_registry) <= MaxServices
  /\ turn \in 1 .. MaxServices + 1
  /\ drdyFlag \in [Sensors -> BOOLEAN] /\ isrAttached \in [Sensors -> BOOLEAN]
  /\ s_seq \in [Sensors -> 0 .. SeqMod - 1]
  /\ tried \subseteq Modules /\ unread \in [Sensors -> BOOLEAN]

\* With tasks that hold a packet while they read the sensor or report an
\* error, each packet out of the pool still has exactly one owner.
AllAccounted ==
  /\ leased = {queuedPackets[k] : k \in 1 .. s_qCount}
              \union {stack[i].pkt : i \in Holding}
  /\ Cardinality(leased) = s_qCount + Cardinality(Holding)

\* A data-ready edge is never forgotten, wherever in the task it comes:
\* until a read begins (or the sample is given up for want of a packet) the
\* flag is set or a task that has cleared it is about to read.
EdgeKept ==
  \A s \in Sensors :
    unread[s] => \/ drdyFlag[s]
                 \/ stack # <<>> /\ \E i \in DOMAIN stack :
                      stack[i].fn = "task" /\ stack[i].who = s

\* A module that register rolled back gets no packets: only registered
\* modules have a subscription, at every point of a registration.
OnlyRegisteredSubscribed == subscribed \subseteq registered

\* service.h:10-12: "Registration automatically wires up pub/sub
\* subscriptions", so a consumer that is registered has one.
RegisteredIsSubscribed ==
  stack = <<>> => registered \intersect Handlers \subseteq subscribed

\* The flag of a registered sensor is always taken up again: no consumer,
\* log line or other sensor can keep callProducers from coming round.
FlagServed ==
  \A s \in Sensors : drdyFlag[s] /\ s \in registered /\ main = "loop"
                       ~> ~drdyFlag[s]

\* Every packet that was queued goes back to the pool, however many are
\* published meanwhile.
PacketRetired ==
  \A p \in Packets : (\E k \in 1 .. s_qCount : queuedPackets[k] = p)
                       ~> ~ \E k \in 1 .. s_qCount : queuedPackets[k] = p

\* Every chain of nested calls ends, so the loop iterates for ever.
CallsReturn == stack # <<>> ~> stack = <<>>
=============================================================================
