------------------------------- MODULE PubSub -------------------------------
(***************************************************************************)
(* services/pubsub/pubsub.c, with the two parts of core/core.c it cannot   *)
(* be told apart from: SPP_CORE_boot and coreLogOutput, the log output     *)
(* that turns a log line into a packet and publishes it.                   *)
(*                                                                         *)
(* The program is one thread, but its calls nest: publish runs SYNC        *)
(* handlers and, when the ring is full, logs; a log line is published; a   *)
(* handler may log and publish again.  "stack" is the stack of the calls   *)
(* in progress, innermost first; a step of the model runs the innermost    *)
(* call up to the next call it makes or to its return.                     *)
(*   publish   the SYNC loop, about to look at s_subs[idx]                 *)
(*   dropping  publish on a full ring, its LOGW returned                   *)
(*   consume   callConsumers waiting for the handler of s_subs[idx]        *)
(*   log       coreLogOutput waiting for its publish                       *)
(*   handler   application code of handler "who", idx API calls left       *)
(* s_subs[i] of the code is s_subs[i + 1] here.  "dispatched" is a history *)
(* variable: how often each handler was called for a packet since it was   *)
(* published, 2 standing for more than once.                               *)
(***************************************************************************)
EXTENDS Databank, Log, Sequences, FiniteSetsExt

CONSTANTS
  ApidBits,         \* the bits of an APID that are told apart
  LogApid,          \* K_SPP_APID_LOG, a set of one bit
  Apids,            \* the APIDs producers publish
  MaxSubscribers,   \* K_SPP_PUBSUB_MAX_SUBSCRIBERS
  QueueSize,        \* K_SPP_PUBSUB_QUEUE_SIZE, a power of 2 (macros.h)
  CounterMax,       \* stands for 0xFFFF, where an overflow counter saturates
  Subscriptions,    \* records [handler, apid, prio] offered to subscribe
  HandlerCalls      \* per handler, the API calls one activation makes at most

ASSUME PubSubAssumption ==
  /\ LogApid \subseteq ApidBits
  /\ Apids \subseteq SUBSET ApidBits
  /\ MaxSubscribers \in Nat
  /\ QueueSize \in Nat \ {0} /\ \E n \in 0 .. 7 : QueueSize = 2 ^ n
  /\ CounterMax \in Nat
  /\ \A s \in Subscriptions : s.prio \in 0 .. 3
  /\ HandlerCalls \in [{s.handler : s \in Subscriptions} -> Nat]

SYNC == 0           \* K_SPP_PUBSUB_PRIO_SYNC; 1 .. 3 are HIGH, NORMAL, LOW
ALL  == ApidBits    \* K_SPP_APID_ALL

Handlers == {s.handler : s \in Subscriptions}

VARIABLES busInitialized, s_subs, s_queue, s_head, s_tail, s_qCount,
          s_overflowCount, apidOf, s_logBusy, stack, main, dispatched

ringVars == <<s_queue, s_head, s_tail, s_qCount>>
busVars  == <<busInitialized, s_subs, ringVars, s_overflowCount>>
vars     == <<bankVars, logVars, busVars, apidOf, s_logBusy, stack, main,
              dispatched>>

Slots     == 0 .. QueueSize - 1
emptySlot == [p_pkt |-> NULL, nextSubIdx |-> 1]

Frame(fn, pkt, idx, who) == [fn |-> fn, pkt |-> pkt, idx |-> idx, who |-> who]
PublishFrame(p)    == Frame("publish", p, 1, NULL)
LogFrame           == Frame("log", NULL, 0, NULL)
HandlerFrame(h, p) == Frame("handler", p, HandlerCalls[h], h)

toNobody == [h \in Handlers |-> 0]

\* The call of handler h with packet p is noted.
noteCall(p, h) ==
  dispatched' = [dispatched EXCEPT ![p][h] = Min({@ + 1, 2})]

Running(fn) == stack # <<>> /\ Head(stack).fn = fn

Top    == Head(stack)
Caller == Tail(stack)

Init ==
  /\ BankInit
  /\ LogInit
  /\ busInitialized = FALSE
  /\ s_subs = <<>>
  /\ s_queue = [q \in Slots |-> emptySlot]
  /\ s_head = 0 /\ s_tail = 0 /\ s_qCount = 0
  /\ s_overflowCount = [b \in ApidBits |-> 0]
  /\ apidOf = [p \in Packets |-> {}]
  /\ s_logBusy = FALSE
  /\ stack = <<>>
  /\ main = "reset"
  /\ dispatched = [p \in Packets |-> toNobody]

(***************************************************************************)
(* Matching.                                                               *)
(***************************************************************************)
apidMatches(subApid, pktApid) ==
  subApid # {} /\ (subApid = ALL \/ subApid \intersect pktApid # {})

Wants(i, p) == apidMatches(s_subs[i].apid, apidOf[p])

\* SYNC entries publish still has to call: it stops at the first other one.
SyncLeft(i, p) ==
  {j \in i .. Len(s_subs) :
      Wants(j, p) /\ \A k \in i .. j : s_subs[k].prio = SYNC}

\* Deferred entries from index i on that match.
DeferredLeft(i, p) ==
  {j \in i .. Len(s_subs) : s_subs[j].prio # SYNC /\ Wants(j, p)}

(***************************************************************************)
(* getPacket, packetData and the call of publish, the sequence every       *)
(* producer runs; "rest" is what the caller leaves below it on the stack.  *)
(***************************************************************************)
fillAndPublish(apid, rest) ==
  /\ getPacket
  /\ apidOf' = [apidOf EXCEPT ![topPacket] = apid]
  /\ dispatched' = [dispatched EXCEPT ![topPacket] = toNobody]
  /\ stack' = <<PublishFrame(topPacket)>> \o rest

(***************************************************************************)
(* SPP_SERVICES_LOG_emit and, through it, coreLogOutput: dropped by the    *)
(* level, by a missing output, by the reentrancy guard or by an empty      *)
(* pool; otherwise the line is published with s_logBusy held.              *)
(***************************************************************************)
\* Fault: the bridge does not look at s_logBusy.
logPasses_noGuard(level) == Emits(level) /\ CanGet

logPasses(level) == Emits(level) /\ ~s_logBusy /\ CanGet

logCall(level, rest) ==
  IF logPasses(level)
  THEN /\ s_logBusy' = TRUE
       /\ fillAndPublish(LogApid, <<LogFrame>> \o rest)
  ELSE /\ stack' = rest
       /\ UNCHANGED <<bankVars, apidOf, dispatched, s_logBusy>>

logReturn ==
  /\ Running("log")
  /\ s_logBusy' = FALSE
  /\ stack' = Caller
  /\ UNCHANGED <<bankVars, logVars, busVars, apidOf, main, dispatched>>

(***************************************************************************)
(* SPP_SERVICES_PUBSUB_publish.                                            *)
(***************************************************************************)
\* Part 1: call the next matching SYNC handler.
publishSync ==
  /\ Running("publish")
  /\ LET p == Top.pkt
         left == SyncLeft(Top.idx, p)
     IN /\ left # {}
        /\ LET j == Min(left)
               h == s_subs[j].handler
           IN /\ stack' = <<HandlerFrame(h, p), [Top EXCEPT !.idx = j + 1]>>
                            \o Caller
              /\ noteCall(p, h)
  /\ UNCHANGED <<bankVars, logVars, busVars, apidOf, s_logBusy, main>>

SyncDone == Running("publish") /\ SyncLeft(Top.idx, Top.pkt) = {}

HasDeferred == DeferredLeft(1, Top.pkt) # {}

\* Fault: the test for a full ring is off by one.
ringFull_offByOne == s_qCount > QueueSize

ringFull == s_qCount >= QueueSize

\* Fault: the index is not masked.
nextSlot_unmasked(q) == q + 1

\* & K_QUEUE_MASK, a remainder because QueueSize is a power of 2.
nextSlot(q) == (q + 1) % QueueSize

\* Part 2: nobody is left to serve, the packet goes back.
publishReturn ==
  /\ SyncDone /\ ~HasDeferred
  /\ returnPacket(Top.pkt)
  /\ stack' = Caller
  /\ UNCHANGED <<logVars, busVars, apidOf, s_logBusy, main, dispatched>>

\* Part 3: append to the ring.
publishEnqueue ==
  /\ SyncDone /\ HasDeferred
  /\ ~ringFull
  /\ s_queue' = [s_queue EXCEPT ![s_tail] =
                   [p_pkt |-> Top.pkt, nextSubIdx |-> 1]]
  /\ s_tail' = nextSlot(s_tail)
  /\ s_qCount' = s_qCount + 1
  /\ stack' = Caller
  /\ UNCHANGED <<bankVars, logVars, busInitialized, s_subs, s_head,
                 s_overflowCount, apidOf, s_logBusy, main, dispatched>>

\* Part 3 on a full ring: the warning first, ...
publishFull ==
  /\ SyncDone /\ HasDeferred
  /\ ringFull
  /\ logCall(LogWARN, <<[Top EXCEPT !.fn = "dropping"]>> \o Caller)
  /\ UNCHANGED <<logVars, busVars, main>>

\* Fault: the counters wrap instead of saturating.
overflowIncrement_wraps(apid) ==
  s_overflowCount' = [b \in ApidBits |->
    IF b \in apid THEN (s_overflowCount[b] + 1) % (CounterMax + 1)
                  ELSE s_overflowCount[b]]

overflowIncrement(apid) ==
  s_overflowCount' = [b \in ApidBits |->
    IF b \in apid /\ s_overflowCount[b] < CounterMax
    THEN s_overflowCount[b] + 1 ELSE s_overflowCount[b]]

\* ... then the counters and the packet.
publishDrop ==
  /\ Running("dropping")
  /\ overflowIncrement(apidOf[Top.pkt])
  /\ returnPacket(Top.pkt)
  /\ stack' = Caller
  /\ UNCHANGED <<logVars, busInitialized, s_subs, ringVars, apidOf, s_logBusy,
                 main, dispatched>>

\* SPP_SERVICES_PUBSUB_overflowCount: a sum in the width of one counter.
overflowCount(apid) ==
  MapThenSumSet(LAMBDA b : s_overflowCount[b], apid) % (CounterMax + 1)

(***************************************************************************)
(* SPP_SERVICES_PUBSUB_callConsumers, called by the superloop.             *)
(***************************************************************************)
headPacket == s_queue[s_head].p_pkt

headLeft == DeferredLeft(s_queue[s_head].nextSubIdx, headPacket)

\* Fault: the packet is given back before its last subscriber has run.
consumeCall_releasesLast ==
  /\ stack = <<>> /\ s_qCount > 0
  /\ headLeft # {}
  /\ LET j == Min(headLeft)
         h == s_subs[j].handler
     IN /\ stack' = <<HandlerFrame(h, headPacket),
                      Frame("consume", NULL, j, NULL)>>
        /\ noteCall(headPacket, h)
  /\ IF Cardinality(headLeft) = 1 THEN returnPacket(headPacket)
                                 ELSE UNCHANGED bankVars
  /\ UNCHANGED <<logVars, busVars, apidOf, s_logBusy, main>>

\* Serve the next subscriber of the packet at the head of the ring ...
consumeCall ==
  /\ stack = <<>> /\ s_qCount > 0
  /\ headLeft # {}
  /\ LET j == Min(headLeft)
         h == s_subs[j].handler
     IN /\ stack' = <<HandlerFrame(h, headPacket),
                      Frame("consume", NULL, j, NULL)>>
        /\ noteCall(headPacket, h)
  /\ UNCHANGED <<bankVars, logVars, busVars, apidOf, s_logBusy, main>>

\* Fault: the subscriber just served stays the next one.
afterServed_same == Top.idx

afterServed == Top.idx + 1

\* ... saving the progress when its handler has returned ...
consumeReturn ==
  /\ Running("consume")
  /\ s_queue' = [s_queue EXCEPT ![s_head].nextSubIdx = afterServed]
  /\ stack' = Caller
  /\ UNCHANGED <<bankVars, logVars, busInitialized, s_subs, s_head, s_tail,
                 s_qCount, s_overflowCount, apidOf, s_logBusy, main,
                 dispatched>>

\* ... or retire the packet when no subscriber of it is left.
consumeRetire ==
  /\ stack = <<>> /\ s_qCount > 0
  /\ headLeft = {}
  /\ returnPacket(headPacket)
  /\ s_queue' = [s_queue EXCEPT ![s_head].p_pkt = NULL]
  /\ s_head' = nextSlot(s_head)
  /\ s_qCount' = s_qCount - 1
  /\ UNCHANGED <<logVars, busInitialized, s_subs, s_tail, s_overflowCount,
                 apidOf, s_logBusy, stack, main, dispatched>>

consumeNothing == stack = <<>> /\ s_qCount = 0 /\ UNCHANGED vars

callConsumers == consumeCall \/ consumeRetire \/ consumeNothing

(***************************************************************************)
(* SPP_SERVICES_PUBSUB_subscribe: a sorted insertion, after the entries of *)
(* the same priority.                                                      *)
(***************************************************************************)
\* Fault: a new entry goes to the end of the table.
insertionPoint_end(s) == Len(s_subs)

insertionPoint(s) ==
  Cardinality({i \in DOMAIN s_subs : s_subs[i].prio <= s.prio})

insertSub(s) ==
  LET ins == insertionPoint(s)
  IN [i \in 1 .. Len(s_subs) + 1 |->
        IF i <= ins THEN s_subs[i]
        ELSE IF i = ins + 1 THEN s ELSE s_subs[i - 1]]

subscribed == {s_subs[i].handler : i \in DOMAIN s_subs}

tableFull == Len(s_subs) >= MaxSubscribers

\* "rest" is the stack subscribe returns to.
subscribe(s, rest) ==
  /\ s.handler \notin subscribed
  /\ IF busInitialized /\ tableFull
     THEN logCall(LogERROR, rest)
     ELSE stack' = rest /\ UNCHANGED <<bankVars, apidOf, s_logBusy, dispatched>>
  /\ s_subs' = IF busInitialized /\ ~tableFull THEN insertSub(s) ELSE s_subs
  /\ UNCHANGED <<logVars, busInitialized, ringVars, s_overflowCount, main>>

(***************************************************************************)
(* SPP_SERVICES_PUBSUB_init and SPP_CORE_boot.  A NULL port makes boot     *)
(* return before it does anything; the LOGI at the end of SPP_CORE_init is *)
(* dropped because LOG_init has just cleared the output.                   *)
(***************************************************************************)
pubsubInit ==
  /\ busInitialized' = TRUE
  /\ s_subs' = <<>>
  /\ s_queue' = [q \in Slots |-> emptySlot]
  /\ s_head' = 0 /\ s_tail' = 0 /\ s_qCount' = 0
  /\ s_overflowCount' = [b \in ApidBits |-> 0]

bootCalls ==
  /\ stack = <<>>
  /\ databankInit
  /\ pubsubInit
  /\ s_level' = LogVERBOSE /\ s_outFn' = TRUE
  /\ UNCHANGED <<apidOf, s_logBusy, stack, dispatched>>

boot == main = "reset" /\ bootCalls /\ main' = "setup"

(***************************************************************************)
(* The application: its main line (boot, subscribe, then the superloop)    *)
(* and the body of a handler.  Both may log and publish; HandlerCalls      *)
(* bounds what one activation of a handler does.                           *)
(***************************************************************************)
mainLog(level) ==
  /\ stack = <<>> /\ main # "reset"
  /\ logCall(level, <<>>)
  /\ UNCHANGED <<logVars, busVars, main>>

mainPublish(apid) ==
  /\ stack = <<>> /\ main # "reset"
  /\ fillAndPublish(apid, <<>>)
  /\ UNCHANGED <<logVars, busVars, s_logBusy, main>>

mainSetLog ==
  /\ stack = <<>> /\ main # "reset"
  /\ \/ \E level \in Levels : setLevel(level)
     \/ \E installed \in BOOLEAN : setOutput(installed)
  /\ UNCHANGED <<bankVars, busVars, apidOf, s_logBusy, stack, main, dispatched>>

mainSubscribe(s) ==
  stack = <<>> /\ main \in {"reset", "setup"} /\ subscribe(s, <<>>)

enterLoop ==
  /\ stack = <<>> /\ main = "setup"
  /\ main' = "loop"
  /\ UNCHANGED <<bankVars, logVars, busVars, apidOf, s_logBusy, stack,
                 dispatched>>

mainConsume == main = "loop" /\ callConsumers

oneCallLess == <<[Top EXCEPT !.idx = @ - 1]>> \o Caller

handlerLog(level) ==
  /\ Running("handler") /\ Top.idx > 0
  /\ logCall(level, oneCallLess)
  /\ UNCHANGED <<logVars, busVars, main>>

handlerPublish(apid) ==
  /\ Running("handler") /\ Top.idx > 0
  /\ fillAndPublish(apid, oneCallLess)
  /\ UNCHANGED <<logVars, busVars, s_logBusy, main>>

handlerReturn ==
  /\ Running("handler")
  /\ stack' = Caller
  /\ UNCHANGED <<bankVars, logVars, busVars, apidOf, s_logBusy, main,
                 dispatched>>

MainNext ==
  \/ boot
  \/ enterLoop
  \/ mainSetLog
  \/ \E level \in {LogERROR, LogWARN, LogINFO} : mainLog(level)
  \/ \E apid \in Apids : mainPublish(apid)
  \/ \E s \in Subscriptions : mainSubscribe(s)
  \/ mainConsume

HandlerNext ==
  \/ \E level \in {LogERROR, LogWARN, LogINFO} : handlerLog(level)
  \/ \E apid \in Apids : handlerPublish(apid)
  \/ handlerReturn

BusNext ==
  \/ publishSync \/ publishReturn \/ publishEnqueue
  \/ publishFull \/ publishDrop
  \/ consumeReturn
  \/ logReturn

Next == MainNext \/ HandlerNext \/ BusNext

Spec == Init /\ [][Next]_vars

-----------------------------------------------------------------------------
(***************************************************************************)
(* Two uses the headers allow and the superloop of the README does not     *)
(* make: subscribing while packets are being dispatched, and booting again.*)
(***************************************************************************)
LateSubscribe ==
  \E s \in Subscriptions : stack = <<>> /\ main = "loop" /\ subscribe(s, <<>>)

LateSpec == Init /\ [][Next \/ LateSubscribe]_vars

reboot == main # "reset" /\ bootCalls /\ main' = "setup"

RebootSpec == Init /\ [][Next \/ reboot]_vars

-----------------------------------------------------------------------------
(***************************************************************************)
(* The bus implements Delivery.                                            *)
(***************************************************************************)
queuedPackets ==
  [k \in 1 .. s_qCount |-> s_queue[(s_head + k - 1) % QueueSize].p_pkt]

Publishing == {i \in DOMAIN stack : stack[i].fn \in {"publish", "dropping"}}

publishedPackets == {stack[i].pkt : i \in Publishing}

Promise ==
  INSTANCE Delivery WITH
    Packet <- Packets, Apid <- SUBSET ApidBits, Subscription <- Subscriptions,
    Capacity <- QueueSize, Matches <- apidMatches,
    subs <- {s_subs[i] : i \in DOMAIN s_subs}, apid <- apidOf,
    arriving <- publishedPackets, queue <- queuedPackets, served <- dispatched

\* Every packet is served in publication order, to each matching subscriber
\* exactly once, SYNC ones inside publish and the others by priority, and
\* goes back to the pool only then: pubsub.c with its index into a shifting
\* table, its ring and its nested calls implements the promise of pubsub.h.
ImplementsDelivery == Promise!Spec

-----------------------------------------------------------------------------
\* Types of the variables of pubsub.c and of the bridge in core.c.
FrameType ==
  [fn  : {"publish", "dropping", "consume", "log", "handler"},
   pkt : Packets \union {NULL},
   idx : Nat,
   who : Handlers \union {NULL}]

TypeOK ==
  /\ BankTypeOK /\ LogTypeOK
  /\ busInitialized \in BOOLEAN
  /\ s_subs \in Seq(Subscriptions) /\ Len(s_subs) <= MaxSubscribers
  /\ s_queue \in [Slots -> [p_pkt : Packets \union {NULL}, nextSubIdx : Nat]]
  /\ s_head \in Slots /\ s_tail \in Slots /\ s_qCount \in 0 .. QueueSize
  /\ s_overflowCount \in [ApidBits -> 0 .. CounterMax]
  /\ apidOf \in [Packets -> SUBSET ApidBits]
  /\ s_logBusy \in BOOLEAN
  /\ stack \in Seq(FrameType)
  /\ main \in {"reset", "setup", "loop"}
  /\ dispatched \in [Packets -> [Handlers -> 0 .. 2]]

\* The three ring variables agree, and exactly the slots between head and
\* tail hold a packet: callConsumers never dereferences a NULL p_pkt and
\* publish never overwrites a waiting one, also across the wrap-around.
RingConsistent ==
  /\ s_tail = (s_head + s_qCount) % QueueSize
  /\ \A q \in Slots :
       s_queue[q].p_pkt # NULL <=>
         \E k \in 0 .. s_qCount - 1 : q = (s_head + k) % QueueSize

\* Between any two steps, nested calls included, each packet that is out of
\* the pool is in the ring or in the hands of one publish call, and in one
\* place only: nothing is leaked and nothing is owned twice.
OwnedOnce ==
  /\ leased = {queuedPackets[k] : k \in 1 .. s_qCount} \union publishedPackets
  /\ Cardinality(leased) = s_qCount + Cardinality(Publishing)

\* The pointer a handler was given stays valid until it returns: the packet
\* is not back in the pool, where a nested log line could be written over it.
HandlerPacketLive ==
  \A i \in DOMAIN stack : stack[i].fn = "handler" => stack[i].pkt \in leased

\* The table is sorted by priority, on which publish's early break relies.
SubsSorted ==
  \A i, j \in DOMAIN s_subs : i <= j => s_subs[i].prio <= s_subs[j].prio

\* The reentrancy guard of the log bridge is held exactly while one log line
\* is being published: lines never recurse, and no early return leaves the
\* guard set, which would silence the log for good.
LogGuard ==
  LET logs == {i \in DOMAIN stack : stack[i].fn = "log"}
  IN Cardinality(logs) = IF s_logBusy THEN 1 ELSE 0

\* Handlers may publish what they themselves receive, without a limit in
\* the code, yet calls nest only as deep as the pool is large: each nested
\* publish holds a packet of its own.
StackBounded == Len(stack) <= 2 * DatabankSize + 1

\* A packet leaves the bus for one of three reasons, the last one counted:
\* all its deferred subscribers were called, it had none, or the ring was
\* full and each of its APID bits' counters moved (or is saturated).
NoSilentDrop ==
  [][main # "reset" =>
     \A p \in leased \ leased' :
       \/ \A i \in DOMAIN s_subs :
            s_subs[i].prio # SYNC /\ Wants(i, p) =>
              dispatched[p][s_subs[i].handler] > 0
       \/ /\ s_qCount = QueueSize
          /\ \A b \in apidOf[p] :
               s_overflowCount'[b] = Min({s_overflowCount[b] + 1, CounterMax})]_vars

-----------------------------------------------------------------------------
(***************************************************************************)
(* Statements of the headers and READMEs that the code does not keep.      *)
(***************************************************************************)
\* pubsub.h:119: callConsumers dispatches "the next pending deferred
\* subscriber", so never one that this packet has been given to already.
ServesPending ==
  [][consumeCall =>
       dispatched[headPacket][s_subs[Min(headLeft)].handler] = 0]_vars

\* pubsub.h:77: init is "safe to call multiple times", so no packet is left
\* outside the pool, the ring and the running calls.
NothingLeaked ==
  leased \subseteq
    {queuedPackets[k] : k \in 1 .. s_qCount} \union publishedPackets

\* pubsub.h:138: overflowCount is the "cumulative number of dropped packets
\* for the matching APIDs", so it never falls.
OverflowCumulative ==
  [][\A apid \in SUBSET ApidBits :
       overflowCount(apid)' >= overflowCount(apid)]_vars
=============================================================================
