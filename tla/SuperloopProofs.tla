--------------------------- MODULE SuperloopProofs ---------------------------
(***************************************************************************)
(* Proofs about Superloop for every set of modules, size of the registry   *)
(* and moment an interrupt comes: the invariants of the bus hold with the  *)
(* calls of the registry and of the producers on the stack, no data-ready  *)
(* edge is forgotten, and a module rolled back has no subscription.        *)
(***************************************************************************)
EXTENDS Superloop, PubSubProofs

Registering == {"register"} \union Callbacks
LoopCalls   == Registering \union {"task", "reading", "failed"}
SysCalls    == BusCalls \union LoopCalls
SysOwners   == Modules \union {NULL}

-----------------------------------------------------------------------------
(***************************************************************************)
(* The inductive invariant.                                                *)
(***************************************************************************)
\* A call f of register, or a callback that it runs, is for the last entry
\* of the registry; up to the subscription its module has none, and before
\* init no interrupt.
RegisterAt(f, step) == f.fn = "register" /\ f.idx = step

Registers(f, att) ==
  /\ f.who \in Modules
  /\ s_registry # <<>> /\ s_registry[Len(s_registry)] = f.who
  /\ ~RegisterAt(f, 3) => f.who \notin subscribed
  /\ RegisterAt(f, 1) => \A s \in Sensors : att[s] => s # f.who

\* A task that reads has its packet already, or takes it after the read.
Reads(f) ==
  /\ f.who \in Sensors
  /\ f.fn = "failed" => f.pkt # NULL
  /\ f.fn = "reading" => (f.pkt # NULL <=> f.who \in PacketFirst)

\* Below the calls of the bus there is at most one call of the loop.
LoopBelow(st, att) ==
  \A i \in DOMAIN st :
    st[i].fn \notin BusCalls =>
      /\ i = Len(st)
      /\ st[i].fn \in Registering \union {"reading", "failed"}
      /\ st[i].fn \in Registering => Registers(st[i], att)
      /\ st[i].fn \notin Registering => Reads(st[i])

TaskFrame(s) == Frame("task", NULL, 0, s)

\* A task that has only cleared its flag calls nothing.
LoopStack == LoopBelow(stack, isrAttached) \/ \E s \in Sensors : stack = <<TaskFrame(s)>>

\* The registry holds modules that were registered once.
RegistryInv ==
  /\ registered \subseteq tried
  /\ \A i, j \in DOMAIN s_registry : s_registry[i] = s_registry[j] => i = j
  /\ subscribed \subseteq registered

\* Edges come only once the interrupt is attached, which init does after it
\* has cleared the flag.
EdgeInv ==
  \A s \in Sensors :
    /\ isrAttached[s] => s \in tried
    /\ unread[s] => isrAttached[s]
    /\ unread[s] => drdyFlag[s] \/ stack = <<TaskFrame(s)>>

SysInv ==
  /\ BusInv(SysCalls, SysOwners)
  /\ SysTypeOK
  /\ LoopStack
  /\ RegistryInv
  /\ EdgeInv
-----------------------------------------------------------------------------
(***************************************************************************)
(* Stacks with a call of the loop at the bottom.                           *)
(***************************************************************************)
LEMMA SysCovers == Covers(SysCalls, SysOwners)
  BY DEF Covers, SysCalls, SysOwners, Modules

LEMMA BelowEmpty == \A att : LoopBelow(<<>>, att)
  BY DEF LoopBelow

LEMMA BelowPush ==
  ASSUME NEW att, NEW S, NEW rest \in Seq(S), LoopBelow(rest, att), NEW f, f.fn \in BusCalls
  PROVE  LoopBelow(<<f>> \o rest, att)
<1> DEFINE st == <<f>> \o rest
           T == S \union {f}
<1>1. rest \in Seq(T) /\ f \in T /\ Len(rest) \in Nat /\ DOMAIN rest = 1 .. Len(rest)
  OBVIOUS
<1> HIDE DEF T
<1>2. /\ Len(st) = Len(rest) + 1 /\ DOMAIN st = 1 .. Len(rest) + 1 /\ st[1] = f
      /\ \A i \in 2 .. Len(rest) + 1 : st[i] = rest[i - 1]
  BY <1>1, PushProperties
<1> HIDE DEF st
<1>3. ASSUME NEW i \in DOMAIN st, st[i].fn \notin BusCalls
      PROVE  i - 1 \in DOMAIN rest /\ st[i] = rest[i - 1] /\ i = (i - 1) + 1
  BY <1>1, <1>2, <1>3
<1>4. LoopBelow(st, att)
  BY <1>1, <1>2, <1>3 DEF LoopBelow
<1>5. QED
  BY <1>4 DEF st

LEMMA BelowPushTwice ==
  ASSUME NEW att, NEW S, NEW rest \in Seq(S), LoopBelow(rest, att),
         NEW f, f.fn \in BusCalls, NEW g, g.fn \in BusCalls
  PROVE  LoopBelow(<<f, g>> \o rest, att)
<1> DEFINE T == S \union {f, g}
<1>1. rest \in Seq(T) /\ f \in T /\ g \in T
  OBVIOUS
<1> HIDE DEF T
<1>2. <<f, g>> \o rest = <<f>> \o (<<g>> \o rest) /\ <<g>> \o rest \in Seq(T)
  BY <1>1, PushTwice, PushProperties
<1>3. LoopBelow(<<g>> \o rest, att)
  BY BelowPush
<1>4. LoopBelow(<<f>> \o (<<g>> \o rest), att)
  BY <1>2, <1>3, BelowPush
<1>5. QED
  BY <1>2, <1>4

LEMMA BelowPop ==
  ASSUME NEW att, NEW S, NEW st \in Seq(S), st # <<>>, LoopBelow(st, att)
  PROVE  LoopBelow(Tail(st), att)
<1> DEFINE rest == Tail(st)
<1>1. /\ rest \in Seq(S) /\ Len(st) = Len(rest) + 1 /\ Len(rest) \in Nat
      /\ DOMAIN rest = 1 .. Len(rest) /\ DOMAIN st = 1 .. Len(rest) + 1
      /\ \A i \in 1 .. Len(rest) : rest[i] = st[i + 1]
  OBVIOUS
<1> HIDE DEF rest
<1>2. LoopBelow(rest, att)
  BY <1>1 DEF LoopBelow
<1>3. QED
  BY <1>2 DEF rest

\* A call of the loop that runs is the only one.
LEMMA LoopCallAlone ==
  ASSUME NEW att, NEW S, stack \in Seq(S), stack # <<>>, LoopBelow(stack, att), Top.fn \notin BusCalls
  PROVE  /\ stack = <<Top>> /\ Caller = <<>>
         /\ Top.fn \in Registering \union {"reading", "failed"}
         /\ Top.fn \in Registering => Registers(Top, att)
         /\ Top.fn \notin Registering => Reads(Top)
<1>1. Top = stack[1] /\ 1 \in DOMAIN stack /\ Len(stack) \in Nat
  BY DEF Top
<1>2. /\ Len(stack) = 1
      /\ Top.fn \in Registering \union {"reading", "failed"}
      /\ Top.fn \in Registering => Registers(Top, att)
      /\ Top.fn \notin Registering => Reads(Top)
  BY <1>1 DEF LoopBelow
<1>3. stack = <<Top>>
  BY <1>1, <1>2
<1>4. QED
  BY <1>2, <1>3 DEF Caller

\* What the loop has below the bus depends on these variables only.
LEMMA BelowKept ==
  ASSUME LoopBelow(stack', isrAttached'), UNCHANGED <<s_registry, s_subs>>
  PROVE  LoopBelow(stack, isrAttached)'
<1>1. subscribed' = subscribed /\ Modules' = Modules
  BY DEF subscribed, Modules, Handlers
<1>2. \A f : Registers(f, isrAttached') => Registers(f, isrAttached)'
  BY <1>1 DEF Registers, RegisterAt
<1>3. \A f : Reads(f) => Reads(f)'
  BY DEF Reads
<1>4. QED
  BY <1>2, <1>3 DEF LoopBelow, BusCalls, Registering, Callbacks

\* The calls of the bus and of handlers leave the call of the loop below.
LEMMA FillBelow ==
  ASSUME NEW att, NEW S, NEW rest \in Seq(S), LoopBelow(rest, att), NEW apid,
         fillAndPublish(apid, rest)
  PROVE  LoopBelow(stack', att)
<1>1. PublishFrame(topPacket).fn \in BusCalls
  BY DEF PublishFrame, Frame, BusCalls
<1>2. stack' = <<PublishFrame(topPacket)>> \o rest
  BY DEF fillAndPublish
<1>3. QED
  BY <1>1, <1>2, BelowPush

LEMMA LogBelow ==
  ASSUME NEW att, NEW S, NEW rest \in Seq(S), LoopBelow(rest, att), NEW level,
         logCall(level, rest)
  PROVE  LoopBelow(stack', att)
<1>1. CASE logPasses(level)
  <2> DEFINE T == S \union {LogFrame}
  <2>1. rest \in Seq(T) /\ LogFrame \in T /\ LogFrame.fn \in BusCalls
    BY DEF LogFrame, Frame, BusCalls
  <2> HIDE DEF T
  <2>2. <<LogFrame>> \o rest \in Seq(T) /\ LoopBelow(<<LogFrame>> \o rest, att)
    BY <2>1, BelowPush, PushProperties
  <2>3. fillAndPublish(LogApid, <<LogFrame>> \o rest)
    BY <1>1 DEF logCall
  <2>4. QED
    BY <2>2, <2>3, FillBelow
<1>2. CASE ~logPasses(level)
  BY <1>2 DEF logCall
<1>3. QED
  BY <1>1, <1>2

\* The innermost call when a step of the bus or of a handler is taken.
LEMMA BusCallRuns ==
  ASSUME BusNext \/ HandlerNext
  PROVE  stack # <<>> /\ Top.fn \in BusCalls
<1>1. \A fn \in BusCalls : Running(fn) => stack # <<>> /\ Top.fn \in BusCalls
  BY DEF Running, Top
<1>2. \E fn \in BusCalls : Running(fn)
  BY DEF BusNext, HandlerNext, publishSync, publishReturn, publishEnqueue, publishFull,
     publishDrop, SyncDone, consumeReturn, logReturn, handlerLog, handlerPublish,
     handlerReturn, BusCalls
<1>3. QED
  BY <1>1, <1>2

LEMMA BusCallsBelow ==
  ASSUME NEW att, NEW F, NEW W, stack \in Seq(Frames(F, W)), LoopBelow(stack, att), BusNext \/ HandlerNext
  PROVE  LoopBelow(stack', att)
<1>1. stack # <<>> /\ Top.fn \in BusCalls
  BY BusCallRuns
<1>2. Top \in Frames(F, W) /\ Caller \in Seq(Frames(F, W)) /\ LoopBelow(Caller, att)
  BY <1>1, TopOfStack, BelowPop DEF Caller
<1>3. CASE publishReturn \/ publishEnqueue \/ publishDrop \/ consumeReturn \/ logReturn
           \/ handlerReturn
  BY <1>2, <1>3 DEF publishReturn, publishEnqueue, publishDrop, consumeReturn, logReturn,
     handlerReturn
<1>4. CASE publishSync
  <2> DEFINE p == Top.pkt
             j == Min(SyncLeft(Top.idx, p))
             h == s_subs[j].handler
             f == HandlerFrame(h, p)
             g == [Top EXCEPT !.idx = j + 1]
  <2>1. stack' = <<f, g>> \o Caller
    BY <1>4 DEF publishSync
  <2>2. f.fn \in BusCalls /\ g.fn \in BusCalls
    BY <1>1, <1>2 DEF HandlerFrame, Frame, BusCalls, Frames
  <2> HIDE DEF f, g
  <2>3. QED
    BY <1>2, <2>1, <2>2, BelowPushTwice
<1>5. CASE publishFull
  <2> DEFINE f == [Top EXCEPT !.fn = "dropping"]
  <2>1. logCall(LogWARN, <<f>> \o Caller)
    BY <1>5 DEF publishFull
  <2>2. f \in [fn : F \union BusCalls, pkt : Packets \union {NULL}, idx : Nat, who : W]
        /\ f.fn \in BusCalls
    BY <1>2 DEF Frames, BusCalls
  <2> DEFINE T == Frames(F, W) \union {f}
  <2>3. Caller \in Seq(T) /\ f \in T
    BY <1>2
  <2> HIDE DEF f, T
  <2>4. <<f>> \o Caller \in Seq(T) /\ LoopBelow(<<f>> \o Caller, att)
    BY <1>2, <2>2, <2>3, BelowPush, PushProperties
  <2>5. QED
    BY <2>1, <2>4, LogBelow
<1>6. ASSUME Running("handler"), Top.idx > 0
      PROVE  oneCallLess \in Seq(Frames(F, W)) /\ LoopBelow(oneCallLess, att)
  <2> DEFINE f == [Top EXCEPT !.idx = @ - 1]
  <2>1. f \in Frames(F, W) /\ f.fn \in BusCalls
    <3>1. Top.idx - 1 \in Nat
      BY <1>2, <1>6 DEF Frames
    <3>2. QED
      BY <1>1, <1>2, <3>1 DEF Frames
  <2>2. oneCallLess = <<f>> \o Caller
    BY DEF oneCallLess
  <2> HIDE DEF f
  <2>3. QED
    BY <1>2, <2>1, <2>2, BelowPush, PushProperties
<1>7. ASSUME NEW level, handlerLog(level) PROVE LoopBelow(stack', att)
  BY <1>6, <1>7, LogBelow DEF handlerLog
<1>8. ASSUME NEW apid, handlerPublish(apid) PROVE LoopBelow(stack', att)
  BY <1>6, <1>8, FillBelow DEF handlerPublish
<1>9. QED
  BY <1>3, <1>4, <1>5, <1>7, <1>8 DEF BusNext, HandlerNext
-----------------------------------------------------------------------------
(***************************************************************************)
(* The calls of the loop, when they run.                                   *)
(***************************************************************************)
LEMMA LoopCallRuns ==
  ASSUME SysInv, NEW fn \in Registering \union {"reading", "failed"}, Running(fn)
  PROVE  /\ stack # <<>> /\ stack = <<Top>> /\ Caller = <<>> /\ Top.fn = fn
         /\ Top \in Frames(SysCalls, SysOwners)
         /\ fn \in Registering => Registers(Top, isrAttached) /\ Held(stack) = {}
         /\ fn \notin Registering => Reads(Top)
         /\ main # "reset"
         /\ \A s : stack # <<TaskFrame(s)>>
<1>1. stack # <<>> /\ Top.fn = fn /\ stack \in Seq(Frames(SysCalls, SysOwners))
  BY DEF Running, Top, SysInv, BusInv
<1>2. Top \in Frames(SysCalls, SysOwners)
  BY <1>1, TopOfStack
<1>3. \A s : stack # <<TaskFrame(s)>>
  BY <1>1 DEF TaskFrame, Frame, Top, Registering, Callbacks
<1>4. LoopBelow(stack, isrAttached) /\ Top.fn \notin BusCalls
  BY <1>1, <1>3 DEF SysInv, LoopStack, BusCalls, Registering, Callbacks
<1>5. /\ stack = <<Top>> /\ Caller = <<>>
      /\ fn \in Registering => Registers(Top, isrAttached)
      /\ fn \notin Registering => Reads(Top)
  <2> DEFINE att == isrAttached
             S == Frames(SysCalls, SysOwners)
  <2> HIDE DEF att, S
  <2>1. stack \in Seq(S) /\ LoopBelow(stack, att)
    BY <1>1, <1>4 DEF att, S
  <2>2. /\ stack = <<Top>> /\ Caller = <<>>
        /\ fn \in Registering => Registers(Top, att)
        /\ fn \notin Registering => Reads(Top)
    BY <1>1, <1>4, <2>1, LoopCallAlone
  <2>3. QED
    BY <2>2 DEF att
<1>6. main # "reset"
  BY <1>1 DEF SysInv, BusInv, ResetInv
<1>7. fn \in Registering => Held(stack) = {}
  <2>1. fn \in Registering => ~Holds(Top)
    BY <1>1 DEF Holds, Owning, Registering, Callbacks
  <2>2. QED
    BY <1>1, <1>5, <2>1, TopOfStack, HeldEmpty
<1>8. QED
  BY <1>1, <1>2, <1>3, <1>5, <1>6, <1>7

LEMMA TaskRuns ==
  ASSUME SysInv, Running("task")
  PROVE  /\ Top.who \in Sensors /\ stack = <<TaskFrame(Top.who)>>
         /\ stack # <<>> /\ Caller = <<>> /\ Held(stack) = {}
         /\ main # "reset"
         /\ \A s : stack = <<TaskFrame(s)>> => s = Top.who
<1>1. stack # <<>> /\ Top.fn = "task" /\ stack \in Seq(Frames(SysCalls, SysOwners))
  BY DEF Running, Top, SysInv, BusInv
<1>2. ~LoopBelow(stack, isrAttached)
  <2>1. Top = stack[1] /\ 1 \in DOMAIN stack
    BY <1>1 DEF Top
  <2>2. QED
    BY <1>1, <2>1 DEF LoopBelow, BusCalls, Registering, Callbacks
<1>3. PICK s \in Sensors : stack = <<TaskFrame(s)>>
  BY <1>2 DEF SysInv, LoopStack
<1>4. Top = TaskFrame(s) /\ Top.who = s /\ Caller = <<>>
  BY <1>3 DEF Top, Caller, TaskFrame, Frame
<1>5. ~Holds(Top)
  BY <1>1 DEF Holds, Owning
<1>6. Held(stack) = {}
  BY <1>1, <1>4, <1>5, TopOfStack, HeldEmpty
<1>7. \A r : stack = <<TaskFrame(r)>> => r = s
  BY <1>4 DEF Top, TaskFrame, Frame
<1>8. QED
  BY <1>1, <1>3, <1>4, <1>6, <1>7 DEF SysInv, BusInv, ResetInv

\* One call that owns nothing.
LEMMA IdleFrame ==
  ASSUME NEW F, NEW W, NEW f \in Frames(F, W), ~Holds(f), Sound(f)
  PROVE  <<f>> \in Seq(Frames(F, W)) /\ Held(<<f>>) = {} /\ OneHolder(<<f>>)
<1>1. <<f>> = <<f>> \o <<>> /\ <<>> \in Seq(Frames(F, W))
  BY SingleIsPush
<1>2. /\ <<f>> \o <<>> \in Seq(Frames(F, W)) /\ Held(<<f>> \o <<>>) = Held(<<>>)
      /\ OneHolder(<<f>> \o <<>>) <=> OneHolder(<<>>)
  BY <1>1, PushIdle
<1>3. QED
  BY <1>1, <1>2, HeldEmpty

\* A frame of register or of a callback owns nothing.
LEMMA RegisterIdle ==
  ASSUME NEW f \in Frames(SysCalls, SysOwners), f.fn \in Registering
  PROVE  /\ <<f>> \in Seq(Frames(SysCalls, SysOwners))
         /\ Held(<<f>>) = {} /\ OneHolder(<<f>>)
<1> DEFINE F == SysCalls
           W == SysOwners
<1>1. f \in Frames(F, W) /\ ~Holds(f) /\ Sound(f)
  BY DEF Registering, Callbacks, Holds, Owning, Sound
<1> HIDE DEF F, W
<1>2. <<f>> \in Seq(Frames(F, W)) /\ Held(<<f>>) = {} /\ OneHolder(<<f>>)
  BY <1>1, IdleFrame
<1>3. QED
  BY <1>2 DEF F, W

LEMMA RegisterFrames ==
  ASSUME NEW m \in Modules, NEW fn \in Registering, NEW n \in Nat
  PROVE  /\ Frame(fn, NULL, n, m) \in Frames(SysCalls, SysOwners)
         /\ Frame(fn, NULL, n, m).fn = fn /\ Frame(fn, NULL, n, m).who = m
         /\ Frame(fn, NULL, n, m).idx = n
  BY DEF Frame, Frames, SysCalls, LoopCalls, SysOwners, Registering

\* A call of register or of a callback, alone on the stack.
LEMMA RegisterBelow ==
  ASSUME NEW att, NEW f, f.fn \in Registering, Registers(f, att)
  PROVE  LoopBelow(<<f>>, att)
  BY DEF LoopBelow

\* Steps that leave the variables of the loop alone and do not disturb a
\* task keep the invariants of the loop.
LEMMA LoopKept ==
  ASSUME SysInv, UNCHANGED loopVars, subscribed' \subseteq subscribed,
         LoopStack', \A s : stack # <<TaskFrame(s)>>
  PROVE  SysTypeOK' /\ LoopStack' /\ RegistryInv' /\ EdgeInv'
<1>1. SysTypeOK'
  BY DEF SysInv, SysTypeOK, loopVars, deviceVars, Modules, Handlers
<1>2. RegistryInv'
  BY DEF SysInv, RegistryInv, loopVars, registered
<1>3. EdgeInv'
  BY DEF SysInv, EdgeInv, loopVars, deviceVars
<1>4. QED
  BY <1>1, <1>2, <1>3
-----------------------------------------------------------------------------
(***************************************************************************)
(* The steps of the bus, seen from the loop.                               *)
(***************************************************************************)
LEMMA QuietBelow ==
  ASSUME SysInv, LoopBelow(stack', isrAttached), UNCHANGED <<loopVars, s_subs>>,
         \A s : stack # <<TaskFrame(s)>>
  PROVE  SysTypeOK' /\ LoopStack' /\ RegistryInv' /\ EdgeInv'
<1>1. isrAttached' = isrAttached /\ s_registry' = s_registry /\ s_subs' = s_subs
  BY DEF loopVars, deviceVars
<1>2. LoopBelow(stack, isrAttached)'
  BY <1>1, BelowKept
<1>3. subscribed' = subscribed
  BY <1>1 DEF subscribed
<1>4. QED
  BY <1>2, <1>3, LoopKept DEF LoopStack

LEMMA BusBelowLoop ==
  ASSUME SysInv, BusNext \/ HandlerNext, UNCHANGED loopVars
  PROVE  SysInv'
<1>1. BusInv(SysCalls, SysOwners)'
  <2> DEFINE F == SysCalls
             W == SysOwners
  <2>1. Covers(F, W) /\ BusInv(F, W)
    BY SysCovers DEF SysInv
  <2> HIDE DEF F, W
  <2>2. BusInv(F, W)'
    BY <2>1, BusNextStep, HandlerNextStep
  <2>3. QED
    BY <2>2 DEF F, W
<1>2. stack # <<>> /\ Top.fn \in BusCalls
  BY BusCallRuns
<1>3. \A s : stack # <<TaskFrame(s)>>
  BY <1>2 DEF TaskFrame, Frame, Top, BusCalls
<1>4. LoopBelow(stack', isrAttached)
  <2> DEFINE att == isrAttached
             F == SysCalls
             W == SysOwners
  <2>1. LoopBelow(stack, att) /\ stack \in Seq(Frames(F, W))
    BY <1>3 DEF SysInv, LoopStack, BusInv
  <2> HIDE DEF att, F, W
  <2>2. LoopBelow(stack', att)
    BY <2>1, BusCallsBelow
  <2>3. QED
    BY <2>2 DEF att
<1>5. s_subs' = s_subs
  BY DEF BusNext, HandlerNext, publishSync, publishReturn, publishEnqueue, publishFull,
     publishDrop, consumeReturn, logReturn, handlerLog, handlerPublish, handlerReturn,
     busVars
<1>6. QED
  BY <1>1, <1>3, <1>4, <1>5, QuietBelow DEF SysInv

\* With an empty stack: boot, the start of the loop, callConsumers.
LEMMA TopLevel ==
  ASSUME SysInv, stack = <<>>
  PROVE  /\ \A s : stack # <<TaskFrame(s)>>
         /\ <<>> \in Seq(Frames(SysCalls, SysOwners))
         /\ OneHolder(<<>>) /\ Held(<<>>) = Held(stack) /\ Held(stack) = {}
  BY HeldEmpty

LEMMA BootLoop ==
  ASSUME SysInv, boot \/ enterLoop, UNCHANGED loopVars
  PROVE  SysInv'
<1>1. BusInv(SysCalls, SysOwners)'
  BY BootStep, EnterLoopStep DEF SysInv
<1>2. stack = <<>> /\ stack' = <<>>
  BY DEF boot, bootCalls, enterLoop
<1>3. subscribed' \subseteq subscribed
  BY DEF boot, bootCalls, pubsubInit, enterLoop, busVars, subscribed
<1>4. LoopStack'
  <2>1. LoopBelow(stack, isrAttached)'
    BY <1>2 DEF LoopBelow
  <2>2. QED
    BY <2>1 DEF LoopStack
<1>5. QED
  BY <1>1, <1>2, <1>3, <1>4, TopLevel, LoopKept DEF SysInv

LEMMA ConsumeLoop ==
  ASSUME SysInv, loopConsume
  PROVE  SysInv'
<1>1. /\ callConsumers /\ main # "reset"
      /\ stack = <<>> /\ turn' = 1 /\ UNCHANGED <<s_registry, deviceVars, tried>>
  BY DEF loopConsume, callConsumers, consumeCall, consumeRetire, consumeNothing
<1>2. BusInv(SysCalls, SysOwners)'
  <2> DEFINE F == SysCalls
             W == SysOwners
  <2>1. Covers(F, W) /\ BusInv(F, W)
    BY SysCovers DEF SysInv
  <2> HIDE DEF F, W
  <2>2. BusInv(F, W)'
    BY <1>1, <2>1, CallConsumersStep
  <2>3. QED
    BY <2>2 DEF F, W
<1>3. s_subs' = s_subs
  BY <1>1 DEF callConsumers, consumeCall, consumeRetire, consumeNothing, vars, busVars
<1>4. LoopBelow(stack', isrAttached)
  <2> DEFINE att == isrAttached
  <2>1. CASE consumeCall
    <3> DEFINE j == Min(headLeft)
               h == s_subs[j].handler
               f == HandlerFrame(h, headPacket)
               g == Frame("consume", NULL, j, NULL)
    <3>1. stack' = <<f, g>> /\ f.fn \in BusCalls /\ g.fn \in BusCalls
      BY <2>1 DEF consumeCall, HandlerFrame, Frame, BusCalls
    <3> HIDE DEF f, g
    <3>2. stack' = <<f, g>> \o <<>> /\ <<>> \in Seq({f, g})
      BY <3>1
    <3> HIDE DEF att
    <3>3. LoopBelow(<<f, g>> \o <<>>, att)
      BY <3>1, <3>2, BelowEmpty, BelowPushTwice
    <3>4. QED
      BY <3>2, <3>3 DEF att
  <2>2. CASE consumeRetire \/ consumeNothing
    <3>1. stack' = <<>>
      BY <2>2, <1>1 DEF consumeRetire, consumeNothing, vars
    <3>2. QED
      BY <3>1, BelowEmpty
  <2>3. QED
    BY <1>1, <2>1, <2>2 DEF callConsumers
<1>5. LoopStack'
  BY <1>1, <1>3, <1>4, BelowKept DEF LoopStack, deviceVars
<1>6. SysTypeOK'
  BY <1>1, SuperloopAssumption DEF SysInv, SysTypeOK, deviceVars, Modules, Handlers
<1>7. RegistryInv'
  BY <1>1, <1>3 DEF SysInv, RegistryInv, registered, subscribed
<1>8. EdgeInv'
  BY <1>1, TopLevel DEF SysInv, EdgeInv, deviceVars
<1>9. QED
  BY <1>2, <1>5, <1>6, <1>7, <1>8 DEF SysInv

\* The interrupt.
LEMMA IsrLoop ==
  ASSUME SysInv, NEW s \in Sensors, gpioIsr(s)
  PROVE  SysInv'
<1>1. /\ isrAttached[s] /\ UNCHANGED <<vars, s_registry, turn, isrAttached, s_seq, tried>>
      /\ drdyFlag' = [drdyFlag EXCEPT ![s] = TRUE]
      /\ unread' = [unread EXCEPT ![s] = TRUE]
  BY DEF gpioIsr
<1>2. BusInv(SysCalls, SysOwners)'
  BY <1>1, BusStutter DEF SysInv
<1>3. stack' = stack /\ s_subs' = s_subs
  BY <1>1 DEF vars, busVars
<1>4. SysTypeOK'
  BY <1>1 DEF SysInv, SysTypeOK, Modules, Handlers
<1>5. LoopStack'
  <2>1. CASE LoopBelow(stack, isrAttached)
    BY <1>1, <1>3, <2>1, BelowKept DEF LoopStack
  <2>2. CASE \E r \in Sensors : stack = <<TaskFrame(r)>>
    BY <1>3, <2>2 DEF LoopStack, TaskFrame, Frame
  <2>3. QED
    BY <2>1, <2>2 DEF SysInv, LoopStack
<1>6. RegistryInv'
  BY <1>1, <1>3 DEF SysInv, RegistryInv, registered, subscribed
<1>7. EdgeInv'
  <2> SUFFICES ASSUME NEW r \in Sensors
               PROVE  /\ isrAttached'[r] => r \in tried'
                      /\ unread'[r] => isrAttached'[r]
                      /\ unread'[r] => drdyFlag'[r] \/ stack' = <<TaskFrame(r)>>
    BY DEF EdgeInv, TaskFrame, Frame
  <2>1. CASE r = s
    <3>1. drdyFlag'[r] = TRUE /\ isrAttached'[r]
      BY <1>1, <2>1 DEF SysInv, SysTypeOK
    <3>2. QED
      BY <1>1, <3>1 DEF SysInv, EdgeInv
  <2>2. CASE r # s
    <3>1. drdyFlag'[r] = drdyFlag[r] /\ unread'[r] = unread[r]
      BY <1>1, <2>2 DEF SysInv, SysTypeOK
    <3>2. QED
      BY <1>1, <1>3, <3>1 DEF SysInv, EdgeInv
  <2>3. QED
    BY <2>1, <2>2
<1>8. QED
  BY <1>2, <1>4, <1>5, <1>6, <1>7 DEF SysInv
-----------------------------------------------------------------------------
(***************************************************************************)
(* SPP_SERVICES_register.                                                  *)
(***************************************************************************)
\* A log line of the loop, or what it does instead.
LEMMA LogLoop ==
  ASSUME SysInv, main # "reset", NEW level,
         NEW rest \in Seq(Frames(SysCalls, SysOwners)),
         OneHolder(rest), Held(rest) = Held(stack), LoopBelow(rest, isrAttached'),
         logCall(level, rest), UNCHANGED <<logVars, busVars, main>>
  PROVE  /\ BusInv(SysCalls, SysOwners)'
         /\ LoopBelow(stack', isrAttached')
<1> DEFINE F == SysCalls
           W == SysOwners
           att == isrAttached'
<1>1. Covers(F, W) /\ BusInv(F, W) /\ rest \in Seq(Frames(F, W)) /\ LoopBelow(rest, att)
  BY SysCovers DEF SysInv
<1> HIDE DEF F, W, att
<1>2. BusInv(F, W)'
  BY <1>1, LogStep
<1>3. LoopBelow(stack', att)
  BY <1>1, LogBelow
<1>4. QED
  BY <1>2, <1>3 DEF F, W, att

\* A step that only replaces the stack by one that owns as much.
LEMMA MoveLoop ==
  ASSUME SysInv, main # "reset",
         stack' \in Seq(Frames(SysCalls, SysOwners)),
         OneHolder(stack'), Held(stack') = Held(stack),
         UNCHANGED <<bankVars, logVars, busVars, s_logBusy, main>>,
         apidOf' \in [Packets -> SUBSET ApidBits],
         dispatched' \in [Packets -> [Handlers -> 0 .. 2]]
  PROVE  BusInv(SysCalls, SysOwners)'
<1> DEFINE F == SysCalls
           W == SysOwners
<1>1. BusInv(F, W) /\ stack' \in Seq(Frames(F, W))
  BY DEF SysInv
<1>2. BusTypes'
  BY DEF SysInv, BusInv, BusTypes, busVars, ringVars, logVars, LogTypeOK, Slots,
     Packets, Handlers
<1> HIDE DEF F, W
<1>3. BusInv(F, W)'
  BY <1>1, <1>2, CallsMove DEF busVars
<1>4. QED
  BY <1>3 DEF F, W

LEMMA PacketTypes ==
  ASSUME SysInv
  PROVE  /\ apidOf \in [Packets -> SUBSET ApidBits]
         /\ dispatched \in [Packets -> [Handlers -> 0 .. 2]]
  BY DEF SysInv, BusInv, BusTypes

\* A new module is appended to the registry.
LEMMA Appended ==
  ASSUME SysInv, NEW m \in Modules, m \notin tried, s_registry' = Append(s_registry, m)
  PROVE  /\ s_registry' \in Seq(Modules) /\ Len(s_registry') = Len(s_registry) + 1
         /\ s_registry' # <<>> /\ s_registry'[Len(s_registry')] = m
         /\ registered' = registered \union {m}
         /\ \A i, j \in DOMAIN s_registry' : s_registry'[i] = s_registry'[j] => i = j
<1> DEFINE r == s_registry
           n == Len(s_registry)
           new == s_registry'
<1>1. /\ r \in Seq(Modules) /\ n \in Nat /\ DOMAIN r = 1 .. n
      /\ \A i, j \in DOMAIN r : r[i] = r[j] => i = j
      /\ \A i \in DOMAIN r : r[i] # m
  BY DEF SysInv, SysTypeOK, RegistryInv, registered
<1>2. /\ new \in Seq(Modules) /\ Len(new) = n + 1 /\ DOMAIN new = 1 .. n + 1
      /\ new[n + 1] = m /\ \A i \in 1 .. n : new[i] = r[i]
  BY <1>1
<1> HIDE DEF new, n, r
<1>3. \A i \in DOMAIN new : i \in 1 .. n \/ i = n + 1
  BY <1>1, <1>2
<1>4. \A i, j \in DOMAIN new : new[i] = new[j] => i = j
  BY <1>1, <1>2, <1>3
<1>5. {new[i] : i \in DOMAIN new} = {r[i] : i \in DOMAIN r} \union {m}
  <2>1. \A i \in DOMAIN r : i \in DOMAIN new /\ new[i] = r[i]
    BY <1>1, <1>2
  <2>2. n + 1 \in DOMAIN new /\ new[n + 1] = m
    BY <1>1, <1>2
  <2>3. \A i \in DOMAIN new : new[i] \in {r[k] : k \in DOMAIN r} \union {m}
    BY <1>1, <1>2, <1>3
  <2>4. QED
    BY <2>1, <2>2, <2>3
<1>6. new # <<>> /\ new[Len(new)] = m
  BY <1>1, <1>2
<1>7. QED
  BY <1>2, <1>4, <1>5, <1>6 DEF new, n, r, registered

LEMMA RegisterCallLoop ==
  ASSUME SysInv, NEW m \in Modules, registerCall(m)
  PROVE  SysInv'
<1> DEFINE f == RegisterFrame(m, 1)
<1>1. /\ stack = <<>> /\ main = "setup" /\ m \notin tried /\ tried' = tried \union {m}
      /\ UNCHANGED <<logVars, busVars, main, turn, deviceVars>>
  BY DEF registerCall
<1>2. isrAttached' = isrAttached /\ s_subs' = s_subs /\ subscribed' = subscribed
  BY <1>1 DEF deviceVars, busVars, subscribed
<1>3. EdgeInv'
  BY <1>1 DEF SysInv, EdgeInv, deviceVars
<1>4. CASE registryFull
  <2>1. logCall(LogERROR, <<>>) /\ UNCHANGED s_registry
    BY <1>4 DEF registerCall
  <2>2. LoopBelow(<<>>, isrAttached')
    BY BelowEmpty
  <2>3. BusInv(SysCalls, SysOwners)' /\ LoopBelow(stack', isrAttached')
    BY <1>1, <2>1, <2>2, TopLevel, LogLoop
  <2>4. LoopStack'
    BY <1>2, <2>1, <2>3, BelowKept DEF LoopStack
  <2>5. SysTypeOK'
    BY <1>1, <2>1 DEF SysInv, SysTypeOK, deviceVars, Modules, Handlers
  <2>6. RegistryInv'
    BY <1>1, <1>2, <2>1 DEF SysInv, RegistryInv, registered
  <2>7. QED
    BY <1>3, <2>3, <2>4, <2>5, <2>6 DEF SysInv
<1>5. CASE ~registryFull
  <2>1. /\ s_registry' = Append(s_registry, m) /\ stack' = <<f>>
        /\ UNCHANGED <<bankVars, apidOf, s_logBusy, dispatched>>
    BY <1>5 DEF registerCall
  <2>2. /\ s_registry' \in Seq(Modules) /\ Len(s_registry') = Len(s_registry) + 1
        /\ s_registry' # <<>> /\ s_registry'[Len(s_registry')] = m
        /\ registered' = registered \union {m}
        /\ \A i, j \in DOMAIN s_registry' : s_registry'[i] = s_registry'[j] => i = j
    BY <1>1, <2>1, Appended
  <2>3. BusInv(SysCalls, SysOwners)'
    <3>1. /\ stack' \in Seq(Frames(SysCalls, SysOwners))
          /\ OneHolder(stack') /\ Held(stack') = Held(stack)
      <4>1. f \in Frames(SysCalls, SysOwners) /\ f.fn \in Registering
        BY RegisterFrames DEF RegisterFrame, Registering
      <4>2. QED
        BY <1>1, <2>1, <4>1, RegisterIdle, TopLevel
    <3>2. QED
      BY <1>1, <2>1, <3>1, MoveLoop, PacketTypes
  <2>4. LoopStack'
    <3>1. Registers(f, isrAttached)'
      <4>1. m \notin subscribed
        BY <1>1 DEF SysInv, RegistryInv
      <4>2. f.who = m /\ f.idx = 1 /\ f' = f
        BY DEF RegisterFrame, Frame
      <4>3. \A s \in Sensors : isrAttached'[s] => s # m
        BY <1>1, <1>2 DEF SysInv, EdgeInv
      <4>4. m \in Modules'
        BY DEF Modules, Handlers
      <4>5. QED
        BY <1>2, <2>2, <4>1, <4>2, <4>3, <4>4 DEF Registers, RegisterAt
    <3>2. stack' = <<f>> /\ f.fn = "register" /\ f' = f
      BY <2>1 DEF RegisterFrame, Frame
    <3> HIDE DEF f
    <3>3. LoopBelow(stack, isrAttached)'
      BY <3>1, <3>2 DEF LoopBelow, Registering, Callbacks
    <3>4. QED
      BY <3>3 DEF LoopStack
  <2>5. SysTypeOK'
    <3>1. Len(s_registry') <= MaxServices
      BY <1>5, <2>2, SuperloopAssumption DEF SysInv, SysTypeOK, registryFull
    <3>2. QED
      BY <1>1, <2>2, <3>1 DEF SysInv, SysTypeOK, deviceVars, Modules, Handlers
  <2>6. RegistryInv'
    BY <1>1, <1>2, <2>2 DEF SysInv, RegistryInv
  <2>7. QED
    BY <1>3, <2>3, <2>4, <2>5, <2>6 DEF SysInv
<1>6. QED
  BY <1>4, <1>5

\* register or one of its callbacks runs.
LEMMA RegisterRuns ==
  ASSUME SysInv, NEW fn \in Registering, Running(fn)
  PROVE  /\ stack = <<Top>> /\ Held(stack) = {} /\ Top.fn = fn
         /\ Top \in Frames(SysCalls, SysOwners)
         /\ Registers(Top, isrAttached)
         /\ main # "reset" /\ \A s : stack # <<TaskFrame(s)>>
         /\ Top.who \in Modules /\ Top.who \in registered
         /\ Len(s_registry) \in Nat \ {0}
<1>1. /\ stack = <<Top>> /\ Held(stack) = {} /\ Top.fn = fn
      /\ Top \in Frames(SysCalls, SysOwners)
      /\ Registers(Top, isrAttached) /\ main # "reset"
      /\ \A s : stack # <<TaskFrame(s)>>
  BY LoopCallRuns
<1>2. s_registry \in Seq(Modules) /\ s_registry # <<>>
  BY <1>1 DEF SysInv, SysTypeOK, Registers
<1>3. Len(s_registry) \in Nat \ {0} /\ Len(s_registry) \in DOMAIN s_registry
  BY <1>2
<1>4. QED
  BY <1>1, <1>3 DEF Registers, registered

\* It goes on with f, a callback or a later step: nobody has subscribed the
\* module unless f is the step after the subscription.
LEMMA RegisterLater ==
  ASSUME SysInv, NEW fn \in Registering, Running(fn),
         NEW f \in Frames(SysCalls, SysOwners), f.fn \in Registering,
         f.who = Top.who, ~RegisterAt(f, 1),
         RegisterAt(f, 3) \/ ~RegisterAt(Top, 3)
  PROVE  /\ \A att : Registers(f, att)
         /\ \A att : LoopBelow(<<f>>, att)
         /\ <<f>> \in Seq(Frames(SysCalls, SysOwners))
         /\ Held(<<f>>) = Held(stack) /\ OneHolder(<<f>>)
<1>1. Registers(Top, isrAttached) /\ Held(stack) = {}
  BY RegisterRuns
<1>2. \A att : Registers(f, att)
  BY <1>1 DEF Registers
<1>3. QED
  BY <1>1, <1>2, RegisterIdle, RegisterBelow

LEMMA CallbackType ==
  \A m \in Modules, call \in Callbacks :
    /\ CallbackFrame(call, m) \in Frames(SysCalls, SysOwners)
    /\ CallbackFrame(call, m).fn = call /\ CallbackFrame(call, m).who = m
<1>1. \A call \in Callbacks : call \in Registering
  BY DEF Registering
<1>2. QED
  BY <1>1, RegisterFrames, SuperloopAssumption DEF CallbackFrame

LEMMA StepType ==
  \A m \in Modules, n \in Nat :
    /\ RegisterFrame(m, n) \in Frames(SysCalls, SysOwners)
    /\ RegisterFrame(m, n).fn = "register" /\ RegisterFrame(m, n).who = m
    /\ RegisterFrame(m, n).idx = n
  BY RegisterFrames DEF RegisterFrame, Registering

\* init attaches the interrupt of a sensor that had none, with its flag
\* clear.
LEMMA InitBeginsLoop ==
  ASSUME SysInv, initBegins
  PROVE  SysInv'
<1> DEFINE who == Top.who
           f == CallbackFrame("init", who)
<1>1. /\ Running("register") /\ RegisterAt(Top, 1)
      /\ stack' = <<f>>
      /\ UNCHANGED <<bankVars, logVars, busVars, apidOf, s_logBusy, main, dispatched,
                     s_registry, turn, tried>>
  BY DEF initBegins, AtStep, RegisterAt, Running, Top
<1>2. /\ Registers(Top, isrAttached) /\ main # "reset"
      /\ who \in Modules /\ who \in registered
      /\ \A s : stack # <<TaskFrame(s)>>
  BY <1>1, RegisterRuns DEF Registering
<1>3. /\ f \in Frames(SysCalls, SysOwners) /\ f.fn = "init" /\ f.fn \in Registering
      /\ f.who = who
  BY <1>2, CallbackType DEF Registering, Callbacks
<1> HIDE DEF f
<1>4. /\ LoopBelow(<<f>>, isrAttached')
      /\ <<f>> \in Seq(Frames(SysCalls, SysOwners))
      /\ Held(<<f>>) = Held(stack) /\ OneHolder(<<f>>)
  <2>1. ~RegisterAt(f, 1) /\ ~RegisterAt(Top, 3)
    BY <1>1, <1>3 DEF RegisterAt
  <2>2. QED
    BY <1>1, <1>3, <2>1, RegisterLater DEF Registering
<1>5. BusInv(SysCalls, SysOwners)'
  BY <1>1, <1>2, <1>4, MoveLoop, PacketTypes
<1>6. LoopStack'
  BY <1>1, <1>4, BelowKept DEF LoopStack, busVars
<1>7. RegistryInv'
  BY <1>1 DEF SysInv, RegistryInv, registered, subscribed, busVars
<1>8. CASE who \in Sensors
  <2>1. /\ drdyFlag' = [drdyFlag EXCEPT ![who] = FALSE]
        /\ isrAttached' = [isrAttached EXCEPT ![who] = TRUE]
        /\ s_seq' = [s_seq EXCEPT ![who] = 0]
        /\ unread' = unread
    BY <1>8 DEF initBegins
  <2>2. SysTypeOK'
    <3>1. 0 \in 0 .. SeqMod - 1
      BY SuperloopAssumption
    <3>2. QED
      BY <1>1, <2>1, <3>1 DEF SysInv, SysTypeOK, Modules, Handlers
  <2>3. EdgeInv'
    <3> SUFFICES ASSUME NEW s \in Sensors
                 PROVE  /\ isrAttached'[s] => s \in tried'
                        /\ unread'[s] => isrAttached'[s]
                        /\ unread'[s] => drdyFlag'[s] \/ stack' = <<TaskFrame(s)>>
      BY DEF EdgeInv, TaskFrame, Frame
    <3>1. CASE s = who
      <4>1. isrAttached[s] => FALSE
        BY <1>1, <1>2, <1>8, <3>1 DEF Registers
      <4>2. unread[s] => FALSE
        BY <4>1 DEF SysInv, EdgeInv
      <4>3. s \in tried
        BY <1>2, <3>1 DEF SysInv, RegistryInv
      <4>4. QED
        BY <1>1, <2>1, <4>2, <4>3
    <3>2. CASE s # who
      <4>1. drdyFlag'[s] = drdyFlag[s] /\ isrAttached'[s] = isrAttached[s]
        BY <2>1, <3>2 DEF SysInv, SysTypeOK
      <4>2. QED
        BY <1>1, <1>2, <2>1, <4>1 DEF SysInv, EdgeInv
    <3>3. QED
      BY <3>1, <3>2
  <2>4. QED
    BY <1>5, <1>6, <1>7, <2>2, <2>3 DEF SysInv
<1>9. CASE who \notin Sensors
  <2>1. UNCHANGED deviceVars
    BY <1>9 DEF initBegins
  <2>2. SysTypeOK'
    BY <1>1, <2>1 DEF SysInv, SysTypeOK, deviceVars, Modules, Handlers
  <2>3. EdgeInv'
    BY <1>1, <1>2, <2>1 DEF SysInv, EdgeInv, deviceVars
  <2>4. QED
    BY <1>5, <1>6, <1>7, <2>2, <2>3 DEF SysInv
<1>10. QED
  BY <1>8, <1>9

\* A callback writes a line and goes on, or returns.
LEMMA CallbackRuns ==
  ASSUME SysInv, InCallback
  PROVE  /\ Top.fn \in Callbacks /\ Running(Top.fn) /\ Top.fn \in Registering
         /\ ~RegisterAt(Top, 3)
         /\ Top \in Frames(SysCalls, SysOwners) /\ main # "reset"
         /\ Top.who \in Modules /\ \A s : stack # <<TaskFrame(s)>>
<1>1. Top.fn \in Callbacks /\ Running(Top.fn) /\ Top.fn \in Registering
  BY DEF InCallback, Running, Top, Registering
<1>2. ~RegisterAt(Top, 3)
  BY <1>1 DEF RegisterAt, Callbacks
<1>3. QED
  BY <1>1, <1>2, RegisterRuns

LEMMA CallbackLogsLoop ==
  ASSUME SysInv, callbackLogs
  PROVE  SysInv'
<1> DEFINE f == [Top EXCEPT !.idx = @ - 1]
<1>1. InCallback /\ Top.idx > 0 /\ UNCHANGED <<logVars, busVars, main, loopVars>>
  BY DEF callbackLogs
<1>2. PICK level : logCall(level, <<f>>)
  BY DEF callbackLogs
<1>3. /\ Top.fn \in Callbacks /\ Running(Top.fn) /\ Top.fn \in Registering
      /\ ~RegisterAt(Top, 3)
      /\ Top \in Frames(SysCalls, SysOwners) /\ main # "reset"
      /\ \A s : stack # <<TaskFrame(s)>>
  BY <1>1, CallbackRuns
<1>4. f \in Frames(SysCalls, SysOwners) /\ f.fn = Top.fn /\ f.who = Top.who
  <2>1. Top.idx - 1 \in Nat
    BY <1>1, <1>3 DEF Frames
  <2>2. QED
    BY <1>3, <2>1 DEF Frames
<1> HIDE DEF f
<1>5. /\ <<f>> \in Seq(Frames(SysCalls, SysOwners)) /\ OneHolder(<<f>>)
      /\ Held(<<f>>) = Held(stack) /\ LoopBelow(<<f>>, isrAttached')
  <2>1. ~RegisterAt(f, 1)
    BY <1>3, <1>4 DEF RegisterAt, Callbacks
  <2>2. QED
    BY <1>3, <1>4, <2>1, RegisterLater
<1>6. BusInv(SysCalls, SysOwners)' /\ LoopBelow(stack', isrAttached')
  BY <1>1, <1>2, <1>3, <1>5, LogLoop
<1>7. isrAttached' = isrAttached /\ s_subs' = s_subs
  BY <1>1 DEF loopVars, deviceVars, busVars
<1>8. SysTypeOK' /\ LoopStack' /\ RegistryInv' /\ EdgeInv'
  BY <1>1, <1>3, <1>6, <1>7, QuietBelow
<1>9. QED
  BY <1>6, <1>8 DEF SysInv

LEMMA CallbackReturnsLoop ==
  ASSUME SysInv, callbackReturns
  PROVE  SysInv'
<1>1. /\ InCallback
      /\ UNCHANGED <<bankVars, logVars, busVars, apidOf, s_logBusy, main, dispatched,
                     loopVars>>
  BY DEF callbackReturns
<1>2. PICK ok \in BOOLEAN : stack' = <<afterCallback(ok)>>
  BY DEF callbackReturns
<1>3. /\ Top.fn \in Callbacks /\ Running(Top.fn) /\ Top.fn \in Registering
      /\ ~RegisterAt(Top, 3) /\ Top.who \in Modules
      /\ main # "reset" /\ \A s : stack # <<TaskFrame(s)>>
  BY <1>1, CallbackRuns
<1> DEFINE f == afterCallback(ok)
<1>4. /\ f \in Frames(SysCalls, SysOwners) /\ f.fn \in Registering
      /\ f.who = Top.who /\ ~RegisterAt(f, 1)
  <2>1. \/ \E n \in {2, 4} : f = RegisterFrame(Top.who, n)
        \/ f = CallbackFrame("start", Top.who)
    BY DEF afterCallback
  <2>2. CASE f = CallbackFrame("start", Top.who)
    <3>1. "start" \in Callbacks /\ "start" \in Registering
      BY DEF Registering, Callbacks
    <3>2. /\ f \in Frames(SysCalls, SysOwners) /\ f.fn = "start" /\ f.who = Top.who
      BY <1>3, <2>2, <3>1, CallbackType
    <3>3. QED
      BY <3>1, <3>2 DEF RegisterAt
  <2>3. ASSUME NEW n \in {2, 4}, f = RegisterFrame(Top.who, n)
        PROVE  /\ f \in Frames(SysCalls, SysOwners) /\ f.fn \in Registering
               /\ f.who = Top.who /\ ~RegisterAt(f, 1)
    <3> HIDE DEF f
    <3>1. n \in Nat /\ n # 1 /\ "register" \in Registering
      BY DEF Registering
    <3>2. /\ f \in Frames(SysCalls, SysOwners) /\ f.fn = "register"
          /\ f.who = Top.who /\ f.idx = n
      BY <1>3, <2>3, <3>1, StepType
    <3>3. QED
      BY <3>1, <3>2 DEF RegisterAt
  <2>4. QED
    BY <2>1, <2>2, <2>3
<1> HIDE DEF f
<1>5. /\ <<f>> \in Seq(Frames(SysCalls, SysOwners)) /\ OneHolder(<<f>>)
      /\ Held(<<f>>) = Held(stack) /\ LoopBelow(<<f>>, isrAttached)
  BY <1>3, <1>4, RegisterLater
<1>6. BusInv(SysCalls, SysOwners)'
  BY <1>1, <1>2, <1>3, <1>5, MoveLoop, PacketTypes DEF f
<1>7. LoopBelow(stack', isrAttached) /\ s_subs' = s_subs
  BY <1>1, <1>2, <1>5 DEF busVars, f
<1>8. QED
  BY <1>1, <1>3, <1>6, <1>7, QuietBelow DEF SysInv

\* subscribe adds at most the handler it is given.
LEMMA SubscribeHandlers ==
  ASSUME BusTypes, NEW s \in Subscriptions, NEW rest, subscribe(s, rest)
  PROVE  subscribed' \subseteq subscribed \union {s.handler}
<1>1. CASE s_subs' = s_subs
  BY <1>1 DEF subscribed
<1>2. CASE s_subs' = insertSub(s)
  <2>1. \A i \in DOMAIN s_subs' :
          s_subs'[i] = s \/ \E k \in DOMAIN s_subs : s_subs'[i] = s_subs[k]
    <3> DEFINE ins == insertionPoint(s)
               n == Len(s_subs)
    <3>1. ins \in 0 .. n /\ n \in Nat /\ DOMAIN s_subs = 1 .. n
      BY InsertionPointType DEF BusTypes
    <3> HIDE DEF ins
    <3>2. DOMAIN insertSub(s) = 1 .. n + 1
      BY DEF insertSub
    <3>3. ASSUME NEW i \in 1 .. n + 1
          PROVE  insertSub(s)[i] = IF i <= ins THEN s_subs[i]
                                   ELSE IF i = ins + 1 THEN s ELSE s_subs[i - 1]
      BY DEF insertSub, ins
    <3>4. ASSUME NEW i \in 1 .. n + 1
          PROVE  insertSub(s)[i] = s \/ \E k \in DOMAIN s_subs : insertSub(s)[i] = s_subs[k]
      <4>1. CASE i <= ins
        BY <3>1, <3>3, <4>1
      <4>2. CASE i = ins + 1
        BY <3>1, <3>3, <4>2
      <4>3. CASE i > ins + 1
        <5>1. i - 1 \in DOMAIN s_subs /\ ~(i <= ins) /\ i # ins + 1
          BY <3>1, <4>3
        <5>2. QED
          BY <3>3, <5>1
      <4>4. QED
        BY <3>1, <4>1, <4>2, <4>3
    <3>5. QED
      BY <1>2, <3>2, <3>4
  <2>2. QED
    BY <2>1 DEF subscribed
<1>3. QED
  BY <1>1, <1>2 DEF subscribe

LEMMA RegisterSubscribeLoop ==
  ASSUME SysInv, registerSubscribe
  PROVE  SysInv'
<1> DEFINE who == Top.who
           rest == <<RegisterFrame(who, 3)>>
<1>0. Running("register") /\ RegisterAt(Top, 2)
  BY DEF registerSubscribe, AtStep, RegisterAt, Running, Top
<1>1. /\ main # "reset" /\ who \in Modules /\ who \in registered
      /\ \A s : stack # <<TaskFrame(s)>>
      /\ Registers(Top, isrAttached)
  BY <1>0, RegisterRuns DEF Registering
<1>2. /\ \A att : LoopBelow(rest, att)
      /\ \A att : Registers(RegisterFrame(who, 3), att)
      /\ rest \in Seq(Frames(SysCalls, SysOwners))
      /\ Held(rest) = Held(stack) /\ OneHolder(rest)
  <2> DEFINE f == RegisterFrame(who, 3)
  <2>1. /\ f \in Frames(SysCalls, SysOwners) /\ f.fn = "register" /\ f.who = who
        /\ f.idx = 3
    BY <1>1, StepType
  <2>2. "register" \in Registering /\ RegisterAt(f, 3) /\ ~RegisterAt(f, 1)
    BY <2>1 DEF Registering, RegisterAt
  <2> HIDE DEF f
  <2>3. QED
    BY <1>0, <2>1, <2>2, RegisterLater DEF f
<1>3. UNCHANGED loopVars
  BY DEF registerSubscribe
<1>4. registered' = registered /\ isrAttached' = isrAttached /\ s_registry' = s_registry
  BY <1>3 DEF loopVars, deviceVars, registered
<1>5. SysTypeOK' /\ EdgeInv'
  BY <1>1, <1>3 DEF SysInv, SysTypeOK, EdgeInv, loopVars, deviceVars, Modules, Handlers
<1>6. CASE who \in Handlers
  <2> DEFINE s == CHOOSE s \in Subscriptions : s.handler = who
  <2>1. s \in Subscriptions /\ s.handler = who
    BY <1>6 DEF Handlers
  <2>2. subscribe(s, rest)
    BY <1>6 DEF registerSubscribe
  <2> HIDE DEF s, rest
  <2>3. BusInv(SysCalls, SysOwners)'
    <3> DEFINE F == SysCalls
               W == SysOwners
    <3>1. Covers(F, W) /\ BusInv(F, W) /\ rest \in Seq(Frames(F, W))
      BY <1>2, SysCovers DEF SysInv
    <3> HIDE DEF F, W
    <3>2. BusInv(F, W)'
      BY <1>1, <1>2, <2>1, <2>2, <3>1, SubscribeStep
    <3>3. QED
      BY <3>2 DEF F, W
  <2>4. RegistryInv'
    <3>1. subscribed' \subseteq subscribed \union {who}
      BY <2>1, <2>2, SubscribeHandlers DEF SysInv, BusInv
    <3>2. QED
      BY <1>1, <1>3, <1>4, <3>1 DEF SysInv, RegistryInv, loopVars
  <2>5. LoopStack'
    <3>1. CASE busInitialized /\ tableFull
      <4>1. logCall(LogERROR, rest) /\ s_subs' = s_subs
        BY <2>2, <3>1 DEF subscribe
      <4>2. LoopBelow(stack', isrAttached')
        <5> DEFINE att == isrAttached'
                   S == Frames(SysCalls, SysOwners)
        <5>1. rest \in Seq(S) /\ LoopBelow(rest, att)
          BY <1>2 DEF rest
        <5> HIDE DEF att, S
        <5>2. LoopBelow(stack', att)
          BY <4>1, <5>1, LogBelow
        <5>3. QED
          BY <5>2 DEF att
      <4>3. QED
        BY <1>4, <4>1, <4>2, BelowKept DEF LoopStack
    <3>2. CASE ~(busInitialized /\ tableFull)
      <4> DEFINE f == Frame("register", NULL, 3, who)
      <4>1. stack' = <<f>>
        BY <2>2, <3>2 DEF subscribe, rest, RegisterFrame
      <4>2. /\ s_registry' # <<>> /\ s_registry'[Len(s_registry')] = who
            /\ who \in Modules'
        BY <1>1, <1>4 DEF Registers, Modules, Handlers
      <4>3. f.idx = 3 /\ f.who = who /\ f.fn = "register"
        BY DEF Frame
      <4> HIDE DEF f
      <4>4. LoopBelow(stack, isrAttached)'
        <5>1. /\ DOMAIN stack' = {1} /\ Len(stack') = 1 /\ stack'[1] = f
          BY <4>1
        <5>2. Registers(stack[1], isrAttached)'
          BY <4>2, <4>3, <5>1 DEF Registers, RegisterAt
        <5>3. QED
          BY <4>3, <5>1, <5>2 DEF LoopBelow, Registering, Callbacks
      <4>5. QED
        BY <4>4 DEF LoopStack
    <3>3. QED
      BY <3>1, <3>2
  <2>6. QED
    BY <1>5, <2>3, <2>4, <2>5 DEF SysInv
<1>7. CASE who \notin Handlers
  <2>1. /\ stack' = rest
        /\ UNCHANGED <<bankVars, logVars, busVars, apidOf, s_logBusy, main, dispatched>>
    BY <1>7 DEF registerSubscribe
  <2>2. BusInv(SysCalls, SysOwners)'
    BY <1>1, <1>2, <2>1, MoveLoop, PacketTypes
  <2>3. LoopStack'
    <3>1. LoopBelow(stack', isrAttached') /\ s_subs' = s_subs
      BY <1>2, <2>1 DEF busVars
    <3>2. QED
      BY <1>4, <3>1, BelowKept DEF LoopStack
  <2>4. RegistryInv'
    BY <1>3, <1>4, <2>1 DEF SysInv, RegistryInv, loopVars, subscribed, busVars
  <2>5. QED
    BY <1>5, <2>2, <2>3, <2>4 DEF SysInv
<1>8. QED
  BY <1>6, <1>7
LEMMA RegisterLogsLoop ==
  ASSUME SysInv, registerDone \/ registerFailed
  PROVE  SysInv'
<1>1. UNCHANGED <<logVars, busVars, main, loopVars>>
  BY DEF registerDone, registerFailed
<1>2. isrAttached' = isrAttached /\ s_subs' = s_subs
  BY <1>1 DEF loopVars, deviceVars, busVars
<1>3. Running("register")
  BY DEF registerDone, registerFailed, AtStep
<1>4. /\ main # "reset" /\ Held(stack) = {} /\ \A s : stack # <<TaskFrame(s)>>
      /\ Top.who \in Modules
  BY <1>3, RegisterRuns DEF Registering
<1>5. BusInv(SysCalls, SysOwners)' /\ LoopBelow(stack', isrAttached')
  <2>1. CASE registerDone
    <3>1. logCall(LogINFO, <<>>)
      BY <2>1 DEF registerDone
    <3>2. /\ <<>> \in Seq(Frames(SysCalls, SysOwners)) /\ OneHolder(<<>>)
          /\ Held(<<>>) = Held(stack) /\ LoopBelow(<<>>, isrAttached')
      BY <1>4, HeldEmpty, BelowEmpty
    <3>3. QED
      BY <1>1, <1>4, <3>1, <3>2, LogLoop
  <2>2. CASE registerFailed
    <3> DEFINE f == RegisterFrame(Top.who, 5)
               rest == <<f>>
    <3>1. logCall(LogERROR, rest) /\ RegisterAt(Top, 4)
      BY <2>2 DEF registerFailed, AtStep, RegisterAt, Running, Top
    <3>2. /\ f \in Frames(SysCalls, SysOwners) /\ f.fn = "register" /\ f.who = Top.who
          /\ f.idx = 5 /\ "register" \in Registering
      BY <1>4, StepType DEF Registering
    <3> HIDE DEF f
    <3>3. /\ rest \in Seq(Frames(SysCalls, SysOwners)) /\ OneHolder(rest)
          /\ Held(rest) = Held(stack) /\ \A att : LoopBelow(rest, att)
      <4>1. ~RegisterAt(f, 1) /\ ~RegisterAt(Top, 3)
        BY <3>1, <3>2 DEF RegisterAt
      <4>2. QED
        BY <1>3, <3>2, <4>1, RegisterLater
    <3> HIDE DEF rest
    <3>4. QED
      BY <1>1, <1>4, <3>1, <3>3, LogLoop
  <2>3. QED
    BY <2>1, <2>2
<1>6. SysTypeOK' /\ LoopStack' /\ RegistryInv' /\ EdgeInv'
  BY <1>1, <1>2, <1>4, <1>5, QuietBelow
<1>7. QED
  BY <1>5, <1>6 DEF SysInv

\* The module that failed is the last one, and has no subscription.
LEMMA RegisterUndoLoop ==
  ASSUME SysInv, registerUndo
  PROVE  SysInv'
<1> DEFINE who == Top.who
           n == Len(s_registry)
           new == s_registry'
<1>0. Running("register") /\ RegisterAt(Top, 5)
  BY DEF registerUndo, AtStep, RegisterAt, Running, Top
<1>1. /\ ~RegisterAt(Top, 3) /\ main # "reset" /\ Held(stack) = {}
      /\ \A s : stack # <<TaskFrame(s)>>
      /\ Registers(Top, isrAttached) /\ n \in Nat \ {0}
  BY <1>0, RegisterRuns DEF Registering, RegisterAt
<1>2. /\ s_registry' = SubSeq(s_registry, 1, n - 1) /\ stack' = <<>>
      /\ UNCHANGED <<bankVars, logVars, busVars, apidOf, s_logBusy, main,
                     dispatched, turn, deviceVars, tried>>
  BY DEF registerUndo, withoutFailed
<1>3. /\ s_registry \in Seq(Modules) /\ n <= MaxServices /\ MaxServices \in Nat
      /\ DOMAIN s_registry = 1 .. n
  BY SuperloopAssumption DEF SysInv, SysTypeOK
<1>4. /\ new \in Seq(Modules) /\ Len(new) = n - 1 /\ DOMAIN new = 1 .. n - 1
      /\ \A i \in 1 .. n - 1 : new[i] = s_registry[i]
  <2>1. 1 \in 1 .. n + 1 /\ n - 1 \in 0 .. n /\ n - 1 \in Nat
    BY <1>1
  <2>2. QED
    BY <1>1, <1>2, <1>3, <2>1
<1> HIDE DEF n, new
<1>5. BusInv(SysCalls, SysOwners)'
  <2>1. /\ stack' \in Seq(Frames(SysCalls, SysOwners)) /\ OneHolder(stack')
        /\ Held(stack') = Held(stack)
    BY <1>1, <1>2, HeldEmpty
  <2>2. QED
    BY <1>1, <1>2, <2>1, MoveLoop, PacketTypes
<1>6. LoopStack'
  <2>1. LoopBelow(stack, isrAttached)'
    BY <1>2 DEF LoopBelow
  <2>2. QED
    BY <2>1 DEF LoopStack
<1>7. SysTypeOK'
  <2>1. Len(new) <= MaxServices
    BY <1>1, <1>3, <1>4
  <2>2. QED
    BY <1>2, <1>4, <2>1 DEF SysInv, SysTypeOK, deviceVars, Modules, Handlers, new
<1>8. RegistryInv'
  <2>1. \A i \in DOMAIN new : i \in DOMAIN s_registry /\ new[i] = s_registry[i]
    BY <1>1, <1>3, <1>4
  <2>2. ASSUME NEW h \in subscribed PROVE \E i \in DOMAIN new : new[i] = h
    <3>1. h # who /\ s_registry[n] = who
      BY <1>1, <2>2 DEF Registers, n
    <3>2. PICK i \in DOMAIN s_registry : s_registry[i] = h
      BY <2>2 DEF SysInv, RegistryInv, registered
    <3>3. i \in 1 .. n - 1
      BY <1>1, <1>3, <3>1, <3>2
    <3>4. QED
      BY <1>4, <3>2, <3>3
  <2>3. subscribed' = subscribed /\ tried' = tried
    BY <1>2 DEF subscribed, busVars
  <2>4. QED
    BY <2>1, <2>2, <2>3 DEF SysInv, RegistryInv, registered, new
<1>9. EdgeInv'
  BY <1>1, <1>2 DEF SysInv, EdgeInv, deviceVars
<1>10. QED
  BY <1>5, <1>6, <1>7, <1>8, <1>9 DEF SysInv

LEMMA RegisterLoop ==
  ASSUME SysInv, RegisterNext
  PROVE  SysInv'
  BY RegisterCallLoop, InitBeginsLoop, CallbackLogsLoop, CallbackReturnsLoop,
     RegisterSubscribeLoop, RegisterLogsLoop, RegisterUndoLoop DEF RegisterNext
-----------------------------------------------------------------------------
(***************************************************************************)
(* The produce callbacks.                                                  *)
(***************************************************************************)
\* The module whose turn it is.
LEMMA TurnType ==
  ASSUME SysInv, producing
  PROVE  turn + 1 \in 1 .. MaxServices + 1 /\ s_registry[turn] \in registered
<1>1. /\ turn \in 1 .. MaxServices + 1 /\ turn <= Len(s_registry)
      /\ s_registry \in Seq(Modules) /\ Len(s_registry) <= MaxServices /\ MaxServices \in Nat
  BY SuperloopAssumption DEF SysInv, SysTypeOK, producing
<1>2. turn \in DOMAIN s_registry /\ Len(s_registry) \in Nat
  BY <1>1
<1>3. QED
  BY <1>1, <1>2 DEF registered

LEMMA ProduceIdleLoop ==
  ASSUME SysInv, produceIdle
  PROVE  SysInv'
<1>1. /\ stack = <<>> /\ stack' = <<>> /\ main = "loop" /\ turn' = turn + 1
      /\ busUnchanged /\ UNCHANGED <<s_registry, deviceVars, tried>>
  BY DEF produceIdle, producing
<1>2. turn' \in 1 .. MaxServices + 1
  BY <1>1, TurnType DEF produceIdle
<1>3. BusInv(SysCalls, SysOwners)'
  BY <1>1, TopLevel, MoveLoop, PacketTypes DEF busUnchanged
<1>4. LoopStack'
  <2>1. LoopBelow(stack, isrAttached)'
    BY <1>1 DEF LoopBelow
  <2>2. QED
    BY <2>1 DEF LoopStack
<1>5. SysTypeOK'
  BY <1>1, <1>2 DEF SysInv, SysTypeOK, deviceVars, Modules, Handlers
<1>6. RegistryInv'
  BY <1>1 DEF SysInv, RegistryInv, registered, subscribed, busUnchanged, busVars
<1>7. EdgeInv'
  BY <1>1, TopLevel DEF SysInv, EdgeInv, deviceVars
<1>8. QED
  BY <1>3, <1>4, <1>5, <1>6, <1>7 DEF SysInv

\* The flag is cleared: from here the task itself stands for the edge.
LEMMA ProduceClearLoop ==
  ASSUME SysInv, produceClear
  PROVE  SysInv'
<1> DEFINE s == s_registry[turn]
<1>1. /\ stack = <<>> /\ stack' = <<TaskFrame(s)>> /\ main = "loop" /\ turn' = turn + 1
      /\ s \in Sensors /\ drdyFlag' = [drdyFlag EXCEPT ![s] = FALSE]
      /\ busUnchanged /\ UNCHANGED <<s_registry, isrAttached, s_seq, unread, tried>>
  BY DEF produceClear, producing, TaskFrame
<1>2. turn' \in 1 .. MaxServices + 1
  BY <1>1, TurnType DEF produceClear
<1> HIDE DEF s
<1>3. BusInv(SysCalls, SysOwners)'
  <2> DEFINE f == TaskFrame(s)
             F == SysCalls
             W == SysOwners
  <2>1. f \in Frames(F, W) /\ ~Holds(f) /\ Sound(f)
    BY <1>1 DEF TaskFrame, Frame, Frames, SysCalls, LoopCalls, SysOwners, Modules,
       Holds, Owning, Sound
  <2>2. stack' = <<f>>
    BY <1>1
  <2> HIDE DEF f, F, W
  <2>3. stack' \in Seq(Frames(F, W)) /\ OneHolder(stack') /\ Held(stack') = {}
    BY <2>1, <2>2, IdleFrame
  <2>4. QED
    BY <1>1, <2>3, TopLevel, MoveLoop, PacketTypes DEF busUnchanged, F, W
<1>4. LoopStack'
  BY <1>1 DEF LoopStack, TaskFrame, Frame
<1>5. SysTypeOK'
  BY <1>1, <1>2 DEF SysInv, SysTypeOK, Modules, Handlers
<1>6. RegistryInv'
  BY <1>1 DEF SysInv, RegistryInv, registered, subscribed, busUnchanged, busVars
<1>7. EdgeInv'
  <2> SUFFICES ASSUME NEW r \in Sensors
               PROVE  /\ isrAttached'[r] => r \in tried'
                      /\ unread'[r] => isrAttached'[r]
                      /\ unread'[r] => drdyFlag'[r] \/ stack' = <<TaskFrame(r)>>
    BY DEF EdgeInv, TaskFrame, Frame
  <2>1. CASE r = s
    BY <1>1, <2>1 DEF SysInv, EdgeInv
  <2>2. CASE r # s
    <3>1. drdyFlag'[r] = drdyFlag[r]
      BY <1>1, <2>2 DEF SysInv, SysTypeOK
    <3>2. unread[r] => drdyFlag[r]
      BY <1>1, TopLevel DEF SysInv, EdgeInv
    <3>3. QED
      BY <1>1, <3>1, <3>2 DEF SysInv, EdgeInv
  <2>3. QED
    BY <2>1, <2>2
<1>8. QED
  BY <1>3, <1>4, <1>5, <1>6, <1>7 DEF SysInv
\* A read begins, or its sample is given up: the edge is taken, unless the
\* flag is set again already.
LEMMA EdgeTaken ==
  ASSUME SysInv, Running("task"),
         unread' = [unread EXCEPT ![Top.who] = FALSE],
         UNCHANGED <<drdyFlag, isrAttached, tried>>
  PROVE  EdgeInv' /\ unread' \in [Sensors -> BOOLEAN]
<1>1. /\ \A s : stack = <<TaskFrame(s)>> => s = Top.who
      /\ Top.who \in Sensors
  BY TaskRuns
<1>2. unread \in [Sensors -> BOOLEAN]
  BY DEF SysInv, SysTypeOK
<1>3. ASSUME NEW s \in Sensors
      PROVE  /\ isrAttached'[s] => s \in tried'
             /\ unread'[s] => isrAttached'[s]
             /\ unread'[s] => drdyFlag'[s]
  <2>1. CASE s = Top.who
    <3>1. unread'[s] = FALSE
      BY <1>1, <1>2, <2>1
    <3>2. QED
      BY <3>1 DEF SysInv, EdgeInv
  <2>2. CASE s # Top.who
    <3>1. unread'[s] = unread[s] /\ stack # <<TaskFrame(s)>>
      BY <1>1, <1>2, <2>2
    <3>2. QED
      BY <3>1 DEF SysInv, EdgeInv
  <2>3. QED
    BY <2>1, <2>2
<1>4. EdgeInv'
  BY <1>3 DEF EdgeInv
<1>5. QED
  BY <1>2, <1>4

LEMMA TaskNoPacketLoop ==
  ASSUME SysInv, taskNoPacket
  PROVE  SysInv'
<1>1. /\ Running("task") /\ logCall(LogWARN, <<>>)
      /\ unread' = [unread EXCEPT ![Top.who] = FALSE]
      /\ UNCHANGED <<logVars, busVars, main, s_registry, turn, drdyFlag,
                     isrAttached, s_seq, tried>>
  BY DEF taskNoPacket
<1>2. Held(stack) = {} /\ main # "reset"
  BY <1>1, TaskRuns
<1>3. /\ <<>> \in Seq(Frames(SysCalls, SysOwners)) /\ OneHolder(<<>>)
      /\ Held(<<>>) = Held(stack) /\ LoopBelow(<<>>, isrAttached')
  BY <1>2, HeldEmpty, BelowEmpty
<1>4. BusInv(SysCalls, SysOwners)' /\ LoopBelow(stack', isrAttached')
  BY <1>1, <1>2, <1>3, LogLoop
<1>5. LoopStack'
  BY <1>1, <1>4, BelowKept DEF LoopStack, busVars
<1>6. EdgeInv' /\ unread' \in [Sensors -> BOOLEAN]
  BY <1>1, EdgeTaken
<1>7. SysTypeOK'
  BY <1>1, <1>6 DEF SysInv, SysTypeOK, Modules, Handlers
<1>8. RegistryInv'
  BY <1>1 DEF SysInv, RegistryInv, registered, subscribed, busVars
<1>9. QED
  BY <1>4, <1>5, <1>6, <1>7, <1>8 DEF SysInv

\* A stack of one frame.
LEMMA HeldOne ==
  ASSUME NEW S, NEW f \in S
  PROVE  /\ <<f>> \in Seq(S)
         /\ Held(<<f>>) = IF Holds(f) THEN {f.pkt} ELSE {}
         /\ OneHolder(<<f>>) <=> Sound(f)
<1>1. <<f>> = <<f>> \o <<>> /\ <<>> \in Seq(S) /\ <<f>> \in Seq(S)
  OBVIOUS
<1>2. /\ Held(<<f>> \o <<>>) =
           Held(<<>>) \union (IF Holds(f) THEN {f.pkt} ELSE {})
      /\ OneHolder(<<f>> \o <<>>) <=>
           /\ OneHolder(<<>>)
           /\ Holds(f) => f.pkt \notin Held(<<>>)
           /\ Sound(f)
  BY <1>1, HeldPush
<1>3. QED
  BY <1>1, <1>2, HeldEmpty

\* bmp390Task takes its packet before it reads.
LEMMA TakeLoop ==
  ASSUME SysInv, Running("task"), getPacket, stack' = Reading(topPacket),
         UNCHANGED <<logVars, busVars, apidOf, s_logBusy, main, dispatched>>
  PROVE  BusInv(SysCalls, SysOwners)' /\ topPacket # NULL
<1> DEFINE f == Frame("reading", topPacket, 0, Top.who)
           F == SysCalls
           W == SysOwners
<1>1. /\ BankInv' /\ topPacket \in Packets \ leased
      /\ leased' = leased \union {topPacket} /\ s_initialized
  BY BankGet DEF SysInv, BusInv
<1>2. Top.who \in Sensors /\ Held(stack) = {} /\ main # "reset"
  BY TaskRuns
<1>3. topPacket # NULL
  BY <1>1, NullIsNoPacket
<1>4. f \in Frames(F, W) /\ Holds(f) /\ f.pkt = topPacket /\ Sound(f)
  BY <1>1, <1>2, <1>3 DEF Frame, Frames, SysCalls, LoopCalls, SysOwners, Modules, Holds,
     Owning, Sound
<1>5. BusInv(F, W) /\ stack' = <<f>>
  BY DEF SysInv, Reading
<1> HIDE DEF f, F, W
<1>6. /\ stack' \in Seq(Frames(F, W)) /\ OneHolder(stack')
      /\ Held(stack') = Held(stack) \union {topPacket}
  <2>1. <<f>> \in Seq(Frames(F, W)) /\ Held(<<f>>) = {topPacket} /\ OneHolder(<<f>>)
    BY <1>4, HeldOne
  <2>2. QED
    BY <1>2, <1>5, <2>1
<1>7. OwnInv'
  BY <1>1, <1>5, <1>6, OwnTaken DEF BusInv, busVars, ringVars, SameWaiting
<1>8. RingConsistent'
  BY <1>5 DEF BusInv, RingConsistent, busVars, ringVars, Slots
<1>9. ResetInv'
  BY <1>2 DEF ResetInv
<1>10. BusTypes'
  BY <1>5 DEF BusInv, BusTypes, busVars, ringVars, logVars, LogTypeOK, Slots, Packets,
     Handlers
<1>11. Frames(F, W)' = Frames(F, W)
  BY DEF Frames, Packets, F, W, SysOwners, Modules, Handlers
<1>12. BusInv(F, W)'
  BY <1>1, <1>6, <1>7, <1>8, <1>9, <1>10, <1>11 DEF BusInv
<1>13. QED
  BY <1>3, <1>12 DEF F, W

LEMMA TaskReadLoop ==
  ASSUME SysInv, taskRead
  PROVE  SysInv'
<1>1. /\ Running("task") /\ unread' = [unread EXCEPT ![Top.who] = FALSE]
      /\ UNCHANGED <<logVars, busVars, apidOf, s_logBusy, main, dispatched,
                     s_registry, turn, drdyFlag, isrAttached, s_seq, tried>>
  BY DEF taskRead
<1>2. Top.who \in Sensors /\ Held(stack) = {} /\ main # "reset"
  BY <1>1, TaskRuns
<1>3. EdgeInv' /\ unread' \in [Sensors -> BOOLEAN]
  BY <1>1, EdgeTaken
<1>4. SysTypeOK'
  BY <1>1, <1>3 DEF SysInv, SysTypeOK, Modules, Handlers
<1>5. RegistryInv'
  BY <1>1 DEF SysInv, RegistryInv, registered, subscribed, busVars
<1>6. \E p : /\ stack' = Reading(p) /\ BusInv(SysCalls, SysOwners)'
             /\ p # NULL <=> Top.who \in PacketFirst
  <2>1. CASE Top.who \in PacketFirst
    <3>1. getPacket /\ stack' = Reading(topPacket)
      BY <2>1 DEF taskRead
    <3>2. BusInv(SysCalls, SysOwners)' /\ topPacket # NULL
      BY <1>1, <3>1, TakeLoop
    <3>3. QED
      BY <2>1, <3>1, <3>2
  <2>2. CASE Top.who \notin PacketFirst
    <3> DEFINE f == Frame("reading", NULL, 0, Top.who)
               F == SysCalls
               W == SysOwners
    <3>1. stack' = <<f>> /\ UNCHANGED bankVars
      BY <2>2 DEF taskRead, Reading
    <3>2. f \in Frames(F, W) /\ ~Holds(f) /\ Sound(f)
      BY <1>2 DEF Frame, Frames, SysCalls, LoopCalls, SysOwners, Modules, Holds, Sound
    <3> HIDE DEF f, F, W
    <3>3. stack' \in Seq(Frames(F, W)) /\ OneHolder(stack') /\ Held(stack') = Held(stack)
      BY <1>2, <3>1, <3>2, IdleFrame
    <3>4. BusInv(SysCalls, SysOwners)'
      BY <1>1, <1>2, <3>1, <3>3, MoveLoop, PacketTypes DEF F, W
    <3>5. stack' = Reading(NULL)
      BY <3>1 DEF f, Reading
    <3>6. QED
      BY <2>2, <3>4, <3>5
  <2>3. QED
    BY <2>1, <2>2
<1>7. LoopStack'
  <2>1. PICK p : stack' = Reading(p) /\ (p # NULL <=> Top.who \in PacketFirst)
    BY <1>6
  <2> DEFINE f == Frame("reading", p, 0, Top.who)
  <2>2. stack' = <<f>>
    BY <2>1 DEF Reading
  <2>3. f.fn = "reading" /\ f.who = Top.who /\ f.pkt = p
    BY DEF Frame
  <2> HIDE DEF f
  <2>4. LoopBelow(stack, isrAttached)'
    BY <1>2, <2>1, <2>2, <2>3 DEF LoopBelow, Reads, Registering, Callbacks
  <2>5. QED
    BY <2>4 DEF LoopStack
<1>8. QED
  BY <1>3, <1>4, <1>5, <1>6, <1>7 DEF SysInv

\* bmp390Task after a good read.
LEMMA PublishHeldLoop ==
  ASSUME SysInv, publishHeld
  PROVE  SysInv'
<1> DEFINE p == Top.pkt
           who == Top.who
           f == PublishFrame(p)
           F == SysCalls
           W == SysOwners
<1>1. /\ Running("reading") /\ who \in PacketFirst
      /\ apidOf' = [apidOf EXCEPT ![p] = SensorApid[who]]
      /\ dispatched' = [dispatched EXCEPT ![p] = toNobody]
      /\ stack' = <<f>> /\ s_seq' = [s_seq EXCEPT ![who] = (@ + 1) % SeqMod]
      /\ UNCHANGED <<bankVars, logVars, busVars, s_logBusy, main, s_registry,
                     turn, drdyFlag, isrAttached, unread, tried>>
  BY DEF publishHeld, sequenceUsed
<1>2. /\ stack # <<>> /\ stack = <<Top>> /\ Top.fn = "reading" /\ Top \in Frames(F, W)
      /\ Reads(Top) /\ main # "reset" /\ \A s : stack # <<TaskFrame(s)>>
  BY <1>1, LoopCallRuns DEF Registering, Callbacks
<1>3. p \in Packets /\ p # NULL /\ who \in Sensors
  BY <1>1, <1>2 DEF Reads, Frames
<1>4. f \in Frames(F, W) /\ f.fn = "publish" /\ f.pkt = p /\ f.idx = 1
  <2>1. Covers(F, W)
    BY SysCovers
  <2>2. QED
    BY <1>3, <2>1, FramesPushed DEF PublishFrame, Frame
<1>5. Holds(f) /\ Sound(f) /\ Holds(Top) /\ Sound(Top)
  BY <1>2, <1>3, <1>4 DEF Holds, Sound, Owning
<1> HIDE DEF f
<1>6. BusInv(SysCalls, SysOwners)'
  <2> HIDE DEF F, W
  <2>1. \A g \in Frames(F, W) : Holds(g) /\ Sound(g) =>
          /\ <<g>> \in Seq(Frames(F, W)) /\ OneHolder(<<g>>) /\ Held(<<g>>) = {g.pkt}
    <3> TAKE g \in Frames(F, W)
    <3> HAVE Holds(g) /\ Sound(g)
    <3> QED
      BY HeldOne
  <2>2. /\ stack' \in Seq(Frames(F, W)) /\ OneHolder(stack') /\ Held(stack') = Held(stack)
    BY <1>1, <1>2, <1>4, <1>5, <2>1
  <2>3. apidOf' \in [Packets -> SUBSET ApidBits]
    <3>1. SensorApid[who] \in SUBSET ApidBits
      BY <1>3, SuperloopAssumption
    <3>2. QED
      BY <1>1, <3>1, PacketTypes
  <2>4. dispatched' \in [Packets -> [Handlers -> 0 .. 2]]
    BY <1>1, NobodyType, PacketTypes
  <2>5. QED
    BY <1>1, <1>2, <2>2, <2>3, <2>4, MoveLoop DEF F, W
<1>7. LoopStack'
  <2>1. LoopBelow(stack, isrAttached)'
    BY <1>1, <1>4 DEF LoopBelow, BusCalls
  <2>2. QED
    BY <2>1 DEF LoopStack
<1>8. SysTypeOK'
  <2>1. s_seq' \in [Sensors -> 0 .. SeqMod - 1]
    BY <1>1, <1>3, SuperloopAssumption DEF SysInv, SysTypeOK
  <2>2. QED
    BY <1>1, <2>1 DEF SysInv, SysTypeOK, Modules, Handlers
<1>9. RegistryInv'
  BY <1>1 DEF SysInv, RegistryInv, registered, subscribed, busVars
<1>10. EdgeInv'
  BY <1>1, <1>2 DEF SysInv, EdgeInv
<1>11. QED
  BY <1>6, <1>7, <1>8, <1>9, <1>10 DEF SysInv
\* bmp390Task after a failed read: it holds its packet while it logs ...
LEMMA ReadFailedLoop ==
  ASSUME SysInv, readFailed
  PROVE  SysInv'
<1> DEFINE f == [Top EXCEPT !.fn = "failed"]
           F == SysCalls
           W == SysOwners
<1>1. /\ Running("reading") /\ Top.who \in PacketFirst /\ logCall(LogERROR, <<f>>)
      /\ UNCHANGED <<logVars, busVars, main, loopVars>>
  BY DEF readFailed
<1>2. /\ stack # <<>> /\ stack = <<Top>> /\ Top.fn = "reading" /\ Top \in Frames(F, W)
      /\ Reads(Top) /\ main # "reset" /\ \A s : stack # <<TaskFrame(s)>>
  BY <1>1, LoopCallRuns DEF Registering, Callbacks
<1>3. /\ f \in Frames(F, W) /\ f.fn = "failed" /\ f.pkt = Top.pkt /\ f.who = Top.who
      /\ Top.pkt # NULL
  BY <1>1, <1>2 DEF Frames, SysCalls, LoopCalls, Reads
<1>4. Holds(f) /\ Sound(f) /\ Holds(Top) /\ Sound(Top)
  BY <1>2, <1>3 DEF Holds, Sound, Owning
<1> HIDE DEF f
<1>5. /\ <<f>> \in Seq(Frames(F, W)) /\ OneHolder(<<f>>) /\ Held(<<f>>) = Held(stack)
  <2> HIDE DEF F, W
  <2>1. /\ <<f>> \in Seq(Frames(F, W))
        /\ Held(<<f>>) = {f.pkt} /\ OneHolder(<<f>>)
    BY <1>3, <1>4, HeldOne
  <2>2. Held(<<Top>>) = {Top.pkt}
    BY <1>2, <1>4, HeldOne
  <2>3. QED
    BY <1>2, <1>3, <2>1, <2>2
<1>6. LoopBelow(<<f>>, isrAttached')
  BY <1>2, <1>3 DEF LoopBelow, Reads, Registering, Callbacks
<1>7. BusInv(SysCalls, SysOwners)' /\ LoopBelow(stack', isrAttached')
  BY <1>1, <1>2, <1>5, <1>6, LogLoop
<1>8. isrAttached' = isrAttached /\ s_subs' = s_subs
  BY <1>1 DEF loopVars, deviceVars, busVars
<1>9. SysTypeOK' /\ LoopStack' /\ RegistryInv' /\ EdgeInv'
  BY <1>1, <1>2, <1>7, <1>8, QuietBelow
<1>10. QED
  BY <1>7, <1>9 DEF SysInv

\* ... and then gives it back.
LEMMA ReturnHeldLoop ==
  ASSUME SysInv, returnHeld
  PROVE  SysInv'
<1>1. /\ Running("failed") /\ returnPacket(Top.pkt) /\ stack' = <<>>
      /\ UNCHANGED <<logVars, busVars, apidOf, s_logBusy, main, dispatched, loopVars>>
  BY DEF returnHeld
<1>2. /\ stack # <<>> /\ stack = <<Top>> /\ Caller = <<>> /\ Top.fn = "failed"
      /\ Reads(Top) /\ \A s : stack # <<TaskFrame(s)>>
  BY <1>1, LoopCallRuns DEF Registering, Callbacks
<1>3. Holds(Top)
  BY <1>2 DEF Reads, Holds, Owning
<1>4. BusInv(SysCalls, SysOwners)'
  <2> DEFINE F == SysCalls
             W == SysOwners
  <2>1. BusInv(F, W)
    BY DEF SysInv
  <2>2. BusTypes'
    BY <1>1 DEF SysInv, BusInv, BusTypes, busVars, ringVars, logVars, LogTypeOK, Slots,
       Packets, Handlers
  <2> HIDE DEF F, W
  <2>3. BusInv(F, W)'
    BY <1>1, <1>2, <1>3, <2>1, <2>2, GiveBack DEF busVars
  <2>4. QED
    BY <2>3 DEF F, W
<1>5. LoopBelow(stack', isrAttached) /\ s_subs' = s_subs
  BY <1>1, BelowEmpty DEF busVars
<1>6. QED
  BY <1>1, <1>2, <1>4, <1>5, QuietBelow DEF SysInv

\* icm20948Task after its read, which holds nothing.
LEMMA SampleReads ==
  ASSUME SysInv, Running("reading"), Top.who \notin PacketFirst
  PROVE  /\ Held(stack) = {} /\ main # "reset" /\ Top.who \in Sensors
         /\ \A s : stack # <<TaskFrame(s)>>
<1>1. /\ stack # <<>> /\ stack = <<Top>> /\ Caller = <<>> /\ Reads(Top) /\ Top.fn = "reading"
      /\ main # "reset" /\ \A s : stack # <<TaskFrame(s)>>
  BY LoopCallRuns DEF Registering, Callbacks
<1>2. ~Holds(Top)
  BY <1>1 DEF Reads, Holds
<1>3. Held(stack) = {}
  BY <1>1, <1>2, TopOfStack, HeldEmpty DEF SysInv, BusInv
<1>4. QED
  BY <1>1, <1>3 DEF Reads

\* A line of checkFifoData: the task goes on reading.
LEMMA ReadingLogsLoop ==
  ASSUME SysInv, readingLogs
  PROVE  SysInv'
<1> DEFINE f == [Top EXCEPT !.idx = @ + 1]
           F == SysCalls
           W == SysOwners
<1>1. /\ Running("reading") /\ Top.who \notin PacketFirst /\ logCall(LogINFO, <<f>>)
      /\ UNCHANGED <<logVars, busVars, main, loopVars>>
  BY DEF readingLogs
<1>2. /\ Held(stack) = {} /\ main # "reset" /\ \A s : stack # <<TaskFrame(s)>>
  BY <1>1, SampleReads
<1>3. Top \in Frames(F, W) /\ Top.fn = "reading" /\ Reads(Top)
  BY <1>1, LoopCallRuns DEF Registering, Callbacks
<1>4. /\ f \in Frames(F, W) /\ f.fn = "reading" /\ f.pkt = NULL /\ f.who = Top.who
      /\ f.who \in Sensors
  BY <1>1, <1>3 DEF Frames, Reads
<1>5. LoopBelow(<<f>>, isrAttached')
  <2>1. Reads(f)
    BY <1>1, <1>4 DEF Reads
  <2> HIDE DEF f
  <2>2. QED
    BY <1>4, <2>1 DEF LoopBelow, Registering, Callbacks
<1>6. ~Holds(f) /\ Sound(f)
  BY <1>4 DEF Holds, Sound
<1> HIDE DEF f
<1>7. <<f>> \in Seq(Frames(F, W)) /\ OneHolder(<<f>>) /\ Held(<<f>>) = Held(stack)
  <2> HIDE DEF F, W
  <2>1. QED
    BY <1>2, <1>4, <1>6, IdleFrame
<1>8. BusInv(SysCalls, SysOwners)' /\ LoopBelow(stack', isrAttached')
  BY <1>1, <1>2, <1>5, <1>7, LogLoop
<1>9. isrAttached' = isrAttached /\ s_subs' = s_subs
  BY <1>1 DEF loopVars, deviceVars, busVars
<1>10. SysTypeOK' /\ LoopStack' /\ RegistryInv' /\ EdgeInv'
  BY <1>1, <1>2, <1>8, <1>9, QuietBelow
<1>11. QED
  BY <1>8, <1>10 DEF SysInv

LEMMA FifoEmptyLoop ==
  ASSUME SysInv, fifoEmpty
  PROVE  SysInv'
<1>1. /\ Running("reading") /\ Top.who \notin PacketFirst /\ stack' = <<>>
      /\ busUnchanged /\ UNCHANGED loopVars
  BY DEF fifoEmpty
<1>2. Held(stack) = {} /\ main # "reset" /\ \A s : stack # <<TaskFrame(s)>>
  BY <1>1, SampleReads
<1>3. BusInv(SysCalls, SysOwners)'
  <2>1. /\ stack' \in Seq(Frames(SysCalls, SysOwners)) /\ OneHolder(stack')
        /\ Held(stack') = Held(stack)
    BY <1>1, <1>2, HeldEmpty
  <2>2. QED
    BY <1>1, <1>2, <2>1, MoveLoop, PacketTypes DEF busUnchanged
<1>4. LoopBelow(stack', isrAttached) /\ s_subs' = s_subs
  BY <1>1, BelowEmpty DEF busUnchanged, busVars
<1>5. QED
  BY <1>1, <1>2, <1>3, <1>4, QuietBelow DEF SysInv

LEMMA PublishSampleLoop ==
  ASSUME SysInv, publishSample
  PROVE  SysInv'
<1> DEFINE who == Top.who
<1>1. /\ Running("reading") /\ who \notin PacketFirst
      /\ UNCHANGED <<logVars, busVars, main, s_registry, turn, drdyFlag,
                     isrAttached, unread, tried>>
  BY DEF publishSample
<1>2. /\ Held(stack) = {} /\ main # "reset" /\ who \in Sensors
      /\ \A s : stack # <<TaskFrame(s)>>
  BY <1>1, SampleReads
<1>3. /\ <<>> \in Seq(Frames(SysCalls, SysOwners)) /\ OneHolder(<<>>)
      /\ Held(<<>>) = Held(stack) /\ LoopBelow(<<>>, isrAttached')
  BY <1>2, HeldEmpty, BelowEmpty
<1>4. /\ BusInv(SysCalls, SysOwners)' /\ LoopBelow(stack', isrAttached')
      /\ s_seq' \in [Sensors -> 0 .. SeqMod - 1]
  <2>1. CASE CanGet
    <3>1. /\ fillAndPublish(SensorApid[who], <<>>) /\ s_logBusy' = s_logBusy
          /\ s_seq' = [s_seq EXCEPT ![who] = (@ + 1) % SeqMod]
      BY <2>1 DEF publishSample, sequenceUsed
    <3>2. s_seq' \in [Sensors -> 0 .. SeqMod - 1]
      BY <1>2, <3>1, SuperloopAssumption DEF SysInv, SysTypeOK
    <3>3. SensorApid[who] \in SUBSET ApidBits /\ s_logBusy' \in BOOLEAN
      BY <1>2, <3>1, SuperloopAssumption DEF SysInv, BusInv, BusTypes
    <3> DEFINE F == SysCalls
               W == SysOwners
               att == isrAttached'
               rest == <<>>
    <3>4. /\ Covers(F, W) /\ BusInv(F, W) /\ rest \in Seq(Frames(F, W))
          /\ LoopBelow(rest, att) /\ OneHolder(rest) /\ Held(rest) = Held(stack)
          /\ fillAndPublish(SensorApid[who], rest)
      BY <1>3, <3>1, SysCovers DEF SysInv
    <3> HIDE DEF F, W, att, rest
    <3>5. BusInv(F, W)' /\ LoopBelow(stack', att)
      BY <1>1, <3>3, <3>4, FillStep, FillBelow
    <3>6. QED
      BY <3>2, <3>5 DEF F, W, att
  <2>2. CASE ~CanGet
    <3>1. logCall(LogINFO, <<>>) /\ s_seq' = s_seq
      BY <2>2 DEF publishSample
    <3>2. s_seq' \in [Sensors -> 0 .. SeqMod - 1]
      BY <3>1 DEF SysInv, SysTypeOK
    <3>3. QED
      BY <1>1, <1>2, <1>3, <3>1, <3>2, LogLoop
  <2>3. QED
    BY <2>1, <2>2
<1>5. LoopStack'
  BY <1>1, <1>4, BelowKept DEF LoopStack, busVars
<1>6. SysTypeOK'
  BY <1>1, <1>4 DEF SysInv, SysTypeOK, Modules, Handlers
<1>7. RegistryInv'
  BY <1>1 DEF SysInv, RegistryInv, registered, subscribed, busVars
<1>8. EdgeInv'
  BY <1>1, <1>2 DEF SysInv, EdgeInv
<1>9. QED
  BY <1>4, <1>5, <1>6, <1>7, <1>8 DEF SysInv

LEMMA TaskLoop ==
  ASSUME SysInv, TaskNext
  PROVE  SysInv'
  BY ProduceIdleLoop, ProduceClearLoop, TaskNoPacketLoop, TaskReadLoop, PublishHeldLoop,
     ReadFailedLoop, ReturnHeldLoop, ReadingLogsLoop, FifoEmptyLoop,
     PublishSampleLoop DEF TaskNext

LEMMA StutterLoop ==
  ASSUME SysInv, UNCHANGED sysVars
  PROVE  SysInv'
<1>1. UNCHANGED vars /\ UNCHANGED loopVars
  BY DEF sysVars
<1>2. BusInv(SysCalls, SysOwners)'
  BY <1>1, BusStutter DEF SysInv
<1>3. stack' = stack /\ s_subs' = s_subs
  BY <1>1 DEF vars, busVars
<1>4. SysTypeOK' /\ RegistryInv'
  <2>1. SysTypeOK'
    BY <1>1 DEF SysInv, SysTypeOK, loopVars, deviceVars
  <2>2. registered' = registered /\ subscribed' = subscribed
    BY <1>1, <1>3 DEF registered, subscribed, loopVars
  <2>3. RegistryInv'
    BY <1>1, <2>2 DEF SysInv, RegistryInv, loopVars
  <2>4. QED
    BY <2>1, <2>3
<1>5. LoopStack'
  <2>1. CASE LoopBelow(stack, isrAttached)
    BY <1>1, <1>3, <2>1, BelowKept DEF LoopStack, loopVars, deviceVars
  <2>2. CASE \E r \in Sensors : stack = <<TaskFrame(r)>>
    BY <1>3, <2>2 DEF LoopStack, TaskFrame, Frame
  <2>3. QED
    BY <2>1, <2>2 DEF SysInv, LoopStack
<1>6. EdgeInv'
  BY <1>1, <1>3 DEF SysInv, EdgeInv, loopVars, deviceVars, TaskFrame, Frame
<1>7. QED
  BY <1>2, <1>4, <1>5, <1>6 DEF SysInv

-----------------------------------------------------------------------------
(***************************************************************************)
(* The theorems.                                                           *)
(***************************************************************************)
LEMMA SysInitInv == SysInit => SysInv
<1> SUFFICES ASSUME SysInit PROVE SysInv
  OBVIOUS
<1>1. BusInv(SysCalls, SysOwners) /\ stack = <<>> /\ s_subs = <<>>
  BY BusInit DEF SysInit, Init
<1>2. SysTypeOK
  BY SuperloopAssumption DEF SysInit, SysTypeOK
<1>3. LoopStack
  BY <1>1, BelowEmpty DEF LoopStack
<1>4. RegistryInv
  BY <1>1 DEF SysInit, RegistryInv, registered, subscribed
<1>5. EdgeInv
  BY DEF SysInit, EdgeInv
<1>6. QED
  BY <1>1, <1>2, <1>3, <1>4, <1>5 DEF SysInv

LEMMA SysInvariant == SysSpec => []SysInv
<1>1. SysInv /\ [SysNext]_sysVars => SysInv'
  <2> SUFFICES ASSUME SysInv, [SysNext]_sysVars PROVE SysInv'
    OBVIOUS
  <2>1. CASE ThreadNext
    BY <2>1, BootLoop, BusBelowLoop, RegisterLoop, TaskLoop, ConsumeLoop DEF ThreadNext
  <2>2. QED
    BY <2>1, StutterLoop, IsrLoop DEF SysNext
<1>2. QED
  BY <1>1, SysInitInv, PTL DEF SysSpec

\* The variables of the registry and of the producers keep their types: no
\* index of callProducers leaves the registry, which never overflows.
THEOREM LoopTyped == SysSpec => []SysTypeOK
<1>1. SysInv => SysTypeOK
  BY DEF SysInv
<1>2. QED
  BY <1>1, SysInvariant, PTL

\* For any set of sensors and any moment of an interrupt: each packet out of
\* the pool is in the ring, in one publish call, or in the hands of one task
\* that reads its sensor or reports that it could not.
THEOREM TasksLoseNoPacket == SysSpec => []AllAccounted
<1>1. SysInv => AllAccounted
  <2> SUFFICES ASSUME SysInv PROVE AllAccounted
    OBVIOUS
  <2>1. Holding = Holders(stack)
    BY DEF Holding, Holders, Holds, Owning
  <2>2. /\ leased = {queuedPackets[k] : k \in 1 .. s_qCount} \union Held(stack)
        /\ Cardinality(leased) = s_qCount + Cardinality(Holders(stack))
    <3> DEFINE F == SysCalls
               W == SysOwners
    <3>1. BusInv(F, W)
      BY DEF SysInv
    <3> HIDE DEF F, W
    <3>2. QED
      BY <3>1, Accounted
  <2>3. QED
    BY <2>1, <2>2 DEF AllAccounted, Held
<1>2. QED
  BY <1>1, SysInvariant, PTL

\* An interrupt that comes at any point of a task or of a registration is
\* not lost: the flag is set, or the task that cleared it has yet to read.
THEOREM NoEdgeLost == SysSpec => []EdgeKept
<1>1. SysInv => EdgeKept
  <2> SUFFICES ASSUME SysInv, NEW s \in Sensors, unread[s], ~drdyFlag[s]
               PROVE  /\ stack # <<>>
                      /\ \E i \in DOMAIN stack :
                           stack[i].fn = "task" /\ stack[i].who = s
    BY DEF EdgeKept
  <2>1. stack = <<TaskFrame(s)>>
    BY DEF SysInv, EdgeInv
  <2>2. 1 \in DOMAIN stack /\ stack[1].fn = "task" /\ stack[1].who = s
    BY <2>1 DEF TaskFrame, Frame
  <2>3. QED
    BY <2>1, <2>2
<1>2. QED
  BY <1>1, SysInvariant, PTL

\* service.c undoes what it has to: a module whose init or start fails is
\* taken out of the registry before it could subscribe.
THEOREM RolledBackUnsubscribed == SysSpec => []OnlyRegisteredSubscribed
<1>1. SysInv => OnlyRegisteredSubscribed
  BY DEF SysInv, RegistryInv, OnlyRegisteredSubscribed
<1>2. QED
  BY <1>1, SysInvariant, PTL
=============================================================================
