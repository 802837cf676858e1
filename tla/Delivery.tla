------------------------------ MODULE Delivery ------------------------------
(***************************************************************************)
(* What the packet bus promises its users (the comment at the head of      *)
(* services/pubsub/pubsub.h), with no pool, ring, index or call stack.     *)
(* A packet arrives, is shown to the SYNC subscribers that match it, and   *)
(* is then queued if a deferred one matches and there is room.  Queued     *)
(* packets are served strictly in order; the subscribers of one packet are *)
(* served by priority, each exactly once, and the packet is released only  *)
(* when all of them have been.                                             *)
(***************************************************************************)
EXTENDS Naturals, Sequences

CONSTANTS Packet,         \* identities of packets
          Apid,           \* the values an APID can have
          Subscription,   \* records [handler, apid, prio]
          Capacity,       \* packets the queue holds
          Matches(_, _)   \* does a subscription's APID match a packet's

VARIABLES subs,           \* the subscriptions made so far
          apid,           \* the APID of each packet
          arriving,       \* packets inside a call of publish
          queue,          \* packets waiting for deferred subscribers
          served          \* how often each handler has seen each packet

dvars == <<subs, apid, arriving, queue, served>>

Queued == {queue[i] : i \in DOMAIN queue}

toNobody == [h \in {s.handler : s \in Subscription} |-> 0]

\* The subscriptions of one kind that match p and have not seen it yet.
Waiting(p, sync) ==
  {s \in subs : /\ (s.prio = 0) = sync
                /\ Matches(s.apid, apid[p])
                /\ served[p][s.handler] = 0}

Init ==
  /\ subs = {}
  /\ apid \in [Packet -> Apid]
  /\ arriving = {}
  /\ queue = <<>>
  /\ served = [p \in Packet |-> toNobody]

Subscribe(s) ==
  /\ s \notin subs
  /\ subs' = subs \union {s}
  /\ UNCHANGED <<apid, arriving, queue, served>>

Arrive(p, a) ==
  /\ p \notin arriving \union Queued
  /\ apid' = [apid EXCEPT ![p] = a]
  /\ arriving' = arriving \union {p}
  /\ served' = [served EXCEPT ![p] = toNobody]
  /\ UNCHANGED <<subs, queue>>

\* Show p to a subscriber no other waiting one of its kind precedes.
Serve(p, sync) ==
  \E s \in Waiting(p, sync) :
    /\ \A t \in Waiting(p, sync) : s.prio <= t.prio
    /\ served' = [served EXCEPT ![p][s.handler] = @ + 1]
    /\ UNCHANGED <<subs, apid, arriving, queue>>

ServeSync(p) == p \in arriving /\ Serve(p, TRUE)

Accept(p) ==
  /\ p \in arriving /\ Waiting(p, TRUE) = {}
  /\ Waiting(p, FALSE) # {}
  /\ Len(queue) < Capacity
  /\ arriving' = arriving \ {p}
  /\ queue' = Append(queue, p)
  /\ UNCHANGED <<subs, apid, served>>

\* Nobody waits for p, or the queue is full.
Refuse(p) ==
  /\ p \in arriving /\ Waiting(p, TRUE) = {}
  /\ Waiting(p, FALSE) = {} \/ Len(queue) = Capacity
  /\ arriving' = arriving \ {p}
  /\ UNCHANGED <<subs, apid, queue, served>>

ServeDeferred == queue # <<>> /\ Serve(Head(queue), FALSE)

Release ==
  /\ queue # <<>> /\ Waiting(Head(queue), FALSE) = {}
  /\ queue' = Tail(queue)
  /\ UNCHANGED <<subs, apid, arriving, served>>

Next ==
  \/ \E s \in Subscription : Subscribe(s)
  \/ \E p \in Packet, a \in Apid : Arrive(p, a)
  \/ \E p \in Packet : ServeSync(p) \/ Accept(p) \/ Refuse(p)
  \/ ServeDeferred
  \/ Release

Spec == Init /\ [][Next]_dvars
=============================================================================
