------------------------------ MODULE EventBus ------------------------------
(***************************************************************************)
(* The gateway's event bus and the events of one client                    *)
(* (gateway/event_bus.rs, gateway/server.rs).  Publishers number an event, *)
(* try to store it in the replay ring and broadcast it, with no lock held  *)
(* across the three.  A connection's pump forwards the broadcast events    *)
(* its filter lets through; a subscribe frame sets the filter and, with    *)
(* since_seq, replays the ring.  Pump and replay share one bounded channel *)
(* to the writer task.  The client remembers the highest seq it has seen   *)
(* and may lose its connection and come back.                              *)
(***************************************************************************)
EXTENDS Integers, Sequences, FiniteSets, Functions

CONSTANTS
    Publishers,      \* tasks that call publish
    EventClasses,    \* [kind, owner, minRole]: what the filter looks at
    ChunkKind,       \* AgentOutputChunk, never stored in the ring
    ConnSession,     \* the session of the client's connections
    ConnRole,        \* its role, as a number
    OperatorRole,    \* Role::Operator
    NoOwner,         \* owner_session = None
    NoOne,           \* the ring's lock is free
    Subscriptions,   \* what subscribe frames may ask for
    RingCapacity,    \* RING_CAPACITY
    BusCapacity,     \* BUS_CAPACITY
    OutCapacity,     \* the channel to the writer task
    MaxEvents,       \* bound: events published
    MaxConnects      \* bound: connections opened

ASSUME EventBusAssumption ==
    /\ {RingCapacity, BusCapacity, OutCapacity, MaxEvents, MaxConnects} \subseteq Nat \ {0}
    /\ NoOne \notin Publishers \cup {"replay"} /\ "replay" \notin Publishers

VARIABLES
    nextSeq,    \* AtpEventBus.seq_counter
    ring,       \* AtpEventBus.ring
    ringLock,   \* who holds the ring's mutex
    pub,        \* the publish call of each publisher
    link,       \* the client's connection, as the gateway holds it
    replay,     \* the subscribe frame being handled
    seen,       \* the client: sequence numbers received, and the cursor
    connects,   \* connections opened so far
    fate        \* history: events broadcast, evicted, and never stored

eventBusVars == <<nextSeq, ring, ringLock, pub, link, replay, seen, connects, fate>>

Wildcard == "*"

\* The session.ready frame does not pass the bus: AtpEvent::new numbers it 0.
Ready == -1

NoEvent == [seq |-> -1, class |-> CHOOSE c \in EventClasses : TRUE]

SeqNums == 0 .. MaxEvents - 1

Events == [seq : SeqNums, class : EventClasses]

NoCursor == -1

Closed == [state |-> "closed", cursor |-> NoCursor, subs |-> {}, queue |-> <<>>, lagged |-> FALSE, out |-> <<>>]

NoReplay == [pc |-> "idle", since |-> NoCursor, todo |-> <<>>]

\* EventFilter::should_receive: the role gate, the ownership gate (operators
\* see everything) and the subscription gate.
ShouldReceive(subs, e) ==
    /\ ConnRole >= e.class.minRole
    /\ e.class.owner \in {NoOwner, ConnSession} \/ ConnRole >= OperatorRole
    /\ subs # {}
    /\ Wildcard \in subs \/ e.class.kind \in subs

-----------------------------------------------------------------------------
(* publish *)

PubSeq(p, c) ==
    /\ pub[p].pc = "idle" /\ nextSeq < MaxEvents
    /\ nextSeq' = nextSeq + 1
    /\ pub' = [pub EXCEPT ![p] = [pc |-> IF c.kind = ChunkKind THEN "send" ELSE "store",
                                  ev |-> [seq |-> nextSeq, class |-> c]]]
    /\ UNCHANGED <<ring, ringLock, link, replay, seen, connects, fate>>

PubLocks(p) ==
    /\ pub[p].pc = "store" /\ ringLock = NoOne
    /\ ringLock' = p
    /\ pub' = [pub EXCEPT ![p].pc = "push"]
    /\ UNCHANGED <<nextSeq, ring, link, replay, seen, connects, fate>>

\* try_lock fails: the event is broadcast but will never be replayed.
PubSkips(p) ==
    /\ pub[p].pc = "store" /\ ringLock # NoOne
    /\ pub' = [pub EXCEPT ![p].pc = "send"]
    /\ fate' = [fate EXCEPT !.skipped = @ \cup {pub[p].ev}]
    /\ UNCHANGED <<nextSeq, ring, ringLock, link, replay, seen, connects>>

PubPushes(p) ==
    /\ pub[p].pc = "push"
    /\ LET full == Len(ring) >= RingCapacity IN
       /\ ring' = Append(IF full THEN Tail(ring) ELSE ring, pub[p].ev)
       /\ fate' = IF full THEN [fate EXCEPT !.evicted = @ \cup {Head(ring)}] ELSE fate
    /\ ringLock' = NoOne
    /\ pub' = [pub EXCEPT ![p].pc = "send"]
    /\ UNCHANGED <<nextSeq, link, replay, seen, connects>>

\* broadcast::send: a connection that is BusCapacity behind loses its oldest.
PubSends(p) ==
    /\ pub[p].pc = "send"
    /\ LET q    == Append(link.queue, pub[p].ev)
           over == Len(q) > BusCapacity
       IN  link' = IF link.state = "closed" THEN link
                   ELSE [link EXCEPT !.queue  = IF over THEN Tail(q) ELSE q,
                                     !.lagged = @ \/ over]
    /\ pub' = [pub EXCEPT ![p] = [pc |-> "idle", ev |-> NoEvent]]
    /\ fate' = [fate EXCEPT !.sent = @ \cup {pub[p].ev}]
    /\ UNCHANGED <<nextSeq, ring, ringLock, replay, seen, connects>>

-----------------------------------------------------------------------------
(* One connection *)

\* run_connection up to its reader loop; the session.ready frame is queued.
\* The client takes its cursor when it connects (EventEmitter::start).
Connect ==
    /\ link.state = "closed" /\ connects < MaxConnects
    /\ link' = [Closed EXCEPT !.state = "open", !.cursor = seen.cursor, !.out = <<Ready>>]
    /\ replay' = NoReplay
    /\ connects' = connects + 1
    /\ UNCHANGED <<nextSeq, ring, ringLock, pub, seen, fate>>

HasRoom == Len(link.out) < OutCapacity

\* The pump's recv, filter and send.  It holds the filter's read lock until
\* the frame is in the channel, so no subscribe comes in between; after
\* RecvError::Lagged it goes on with the oldest event that is left.
PumpForwards ==
    /\ link.state = "open" /\ link.queue # <<>>
    /\ LET e == Head(link.queue) IN
       IF ShouldReceive(link.subs, e)
       THEN /\ HasRoom
            /\ link' = [link EXCEPT !.queue = Tail(@), !.out = Append(@, e.seq)]
       ELSE link' = [link EXCEPT !.queue = Tail(@)]
    /\ UNCHANGED <<nextSeq, ring, ringLock, pub, replay, seen, connects, fate>>

\* handle_text_frame on a subscribe frame: the filter is set first.
HandleSubscribe(subs, since) ==
    /\ link.state = "open" /\ replay.pc = "idle"
    /\ replay' = [pc |-> IF since = NoCursor THEN "idle" ELSE "lock", since |-> since, todo |-> <<>>]
    /\ link' = [link EXCEPT !.subs = subs]
    /\ UNCHANGED <<nextSeq, ring, ringLock, pub, seen, connects, fate>>

ReplayLocks ==
    /\ replay.pc = "lock" /\ ringLock = NoOne
    /\ ringLock' = "replay"
    /\ replay' = [replay EXCEPT !.pc = "copy"]
    /\ UNCHANGED <<nextSeq, ring, pub, link, seen, connects, fate>>

\* replay_since, holding the ring's lock.  Its filter is applied as the copies
\* are sent (NewSince): the cursor it compares with stays the same.
ReplayCopies ==
    /\ replay.pc = "copy"
    /\ ringLock' = NoOne
    /\ replay' = [replay EXCEPT !.pc = "send", !.todo = ring]
    /\ UNCHANGED <<nextSeq, ring, pub, link, seen, connects, fate>>

\* Faulty variant: the event after the cursor counts as seen.
NewSinceLate(e, since) == e.seq > since + 1

\* The events replay_since returns: those after the client's cursor.
NewSince(e, since) == e.seq > since

ReplaySends ==
    /\ replay.pc = "send" /\ replay.todo # <<>>
    /\ LET e == Head(replay.todo) IN
       IF NewSince(e, replay.since) /\ ShouldReceive(link.subs, e)
       THEN HasRoom /\ link' = [link EXCEPT !.out = Append(@, e.seq)]
       ELSE UNCHANGED link
    /\ replay' = [replay EXCEPT !.todo = Tail(@)]
    /\ UNCHANGED <<nextSeq, ring, ringLock, pub, seen, connects, fate>>

ReplayEnds ==
    /\ replay.pc = "send" /\ replay.todo = <<>>
    /\ replay' = [replay EXCEPT !.pc = "idle"]
    /\ UNCHANGED <<nextSeq, ring, ringLock, pub, link, seen, connects, fate>>

\* writer_task, and the client's EventEmitter keeping the highest seq.
WriterSends ==
    /\ link.state = "open" /\ link.out # <<>>
    /\ LET n   == Head(link.out)
           seq == IF n = Ready THEN 0 ELSE n
       IN  seen' = [got    |-> seen.got \cup ({n} \ {Ready}),
                    cursor |-> IF seq > seen.cursor THEN seq ELSE seen.cursor]
    /\ link' = [link EXCEPT !.out = Tail(@)]
    /\ UNCHANGED <<nextSeq, ring, ringLock, pub, replay, connects, fate>>

\* The socket is lost: the writer is aborted and what it had not sent is gone.
Disconnect ==
    /\ link.state = "open" /\ replay.pc # "copy"
    /\ link' = Closed
    /\ replay' = NoReplay
    /\ UNCHANGED <<nextSeq, ring, ringLock, pub, seen, connects, fate>>

-----------------------------------------------------------------------------

EventBusInit ==
    /\ nextSeq = 0 /\ ring = <<>> /\ ringLock = NoOne
    /\ pub = [p \in Publishers |-> [pc |-> "idle", ev |-> NoEvent]]
    /\ link = Closed /\ replay = NoReplay
    /\ seen = [got |-> {}, cursor |-> NoCursor]
    /\ connects = 0
    /\ fate = [sent |-> {}, evicted |-> {}, skipped |-> {}]

PubStep(p) == PubLocks(p) \/ PubSkips(p) \/ PubPushes(p) \/ PubSends(p)

ReplayStep == ReplayLocks \/ ReplayCopies \/ ReplaySends \/ ReplayEnds

EventBusNext ==
    \/ \E p \in Publishers : PubStep(p) \/ \E c \in EventClasses : PubSeq(p, c)
    \/ Connect
    \/ PumpForwards
    \/ \E subs \in Subscriptions, since \in {NoCursor, link.cursor} : HandleSubscribe(subs, since)
    \/ ReplayStep
    \/ WriterSends
    \/ Disconnect

EventBusFairness == WF_eventBusVars(PumpForwards) /\ WF_eventBusVars(ReplayStep) /\ WF_eventBusVars(WriterSends)

EventBusSpec == EventBusInit /\ [][EventBusNext]_eventBusVars /\ EventBusFairness

-----------------------------------------------------------------------------
(* Properties *)

\* The ring and the channels keep to their capacities, and the ring's lock is
\* held only by a publish or a replay that is at its critical section.
EventBusTypeOK ==
    /\ nextSeq \in 0 .. MaxEvents
    /\ ring \in Seq(Events) /\ Len(ring) <= RingCapacity
    /\ pub \in [Publishers -> [pc : {"idle", "store", "push", "send"}, ev : Events \cup {NoEvent}]]
    /\ \A p \in Publishers : pub[p].pc # "idle" => pub[p].ev \in Events
    /\ \A p \in Publishers : pub[p].pc = "push" <=> ringLock = p
    /\ replay \in [pc : {"idle", "lock", "copy", "send"}, since : SeqNums \cup {NoCursor},
                   todo : Seq(Events)]
    /\ replay.pc = "copy" <=> ringLock = "replay"
    /\ link \in [state : {"open", "closed"}, cursor : SeqNums \cup {NoCursor},
                 subs : Subscriptions \cup {{}}, queue : Seq(Events), lagged : BOOLEAN,
                 out : Seq(SeqNums \cup {Ready})]
    /\ Len(link.queue) <= BusCapacity /\ Len(link.out) <= OutCapacity
    /\ seen \in [got : SUBSET SeqNums, cursor : SeqNums \cup {NoCursor}]
    /\ connects \in 0 .. MaxConnects
    /\ fate \in [sent : SUBSET Events, evicted : SUBSET Events, skipped : SUBSET Events]

\* Every event is either with the client or on its way to it.
Reached(e) ==
    e.seq \in seen.got \cup Range(link.out) \/ e \in Range(link.queue) \cup Range(replay.todo)

\* A subscribe with since_seq leaves no gap between the replay and the live
\* events: an event after the cursor that the filter lets through reaches the
\* client, unless the ring had dropped it or never held it, or the
\* connection lagged.  What makes it true is the order in handle_text_frame:
\* the filter is set before the ring is read.
NoGap ==
    link.state = "open" /\ replay.since # NoCursor /\ replay.pc \notin {"lock", "copy"} /\ ~ link.lagged
        => \A e \in fate.sent \ (fate.evicted \cup fate.skipped) :
               e.class.kind # ChunkKind /\ ShouldReceive(link.subs, e) /\ e.seq > replay.since
                   => Reached(e)

\* An event waiting for the pump of an open connection leaves its queue: the
\* pump survives RecvError::Lagged and a full channel to the writer.
PumpKeepsUp ==
    \A n \in 0 .. MaxEvents - 1 :
        (\E e \in Range(link.queue) : e.seq = n) ~> (\A e \in Range(link.queue) : e.seq # n)
=============================================================================
