----------------------------- MODULE ToolDispatch -----------------------------
(***************************************************************************)
(* The tool registry and the router: tool calls that are dispatched while   *)
(* the tools they name are added, removed and drained.                      *)
(*                                                                          *)
(* RouterDispatcher::dispatch looks a tool up and checks its state on the   *)
(* copy it got, and later takes the tool's call guard and one of the slots  *)
(* that bound the calls in flight.  ToolRegistry::remove with drain marks   *)
(* the tools, waits until no guard is out, and removes the records, each    *)
(* under its own acquisition of the registry lock.  A record is identified  *)
(* by its semaphore: add gives every record a new one.                      *)
(***************************************************************************)
EXTENDS Integers, FiniteSets, Sequences

CONSTANTS
    Tools,       \* tool names
    Calls,       \* router connections: each dispatches one call at a time
    Removers,    \* connections that remove tools, one request at a time
    MaxSlots,    \* DEFAULT_MAX_CONCURRENT (20 in the code)
    EventCap,    \* EVENT_CAPACITY of the registry's broadcast (64 in the code)
    MaxAdds,     \* bound: records ever added
    Drains       \* whether removals drain: a subset of BOOLEAN

ASSUME DispatchAssumption ==
    /\ IsFiniteSet(Tools) /\ IsFiniteSet(Calls)
    /\ MaxSlots \in Nat
    /\ EventCap \in Nat \ {0}
    /\ MaxAdds \in Nat
    /\ Drains \subseteq BOOLEAN

VARIABLES
    records,    \* ToolRegistry.inner: per tool its state and semaphore, or NoRecord
    sems,       \* semaphores created so far
    call,       \* per call: control point, tool, and the semaphore of its guard
    permits,    \* permits left in ConcurrencyLimiter.semaphore
    active,     \* ConcurrencyLimiter.active
    remove,     \* per remover: control point and progress of ToolRegistry::remove
    owed,       \* history: calls in flight when the remover marked its tools
    events,     \* change events the ATP bridge has not received
    bridge,     \* the ATP bridge task: "up" or "ended"
    announced   \* history: tools that exist by the events published, while it is up

regVars == <<records, sems, events, bridge, announced>>
limitVars == <<permits, active>>
vars == <<regVars, call, limitVars, remove, owed>>

NoRecord == [state |-> "None", sem |-> 0]
Usable == {"Available", "Degraded"}
States == Usable \cup {"Unavailable"}
NoCall == [pc |-> "idle", tool |-> "none", sem |-> 0]
NoRemoval == [pc |-> "idle", names |-> {}, left |-> {}, sem |-> 0, waited |-> {}]

Present == {t \in Tools : records[t] # NoRecord}

\* Control points of a call that holds the tool's guard, a slot, a counted slot.
Counted == {"counted", "forward", "done"}
Slotted == Counted \cup {"slot", "uncounted"}
Guarded == Slotted \cup {"guarded", "slotless"}
Holding(pcs) == {c \in Calls : call[c].pc \in pcs}
-----------------------------------------------------------------------------
(* Change events *)

\* broadcast::Sender::send: a receiver that is EventCap events behind loses the
\* oldest one, and its next recv is an error.
Announce(op, names) ==
    IF bridge # "up"
    THEN UNCHANGED <<events, bridge>>
    ELSE IF Len(events) < EventCap
         THEN events' = Append(events, [op |-> op, tools |-> names]) /\ UNCHANGED bridge
         ELSE events' = << >> /\ bridge' = "lagging"

\* start_atp_bridge publishes each event on the ATP bus ...
BridgeReceives ==
    /\ bridge = "up"
    /\ events # << >>
    /\ events' = Tail(events)
    /\ announced' = IF Head(events).op = "added"
                    THEN announced \cup Head(events).tools
                    ELSE announced \ Head(events).tools
    /\ UNCHANGED <<records, sems, bridge, call, limitVars, remove, owed>>

\* ... and ends at the first error, a lag included.
BridgeEnds ==
    /\ bridge = "lagging"
    /\ bridge' = "ended"
    /\ announced' = {}
    /\ UNCHANGED <<records, sems, events, call, limitVars, remove, owed>>
-----------------------------------------------------------------------------
(* ToolRegistry *)

\* add: every entry replaces the record of its name, semaphore included.  All
\* callers add tools as Available.
Add(names) ==
    /\ sems + Cardinality(names) <= MaxAdds
    /\ sems' = sems + Cardinality(names)
    /\ \E new \in [names -> sems + 1 .. sems'] :
          /\ \A t, u \in names : new[t] = new[u] => t = u
          /\ records' = [t \in Tools |-> IF t \in names
                                         THEN [state |-> "Available", sem |-> new[t]]
                                         ELSE records[t]]
    /\ Announce("added", names)
    /\ UNCHANGED <<announced, call, limitVars, remove, owed>>

\* remove, phase 1: with drain the tools are marked under the write lock.
RemoveBegins(r, names, drain) ==
    /\ remove[r].pc = "idle"
    /\ IF drain
       THEN /\ records' = [t \in Tools |-> IF t \in names /\ records[t] # NoRecord
                                           THEN [records[t] EXCEPT !.state = "Unavailable"]
                                           ELSE records[t]]
            /\ owed' = [owed EXCEPT ![r] = {c \in Holding(Guarded) :
                                  call[c].sem \in {records[t].sem : t \in names}}]
       ELSE UNCHANGED <<records, owed>>
    /\ remove' = [remove EXCEPT ![r] =
                    [pc |-> "drain", names |-> names, left |-> IF drain THEN names ELSE {},
                     sem |-> 0, waited |-> {}]]
    /\ UNCHANGED <<sems, events, bridge, announced, call, limitVars>>

\* Phase 2: the semaphore of the next tool is read, if the tool is still there.
RemoveReads(r, t) ==
    /\ remove[r].pc = "drain"
    /\ t \in remove[r].left
    /\ LET absent == records[t] = NoRecord
           rem == remove[r]
       IN remove' = [remove EXCEPT ![r] =
                [pc     |-> IF absent THEN "drain" ELSE "poll",
                 names  |-> rem.names,
                 left   |-> rem.left \ {t},
                 sem    |-> records[t].sem,
                 waited |-> IF absent THEN rem.waited ELSE rem.waited \cup {records[t].sem}]]
    /\ UNCHANGED <<regVars, call, limitVars, owed>>

\* Faulty variant: the poll is content with one free permit.
AllPermitsBack_Some(s) == TRUE

\* available_permits() == MAX_PERMITS
AllPermitsBack(s) == \A c \in Holding(Guarded) : call[c].sem # s

RemoveDrained(r) ==
    /\ remove[r].pc = "poll"
    /\ AllPermitsBack(remove[r].sem)
    /\ remove' = [remove EXCEPT ![r].pc = "drain", ![r].sem = 0]
    /\ UNCHANGED <<regVars, call, limitVars, owed>>

\* Faulty variant: the event is sent only if every name was removed.
Removed_All(names) == IF names \subseteq Present THEN names ELSE {}

Removed(names) == names \cap Present

\* Phase 3: the records are removed and those that existed are announced.
RemoveEnds(r) ==
    /\ remove[r].pc = "drain"
    /\ remove[r].left = {}
    /\ records' = [t \in Tools |-> IF t \in remove[r].names THEN NoRecord ELSE records[t]]
    /\ IF Removed(remove[r].names) # {}
       THEN Announce("removed", Removed(remove[r].names))
       ELSE UNCHANGED <<events, bridge>>
    /\ remove' = [remove EXCEPT ![r] = NoRemoval]
    /\ owed' = [owed EXCEPT ![r] = {}]
    /\ UNCHANGED <<sems, announced, call, limitVars>>

RemoveStep(r) ==
    RemoveDrained(r) \/ RemoveEnds(r) \/ \E t \in remove[r].left : RemoveReads(r, t)
-----------------------------------------------------------------------------
(* RouterDispatcher::dispatch *)

At(c, p) == call[c].pc = p
Goto(c, p) == call' = [call EXCEPT ![c].pc = p]

\* Faulty variant: the state of the tool is not looked at.
Accepted_Any(t) == records[t] # NoRecord

\* Steps 1 to 3.  A tool that is missing or Unavailable, or not granted to the
\* caller, is an error reply, which leaves no trace.
Accepted(t) == records[t].state \in Usable

Lookup(c, t) ==
    /\ At(c, "idle")
    /\ Accepted(t)
    /\ call' = [call EXCEPT ![c] = [pc |-> "granted", tool |-> t, sem |-> 0]]
    /\ UNCHANGED <<regVars, limitVars, remove, owed>>

\* Step 4, ToolRegistry::acquire: the semaphore is read under the lock ...
ReadGuard(c) ==
    /\ At(c, "granted")
    /\ LET rec == records[call[c].tool] IN
       call' = [call EXCEPT ![c] = IF rec = NoRecord THEN NoCall
                                   ELSE [@ EXCEPT !.pc = "fetched", !.sem = rec.sem]]
    /\ UNCHANGED <<regVars, limitVars, remove, owed>>

\* ... and the permit taken after the unlock.
TakeGuard(c) ==
    /\ At(c, "fetched")
    /\ Goto(c, "guarded")
    /\ UNCHANGED <<regVars, limitVars, remove, owed>>

\* Faulty variant: one slot too many.
SlotFree_OffByOne == permits >= 0

SlotFree == permits > 0

\* Step 5, try_acquire: a permit, or EBUSY and the guard is dropped ...
TakeSlot(c) ==
    /\ At(c, "guarded")
    /\ IF SlotFree
       THEN Goto(c, "slot") /\ permits' = permits - 1
       ELSE Goto(c, "slotless") /\ UNCHANGED permits
    /\ UNCHANGED <<regVars, active, remove, owed>>

\* ... and then the counter.
CountSlot(c) ==
    /\ At(c, "slot")
    /\ Goto(c, "counted")
    /\ active' = active + 1
    /\ UNCHANGED <<regVars, permits, remove, owed>>

\* Steps 6 and 7: the service registry has an endpoint for the tool's service, or
\* the call ends in an error reply.
Resolve(c) ==
    /\ At(c, "counted")
    /\ Goto(c, "forward") \/ Goto(c, "done")
    /\ UNCHANGED <<regVars, limitVars, remove, owed>>

\* Step 8: the service answers, the connection fails or the call times out.
Reply(c) ==
    /\ At(c, "forward")
    /\ Goto(c, "done")
    /\ UNCHANGED <<regVars, limitVars, remove, owed>>

\* The locals are dropped in reverse order of declaration: ConcurrencyGuard::drop
\* counts down, its permit goes back, then the guard of the tool.
DropCount(c) ==
    /\ At(c, "done")
    /\ Goto(c, "uncounted")
    /\ active' = active - 1
    /\ UNCHANGED <<regVars, permits, remove, owed>>

DropSlot(c) ==
    /\ At(c, "uncounted")
    /\ Goto(c, "slotless")
    /\ permits' = permits + 1
    /\ UNCHANGED <<regVars, active, remove, owed>>

DropGuard(c) ==
    /\ At(c, "slotless")
    /\ call' = [call EXCEPT ![c] = NoCall]
    /\ owed' = [r \in Removers |-> owed[r] \ {c}]
    /\ UNCHANGED <<regVars, limitVars, remove>>

CallStep(c) ==
    \/ ReadGuard(c) \/ TakeGuard(c) \/ TakeSlot(c) \/ CountSlot(c)
    \/ Resolve(c) \/ Reply(c) \/ DropCount(c) \/ DropSlot(c) \/ DropGuard(c)
-----------------------------------------------------------------------------
Init ==
    /\ records = [t \in Tools |-> NoRecord]
    /\ sems = 0
    /\ call = [c \in Calls |-> NoCall]
    /\ permits = MaxSlots
    /\ active = 0
    /\ remove = [r \in Removers |-> NoRemoval]
    /\ owed = [r \in Removers |-> {}]
    /\ events = << >>
    /\ bridge = "up"
    /\ announced = {}

Names == SUBSET Tools \ {{}}

Next ==
    \/ BridgeReceives \/ BridgeEnds
    \/ \E names \in Names : \/ Add(names)
                            \/ \E r \in Removers, d \in Drains : RemoveBegins(r, names, d)
    \/ \E r \in Removers : RemoveStep(r)
    \/ \E c \in Calls : CallStep(c) \/ \E t \in Tools : Lookup(c, t)

Spec == Init /\ [][Next]_vars

\* Every task that can go on is polled, and a call to a service ends by its
\* time-out.  A remover that polls a semaphore looks at it every 5 ms, but may miss
\* the moments at which it is free.  Nobody has to call, add or remove.
FairSpec ==
    /\ Spec
    /\ WF_vars(BridgeReceives) /\ WF_vars(BridgeEnds)
    /\ \A c \in Calls : WF_vars(CallStep(c))
    /\ \A r \in Removers : WF_vars(RemoveStep(r))
-----------------------------------------------------------------------------
(* Properties *)

CallPc == Guarded \cup {"idle", "granted", "fetched"}

Event == [op : {"added", "removed"}, tools : SUBSET Tools]
RegType ==
    /\ records \in [Tools -> [state : States \cup {"None"}, sem : Nat]]
    /\ sems \in Nat
    /\ events \in Seq(Event)
    /\ bridge \in {"up", "lagging", "ended"}
    /\ announced \subseteq Tools
CallType ==
    /\ call \in [Calls -> [pc : CallPc, tool : Tools \cup {"none"}, sem : Nat]]
    /\ \A c \in Calls : call[c].pc = "granted" => call[c].tool \in Tools
RemoveType ==
    /\ remove \in [Removers -> [pc : {"idle", "drain", "poll"}, names : SUBSET Tools,
                                left : SUBSET Tools, sem : Nat, waited : SUBSET Nat]]
    /\ owed \in [Removers -> SUBSET Calls]

\* Type invariant of the registry, the calls, the limiter and the removals.
TypeOK == RegType /\ CallType /\ RemoveType /\ permits \in Nat /\ active \in Nat

\* Slots are neither lost nor invented on any path through dispatch: the permits
\* left and the calls that hold one add up to the limit, and the counter, which is
\* kept apart from the semaphore, never passes the limit or goes below zero.
SlotsConserved ==
    /\ permits + Cardinality(Holding(Slotted)) = MaxSlots
    /\ active = Cardinality(Holding(Counted))
    /\ active <= MaxSlots

\* Drain: when a removal is about to delete its records, every call that held a
\* guard when the tools were marked has given it back, unless add has replaced the
\* record, and its semaphore, in between.
DrainWaits ==
    \A r \in Removers :
        remove[r].pc = "drain" /\ remove[r].left = {} =>
            \A c \in owed[r] : call[c].sem \notin remove[r].waited

\* What the ATP bridge has published agrees with the registry once it has caught
\* up: the events are sent under the registry lock, in the order of the changes.
AnnouncedAgrees == bridge = "up" /\ events = << >> => announced = Present

\* A removal with drain returns although callers keep calling, because marked tools
\* are refused - unless one of its tools becomes usable again meanwhile.
RemoveReturns ==
    \A r \in Removers :
        remove[r].pc # "idle" ~>
            remove[r].pc = "idle" \/ \E t \in remove[r].names : records[t].state \in Usable

\* A removal with drain ends only when no call is in flight on the records it
\* waited for (remove, phase 2: "wait for in-flight calls to complete").
DrainLeavesNone ==
    [][\A r \in Removers : remove[r].pc # "idle" /\ remove'[r].pc = "idle"
          => \A s \in remove[r].waited : AllPermitsBack(s)]_vars
===============================================================================
