----------------------------- MODULE HumanInLoop ----------------------------
(***************************************************************************)
(* Human approval of a capability upgrade: the executor's cap/request-tool *)
(* (dispatch_manager.rs), the kernel's HilManager with its approval        *)
(* tokens, the gateway's SIGRESUME command by which a client answers, and  *)
(* the executor's wait on the SignalBus (CapabilityUpgrader).  open,       *)
(* resolve and timeout_hil await between their steps, so that clients, the *)
(* manager's timer and the waiting agent interleave at those points.       *)
(* The gateway server is built without a HilManager (server.rs:126) and    *)
(* answers EUNAVAIL; GatewayHasHil models that and the wired gateway.      *)
(***************************************************************************)
EXTENDS Naturals, Sequences, FiniteSets

CONSTANTS
    HilIds,        \* approval requests, each made by its own agent
    Clients,       \* clients that may answer
    GatewayHasHil  \* whether HandlerCtx::hil_manager is set

ASSUME HilAssumption == GatewayHasHil \in BOOLEAN

VARIABLES
    agent,      \* the executor's cap/request-tool call for each request
    hilFile,    \* /proc/<pid>/hil-queue/<hil-id>.yaml
    pending,    \* HilManager.pending
    approval,   \* the approval token: "none", "fresh" or "used"
    timer,      \* the manager's timeout task
    answer,     \* the SIGRESUME command of each client
    announced,  \* hil.resolved events published: who and which outcome
    bus         \* Resume signals in the agent's bus subscription

hilVars == <<agent, hilFile, pending, approval, timer, answer, announced, bus>>

Decisions == {"approved", "denied"}

Outcomes == Decisions \cup {"timeout"}

Silent == [pc |-> "idle", hil |-> "none", decision |-> "none"]

-----------------------------------------------------------------------------
(* The agent's side: cap/request-tool                                      *)

\* Answered without a human: the kernel auto-approves, there is no resource
\* handler or HIL manager, or the capability token does not verify.
RequestSettled(h, result) ==
    /\ agent[h] = "idle"
    /\ agent' = [agent EXCEPT ![h] = result]
    /\ UNCHANGED <<hilFile, pending, approval, timer, answer, announced, bus>>

\* HilManager::open writes the file,
OpenWritesFile(h) ==
    /\ agent[h] = "idle"
    /\ agent' = [agent EXCEPT ![h] = "insert"]
    /\ hilFile' = [hilFile EXCEPT ![h] = "pending"]
    /\ UNCHANGED <<pending, approval, timer, answer, announced, bus>>

\* puts the request into the map,
OpenInserts(h) ==
    /\ agent[h] = "insert"
    /\ agent' = [agent EXCEPT ![h] = "register"]
    /\ pending' = pending \cup {h}
    /\ UNCHANGED <<hilFile, approval, timer, answer, announced, bus>>

\* and registers the token, publishes hil.request and starts the timer.
OpenRegisters(h) ==
    /\ agent[h] = "register"
    /\ agent' = [agent EXCEPT ![h] = "subscribe"]
    /\ approval' = [approval EXCEPT ![h] = "fresh"]
    /\ timer' = [timer EXCEPT ![h] = "armed"]
    /\ UNCHANGED <<hilFile, pending, answer, announced, bus>>

\* The SIGPAUSE the executor sends itself on the bus finds no subscription
\* of its own to reach; then CapabilityUpgrader subscribes.
Subscribe(h) ==
    /\ agent[h] = "subscribe"
    /\ agent' = [agent EXCEPT ![h] = "wait"]
    /\ UNCHANGED <<hilFile, pending, approval, timer, answer, announced, bus>>

\* The receive loop: a Resume without this request's id is skipped.
WaitRecv(h) ==
    /\ agent[h] = "wait"
    /\ bus[h] # <<>>
    /\ bus' = [bus EXCEPT ![h] = Tail(@)]
    /\ agent' = [agent EXCEPT ![h] =
                    IF Head(bus[h]).hilId # h THEN @
                    ELSE IF Head(bus[h]).decision = "approved" THEN "granted" ELSE "refused"]
    /\ UNCHANGED <<hilFile, pending, approval, timer, answer, announced>>

\* tokio::time::timeout of the wait: nothing of this request is queued.
WaitTimesOut(h) ==
    /\ agent[h] = "wait"
    /\ bus[h] = <<>>
    /\ agent' = [agent EXCEPT ![h] = "gaveUp"]
    /\ UNCHANGED <<hilFile, pending, approval, timer, answer, announced, bus>>

AgentStep(h) ==
    \/ OpenInserts(h) \/ OpenRegisters(h) \/ Subscribe(h) \/ WaitRecv(h) \/ WaitTimesOut(h)

-----------------------------------------------------------------------------
(* A client answers: signal/send SIGRESUME with approvalToken, resolve     *)

\* The client knows the token from the hil.request event or from the file.
Answer(c, h, d) ==
    /\ answer[c].pc = "idle"
    /\ hilFile[h] # "none"
    /\ answer' = [answer EXCEPT ![c] = IF GatewayHasHil
                                       THEN [pc |-> "consume", hil |-> h, decision |-> d]
                                       ELSE [Silent EXCEPT !.pc = "unavailable"]]
    /\ UNCHANGED <<agent, hilFile, pending, approval, timer, announced, bus>>

\* Faulty variant: the token is marked used without looking at it.
ConsumeUnchecked(c) ==
    /\ answer[c].pc = "consume"
    /\ approval[answer[c].hil] # "none"
    /\ approval' = [approval EXCEPT ![answer[c].hil] = "used"]
    /\ answer' = [answer EXCEPT ![c].pc = "write"]
    /\ UNCHANGED <<agent, hilFile, pending, timer, announced, bus>>

\* compare_exchange(false, true): one winner, the others are told EUSED; a
\* token that is not registered yet is refused as unknown.
Consume(c) ==
    /\ answer[c].pc = "consume"
    /\ LET h == answer[c].hil IN
       IF approval[h] = "fresh"
       THEN /\ approval' = [approval EXCEPT ![h] = "used"]
            /\ answer' = [answer EXCEPT ![c].pc = "write"]
       ELSE /\ answer' = [answer EXCEPT ![c].pc = IF approval[h] = "used" THEN "used" ELSE "unknown"]
            /\ UNCHANGED approval
    /\ UNCHANGED <<agent, hilFile, pending, timer, announced, bus>>

FileState(d) == IF d = "approved" THEN "approved" ELSE "denied"

\* The file is written under the read lock of the map, if the entry is there.
ResolveWritesFile(c) ==
    /\ answer[c].pc = "write"
    /\ LET h == answer[c].hil IN
       hilFile' = IF h \in pending
                  THEN [hilFile EXCEPT ![h] = FileState(answer[c].decision)] ELSE hilFile
    /\ answer' = [answer EXCEPT ![c].pc = "remove"]
    /\ UNCHANGED <<agent, pending, approval, timer, announced, bus>>

ResolveRemoves(c) ==
    /\ answer[c].pc = "remove"
    /\ pending' = pending \ {answer[c].hil}
    /\ answer' = [answer EXCEPT ![c].pc = "announce"]
    /\ UNCHANGED <<agent, hilFile, approval, timer, announced, bus>>

\* push_resolved; no signal goes to the agent.
ResolveAnnounces(c) ==
    /\ answer[c].pc = "announce"
    /\ announced' = [announced EXCEPT ![answer[c].hil] = @ \cup {<<c, answer[c].decision>>}]
    /\ answer' = [answer EXCEPT ![c].pc = "ok"]
    /\ UNCHANGED <<agent, hilFile, pending, approval, timer, bus>>

ResolveStep(c) ==
    Consume(c) \/ ResolveWritesFile(c) \/ ResolveRemoves(c) \/ ResolveAnnounces(c)

-----------------------------------------------------------------------------
(* The manager's timer: timeout_hil                                        *)

\* Under the write lock: remove the entry and write the file, or return.
TimerFires(h) ==
    /\ timer[h] = "armed"
    /\ IF h \in pending
       THEN /\ pending' = pending \ {h}
            /\ hilFile' = [hilFile EXCEPT ![h] = "timeout"]
            /\ timer' = [timer EXCEPT ![h] = "signal"]
       ELSE timer' = [timer EXCEPT ![h] = "done"] /\ UNCHANGED <<pending, hilFile>>
    /\ UNCHANGED <<agent, approval, answer, announced, bus>>

\* SIGRESUME { decision: "timeout" }, heard by a subscribed agent.
TimerSignals(h) ==
    /\ timer[h] = "signal"
    /\ bus' = IF agent[h] = "wait"
              THEN [bus EXCEPT ![h] = Append(@, [hilId |-> "none", decision |-> "timeout"])]
              ELSE bus
    /\ timer' = [timer EXCEPT ![h] = "announce"]
    /\ UNCHANGED <<agent, hilFile, pending, approval, answer, announced>>

TimerAnnounces(h) ==
    /\ timer[h] = "announce"
    /\ announced' = [announced EXCEPT ![h] = @ \cup {<<"kernel", "timeout">>}]
    /\ timer' = [timer EXCEPT ![h] = "done"]
    /\ UNCHANGED <<agent, hilFile, pending, approval, answer, bus>>

TimerStep(h) == TimerFires(h) \/ TimerSignals(h) \/ TimerAnnounces(h)

HilInit ==
    /\ agent = [h \in HilIds |-> "idle"]
    /\ hilFile = [h \in HilIds |-> "none"]
    /\ pending = {}
    /\ approval = [h \in HilIds |-> "none"]
    /\ timer = [h \in HilIds |-> "off"]
    /\ answer = [c \in Clients |-> Silent]
    /\ announced = [h \in HilIds |-> {}]
    /\ bus = [h \in HilIds |-> <<>>]

HilNext ==
    \/ \E h \in HilIds : \/ \E result \in {"granted", "refused"} : RequestSettled(h, result)
                         \/ OpenWritesFile(h) \/ AgentStep(h) \/ TimerStep(h)
    \/ \E c \in Clients, h \in HilIds, d \in Decisions : Answer(c, h, d)
    \/ \E c \in Clients : ResolveStep(c)

\* Tasks that have begun go on and both timers fire; whether a client
\* answers is up to the client.
HilFairness ==
    /\ \A h \in HilIds : WF_hilVars(AgentStep(h)) /\ WF_hilVars(TimerStep(h))
    /\ \A c \in Clients : WF_hilVars(ResolveStep(c))

HilSpec == HilInit /\ [][HilNext]_hilVars /\ HilFairness

-----------------------------------------------------------------------------
\* Types; what the file says is a HilState.
HilTypeOK ==
    /\ agent \in [HilIds -> {"idle", "insert", "register", "subscribe", "wait",
                             "granted", "refused", "gaveUp"}]
    /\ hilFile \in [HilIds -> Outcomes \cup {"none", "pending"}]
    /\ pending \subseteq HilIds
    /\ approval \in [HilIds -> {"none", "fresh", "used"}]
    /\ timer \in [HilIds -> {"off", "armed", "signal", "announce", "done"}]
    /\ answer \in [Clients -> [pc : {"idle", "consume", "write", "remove", "announce",
                                     "ok", "used", "unknown", "unavailable"},
                               hil : HilIds \cup {"none"}, decision : Decisions \cup {"none"}]]
    /\ announced \in [HilIds -> SUBSET ((Clients \cup {"kernel"}) \X Outcomes)]
    /\ bus \in [HilIds -> Seq([hilId : HilIds \cup {"none"}, decision : Outcomes])]

\* An approval token decides a request once: of the clients that answer,
\* however their resolve calls overlap with each other and with the timer,
\* at most one has its decision announced (ApprovalTokenStore::consume).
OneClientDecides ==
    \A h \in HilIds : \A o, p \in announced[h] : o[1] # "kernel" /\ p[1] # "kernel" => o = p

\* When every resolve call and the timer of a request are through with it,
\* the outcome in its file was announced in a hil.resolved event, although
\* the file, the map and the event are written in separate steps.
FileWasAnnounced ==
    \A h \in HilIds :
        /\ hilFile[h] \in Outcomes
        /\ timer[h] \notin {"signal", "announce"}
        /\ \A c \in Clients : answer[c].hil = h => answer[c].pc \notin {"write", "remove", "announce"}
        => \E o \in announced[h] : o[2] = hilFile[h]

\* Every request that was opened is closed: it is announced as resolved, it
\* leaves the map, and the agent's cap/request-tool call returns.
RequestsAreClosed ==
    \A h \in HilIds :
        hilFile[h] = "pending" ~> /\ announced[h] # {} /\ h \notin pending
                                  /\ agent[h] \in {"granted", "refused", "gaveUp"}

\* Together: HilManager lets one client decide, and its file says what was
\* announced.
HilDecidedOnce == OneClientDecides /\ FileWasAnnounced
=============================================================================
