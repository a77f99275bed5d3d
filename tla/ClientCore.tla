----------------------------- MODULE ClientCore -----------------------------
(***************************************************************************)
(* The client library shared by the web, desktop and terminal clients      *)
(* (avix-client-core): the Dispatcher, which matches replies with calls    *)
(* over one socket, and AppState, which replaces the dispatcher when a     *)
(* token has expired and runs the bridge task that hands events to the     *)
(* user interface.  Callers are the web server's invoke handlers: they     *)
(* hold the state's read lock during a call and take its write lock to     *)
(* reconnect, once per command.                                            *)
(***************************************************************************)
EXTENDS Naturals, FiniteSets

CONSTANTS
    Invokers,   \* the commands of the interface, each with an id of its own
    MaxDials    \* bound: sockets opened

ASSUME ClientCoreAssumption == MaxDials \in Nat \ {0}

VARIABLES
    dial,       \* AppState.dispatcher: the socket of the current one, 0 = None
    dials,      \* sockets opened so far
    connStatus, \* AppState.connection_status
    sock,       \* each socket: "none", "open", "lost"
    reader,     \* the reader task of each dispatcher is running
    waiting,    \* DispatcherInner.pending of each dispatcher
    inbound,    \* replies on their way to each reader: caller and verdict
    uiCallback, \* AppState.emit_callback is set
    bridgeFlag, \* AppState.bridge_started
    bridges,    \* bridge tasks running on each dispatcher's events
    lagging,    \* history: a bridge of this dispatcher ended on Lagged
    invoke      \* the command of each invoke handler

clientVars == <<dial, dials, connStatus, sock, reader, waiting, inbound, uiCallback, bridgeFlag,
                bridges, lagging, invoke>>

linkVars == <<dial, dials, connStatus, sock, reader>>
bridgeVars == <<uiCallback, bridgeFlag, bridges, lagging>>

Dials == 1 .. MaxDials

InvokePcs == {"idle", "ready", "send", "wait", "expired", "done"}

\* The read locks of the calls in progress.
Reading == {i \in Invokers : invoke[i].pc \in {"send", "wait"}}

-----------------------------------------------------------------------------
(* AppState *)

\* start_event_bridge on dispatcher k, given the flag: nothing happens when
\* the flag says that a bridge is running.
StartBridge(k, flag) ==
    /\ bridgeFlag' = TRUE
    /\ bridges' = IF flag THEN bridges ELSE [bridges EXCEPT ![k] = @ + 1]

\* Faulty variant: the flag of the old connection is kept.
ConnectedKeepsFlag ==
    /\ dials < MaxDials
    /\ dials' = dials + 1 /\ dial' = dials + 1 /\ connStatus' = "connected"
    /\ sock' = [sock EXCEPT ![dials + 1] = "open"]
    /\ reader' = [reader EXCEPT ![dials + 1] = TRUE]
    /\ IF uiCallback THEN StartBridge(dials + 1, bridgeFlag) ELSE UNCHANGED <<bridgeFlag, bridges>>
    /\ UNCHANGED <<uiCallback, lagging>>

\* do_connect when the connect succeeds: a new dispatcher with its reader,
\* the flag reset, and a bridge if the interface has set its callback.
Connected ==
    /\ dials < MaxDials
    /\ dials' = dials + 1 /\ dial' = dials + 1 /\ connStatus' = "connected"
    /\ sock' = [sock EXCEPT ![dials + 1] = "open"]
    /\ reader' = [reader EXCEPT ![dials + 1] = TRUE]
    /\ IF uiCallback THEN StartBridge(dials + 1, FALSE)
       ELSE bridgeFlag' = FALSE /\ UNCHANGED bridges
    /\ UNCHANGED <<uiCallback, lagging>>

\* do_connect when the connect fails; the old dispatcher, if any, stays.
ConnectFailed ==
    /\ connStatus' = "disconnected"
    /\ UNCHANGED <<dial, dials, sock, reader, bridgeVars>>

\* init or login.
Login ==
    /\ Reading = {}
    /\ Connected \/ ConnectFailed
    /\ UNCHANGED <<waiting, inbound, invoke>>

SetEmitCallback ==
    /\ Reading = {} /\ ~ uiCallback
    /\ uiCallback' = TRUE
    /\ IF dial # 0 THEN StartBridge(dial, bridgeFlag) ELSE UNCHANGED <<bridgeFlag, bridges>>
    /\ UNCHANGED <<linkVars, waiting, inbound, lagging, invoke>>

\* The bridge's channel closes when no sender is left: its reader has ended
\* and its dispatcher has been replaced.  Its exit clears the shared flag.
BridgeEnds(k) ==
    /\ bridges[k] > 0 /\ ~ reader[k] /\ dial # k
    /\ bridges' = [bridges EXCEPT ![k] = @ - 1]
    /\ bridgeFlag' = FALSE
    /\ UNCHANGED <<linkVars, waiting, inbound, uiCallback, lagging, invoke>>

\* recv returns Lagged: "while let Ok" ends the bridge for good.
BridgeLags(k) ==
    /\ bridges[k] > 0 /\ reader[k]
    /\ bridges' = [bridges EXCEPT ![k] = @ - 1]
    /\ bridgeFlag' = FALSE
    /\ lagging' = [lagging EXCEPT ![k] = TRUE]
    /\ UNCHANGED <<linkVars, waiting, inbound, uiCallback, invoke>>

-----------------------------------------------------------------------------
(* Dispatcher *)

\* The reader task and the network.
SocketLost(k) ==
    /\ sock[k] = "open"
    /\ sock' = [sock EXCEPT ![k] = "lost"]
    /\ UNCHANGED <<dial, dials, connStatus, reader, waiting, inbound, bridgeVars, invoke>>

\* None, an error or a Close frame: the reader ends.  Callers are not told;
\* the replies that had not been read are lost.
ReaderEnds(k) ==
    /\ reader[k] /\ sock[k] = "lost"
    /\ reader' = [reader EXCEPT ![k] = FALSE]
    /\ inbound' = [inbound EXCEPT ![k] = {}]
    /\ UNCHANGED <<dial, dials, connStatus, sock, waiting, bridgeVars, invoke>>

\* The gateway answers a command that reached it, however late.  A retry has a
\* fresh id, and goes to another dispatcher.
GatewayReplies(k, i, verdict) ==
    /\ sock[k] = "open" /\ i \in waiting[k]
    /\ ~ \E r \in inbound[k] : r.who = i
    /\ invoke[i].pc # "send"
    /\ inbound' = [inbound EXCEPT ![k] = @ \cup {[who |-> i, verdict |-> verdict]}]
    /\ UNCHANGED <<linkVars, waiting, bridgeVars, invoke>>

\* The reader takes the pending entry out and completes the caller, who may
\* have given up.  An EEXPIRED answer to the first try leads to a reconnect.
ReaderReplies(k, r) ==
    /\ reader[k] /\ r \in inbound[k]
    /\ inbound' = [inbound EXCEPT ![k] = @ \ {r}]
    /\ waiting' = [waiting EXCEPT ![k] = @ \ {r.who}]
    /\ LET mine  == invoke[r.who].pc = "wait" /\ invoke[r.who].on = k
           again == r.verdict = "expired" /\ ~ invoke[r.who].retried
       IN  invoke' = IF mine THEN [invoke EXCEPT ![r.who].pc = IF again THEN "expired" ELSE "done"]
                     ELSE invoke
    /\ UNCHANGED <<linkVars, bridgeVars>>

-----------------------------------------------------------------------------
(* The invoke handler *)

InvokeArrives(i) ==
    /\ invoke[i].pc = "idle" /\ dial # 0
    /\ invoke' = [invoke EXCEPT ![i].pc = "ready"]
    /\ UNCHANGED <<linkVars, waiting, inbound, bridgeVars>>

\* Under the read lock: the dispatcher of the moment, and the pending entry.
CallRegisters(i) ==
    /\ invoke[i].pc = "ready"
    /\ invoke' = [invoke EXCEPT ![i].pc = "send", ![i].on = dial]
    /\ waiting' = [waiting EXCEPT ![dial] = @ \cup {i}]
    /\ UNCHANGED <<linkVars, inbound, bridgeVars>>

\* sink.send: on a lost socket it may still succeed, or fail; the entry of a
\* failed send stays in the map.
CallSends(i) ==
    /\ invoke[i].pc = "send"
    /\ \E pc \in {"wait"} \cup (IF sock[invoke[i].on] = "lost" THEN {"done"} ELSE {}) :
           invoke' = [invoke EXCEPT ![i].pc = pc]
    /\ UNCHANGED <<linkVars, waiting, inbound, bridgeVars>>

\* Faulty variant: the wait ends only when the reader is alive to notice.
CallTimesOutWithReader(i) ==
    /\ invoke[i].pc = "wait" /\ reader[invoke[i].on]
    /\ invoke' = [invoke EXCEPT ![i].pc = "done"]
    /\ UNCHANGED <<linkVars, waiting, inbound, bridgeVars>>

\* The 30 s timeout; the pending entry stays in the map.
CallTimesOut(i) ==
    /\ invoke[i].pc = "wait"
    /\ invoke' = [invoke EXCEPT ![i].pc = "done"]
    /\ UNCHANGED <<linkVars, waiting, inbound, bridgeVars>>

\* reconnect under the write lock, then the one retry.
Reconnects(i) ==
    /\ invoke[i].pc = "expired" /\ Reading = {}
    /\ Connected
    /\ invoke' = [invoke EXCEPT ![i].pc = "ready", ![i].retried = TRUE]
    /\ UNCHANGED <<waiting, inbound>>

\* The connect fails: 401.
ReconnectFails(i) ==
    /\ invoke[i].pc = "expired" /\ Reading = {}
    /\ ConnectFailed
    /\ invoke' = [invoke EXCEPT ![i].pc = "done"]
    /\ UNCHANGED <<waiting, inbound>>

-----------------------------------------------------------------------------

ClientInit ==
    /\ dial = 0 /\ dials = 0 /\ connStatus = "disconnected"
    /\ sock = [k \in Dials |-> "none"]
    /\ reader = [k \in Dials |-> FALSE]
    /\ waiting = [k \in Dials |-> {}]
    /\ inbound = [k \in Dials |-> {}]
    /\ uiCallback = FALSE /\ bridgeFlag = FALSE
    /\ bridges = [k \in Dials |-> 0]
    /\ lagging = [k \in Dials |-> FALSE]
    /\ invoke = [i \in Invokers |-> [pc |-> "idle", on |-> 0, retried |-> FALSE]]

InvokeStep(i) ==
    \/ CallRegisters(i) \/ CallSends(i) \/ CallTimesOut(i)
    \/ Reconnects(i) \/ ReconnectFails(i)

ClientNext ==
    \/ Login \/ SetEmitCallback
    \/ \E i \in Invokers : InvokeArrives(i) \/ InvokeStep(i)
    \/ \E k \in Dials :
        \/ BridgeEnds(k) \/ BridgeLags(k) \/ SocketLost(k) \/ ReaderEnds(k)
        \/ \E i \in Invokers, v \in {"ok", "expired"} : GatewayReplies(k, i, v)
        \/ \E r \in inbound[k] : ReaderReplies(k, r)

\* Tasks are scheduled and the timeout fires; tokio's RwLock is fair, so a
\* writer that waits for the readers gets its turn.
ClientFairness == \A i \in Invokers : SF_clientVars(InvokeStep(i))

ClientSpec == ClientInit /\ [][ClientNext]_clientVars /\ ClientFairness

-----------------------------------------------------------------------------
(* Properties *)

\* Types, and a call that waits is in its dispatcher's pending map, so that
\* its reply can find it.
ClientTypeOK ==
    /\ dial \in 0 .. dials /\ dials \in 0 .. MaxDials
    /\ connStatus \in {"connected", "disconnected"} /\ (connStatus = "connected" => dial # 0)
    /\ \A k \in Dials : sock[k] \in {"none", "open", "lost"} /\ bridges[k] \in 0 .. 1
    /\ \A k \in Dials : reader[k] => k <= dials
    /\ \A k \in Dials : waiting[k] \subseteq Invokers
    /\ \A i \in Invokers : invoke[i].pc \in InvokePcs /\ invoke[i].on \in 0 .. dials
    /\ \A i \in Reading : i \in waiting[invoke[i].on]

\* The interface hears the current connection exactly once: whatever the
\* bridges of earlier connections do to the shared flag, there is one bridge
\* on the current dispatcher as soon as both exist, until it lags.
UiHearsCurrent ==
    uiCallback /\ dial # 0 /\ ~ lagging[dial] => bridges[dial] = 1

\* Every command of the interface is answered: the reader's end is not told
\* to the callers, and only the timeout in Dispatcher::call frees them and,
\* with them, the lock a reconnect waits for.
InvokesAreAnswered ==
    \A i \in Invokers : invoke[i].pc # "idle" ~> invoke[i].pc = "done"
=============================================================================
