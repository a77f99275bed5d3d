------------------------------ MODULE McpBridge -----------------------------
(***************************************************************************)
(* The MCP bridge: it connects to external MCP servers, registers their    *)
(* tools with the kernel, forwards tool calls to them, and checks their    *)
(* health with tools/list.  The connections sit behind one read-write lock *)
(* that is held for writing while a server is asked.  Servers may die and  *)
(* may change the tools they offer; the kernel may refuse a registration.  *)
(***************************************************************************)
EXTENDS Naturals, FiniteSets

CONSTANTS
    Servers,      \* the servers of mcp.json
    ToolsOf,      \* tools a server may offer
    ToolCalls,    \* tool calls that agents make, each once
    Monitor, Nobody,
    MaxRefusals,  \* bound: ipc.tool-add and ipc.tool-remove requests that fail
    MaxChanges    \* bound: changes of the tools a server offers

ASSUME McpAssumption == MaxRefusals \in Nat /\ MaxChanges \in Nat

VARIABLES
    bridge,       \* "starting", "up", "stopping", "cleaned", "stopped"
    toStart,      \* servers that start() has not tried yet
    conn,         \* connection state of each server
    cached,       \* McpServerConnection.tools
    alive,        \* the server process
    offered,      \* the tools the server offers at present
    registered,   \* tools of the bridge in the kernel's registry
    startNames,   \* RunningBridge.registered_tool_names
    writer,       \* who holds the write lock of the connections
    mon,          \* the health monitor
    toolCall,     \* progress of each tool call
    refusals, changes,
    noticed       \* history: servers whose failure a health check discovered

mcpVars == <<bridge, toStart, conn, cached, alive, offered, registered, startNames, writer,
             mon, toolCall, refusals, changes, noticed>>
world == <<alive, offered, changes>>

MonAsleep == [pc |-> "sleep", todo |-> {}, srv |-> Nobody, healthy |-> FALSE, degraded |-> FALSE]
Named(s, ts) == {s} \X ts

\* mcp/servers, mcp/server-status and mcp/tools.
MetaTools == <<Nobody, "meta">>

\* The kernel answers a request, or it fails and nothing changes.
Accepts == UNCHANGED refusals
Refuses == refusals < MaxRefusals /\ refusals' = refusals + 1

-----------------------------------------------------------------------------
(* McpBridgeRunner::start                                                  *)

\* A server that cannot be reached, or whose tools the kernel refuses, is
\* left out; one that does not list its tools is kept as degraded.
StartServer(s) ==
    /\ bridge = "starting" /\ s \in toStart
    /\ toStart' = toStart \ {s}
    /\ \/ ~alive[s] /\ UNCHANGED <<conn, cached, registered, startNames, refusals>>
       \/ /\ alive[s]
          /\ \/ /\ Accepts
                /\ conn' = [conn EXCEPT ![s] = "connected"]
                /\ cached' = [cached EXCEPT ![s] = offered[s]]
                /\ registered' = registered \cup Named(s, offered[s])
                /\ startNames' = startNames \cup Named(s, offered[s])
             \/ Refuses /\ offered[s] # {} /\ UNCHANGED <<conn, cached, registered, startNames>>
             \/ /\ Accepts
                /\ conn' = [conn EXCEPT ![s] = "degraded"]
                /\ UNCHANGED <<cached, registered, startNames>>
    /\ UNCHANGED <<bridge, world, writer, mon, toolCall, noticed>>

\* Then the bridge's own tools are registered, or refused, and it serves;
StartServes ==
    /\ bridge = "starting" /\ toStart = {}
    /\ bridge' = "up"
    /\ \/ /\ Accepts
          /\ registered' = registered \cup {MetaTools} /\ startNames' = startNames \cup {MetaTools}
       \/ Refuses /\ UNCHANGED <<registered, startNames>>
    /\ UNCHANGED <<toStart, conn, cached, world, writer, mon, toolCall, noticed>>

\* or its socket cannot be bound: start fails and leaves what is registered.
StartFails ==
    /\ bridge = "starting" /\ toStart = {}
    /\ bridge' = "failed"
    /\ \/ Accepts /\ registered' = registered \cup {MetaTools}
       \/ Refuses /\ UNCHANGED registered
    /\ UNCHANGED <<toStart, conn, cached, world, startNames, writer, mon, toolCall, noticed>>

-----------------------------------------------------------------------------
(* health_monitor, until shutdown aborts it                                *)

MonitorRuns == bridge \in {"up", "stopping", "cleaned"}

MonTick ==
    /\ MonitorRuns /\ mon.pc = "sleep" /\ writer = Nobody
    /\ mon' = [MonAsleep EXCEPT !.pc = "next", !.todo = {s \in Servers : conn[s] # "absent"}]
    /\ UNCHANGED <<bridge, toStart, conn, cached, world, registered, startNames, writer, toolCall,
                   refusals, noticed>>

MonLook(s) ==
    /\ MonitorRuns /\ mon.pc = "next" /\ s \in mon.todo /\ writer = Nobody
    /\ mon' = [mon EXCEPT !.pc = "look", !.srv = s, !.healthy = (conn[s] = "connected")]
    /\ UNCHANGED <<bridge, toStart, conn, cached, world, registered, startNames, writer, toolCall,
                   refusals, noticed>>

MonAsks ==
    /\ MonitorRuns /\ mon.pc = "look" /\ writer = Nobody
    /\ mon' = [mon EXCEPT !.pc = "asked", !.degraded = (conn[mon.srv] = "degraded")]
    /\ writer' = Monitor
    /\ UNCHANGED <<bridge, toStart, conn, cached, world, registered, startNames, toolCall,
                   refusals, noticed>>

\* discover_tools: only a connected server is asked; its new list replaces
\* the cached one, a failure makes it degraded.
MonHears ==
    /\ MonitorRuns /\ mon.pc = "asked"
    /\ LET s == mon.srv IN
       \/ /\ conn[s] = "connected" /\ alive[s]
          /\ cached' = [cached EXCEPT ![s] = offered[s]]
          /\ mon' = [mon EXCEPT !.pc = IF mon.degraded THEN "recovered" ELSE "done"]
          /\ UNCHANGED <<conn, noticed>>
       \/ /\ conn[s] = "connected"
          /\ conn' = [conn EXCEPT ![s] = "degraded"]
          /\ mon' = [mon EXCEPT !.pc = IF mon.healthy THEN "down" ELSE "done"]
          /\ noticed' = noticed \cup {s}
          /\ UNCHANGED cached
       \/ /\ conn[s] # "connected"
          /\ mon' = [mon EXCEPT !.pc = IF mon.healthy THEN "down" ELSE "done"]
          /\ UNCHANGED <<conn, cached, noticed>>
    /\ writer' = Nobody
    /\ UNCHANGED <<bridge, toStart, world, registered, startNames, toolCall, refusals>>

MonNext == [mon EXCEPT !.pc = "next", !.todo = @ \ {mon.srv}, !.srv = Nobody]

\* Faulty variant: the tools of a server that went down stay.
MonActsLate ==
    /\ MonitorRuns /\ writer = Nobody /\ mon.pc \in {"down", "recovered"}
    /\ mon' = MonNext
    /\ UNCHANGED <<bridge, toStart, conn, cached, world, registered, startNames, writer, toolCall,
                   refusals, noticed>>

\* ipc.tool-remove of the names in the cache.  A recovered server would have
\* them added again, but nothing reconnects a degraded one.
MonActs ==
    /\ MonitorRuns /\ writer = Nobody /\ mon.pc \in {"down", "recovered"}
    /\ \/ Accepts /\ registered' = IF mon.pc = "down" THEN registered \ Named(mon.srv, cached[mon.srv])
                                    ELSE registered \cup Named(mon.srv, cached[mon.srv])
       \/ Refuses /\ UNCHANGED registered
    /\ mon' = MonNext
    /\ UNCHANGED <<bridge, toStart, conn, cached, world, startNames, writer, toolCall, noticed>>

MonGoesOn ==
    /\ MonitorRuns
    /\ \/ mon.pc = "done" /\ mon' = MonNext
       \/ mon.pc = "next" /\ mon.todo = {} /\ mon' = MonAsleep
    /\ UNCHANGED <<bridge, toStart, conn, cached, world, registered, startNames, writer, toolCall,
                   refusals, noticed>>

-----------------------------------------------------------------------------
(* handle_tool_call                                                        *)

\* The server is found by its namespace; the request waits for the lock.
CallArrives(c, s) ==
    /\ bridge = "up" /\ toolCall[c].pc = "none" /\ writer = Nobody
    /\ toolCall' = [toolCall EXCEPT ![c] =
           IF conn[s] = "absent" THEN [pc |-> "error", srv |-> s] ELSE [pc |-> "found", srv |-> s]]
    /\ UNCHANGED <<bridge, toStart, conn, cached, world, registered, startNames, writer, mon,
                   refusals, noticed>>

CallForwards(c) ==
    /\ toolCall[c].pc = "found" /\ writer = Nobody
    /\ IF conn[toolCall[c].srv] = "connected"
       THEN writer' = c /\ toolCall' = [toolCall EXCEPT ![c].pc = "sent"]
       ELSE toolCall' = [toolCall EXCEPT ![c].pc = "error"] /\ UNCHANGED writer
    /\ UNCHANGED <<bridge, toStart, conn, cached, world, registered, startNames, mon, refusals, noticed>>

\* The server's answer, or a failure, which makes the connection degraded.
CallReturns(c) ==
    /\ toolCall[c].pc = "sent"
    /\ \/ /\ alive[toolCall[c].srv]
          /\ toolCall' = [toolCall EXCEPT ![c].pc = "ok"]
          /\ UNCHANGED conn
       \/ /\ toolCall' = [toolCall EXCEPT ![c].pc = "error"]
          /\ conn' = [conn EXCEPT ![toolCall[c].srv] = "degraded"]
    /\ writer' = Nobody
    /\ UNCHANGED <<bridge, toStart, cached, world, registered, startNames, mon, refusals, noticed>>

-----------------------------------------------------------------------------
(* RunningBridge::shutdown                                                 *)

\* cancel, then the serving task is awaited: calls in progress end first.
ShutdownBegins ==
    /\ bridge = "up"
    /\ bridge' = "stopping"
    /\ UNCHANGED <<toStart, conn, cached, world, registered, startNames, writer, mon, toolCall,
                   refusals, noticed>>

ShutdownRemoves ==
    /\ bridge = "stopping" /\ \A c \in ToolCalls : toolCall[c].pc \notin {"found", "sent"}
    /\ bridge' = "cleaned"
    /\ \/ Accepts /\ registered' = registered \ startNames
       \/ Refuses /\ UNCHANGED registered
    /\ UNCHANGED <<toStart, conn, cached, world, startNames, writer, mon, toolCall, noticed>>

ShutdownAborts ==
    /\ bridge = "cleaned"
    /\ bridge' = "stopped"
    /\ mon' = MonAsleep
    /\ writer' = Nobody
    /\ UNCHANGED <<toStart, conn, cached, world, registered, startNames, toolCall, refusals, noticed>>

ServerDies(s) ==
    /\ alive[s]
    /\ alive' = [alive EXCEPT ![s] = FALSE]
    /\ UNCHANGED <<bridge, toStart, conn, cached, offered, changes, registered, startNames, writer,
                   mon, toolCall, refusals, noticed>>

ServerChanges(s, ts) ==
    /\ changes < MaxChanges /\ alive[s] /\ ts # offered[s]
    /\ offered' = [offered EXCEPT ![s] = ts]
    /\ changes' = changes + 1
    /\ UNCHANGED <<bridge, toStart, conn, cached, alive, registered, startNames, writer,
                   mon, toolCall, refusals, noticed>>

McpInit ==
    /\ bridge = "starting" /\ toStart = Servers
    /\ conn = [s \in Servers |-> "absent"]
    /\ cached = [s \in Servers |-> {}]
    /\ alive = [s \in Servers |-> TRUE]
    /\ offered = [s \in Servers |-> ToolsOf]
    /\ registered = {} /\ startNames = {}
    /\ writer = Nobody /\ mon = MonAsleep
    /\ toolCall = [c \in ToolCalls |-> [pc |-> "none", srv |-> Nobody]]
    /\ refusals = 0 /\ changes = 0 /\ noticed = {}

MonStep == MonAsks \/ MonHears \/ MonActs \/ MonGoesOn \/ \E s \in Servers : MonLook(s)

McpNext ==
    \/ \E s \in Servers : StartServer(s)
    \/ StartServes \/ StartFails
    \/ MonTick \/ MonStep
    \/ \E c \in ToolCalls, s \in Servers : CallArrives(c, s)
    \/ \E c \in ToolCalls : CallForwards(c) \/ CallReturns(c)
    \/ ShutdownBegins \/ ShutdownRemoves \/ ShutdownAborts
    \/ \E s \in Servers : ServerDies(s)
    \/ \E s \in Servers, ts \in SUBSET ToolsOf : ServerChanges(s, ts)

\* tokio's lock is fair, so whoever waits for it gets it; a server answers
\* or its pipe closes.  A server that hangs is not covered.
McpFairness ==
    /\ WF_mcpVars(MonStep)
    /\ \A c \in ToolCalls : SF_mcpVars(CallForwards(c)) /\ WF_mcpVars(CallReturns(c))

McpSpec == McpInit /\ [][McpNext]_mcpVars /\ McpFairness

-----------------------------------------------------------------------------
\* Types; and the lock is held by whoever is waiting for a server: the health
\* check or one forwarded call.
McpTypeOK ==
    /\ bridge \in {"starting", "failed", "up", "stopping", "cleaned", "stopped"}
    /\ toStart \subseteq Servers
    /\ conn \in [Servers -> {"absent", "connected", "degraded"}]
    /\ cached \in [Servers -> SUBSET ToolsOf] /\ offered \in [Servers -> SUBSET ToolsOf]
    /\ alive \in [Servers -> BOOLEAN]
    /\ {registered, startNames} \subseteq SUBSET (Servers \X ToolsOf \cup {MetaTools})
    /\ writer \in ToolCalls \cup {Monitor, Nobody}
    /\ mon \in [pc : {"sleep", "next", "look", "asked", "down", "recovered", "done"}, todo : SUBSET Servers,
               srv : Servers \cup {Nobody}, healthy : BOOLEAN, degraded : BOOLEAN]
    /\ toolCall \in [ToolCalls -> [pc : {"none", "found", "sent", "ok", "error"}, srv : Servers \cup {Nobody}]]
    /\ refusals \in 0 .. MaxRefusals /\ changes \in 0 .. MaxChanges /\ noticed \subseteq Servers
    /\ writer # Nobody => \/ writer = Monitor /\ mon.pc = "asked"
                          \/ writer \in ToolCalls /\ toolCall[writer].pc = "sent"

\* After a shutdown whose requests the kernel accepted none of the bridge's
\* tools is left in the registry, although the health monitor goes on until
\* after the removal and lists of tools change in between.
NothingLeftBehind ==
    bridge = "stopped" /\ refusals = 0 => registered = {}

\* A server whose failure the health monitor discovered loses its tools: at
\* the end of the round none of those it last listed is in the registry.
DownServersLoseTools ==
    mon.pc = "sleep" /\ bridge = "up" /\ refusals = 0 =>
        \A s \in noticed : registered \cap Named(s, cached[s]) = {}

\* Every tool call that reached the bridge gets its reply, whether its
\* server answers, fails or is degraded, and while health checks compete
\* for the lock.
CallsAreAnswered ==
    \A c \in ToolCalls : toolCall[c].pc = "found" ~> toolCall[c].pc \in {"ok", "error"}

\* Together: the registry follows the servers the bridge knows, at the end of
\* a health round and after shutdown.
ToolsFollowServers == NothingLeftBehind /\ DownServersLoseTools
=============================================================================
