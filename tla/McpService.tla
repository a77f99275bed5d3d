----------------------------- MODULE McpService -----------------------------
(***************************************************************************)
(* The crate services/mcp-bridge down to the messages on the wire: its     *)
(* MCP client over the stdin and stdout of a server process, the           *)
(* connection that owns the client, and the runner whose start, tool-call  *)
(* handlers and health monitor share the connections under one lock.       *)
(* McpBridge has the same runner against servers that answer in one step;  *)
(* here a request and its answer are messages with ids, a list comes in    *)
(* pages, and a server may speak unasked, answer with an error or die.     *)
(*                                                                         *)
(* A tool's name is a sequence of path segments, the last one the name the *)
(* server knows it by; the others are the namespace of the server.         *)
(***************************************************************************)
EXTENDS Naturals, Sequences, SequencesExt

CONSTANTS
    McpServers,    \* sequence of the servers in mcp.json
    Offers,        \* the tools each of them lists, in order
    Mounts,        \* configurations: a mount, or NoMount, for each of them
    NoMount,
    McpCallers,    \* IPC handlers
    McpCalls,      \* tool names they call
    PageSize,      \* tools in a page of tools/list
    MaxNoise,      \* bound: messages that servers send unasked
    MaxRounds      \* bound: rounds of the health monitor

McpServerSet == Range(McpServers)

VARIABLES
    msMount,     \* the mount of each server
    msPhase,     \* "starting", "up" or "stopped"
    msTodo,      \* servers that start() has still to connect
    msConn,      \* the connections
    msWire,      \* what is on the pipes of each server, and whether it runs
    msLock,      \* who holds the connections for writing
    msTask,      \* start(), the monitor and the handlers
    msTools,     \* names registered with the kernel
    msMine,      \* RunningBridge.registered_tool_names
    msNoise, msRounds

mcpServiceVars ==
    <<msMount, msPhase, msTodo, msConn, msWire, msLock, msTask, msTools, msMine, msNoise, msRounds>>

-----------------------------------------------------------------------------
(* Names *)

\* tool_namespace: without a mount the server's own name.
NamespaceOf(s) == IF msMount[s] = NoMount THEN <<s>> ELSE msMount[s]

AvixName(s, tool) == Append(NamespaceOf(s), tool)

MetaNames == {<<"mcp", "servers">>, <<"mcp", "server-status">>, <<"mcp", "tools">>}

\* Which servers a name may be forwarded to: the first one in the order of the
\* map, which is arbitrary.
Claims(s, name) == IsStrictPrefix(NamespaceOf(s), name)
RawName(s, name) == SubSeq(name, Len(NamespaceOf(s)) + 1, Len(name))
-----------------------------------------------------------------------------
(* Connections and the wire *)

NobodyHolds == "nobody"
McpTasks == {"start", "monitor"} \cup McpCallers

NoConn == [state |-> "absent", tools |-> << >>, nextId |-> 1, buffered |-> 0]
DeadWire == [up |-> FALSE, out |-> << >>, in |-> << >>]
NewWire == [DeadWire EXCEPT !.up = TRUE]

AtEase == [pc |-> "idle", server |-> NoMount, id |-> 0, what |-> << >>, got |-> << >>, healthy |-> FALSE, degraded |-> FALSE]

Message(id, kind, body) == [id |-> id, kind |-> kind, body |-> body]
Body(tools, more, of) == [tools |-> tools, more |-> more, of |-> of]

\* rpc_raw's send: the next id, the request on the pipe; a pipe whose reader
\* is gone fails the call at once.
Send(t, s, conn, wire, what, pc) ==
    /\ msWire' = [msWire EXCEPT ![s] = [wire EXCEPT !.out = Append(@, Message(conn.nextId, what, t))]]
    /\ msConn' = [msConn EXCEPT ![s] = [conn EXCEPT !.nextId = @ + 1]]
    /\ msTask' = [msTask EXCEPT ![t] = [@ EXCEPT !.pc = pc, !.server = s, !.id = conn.nextId]]

\* A plausible slip: the first result that comes is taken.
MeaningAnyId(msg, id) ==
    IF msg.kind = "notification" THEN "buffer" ELSE IF msg.kind = "result" THEN "result" ELSE "fail"

\* What one message means to the call that waits for id: a message without id
\* and an answer with another id are buffered, and an error is taken for the
\* answer whatever its id.
Meaning(msg, id) ==
    IF msg.kind = "notification" THEN "buffer"
    ELSE IF msg.kind \in {"error", "garbage"} THEN "fail"
    ELSE IF msg.id # id THEN "buffer"
    ELSE IF msg.kind = "result" THEN "result" ELSE "fail"

\* Dropping the client kills its process.
Dropped(s, state) ==
    /\ msConn' = [msConn EXCEPT ![s] = [@ EXCEPT !.state = state]]
    /\ msWire' = [msWire EXCEPT ![s] = DeadWire]

McpServiceInit ==
    /\ msMount \in Mounts
    /\ msPhase = "starting" /\ msTodo = McpServers
    /\ msConn = [s \in McpServerSet |-> NoConn]
    /\ msWire = [s \in McpServerSet |-> DeadWire]
    /\ msLock = NobodyHolds
    /\ msTask = [t \in McpTasks |-> AtEase]
    /\ msTools = {} /\ msMine = {}
    /\ msNoise = 0 /\ msRounds = 0
-----------------------------------------------------------------------------
(* McpBridgeRunner::start *)

calm == <<msMount, msNoise, msRounds>>

\* connect spawns the process, which may fail, and asks it to initialize.
StartConnects ==
    /\ msPhase = "starting" /\ msTodo # << >> /\ msTask["start"].pc = "idle"
    /\ LET s == Head(msTodo) IN
       \/ Send("start", s, NoConn, NewWire, "initialize", "greeting") /\ UNCHANGED msTodo
       \/ msTodo' = Tail(msTodo) /\ UNCHANGED <<msConn, msWire, msTask>>
    /\ UNCHANGED <<calm, msPhase, msLock, msTools, msMine>>

\* The server has answered: the notification goes out, then tools/list.
StartLists ==
    /\ msTask["start"].pc = "greeted"
    /\ LET s == msTask["start"].server IN
       Send("start", s, [msConn[s] EXCEPT !.state = "connected"], msWire[s], "list", "listing")
    /\ UNCHANGED <<calm, msPhase, msTodo, msLock, msTools, msMine>>

RegisterNames(names) == msTools' = msTools \cup names /\ msMine' = msMine \cup names

\* register_tools_with_avix: the kernel takes the tools, or refuses them and
\* the server is left out; an empty list is not sent.
StartRegisters ==
    /\ msTask["start"].pc = "listed"
    /\ LET s == msTask["start"].server
           names == {AvixName(s, n) : n \in Range(msConn[s].tools)} IN
       \/ /\ RegisterNames(names)
          /\ UNCHANGED <<msConn, msWire>>
       \/ /\ names # {} /\ Dropped(s, "absent") /\ UNCHANGED <<msTools, msMine>>
    /\ msTask' = [msTask EXCEPT !["start"] = AtEase] /\ msTodo' = Tail(msTodo)
    /\ UNCHANGED <<calm, msPhase, msLock>>

\* The meta-tools are registered too, or refused.
StartServing ==
    /\ msPhase = "starting" /\ msTodo = << >>
    /\ RegisterNames(MetaNames) \/ UNCHANGED <<msTools, msMine>>
    /\ msPhase' = "up"
    /\ UNCHANGED <<calm, msTodo, msConn, msWire, msLock, msTask>>
-----------------------------------------------------------------------------
(* Waiting for an answer: rpc_raw *)

Waiting(t) == msTask[t].pc \in {"greeting", "listing", "calling"}

Fails(t) ==
    LET s == msTask[t].server IN
    CASE msTask[t].pc = "greeting" ->
            /\ Dropped(s, "absent")
            /\ msTask' = [msTask EXCEPT ![t] = AtEase] /\ msTodo' = Tail(msTodo) /\ UNCHANGED msLock
      [] msTask[t].pc = "listing" ->
            /\ Dropped(s, "degraded")
            /\ IF t = "start"
               THEN msTask' = [msTask EXCEPT ![t] = AtEase] /\ msTodo' = Tail(msTodo) /\ UNCHANGED msLock
               ELSE msTask' = [msTask EXCEPT ![t] = [@ EXCEPT !.pc = "failed"]] /\ msLock' = NobodyHolds /\ UNCHANGED msTodo
      [] msTask[t].pc = "calling" ->
            /\ Dropped(s, "degraded")
            /\ msTask' = [msTask EXCEPT ![t] = [@ EXCEPT !.pc = "answered", !.got = <<"error">>]]
            /\ msLock' = NobodyHolds /\ UNCHANGED msTodo

\* A page is added to the ones before; a cursor asks for the next.
GetsPage(t, page) ==
    LET s == msTask[t].server
        all == msTask[t].got \o page.tools
        asked == Message(msConn[s].nextId, "list", t)
    IN
    IF page.more
    THEN /\ msTask' = [msTask EXCEPT ![t] = [@ EXCEPT !.got = all, !.id = msConn[s].nextId]]
         /\ msConn' = [msConn EXCEPT ![s] = [@ EXCEPT !.nextId = @ + 1]]
         /\ msWire' = [msWire EXCEPT ![s] = [@ EXCEPT !.in = Tail(@), !.out = Append(@, asked)]]
         /\ UNCHANGED msLock
    ELSE /\ msTask' = [msTask EXCEPT ![t] = [@ EXCEPT !.got = << >>, !.pc = "listed"]]
         /\ msConn' = [msConn EXCEPT ![s] = [@ EXCEPT !.tools = all]]
         /\ msWire' = [msWire EXCEPT ![s] = [@ EXCEPT !.in = Tail(@)]]
         /\ msLock' = IF t = "start" THEN msLock ELSE NobodyHolds

GetsResult(t, msg) ==
    LET s == msTask[t].server IN
    /\ UNCHANGED msTodo
    /\ IF msTask[t].pc = "listing" THEN GetsPage(t, msg.body)
       ELSE /\ msWire' = [msWire EXCEPT ![s] = [@ EXCEPT !.in = Tail(@)]]
            /\ IF msTask[t].pc = "greeting"
               THEN msTask' = [msTask EXCEPT ![t] = [@ EXCEPT !.pc = "greeted"]] /\ UNCHANGED <<msConn, msLock>>
               ELSE /\ msTask' = [msTask EXCEPT ![t] = [@ EXCEPT !.pc = "answered", !.got = <<"result", s, msg.body.of>>]]
                    /\ msLock' = NobodyHolds /\ UNCHANGED msConn

Receive(t) ==
    /\ Waiting(t)
    /\ LET s == msTask[t].server
           in == msWire[s].in
       IN \/ /\ in # << >> /\ Meaning(Head(in), msTask[t].id) = "buffer"
             /\ msWire' = [msWire EXCEPT ![s] = [@ EXCEPT !.in = Tail(@)]]
             /\ msConn' = [msConn EXCEPT ![s] = [@ EXCEPT !.buffered = @ + 1]]
             /\ UNCHANGED <<msTask, msTodo, msLock>>
          \/ in # << >> /\ Meaning(Head(in), msTask[t].id) = "result" /\ GetsResult(t, Head(in))
          \/ (IF in = << >> THEN ~msWire[s].up ELSE Meaning(Head(in), msTask[t].id) = "fail") /\ Fails(t)
    /\ UNCHANGED <<calm, msPhase, msTools, msMine>>
-----------------------------------------------------------------------------
(* handle_tool_call *)

\* What the meta-tools tell: which servers are connected, and all tools.
MetaAnswer ==
    <<"listed", {s \in McpServerSet : msConn[s].state = "connected"},
      UNION {{AvixName(s, n) : n \in Range(msConn[s].tools)} : s \in McpServerSet}>>

\* A meta-tool reads the connections; any other name is looked up among them.
CallComes(h, name) ==
    /\ msPhase = "up" /\ msTask[h].pc = "idle" /\ msLock = NobodyHolds
    /\ LET owners == {s \in McpServerSet : msConn[s].state # "absent" /\ Claims(s, name)} IN
       \/ /\ name \in MetaNames
          /\ msTask' = [msTask EXCEPT ![h] = [@ EXCEPT !.pc = "answered", !.what = name, !.got = MetaAnswer]]
       \/ /\ name \notin MetaNames /\ owners = {}
          /\ msTask' = [msTask EXCEPT ![h] = [@ EXCEPT !.pc = "answered", !.what = name, !.got = <<"unknown">>]]
       \/ /\ name \notin MetaNames
          /\ \E s \in owners : msTask' = [msTask EXCEPT ![h] = [@ EXCEPT !.pc = "found", !.what = name, !.server = s]]
    /\ UNCHANGED <<calm, msPhase, msTodo, msConn, msWire, msLock, msTools, msMine>>

\* forward_call under the write lock, which is kept until the answer.
ForwardCall(h) ==
    /\ msTask[h].pc = "found" /\ msLock = NobodyHolds
    /\ LET s == msTask[h].server IN
       IF msConn[s].state = "connected"
       THEN msLock' = h /\ Send(h, s, msConn[s], msWire[s], RawName(s, msTask[h].what), "calling")
       ELSE /\ msTask' = [msTask EXCEPT ![h] = [@ EXCEPT !.pc = "answered", !.got = <<"error">>]]
            /\ UNCHANGED <<msLock, msConn, msWire>>
    /\ UNCHANGED <<calm, msPhase, msTodo, msTools, msMine>>
-----------------------------------------------------------------------------
(* health_monitor (the servers in any order, their flags read together) *)

MonitorLooks(s) ==
    /\ msPhase = "up" /\ msTask["monitor"].pc = "idle" /\ msRounds < MaxRounds /\ msLock = NobodyHolds
    /\ msConn[s].state # "absent"
    /\ msRounds' = msRounds + 1
    /\ msTask' = [msTask EXCEPT !["monitor"] = [AtEase EXCEPT !.pc = "look", !.server = s,
                    !.healthy = (msConn[s].state = "connected"), !.degraded = (msConn[s].state = "degraded")]]
    /\ UNCHANGED <<msMount, msNoise, msPhase, msTodo, msConn, msWire, msLock, msTools, msMine>>

MonitorLists ==
    /\ msTask["monitor"].pc = "look" /\ msLock = NobodyHolds
    /\ LET s == msTask["monitor"].server IN
       IF msConn[s].state = "connected"
       THEN msLock' = "monitor" /\ Send("monitor", s, msConn[s], msWire[s], "list", "listing")
       ELSE /\ msTask' = [msTask EXCEPT !["monitor"] = [@ EXCEPT !.pc = "failed"]]
            /\ UNCHANGED <<msLock, msConn, msWire>>
    /\ UNCHANGED <<calm, msPhase, msTodo, msTools, msMine>>

\* A server that was healthy and failed loses its tools, by the names in the
\* cache; one that was degraded and answered would have them added again.
MonitorActs ==
    /\ msTask["monitor"].pc \in {"failed", "listed"}
    /\ LET s == msTask["monitor"].server
           names == {AvixName(s, n) : n \in Range(msConn[s].tools)} IN
       msTools' = IF msTask["monitor"].pc = "failed" /\ msTask["monitor"].healthy
                  THEN msTools \ names
                  ELSE IF msTask["monitor"].pc = "listed" /\ msTask["monitor"].degraded
                  THEN msTools \cup names ELSE msTools
    /\ msTask' = [msTask EXCEPT !["monitor"] = AtEase]
    /\ UNCHANGED <<calm, msPhase, msTodo, msConn, msWire, msLock, msMine>>

\* shutdown stops accepting, removes the names registered at start and aborts
\* the monitor.
ServiceShutdown ==
    /\ msPhase = "up"
    /\ msPhase' = "stopped"
    /\ msTools' = msTools \ msMine
    /\ msTask' = [msTask EXCEPT !["monitor"] = AtEase]
    /\ msLock' = IF msLock = "monitor" THEN NobodyHolds ELSE msLock
    /\ UNCHANGED <<calm, msTodo, msConn, msWire, msMine>>
-----------------------------------------------------------------------------
(* The servers (external): any MCP server *)

\* The pages of a list are the server's tools in order; which page is asked
\* for follows from what was sent before it, kept in the request's caller.
PageAfter(s, n) ==
    LET upto == IF n + PageSize < Len(Offers[s]) THEN n + PageSize ELSE Len(Offers[s])
    IN  Body(SubSeq(Offers[s], n + 1, upto), upto < Len(Offers[s]), << >>)

ServerAnswers(s) ==
    /\ msWire[s].up /\ msWire[s].out # << >>
    /\ LET req == Head(msWire[s].out)
           body == IF req.kind = "list" THEN PageAfter(s, Len(msTask[req.body].got))
                   ELSE Body(<< >>, FALSE, <<req.kind, req.body>>)
       IN \E kind \in {"result", "error"} :
            msWire' = [msWire EXCEPT ![s] = [@ EXCEPT !.out = Tail(@), !.in = Append(@, Message(req.id, kind, body))]]
    /\ UNCHANGED <<calm, msPhase, msTodo, msConn, msLock, msTask, msTools, msMine>>

\* A notification, a request of the server's own with an id of its own, an
\* answer given a second time, or a line that is not JSON.
ServerSpeaks(s) ==
    /\ msWire[s].up /\ msNoise < MaxNoise
    /\ \E kind \in {"notification", "request", "garbage", "result"}, id \in 1..3 :
          /\ kind \in {"notification", "garbage"} => id = 1
          /\ kind = "result" => id + 1 < msConn[s].nextId
          /\ msWire' = [msWire EXCEPT ![s] =
                           [@ EXCEPT !.in = Append(@, Message(id, kind, Body(<< >>, FALSE, <<"again">>)))]]
    /\ msNoise' = msNoise + 1
    /\ UNCHANGED <<msMount, msRounds, msPhase, msTodo, msConn, msLock, msTask, msTools, msMine>>

ServerEnds(s) ==
    /\ msWire[s].up /\ msNoise < MaxNoise
    /\ msWire' = [msWire EXCEPT ![s] = [@ EXCEPT !.up = FALSE, !.out = << >>]]
    /\ msNoise' = msNoise + 1
    /\ UNCHANGED <<msMount, msRounds, msPhase, msTodo, msConn, msLock, msTask, msTools, msMine>>

McpServiceNext ==
    \/ StartConnects \/ StartLists \/ StartRegisters \/ StartServing
    \/ \E t \in McpTasks : Receive(t)
    \/ \E h \in McpCallers : ForwardCall(h) \/ \E name \in McpCalls : CallComes(h, name)
    \/ MonitorLists \/ MonitorActs \/ ServiceShutdown
    \/ \E s \in McpServerSet : MonitorLooks(s) \/ ServerAnswers(s) \/ ServerSpeaks(s) \/ ServerEnds(s)
-----------------------------------------------------------------------------
(* Properties *)

\* Every variable has its type, and the lock is held exactly by the task that
\* waits for an answer after start.
McpServiceTypeOK ==
    /\ msPhase \in {"starting", "up", "stopped"}
    /\ \A s \in McpServerSet : msConn[s].state \in {"absent", "connected", "degraded"}
    /\ \A t \in McpTasks \ {"start"} : Waiting(t) <=> msLock = t

NamespacesApart == \A s, r \in McpServerSet : s # r => ~IsPrefix(NamespaceOf(s), NamespaceOf(r))

\* What a caller gets as the result of its call is what the server computed
\* for this very call, under the name the server listed, and no other server
\* is asked when the namespaces do not overlap (rpc_raw, forward_call).
ResultsAreOwn ==
    \A h \in McpCallers : msTask[h].pc = "answered" /\ msTask[h].got[1] = "result" =>
        LET s == msTask[h].got[2] IN
        /\ msTask[h].got[3] = <<RawName(s, msTask[h].what), h>>
        /\ NamespacesApart => \A r \in McpServerSet : Claims(r, msTask[h].what) => r = s

\* The cache, and so what the meta-tools answer, holds a whole listing of a
\* server or none of it, never some of its pages, whatever fails in between
\* (list_tools, discover_tools, handle_tools).
ListsAreWhole ==
    /\ \A s \in McpServerSet : msConn[s].tools \in {<< >>, Offers[s]}
    /\ \A h \in McpCallers : msTask[h].pc = "answered" /\ msTask[h].got[1] = "listed" =>
          \A s \in msTask[h].got[2] : {AvixName(s, n) : n \in Range(Offers[s])} \subseteq msTask[h].got[3]

\* A connection that failed has no process and nothing in its pipes, and one
\* that is not in use has no request outstanding and no first answer unread.
FailedAreDropped ==
    \A s \in McpServerSet :
        /\ msConn[s].state = "degraded" => msWire[s] = DeadWire
        /\ (msPhase = "up" /\ msLock = NobodyHolds) =>
              /\ msWire[s].out = << >>
              /\ \A k \in DOMAIN msWire[s].in : msWire[s].in[k].body.of = <<"again">>

\* Together: the bridge gives every caller its own answer.
WireIsKept == ResultsAreOwn /\ ListsAreWhole /\ FailedAreDropped
=============================================================================
