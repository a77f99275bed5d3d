-------------------------------- MODULE Ipc --------------------------------
(***************************************************************************)
(* The local transport (ipc/): a client opens a connection per call and    *)
(* gives up after its time-out; a server owns a socket file, hands every   *)
(* connection to a task of its own, and on cancellation stops accepting    *)
(* and waits for the tasks.  The exec service (exec_svc), which runs a     *)
(* child process per request under a time-out of its own, is the handler   *)
(* that is followed to its end; any other handler just answers.            *)
(***************************************************************************)
EXTENDS Naturals, FiniteSets

CONSTANTS
  IpcCalls,      \* calls of the clients
  IpcServers,    \* servers of the one path, 1..n in the order they bind it
  KindsOf,       \* call |-> the kinds of message it may be
  MaxIpcEvents,  \* bound: binds, cancellations, dropped handles and crashes
  NoReply

VARIABLES
  ipSocket,      \* the server whose socket the path leads to, 0 without a file
  ipServer,      \* server |-> its state and whether it is told to stop
  ipEvents,      \* those so far
  ipCall,        \* call |-> the client's side
  ipConn         \* call |-> the server's side

ipcVars == <<ipSocket, ipServer, ipEvents, ipCall, ipConn>>

\* What the client puts on the connection: a request of the exec service or
\* of another, one with a value that is not a message, a notification, a
\* message above the frame limit (of which encode sends nothing).
MessageKinds == {"exec", "request", "malformed", "notification", "oversize"}

ASSUME IpcAssumption ==
  /\ IpcServers \subseteq Nat \ {0}
  /\ \A c \in IpcCalls : KindsOf[c] \subseteq MessageKinds
  /\ MaxIpcEvents \in Nat
  /\ NoReply \notin IpcCalls \X {"ok", "error"}

IdleCall == [pc |-> "idle", kind |-> "request", reply |-> NoReply]
NoConnection == [pc |-> "none", srv |-> 0, ran |-> 0, child |-> "none", reply |-> NoReply]

IpcInit ==
  /\ ipSocket = 0
  /\ ipEvents = 0
  /\ ipServer = [s \in IpcServers |-> [pc |-> "off", handle |-> FALSE, stop |-> FALSE]]
  /\ ipCall = [c \in IpcCalls |-> IdleCall]
  /\ ipConn = [c \in IpcCalls |-> NoConnection]

-----------------------------------------------------------------------------
(* The server.                                                             *)

IpcEvent == ipEvents < MaxIpcEvents /\ ipEvents' = ipEvents + 1

\* IpcServer::bind removes whatever socket is at the path, of a former run or
\* of a server that still lives, and then binds, which may fail.
Bind(s, ok) ==
  /\ IpcEvent
  /\ ipServer[s].pc = "off" /\ \A r \in 1..(s - 1) : ipServer[r].pc # "off"
  /\ ipSocket' = IF ok THEN s ELSE 0
  /\ ipServer' = [ipServer EXCEPT ![s] = IF ok THEN [pc |-> "serving", handle |-> TRUE, stop |-> FALSE]
                                         ELSE [@ EXCEPT !.pc = "ended"]]
  /\ UNCHANGED <<ipCall, ipConn>>

\* IpcServerHandle::cancel, which the holder of the handle may call ...
Cancel(s) ==
  /\ IpcEvent
  /\ ipServer[s].handle /\ ~ipServer[s].stop
  /\ ipServer' = [ipServer EXCEPT ![s].stop = TRUE]
  /\ UNCHANGED <<ipSocket, ipCall, ipConn>>

\* ... or drop: the watch channel is closed, of which the loop takes no
\* notice but that changed() is ready each time round.
DropHandle(s) ==
  /\ IpcEvent
  /\ ipServer[s].handle
  /\ ipServer' = [ipServer EXCEPT ![s].handle = FALSE]
  /\ UNCHANGED <<ipSocket, ipCall, ipConn>>

\* serve and serve_bidir: the loop takes a connection ...
Accept(c) ==
  /\ ipConn[c].pc = "backlog" /\ ipServer[ipConn[c].srv].pc = "serving"
  /\ ipConn' = [ipConn EXCEPT ![c].pc = "reading"]
  /\ UNCHANGED <<ipEvents, ipSocket, ipServer, ipCall>>

\* ... or sees the cancellation, and leaves the loop ...
SeesCancel(s) ==
  /\ ipServer[s].pc = "serving" /\ ipServer[s].stop
  /\ ipServer' = [ipServer EXCEPT ![s].pc = "draining"]
  /\ UNCHANGED <<ipEvents, ipSocket, ipCall, ipConn>>

InFlight(s) == {c \in IpcCalls : ipConn[c].srv = s /\ ipConn[c].pc \in {"reading", "handling"}}

\* Its connections that nobody took are closed with the listener, the others
\* with their tasks: who waits on one reads an end of file.
CloseServer(s, gone, how) ==
  /\ ipConn' = [c \in IpcCalls |-> IF c \in gone THEN [ipConn[c] EXCEPT !.pc = "closed"] ELSE ipConn[c]]
  /\ ipCall' = [c \in IpcCalls |-> IF c \in gone /\ ipCall[c].pc = "waiting" THEN [ipCall[c] EXCEPT !.pc = "failed"] ELSE ipCall[c]]
  /\ ipServer' = [ipServer EXCEPT ![s] = [pc |-> how, handle |-> FALSE, stop |-> FALSE]]
  /\ UNCHANGED ipSocket

Backlog(s) == {c \in IpcCalls : ipConn[c].srv = s /\ ipConn[c].pc = "backlog"}

\* A slip: the tasks are dropped with the set that holds them.
DrainDropped(s) ==
  /\ ipServer[s].pc = "draining"
  /\ CloseServer(s, Backlog(s) \cup InFlight(s), "ended")
  /\ UNCHANGED ipEvents

\* ... and returns when every task has ended.  The socket file stays.
Drain(s) ==
  /\ ipServer[s].pc = "draining" /\ InFlight(s) = {}
  /\ CloseServer(s, Backlog(s), "ended")
  /\ UNCHANGED ipEvents

\* The process ends at any point; the socket file and the children stay.
CrashServer(s) ==
  /\ IpcEvent
  /\ ipServer[s].pc \in {"serving", "draining"}
  /\ CloseServer(s, Backlog(s) \cup InFlight(s), "killed")

-----------------------------------------------------------------------------
(* A connection's task.                                                    *)

\* frame::read_from: a frame that ends early or is no value is an error.
Framed(kind) == kind # "oversize"

\* IpcMessage::from_value: with a member "id" it is a request or nothing,
\* without one a notification or nothing.
MessageOf(kind) ==
  CASE kind \in {"exec", "request"} -> "request" [] kind = "notification" -> "notification" [] OTHER -> "none"

\* What is no message is logged and the connection closed; otherwise the
\* handler is called.
ReadMessage(c) ==
  LET kind == ipCall[c].kind IN
  /\ ipConn[c].pc = "reading"
  /\ IF ~Framed(kind) \/ MessageOf(kind) = "none"
     THEN /\ ipConn' = [ipConn EXCEPT ![c].pc = "closed"]
          /\ ipCall' = [ipCall EXCEPT ![c].pc = IF @ = "waiting" THEN "failed" ELSE @]
     ELSE /\ ipConn' = [ipConn EXCEPT ![c].pc = "handling", ![c].ran = @ + 1]
          /\ UNCHANGED ipCall
  /\ UNCHANGED <<ipEvents, ipSocket, ipServer>>

\* write_to on what may be a connection nobody reads any more; a reply above
\* the limit is not sent.
Reply(c, r, fits) ==
  /\ ipConn' = [ipConn EXCEPT ![c].pc = IF fits THEN "replied" ELSE "closed", ![c].reply = r]
  /\ ipCall' = [ipCall EXCEPT ![c].pc = IF @ = "waiting" /\ ~fits THEN "failed" ELSE @]
  /\ UNCHANGED <<ipEvents, ipSocket, ipServer>>

\* Any other handler: an answer to a request, none to a notification.
Handle(c, fits) ==
  /\ ipConn[c].pc = "handling" /\ ipCall[c].kind # "exec"
  /\ IF MessageOf(ipCall[c].kind) = "notification"
     THEN ~fits /\ Reply(c, NoReply, FALSE)
     ELSE Reply(c, <<c, "ok">>, fits)

\* exec/run starts the child of a known runtime ...
ExecStarts(c) ==
  /\ ipConn[c].pc = "handling" /\ ipCall[c].kind = "exec" /\ ipConn[c].child = "none"
  /\ ipConn' = [ipConn EXCEPT ![c].child = "running"]
  /\ UNCHANGED <<ipEvents, ipSocket, ipServer, ipCall>>

\* ... or refuses: an unknown runtime, or a program that cannot be started.
ExecRefuses(c) ==
  /\ ipConn[c].pc = "handling" /\ ipCall[c].kind = "exec" /\ ipConn[c].child = "none"
  /\ Reply(c, <<c, "error">>, TRUE)

ChildExits(c) ==
  /\ ipConn[c].child = "running"
  /\ ipConn' = [ipConn EXCEPT ![c].child = "exited"]
  /\ UNCHANGED <<ipEvents, ipSocket, ipServer, ipCall>>

\* A slip: the answer is given as soon as the child runs.
ExecAnswersEarly(c, fits) ==
  /\ ipConn[c].pc = "handling" /\ ipConn[c].child \in {"running", "exited"}
  /\ Reply(c, <<c, "ok">>, fits)

\* The output of a child that exited is the answer ...
ExecAnswers(c, fits) ==
  /\ ipConn[c].pc = "handling" /\ ipConn[c].child = "exited"
  /\ Reply(c, <<c, "ok">>, fits)

\* ... and after the exec time-out an error, with the child left running.
ExecTimesOut(c) ==
  /\ ipConn[c].pc = "handling" /\ ipConn[c].child = "running"
  /\ Reply(c, <<c, "error">>, TRUE)

-----------------------------------------------------------------------------
(* The client.                                                             *)

\* IpcClient::call and notify open a connection to whoever listens and write
\* the frame; notify does not wait.
DialCall(c, kind) ==
  LET live == ipSocket # 0 /\ ipServer[ipSocket].pc \in {"serving", "draining"} IN
  /\ ipCall[c].pc = "idle"
  /\ ipCall' = [ipCall EXCEPT ![c] = [pc |-> CASE ~live \/ ~Framed(kind) -> "failed"
                                               [] kind = "notification" -> "sent"
                                               [] OTHER -> "waiting",
                                      kind |-> kind, reply |-> NoReply]]
  /\ ipConn' = IF live THEN [ipConn EXCEPT ![c].pc = "backlog", ![c].srv = ipSocket] ELSE ipConn
  /\ UNCHANGED <<ipEvents, ipSocket, ipServer>>

Receive(c) ==
  /\ ipCall[c].pc = "waiting" /\ ipConn[c].pc = "replied"
  /\ ipCall' = [ipCall EXCEPT ![c].pc = "answered", ![c].reply = ipConn[c].reply]
  /\ ipConn' = [ipConn EXCEPT ![c].pc = "closed"]
  /\ UNCHANGED <<ipEvents, ipSocket, ipServer>>

\* The time-out may come at any moment, also when the reply is on its way.
TimeOut(c) ==
  /\ ipCall[c].pc = "waiting"
  /\ ipCall' = [ipCall EXCEPT ![c].pc = "timeout"]
  /\ UNCHANGED <<ipEvents, ipSocket, ipServer, ipConn>>

IpcNext ==
  \/ \E s \in IpcServers :
       \/ \E ok \in BOOLEAN : Bind(s, ok)
       \/ Cancel(s) \/ DropHandle(s) \/ SeesCancel(s) \/ Drain(s) \/ CrashServer(s)
  \/ \E c \in IpcCalls :
       \/ \E kind \in KindsOf[c] : DialCall(c, kind)
       \/ Accept(c) \/ ReadMessage(c) \/ ExecStarts(c) \/ ExecRefuses(c) \/ ChildExits(c) \/ ExecTimesOut(c)
       \/ Receive(c) \/ TimeOut(c)
       \/ \E fits \in BOOLEAN : ExecAnswers(c, fits) \/ Handle(c, fits)

IpcSpec == IpcInit /\ [][IpcNext]_ipcVars

-----------------------------------------------------------------------------
\* Servers, calls and connections are in one of their states.
IpcTypeOK ==
  /\ ipSocket \in IpcServers \cup {0}
  /\ ipEvents \in 0..MaxIpcEvents
  /\ ipServer \in [IpcServers -> [pc : {"off", "serving", "draining", "ended", "killed"}, handle : BOOLEAN, stop : BOOLEAN]]
  /\ \A c \in IpcCalls :
       /\ ipCall[c].pc \in {"idle", "waiting", "sent", "answered", "timeout", "failed"}
       /\ ipCall[c].kind \in MessageKinds
       /\ ipConn[c].pc \in {"none", "backlog", "reading", "handling", "replied", "closed"}
       /\ ipConn[c].srv \in IpcServers \cup {0}
       /\ ipConn[c].child \in {"none", "running", "exited"}

\* A call is handled at most once, whatever became of it for the client; who
\* has an answer has the one to its own request, whose handler ran, and a
\* good answer of the exec service means that the child has exited.
AnswersAreOwn ==
  \A c \in IpcCalls :
    /\ ipConn[c].ran <= 1
    /\ ipCall[c].pc = "answered" =>
         /\ ipConn[c].ran = 1
         /\ ipCall[c].reply \in {c} \X {"ok", "error"}
         /\ ipCall[c].kind = "exec" /\ ipCall[c].reply[2] = "ok" => ipConn[c].child = "exited"

\* A server that was cancelled has answered every request it had begun on
\* (serve waits for its JoinSet), and no task outlives its server.
BegunIsAnswered ==
  \A c \in IpcCalls :
    LET srv == ipConn[c].srv IN
    srv # 0 =>
    /\ ipConn[c].pc \in {"backlog", "reading", "handling"} => ipServer[srv].pc \in {"serving", "draining"}
    /\ ipConn[c].ran = 1 /\ ipServer[srv].pc = "ended" /\ ipCall[c].kind # "notification" =>
         ipConn[c].reply # NoReply

\* Both together.
IpcIsKept == AnswersAreOwn /\ BegunIsAnswered

=============================================================================
