----------------------------- MODULE KernelApi -----------------------------
(***************************************************************************)
(* The path of one command from a front end to the kernel and back: the    *)
(* commands of the desktop app, the web app, the terminal UI and the       *)
(* command line, the client core's functions that turn them into ATP       *)
(* frames, the gateway's checks and domain handlers, the kernel's request  *)
(* dispatcher, and what the front end shows of the reply.  Effects on      *)
(* processes and sessions are one step each here; AgentExecutor and        *)
(* Sessions take the same handlers apart, store access by store access.    *)
(***************************************************************************)
EXTENDS Naturals, Sequences, FiniteSets, TLC

CONSTANTS
    Askers,      \* people with a connection, each with a Role and a session of their own
    RoleOf,      \* Askers -> the rank of their Role
    ApiPids,     \* PIDs that may exist
    ApiSessions, \* session ids that may exist
    UsesOf,      \* the names of the commands that some askers keep to
    Initially    \* initial kernel states: records of table, running and sessions

VARIABLES
    request,    \* asker -> the command under way and where it is
    expired,    \* asker -> the token of its connection has expired
    table,      \* process table: PID -> status ("none" when there is no entry)
    running,    \* PIDs whose executor takes signals
    invoked,    \* invocation store: PID -> its record, kept when the run is over
    stored,     \* session store: id -> record
    packages,   \* installed packages <<kind, whose>>
    effects     \* what the kernel did, in order: [by, verb, on]

kernelState == <<table, running, invoked, stored, packages>>
apiVars == <<request, expired, kernelState, effects>>

Guest == 0
User == 1
Operator == 2
Admin == 3

NoRecord == [owner |-> "", status |-> "absent", pids |-> {}, lead |-> ""]
NewRecord(user, p) == [owner |-> user, status |-> "running", pids |-> {p}, lead |-> p]
NotInvoked == [user |-> "", session |-> "", over |-> FALSE]

-----------------------------------------------------------------------------
(* Client core: one ATP command per function.  A body is a function from   *)
(* field names to values; a field that is not there reads as absent.       *)

Cmd(domain, op, body) == [domain |-> domain, op |-> op, body |-> body]
Field(body, f, absent) == IF f \in DOMAIN body THEN body[f] ELSE absent
NoFields == [f \in {} |-> ""]

SpawnAgent(name) == Cmd("proc", "spawn", [name |-> name, goal |-> "goal"])
SendSignal(p, sig, payload) == Cmd("signal", "send", [pid |-> p, signal |-> sig, payload |-> payload])
PipeText(p) == SendSignal(p, "SIGPIPE", {"text"})
ResolveHil(p) == SendSignal(p, "SIGRESUME", {"hilId", "approvalToken", "decision"})
CoreKill(p) == SendSignal(p, "SIGKILL", {})
ListAgents == Cmd("proc", "list", NoFields)
ListInstalled(user) == Cmd("proc", "list-installed", [username |-> user])
ListInvocations(user) == Cmd("proc", "invocation-list", [username |-> user])
ListInvocationsLive(user) == Cmd("proc", "invocation-list", [username |-> user, live |-> TRUE])
GetInvocation(id) == Cmd("proc", "invocation-get", [id |-> id])
SnapshotInvocation(id) == Cmd("proc", "invocation-snapshot", [id |-> id])
GetInvocationConversation(id) == Cmd("proc", "invocation-conversation", [id |-> id])
ListInvocationsForSession(s) == Cmd("proc", "invocation-list", [session_id |-> s])
ListSessions(user) == Cmd("proc", "session-list", [username |-> user])
GetSession(s) == Cmd("proc", "session-get", [id |-> s])
FaultyDeleteSession(s) == Cmd("proc", "session-delete", [id |-> s])
DeleteSession(s) == Cmd("proc", "session-delete", [session_id |-> s])
ResumeSession(s) == Cmd("proc", "session-resume", [session_id |-> s, input |-> "input"])
ListServices == Cmd("sys", "service-list", NoFields)
ListTools == Cmd("sys", "tool-list", NoFields)
Install(op, scope) == Cmd("proc", op, [source |-> "source", scope |-> scope])
Uninstall(name, scope) == Cmd("proc", "package/uninstall-agent", [name |-> name, scope |-> scope])
SignalService(sig) == Cmd("signal", "send", [name |-> "service", signal |-> sig])

-----------------------------------------------------------------------------
(* Front ends: what each of their commands sends about PID p (whose        *)
(* invocation is named after it) or session s.  "none" names the commands  *)
(* that are answered without the server.                                   *)

AgentCommands(p) ==
    "spawn_agent" :> SpawnAgent("agent") @@ "resolve_hil" :> ResolveHil(p)
    @@ "pipe_text" :> PipeText(p) @@ "list_agents" :> ListAgents
Lists(p) ==
    "list_installed" :> ListInstalled("") @@ "list_invocations" :> ListInvocations("")
    @@ "get_invocation" :> GetInvocation(p)
    @@ "get_services" :> ListServices @@ "get_tools" :> ListTools
InstallCommands ==
    "install_agent" :> Install("package/install-agent", "user")
    @@ "install_service" :> Install("package/install-service", "system")
DesktopSessions(s) ==
    "list_installed_agents" :> ListInstalled("default")
    @@ "get_session" :> GetSession(s) @@ "resume_session" :> ResumeSession(s)
    @@ "get_session_messages" :> ListInvocationsForSession(s)

\* The web app's routes send the same but for the last group.
WebAgentCommands(p) == AgentCommands(p)
WebLists(p) == Lists(p)
WebSessions(s) ==
    "list_sessions" :> ListSessions("")
    @@ "get_session" :> GetSession(s) @@ "resume_session" :> ResumeSession(s)
    @@ "get_session_messages" :> ListInvocationsForSession(s)
WebInstalls == InstallCommands @@ "list_installed_agents" :> ListInstalled("")

TuiCommands(p) ==
    "spawn" :> SpawnAgent("agent") @@ "kill" :> CoreKill(p) @@ "hil" :> ResolveHil(p)
    @@ "catalog" :> ListInstalled("default")
    @@ "install agent" :> Install("package/install-agent", "user")
    @@ "install service" :> Install("package/install-service", "system")

AgentCli(p) ==
    "agent spawn" :> SpawnAgent("agent") @@ "agent list" :> ListAgents @@ "agent kill" :> CoreKill(p)
    @@ "agent catalog" :> ListInstalled("") @@ "agent history" :> ListInvocations("")
    @@ "agent history --live" :> ListInvocationsLive("") @@ "agent show" :> GetInvocation(p)
    @@ "agent snapshot" :> SnapshotInvocation(p) @@ "agent install" :> Install("package/install-agent", "user")
    @@ "agent uninstall" :> Uninstall("agent", "user")

SessionCli(s) ==
    "session list" :> ListSessions("") @@ "session show" :> GetSession(s)
    @@ "session resume" :> ResumeSession(s) @@ "session delete" :> DeleteSession(s)

ServiceCli ==
    "service install" :> Install("package/install-service", "system") @@ "service start" :> SignalService("SIGSTART")
    @@ "service stop" :> SignalService("SIGTERM") @@ "service restart" :> SignalService("SIGSTOP")

HilCli(p) == "hil approve" :> ResolveHil(p)

\* Operations of the protocol that no front end of the repository sends.
OtherCommands(p, s) ==
    "kill" :> Cmd("proc", "kill", [id |-> p]) @@ "stat" :> Cmd("proc", "stat", [pid |-> p])
    @@ "pause" :> Cmd("proc", "pause", [pid |-> p]) @@ "resume" :> Cmd("proc", "resume", [pid |-> p])
    @@ "setcap" :> Cmd("proc", "setcap", [pid |-> p]) @@ "wait" :> Cmd("proc", "wait", [pid |-> p])
    @@ "session-pause" :> Cmd("proc", "session-pause", [session_id |-> s])
    @@ "sigpause" :> SendSignal(p, "SIGPAUSE", {}) @@ "sigresume" :> SendSignal(p, "SIGRESUME", {})
    @@ "ready" :> Cmd("session", "ready", NoFields) @@ "cron" :> Cmd("cron", "add", NoFields)
    @@ "users" :> Cmd("users", "get", [username |-> "someone"]) @@ "crews" :> Cmd("crews", "list", NoFields)
    @@ "fs" :> Cmd("fs", "read", NoFields) @@ "snap" :> Cmd("snap", "list", NoFields)
    @@ "pipe" :> Cmd("pipe", "open", NoFields) @@ "cap" :> Cmd("cap", "inspect", NoFields)
    @@ "reload" :> Cmd("sys", "reload", NoFields)

Commands(screen, p, s) ==
    CASE screen = "desktop" -> AgentCommands(p) @@ Lists(p) @@ InstallCommands @@ DesktopSessions(s)
      [] screen = "web" -> WebAgentCommands(p) @@ WebLists(p) @@ WebSessions(s) @@ WebInstalls
      [] screen = "tui" -> TuiCommands(p)
      [] screen = "cli" -> AgentCli(p) @@ SessionCli(s) @@ ServiceCli @@ HilCli(p)
      [] screen = "other" -> OtherCommands(p, s)

FrontEnds == {"desktop", "web", "tui", "cli"}

\* The commands that take the reply's arrival for success.
IgnoresReply(screen, name) ==
    screen \in {"desktop", "web", "tui"} /\ name \in {"install_agent", "install_service", "install agent", "install service"}

-----------------------------------------------------------------------------
(* Gateway.                                                                *)

Reply(ok, code, why, body) == [ok |-> ok, code |-> code, why |-> why, body |-> body]
Ok(body) == Reply(TRUE, "", "", body)
AtpErr(code, why) == Reply(FALSE, code, why, {})
NoReply == AtpErr("", "")

DomainMinRole(domain, op) ==
    CASE domain = "proc" -> IF op = "list" THEN Guest ELSE IF op = "setcap" THEN Operator ELSE User
      [] domain = "fs" -> IF op \in {"read", "list", "stat"} THEN Guest ELSE User
      [] domain = "snap" -> IF op = "delete" THEN Operator ELSE User
      [] domain = "users" -> IF op = "list" THEN Operator ELSE IF op \in {"create", "update", "delete"} THEN Admin ELSE User
      [] domain = "crews" -> IF op \in {"create", "update", "delete", "join", "leave"} THEN Admin ELSE Guest
      [] domain = "cap" -> IF op = "inspect" THEN Operator ELSE Admin
      [] domain = "sys" -> IF op \in {"status", "logs", "service-list", "tool-list"} THEN User
                           ELSE IF op \in {"install", "uninstall", "update"} THEN Operator ELSE Admin
      [] OTHER -> User

CheckDomainRole(a, c) == RoleOf[a] >= DomainMinRole(c.domain, c.op)

\* The connections of this model come in through the user port.
CheckAdminPort(c) ==
    /\ c.domain # "cap"
    /\ c.domain = "sys" => c.op \in {"status", "logs", "service-list", "tool-list"}

\* The checks in the order of validate_cmd; GatewayAuth has those of tokens
\* and repeated ids in full.
ValidateCmd(a, c) ==
    IF expired[a] THEN AtpErr("EEXPIRED", "token expired")
    ELSE IF ~CheckDomainRole(a, c) \/ ~CheckAdminPort(c) THEN AtpErr("EPERM", "role")
    ELSE NoReply

CronOps == {"list", "add", "remove", "pause", "resume"}
SnapOps == {"list", "create", "restore", "delete"}
UsersOps == {"get", "list", "create", "update", "delete", "passwd"}
CrewsOps == {"list", "get", "create", "update", "delete", "join", "leave"}
CapOps == {"inspect", "grant", "revoke", "policy/get", "policy/set"}
SysOps == {"status", "reload", "shutdown", "restart", "logs", "install", "uninstall", "update", "service-list", "tool-list"}
PipeOps == {"open", "close", "list"}
FsOps == {"read", "write", "list", "stat", "watch", "unwatch"}
ProcOps ==
    {"list-installed", "invocation-list", "spawn", "kill", "list", "stat", "pause", "resume", "wait", "setcap",
     "invocation-get", "invocation-conversation", "invocation-snapshot",
     "message-create", "message-get", "message-list", "part-create", "part-get", "part-list"}
SessionOps ==
    "session-list" :> "session/list" @@ "session-get" :> "session/get" @@ "session-pause" :> "session/pause"
    @@ "session-resume" :> "session/resume" @@ "session-delete" :> "session/delete"
PackageOps ==
    {"package/install-agent", "package/uninstall-agent", "package/install-service", "package/uninstall-service"}
ValidSignals == {"SIGSTART", "SIGPAUSE", "SIGRESUME", "SIGKILL", "SIGSTOP", "SIGSAVE", "SIGPIPE", "SIGESCALATE"}

\* The kernel method <<domain, name>> of a command, << >> for an unknown op.
Method(c) ==
    LET plain(ops) == IF c.op \in ops THEN <<c.domain, c.op>> ELSE << >> IN
    CASE c.domain = "proc" /\ c.op \in DOMAIN SessionOps -> <<"proc", SessionOps[c.op]>>
      [] c.domain = "proc" /\ c.op \notin DOMAIN SessionOps -> plain(ProcOps \cup PackageOps)
      [] c.domain = "signal" -> plain({"send", "subscribe", "unsubscribe", "list"})
      [] c.domain = "fs" -> plain(FsOps)
      [] c.domain = "snap" -> plain(SnapOps)
      [] c.domain = "cron" -> plain(CronOps)
      [] c.domain = "users" -> plain(UsersOps)
      [] c.domain = "crews" -> plain(CrewsOps)
      [] c.domain = "cap" -> plain(CapOps)
      [] c.domain = "sys" -> plain(SysOps)
      [] c.domain = "pipe" -> plain(PipeOps)
      [] OTHER -> << >>

Defaulted(body, f, value) == IF Field(body, f, "") = "" THEN (f :> value) @@ body ELSE body

\* What the handler of proc adds to the body about the caller a.
Params(a, c) ==
    CASE c.op \in {"list-installed", "invocation-list", "session-list"} -> Defaulted(c.body, "username", a)
      [] c.op = "spawn" -> Defaulted(Defaulted(c.body, "caller", a), "session_id", "")
      [] c.op \in DOMAIN SessionOps \ {"session-list"} ->
            ("caller_identity" :> a @@ "is_privileged" :> (RoleOf[a] >= Operator)) @@ c.body
      [] c.op \in PackageOps -> ("caller_identity" :> a) @@ c.body
      [] OTHER -> c.body

\* signal::handle_send.  The server runs without a HilManager.
SendRefused(c) ==
    CASE Field(c.body, "signal", "") \notin ValidSignals -> AtpErr("EPARSE", "unknown signal")
      [] c.body.signal = "SIGRESUME" /\ "approvalToken" \in Field(c.body, "payload", {}) ->
            AtpErr("EUNAVAIL", "HIL manager not configured")
      [] OTHER -> NoReply

\* users::handle: a user may only fetch their own record.
UsersRefused(a, c) ==
    IF c.op = "get" /\ RoleOf[a] < Operator /\ Field(c.body, "username", a) # a
    THEN AtpErr("EPERM", "other user") ELSE NoReply

\* A reply the gateway gives by itself, NoReply when it calls the kernel.
GatewayReply(a, c) ==
    CASE c.domain = "session" -> IF c.op = "ready" THEN Ok({}) ELSE AtpErr("EPARSE", "unknown op")
      [] c.domain # "session" /\ Method(c) = << >> -> AtpErr("EPARSE", "unknown op")
      [] Method(c) = <<"signal", "send">> -> SendRefused(c)
      [] c.domain = "users" -> UsersRefused(a, c)
      [] OTHER -> NoReply

\* ipc_code_to_atp on a kernel error of this number and wording.
IpcCodeToAtp(num, says) ==
    CASE num = 32003 -> "ENOTFOUND"
      [] num = 32002 -> "EPERM"
      [] OTHER -> CASE says = "not found" -> "ENOTFOUND" [] says = "EPERM" -> "EPERM" [] OTHER -> "EINTERNAL"

KernelErr(num, says) == AtpErr(IpcCodeToAtp(num, says), says)

GatewayAnswers(a, r) ==
    /\ request[a].stage = "sent"
    /\ request' = [request EXCEPT ![a].stage = "replied", ![a].reply = r]
    /\ UNCHANGED <<expired, kernelState, effects>>

Validated(a) == ValidateCmd(a, request[a].cmd)

GatewayRefuses(a) == Validated(a) # NoReply /\ GatewayAnswers(a, Validated(a))

GatewayReplies(a) ==
    /\ Validated(a) = NoReply
    /\ GatewayReply(a, request[a].cmd) # NoReply
    /\ GatewayAnswers(a, GatewayReply(a, request[a].cmd))

GatewayForwards(a) ==
    /\ request[a].stage = "sent"
    /\ Validated(a) = NoReply /\ GatewayReply(a, request[a].cmd) = NoReply
    /\ request' = [request EXCEPT ![a].stage = "kernel"]
    /\ UNCHANGED <<expired, kernelState, effects>>

-----------------------------------------------------------------------------
(* Kernel: dispatch_request.                                               *)

MethodOf(a) == Method(request[a].cmd)
ParamsOf(a) == Params(a, request[a].cmd)
AtKernel(a, methods) == request[a].stage = "kernel" /\ MethodOf(a) \in methods
ParamPid(a) == Field(ParamsOf(a), "id", Field(ParamsOf(a), "pid", ""))
ParamSession(a) == Field(ParamsOf(a), IF MethodOf(a)[2] = "session/get" THEN "id" ELSE "session_id", "")

Answers(a, r) == request' = [request EXCEPT ![a].stage = "replied", ![a].reply = r]
Does(a, verb, on) == effects' = Append(effects, [by |-> a, verb |-> verb, on |-> on])

ActiveSession(p) == IF p = "" \/ invoked[p].over THEN "" ELSE invoked[p].session
SessionRecordOf(p) == IF ActiveSession(p) = "" THEN NoRecord ELSE stored[ActiveSession(p)]

\* pause_agent and resume_agent: the lead of a session takes the others
\* along, and an unknown PID is no error.
Mark(ps, status) == table' = [p \in ApiPids |-> IF p \in ps /\ table[p] # "none" THEN status ELSE table[p]]
StoreStatus(ss, status) ==
    stored' = [s \in ApiSessions |-> IF s \in ss /\ stored[s] # NoRecord THEN [stored[s] EXCEPT !.status = status] ELSE stored[s]]

PausesAgent(p) ==
    LET leads == SessionRecordOf(p) # NoRecord /\ SessionRecordOf(p).lead = p IN
    /\ Mark({p} \cup (IF leads THEN SessionRecordOf(p).pids ELSE {}), "paused")
    /\ StoreStatus(IF leads THEN {ActiveSession(p)} ELSE {}, "paused")
    /\ UNCHANGED <<running, invoked, packages>>

ResumesAgents(ps) ==
    LET woken == {p \in ps : SessionRecordOf(p).status = "paused"} IN
    /\ Mark(ps \cup UNION {SessionRecordOf(p).pids : p \in woken}, "running")
    /\ StoreStatus({ActiveSession(p) : p \in woken}, "running")
    /\ UNCHANGED <<running, invoked, packages>>

\* spawn, with resolve_session_from_id: "" opens a session of the caller's.
Spawns(p, s, user) ==
    /\ table[p] = "none"
    /\ table' = [table EXCEPT ![p] = "running"]
    /\ running' = running \cup {p}
    /\ \E t \in ApiSessions :
          /\ IF s = "" THEN stored[t] = NoRecord /\ \A o \in ApiPids : invoked[o].session # t ELSE t = s
          /\ stored' = IF s = "" THEN [stored EXCEPT ![t] = NewRecord(user, p)]
                        ELSE IF stored[s] = NoRecord THEN stored ELSE [stored EXCEPT ![s].pids = @ \cup {p}]
          /\ invoked' = [invoked EXCEPT ![p] = [user |-> user, session |-> t, over |-> FALSE]]
    /\ UNCHANGED packages

KernelSpawns(a, p) ==
    /\ AtKernel(a, {<<"proc", "spawn">>})
    /\ Spawns(p, ParamsOf(a).session_id, ParamsOf(a).caller)
    /\ Answers(a, Ok({p})) /\ Does(a, "spawn", Field(ParamsOf(a), "name", "unnamed"))
    /\ UNCHANGED expired

\* The lists and look-ups.
Listed(a) ==
    CASE MethodOf(a) = <<"proc", "list">> -> Ok({p \in ApiPids : table[p] # "none"})
      [] MethodOf(a) = <<"proc", "list-installed">> -> Ok({k \in packages : k[1] = "agent" /\ k[2] \in {"system", ParamsOf(a).username}})
      [] MethodOf(a) = <<"proc", "invocation-list">> ->
            Ok({p \in ApiPids :
                  IF Field(ParamsOf(a), "session_id", "") # "" THEN invoked[p].session = ParamsOf(a).session_id
                  ELSE invoked[p].user = ParamsOf(a).username /\ (Field(ParamsOf(a), "live", TRUE) \/ invoked[p].over)})
      [] MethodOf(a) = <<"proc", "invocation-conversation">> -> Ok({Field(ParamsOf(a), "id", "")})
      [] MethodOf(a) = <<"proc", "invocation-get">> ->
            IF invoked[ParamsOf(a).id] = NotInvoked THEN KernelErr(32003, "not found") ELSE Ok({ParamsOf(a).id})
      [] MethodOf(a) = <<"proc", "session/list">> -> Ok({s \in ApiSessions : stored[s].owner = ParamsOf(a).username})
      [] MethodOf(a) = <<"proc", "stat">> ->
            IF ParamPid(a) = "" \/ table[ParamPid(a)] = "none" THEN KernelErr(32003, "not found") ELSE Ok({ParamPid(a)})
      [] OTHER -> Ok({})

Lookups ==
    {"proc"} \X {"list", "list-installed", "invocation-list", "invocation-conversation", "invocation-get",
                 "session/list", "stat", "wait", "setcap"}
    \cup {"sys"} \X {"service-list", "tool-list"}

KernelLists(a) ==
    /\ AtKernel(a, Lookups)
    /\ Answers(a, Listed(a))
    /\ UNCHANGED <<expired, kernelState, effects>>

\* finalize_invocation: the session loses the PID and fails with its lead.
Finalized(p) ==
    /\ table' = [table EXCEPT ![p] = "stopped"]
    /\ running' = running \ {p}
    /\ invoked' = [invoked EXCEPT ![p].over = TRUE]
    /\ stored' = IF SessionRecordOf(p) = NoRecord THEN stored
                 ELSE [stored EXCEPT ![ActiveSession(p)].pids = @ \ {p},
                                     ![ActiveSession(p)].status = IF p = SessionRecordOf(p).lead THEN "failed" ELSE @]
    /\ UNCHANGED packages

\* abort_agent, then kill_proc.
KernelKills(a) ==
    /\ AtKernel(a, {<<"proc", "kill">>})
    /\ IF ParamPid(a) = "" \/ table[ParamPid(a)] = "none"
       THEN Answers(a, KernelErr(32003, "invalid pid")) /\ UNCHANGED <<kernelState, effects>>
       ELSE Finalized(ParamPid(a)) /\ Answers(a, Ok({})) /\ Does(a, "kill", ParamPid(a))
    /\ UNCHANGED expired

\* An executor that was sent SIGKILL ends by itself.
KilledEnds(p) ==
    /\ p \in running
    /\ \E i \in DOMAIN effects : effects[i].verb = "SIGKILL" /\ effects[i].on = p
    /\ Finalized(p)
    /\ UNCHANGED <<request, expired, effects>>

KernelPauses(a) ==
    /\ AtKernel(a, {<<"proc", "pause">>})
    /\ PausesAgent(ParamPid(a))
    /\ Answers(a, Ok({})) /\ Does(a, "pause", ParamPid(a))
    /\ UNCHANGED expired

KernelResumes(a) ==
    /\ AtKernel(a, {<<"proc", "resume">>})
    /\ ResumesAgents({ParamPid(a)})
    /\ Answers(a, Ok({})) /\ Does(a, "resume", ParamPid(a))
    /\ UNCHANGED expired

KernelSnapshots(a) ==
    /\ AtKernel(a, {<<"proc", "invocation-snapshot">>})
    /\ LET i == ParamsOf(a).id IN
       IF invoked[i] = NotInvoked \/ invoked[i].over
       THEN /\ Answers(a, IF invoked[i].over THEN KernelErr(32001, "finalized") ELSE KernelErr(32003, "not found"))
            /\ UNCHANGED effects
       ELSE Answers(a, Ok({i})) /\ Does(a, "snapshot", i)
    /\ UNCHANGED <<expired, kernelState>>

\* kernel/signal/send and SignalHandler::send_signal.
KernelSignals(a) ==
    /\ AtKernel(a, {<<"signal", "send">>})
    /\ LET p == Field(ParamsOf(a), "pid", "")  sig == ParamsOf(a).signal IN
       \/ /\ p = "" /\ Answers(a, KernelErr(32602, "missing pid")) /\ UNCHANGED <<kernelState, effects>>
       \/ /\ p # "" /\ sig = "SIGPAUSE" /\ PausesAgent(p)
          /\ Answers(a, Ok({})) /\ Does(a, sig, p)
       \/ /\ p # "" /\ sig = "SIGRESUME" /\ ResumesAgents({p})
          /\ Answers(a, Ok({})) /\ Does(a, sig, p)
       \/ /\ p \in running /\ sig \notin {"SIGPAUSE", "SIGRESUME"}
          /\ Answers(a, Ok({})) /\ Does(a, sig, p) /\ UNCHANGED kernelState
       \/ /\ p \in ApiPids \ running /\ sig \notin {"SIGPAUSE", "SIGRESUME"}
          /\ Answers(a, KernelErr(32000, "not found")) /\ UNCHANGED <<kernelState, effects>>
    /\ UNCHANGED expired

\* The session methods look the session up and check its owner first; what
\* they then do rests on the record they read.
SessionMethods == {"proc"} \X {"session/get", "session/pause", "session/resume", "session/delete"}

SessionOwnershipOk(r, a) == ParamsOf(a).is_privileged \/ r.owner = ParamsOf(a).caller_identity

KernelLooksUp(a) ==
    /\ AtKernel(a, SessionMethods)
    /\ LET s == ParamSession(a)
           r == IF s = "" THEN NoRecord ELSE stored[s]
       IN CASE s = "" -> Answers(a, KernelErr(32002, "invalid session ID"))
            [] s # "" /\ r = NoRecord ->
                  Answers(a, IF MethodOf(a)[2] = "session/delete" THEN Ok({s}) ELSE KernelErr(32003, "not found"))
            [] r # NoRecord /\ ~SessionOwnershipOk(r, a) -> Answers(a, KernelErr(32001, "EPERM"))
            [] r # NoRecord /\ SessionOwnershipOk(r, a) /\ MethodOf(a)[2] = "session/get" -> Answers(a, Ok({s}))
            [] OTHER -> request' = [request EXCEPT ![a].stage = "checked", ![a].seen = r]
    /\ UNCHANGED <<expired, kernelState, effects>>

Checked(a, name) == request[a].stage = "checked" /\ MethodOf(a)[2] = name

KernelPausesSession(a) ==
    /\ Checked(a, "session/pause")
    /\ PausesAgent(request[a].seen.lead)
    /\ Answers(a, Ok({})) /\ Does(a, "session/pause", ParamSession(a))
    /\ UNCHANGED expired

KernelDeletesSession(a) ==
    /\ Checked(a, "session/delete")
    /\ stored' = [stored EXCEPT ![ParamSession(a)] = NoRecord]
    /\ Answers(a, Ok({})) /\ Does(a, "session/delete", ParamSession(a))
    /\ UNCHANGED <<expired, table, running, invoked, packages>>

\* ProcHandler::resume_session reads the session again.
SpawnsInSession(a, p) ==
    LET r == stored[ParamSession(a)] IN
    IF r.status \in {"idle", "running", "paused"}
    THEN Spawns(p, ParamSession(a), r.owner) /\ Answers(a, Ok({p})) /\ Does(a, "session/resume", ParamSession(a))
    ELSE /\ Answers(a, KernelErr(32000, IF r = NoRecord THEN "not found" ELSE "status"))
         /\ UNCHANGED <<kernelState, effects>>

KernelResumesSession(a, p) ==
    /\ Checked(a, "session/resume")
    /\ LET seen == request[a].seen IN
       IF seen.status = "paused" /\ seen.pids # {}
       THEN ResumesAgents(seen.pids) /\ Answers(a, Ok({})) /\ Does(a, "session/resume", ParamSession(a))
       ELSE IF seen.status = "idle" /\ seen.pids # {} /\ seen.lead \in running
       THEN Answers(a, Ok({seen.lead})) /\ Does(a, "session/resume", ParamSession(a)) /\ UNCHANGED kernelState
       ELSE SpawnsInSession(a, p)
    /\ UNCHANGED expired

\* The package methods: Installer has their steps, here they succeed or not.
Package(a) ==
    CASE MethodOf(a)[2] \in {"package/install-agent", "package/uninstall-agent"} ->
            <<"agent", IF ParamsOf(a).scope = "user" THEN ParamsOf(a).caller_identity ELSE "system">>
      [] OTHER -> <<"service", "system">>

KernelPackages(a, ok) ==
    /\ AtKernel(a, {"proc"} \X PackageOps)
    /\ LET k == Package(a)  install == MethodOf(a)[2] \in {"package/install-agent", "package/install-service"} IN
       IF ok /\ (install <=> k \notin packages)
       THEN /\ packages' = IF install THEN packages \cup {k} ELSE packages \ {k}
            /\ Answers(a, Ok({k})) /\ Does(a, MethodOf(a)[2], k)
       ELSE Answers(a, KernelErr(32000, "failed")) /\ UNCHANGED <<packages, effects>>
    /\ UNCHANGED <<expired, table, running, invoked, stored>>

KernelMethods ==
    Lookups \cup SessionMethods \cup ({"proc"} \X PackageOps)
    \cup {"proc"} \X {"spawn", "kill", "pause", "resume", "invocation-snapshot",
                      "message-create", "message-get", "message-list", "part-create", "part-get", "part-list"}
    \cup {<<"signal", "send">>}

KernelUnknown(a) ==
    /\ request[a].stage = "kernel" /\ MethodOf(a) \notin KernelMethods
    /\ Answers(a, KernelErr(32601, "unknown method"))
    /\ UNCHANGED <<expired, kernelState, effects>>

-----------------------------------------------------------------------------
(* The asker.                                                              *)

PidNames ==
    {"resolve_hil", "pipe_text", "get_invocation", "kill", "hil", "agent kill", "agent show", "agent snapshot",
     "hil approve", "stat", "pause", "resume", "setcap", "wait", "sigpause", "sigresume"}
SessionNames ==
    {"get_session", "resume_session", "get_session_messages", "session show", "session resume", "session delete",
     "session-pause"}
NamedBy(name, p, s) == IF name \in PidNames THEN p ELSE IF name \in SessionNames THEN s ELSE ""

NoRequest ==
    [stage |-> "idle", screen |-> "", name |-> "", about |-> "", cmd |-> Cmd("", "", NoFields),
     seen |-> NoRecord, reply |-> NoReply, retried |-> FALSE, shown |-> ""]

\* People name ids that they have seen: of agents that ran and of sessions
\* that exist or had one of them.  The command line logs in for every command.
Known(p, s) == table[p] # "none" /\ (stored[s] # NoRecord \/ \E o \in ApiPids : invoked[o].session = s)

Asks(a, screen, p, s) ==
    /\ request[a] = NoRequest /\ Known(p, s)
    /\ \E name \in {n \in DOMAIN Commands(screen, p, s) : a \in DOMAIN UsesOf => n \in UsesOf[a]} :
          request' = [request EXCEPT ![a] = [NoRequest EXCEPT
              !.stage = "sent", !.screen = screen, !.name = name, !.about = NamedBy(name, p, s),
              !.cmd = Commands(screen, p, s)[name]]]
    /\ expired' = [expired EXCEPT ![a] = @ /\ screen # "cli"]
    /\ UNCHANGED <<kernelState, effects>>

\* invoke_handler tries again after a reconnection, once and only then.
WantsRetry(a) ==
    /\ request[a].stage = "replied" /\ request[a].screen = "web" /\ ~request[a].retried
    /\ request[a].reply.code = "EEXPIRED" /\ ~IgnoresReply("web", request[a].name)

WebRetries(a) ==
    /\ WantsRetry(a)
    /\ expired' = [expired EXCEPT ![a] = FALSE]
    /\ request' = [request EXCEPT ![a].stage = "sent", ![a].reply = NoReply, ![a].retried = TRUE]
    /\ UNCHANGED <<kernelState, effects>>

WebGivesUp(a) ==
    /\ WantsRetry(a)
    /\ request' = [request EXCEPT ![a].stage = "shown", ![a].shown = "error"]
    /\ UNCHANGED <<expired, kernelState, effects>>

Shows(a) ==
    /\ request[a].stage = "replied" /\ ~WantsRetry(a)
    /\ LET r == request[a].reply  n == request[a].name IN
       request' = [request EXCEPT ![a].stage = "shown", ![a].shown =
           IF r.ok \/ IgnoresReply(request[a].screen, n) THEN "done"
           ELSE IF r.code = "ENOTFOUND" /\ n \in {"get_invocation", "get_session", "agent show"} THEN "nothing"
           ELSE "error"]
    /\ UNCHANGED <<expired, kernelState, effects>>

-----------------------------------------------------------------------------
KernelApiInit ==
    /\ request = [a \in Askers |-> NoRequest]
    /\ expired \in [Askers -> BOOLEAN]
    /\ \E k \in Initially :
          table = k.table /\ running = k.running /\ invoked = k.invoked /\ stored = k.stored
    /\ packages = {}
    /\ effects = << >>

KernelStep(a) ==
    \/ KernelLists(a) \/ KernelKills(a) \/ KernelPauses(a) \/ KernelResumes(a) \/ KernelSnapshots(a)
    \/ KernelSignals(a) \/ KernelLooksUp(a) \/ KernelPausesSession(a) \/ KernelDeletesSession(a)
    \/ KernelUnknown(a)
    \/ \E p \in ApiPids : KernelSpawns(a, p) \/ KernelResumesSession(a, p)
    \/ \E ok \in BOOLEAN : KernelPackages(a, ok)

KernelApiNext ==
    \/ \E a \in Askers :
          \/ request[a] = NoRequest /\ \E screen \in FrontEnds \cup {"other"}, p \in ApiPids, s \in ApiSessions : Asks(a, screen, p, s)
          \/ GatewayRefuses(a) \/ GatewayReplies(a) \/ GatewayForwards(a)
          \/ KernelStep(a)
          \/ WebRetries(a) \/ WebGivesUp(a) \/ Shows(a)
    \/ \E p \in ApiPids : KilledEnds(p)

KernelApiSpec == KernelApiInit /\ [][KernelApiNext]_apiVars

-----------------------------------------------------------------------------
\* Requests, process table and stores have their types; an agent that takes
\* signals has a table entry and an invocation that is not over
\* (AgentManager::spawn, finalize_invocation).
KernelApiTypeOK ==
    /\ \A a \in Askers :
          /\ request[a].stage \in {"idle", "sent", "kernel", "checked", "replied", "shown"}
          /\ request[a].shown \in {"", "done", "nothing", "error"}
          /\ request[a].seen.status \in {"absent", "running", "paused", "idle", "failed", "completed"}
    /\ table \in [ApiPids -> {"none", "running", "paused", "stopped"}]
    /\ running \subseteq {p \in ApiPids : table[p] # "none" /\ invoked[p] # NotInvoked /\ ~invoked[p].over}
    /\ \A s \in ApiSessions : stored[s].pids \subseteq ApiPids

\* What a front end sends is understood: the gateway knows the operation and
\* the kernel the method, and the kernel finds the PID or session id in the
\* parameters under the name it looks for.  (The command line's service
\* start, stop and restart, which name a service where the kernel wants a
\* PID, are left out; see the README.)
CommandsAreUnderstood ==
    \A a \in Askers :
        request[a].screen \in FrontEnds /\ request[a].name \notin {"service start", "service stop", "service restart"} =>
            request[a].reply.why \notin {"unknown op", "unknown method", "unknown signal", "missing pid", "invalid session ID"}

\* The kernel acts on what the person named, at most once for each command,
\* also when the web app sends it again after its session expired.
ActsOnceOnWhatWasNamed ==
    /\ \A i \in DOMAIN effects :
          LET e == effects[i]  r == request[e.by] IN
          r.name \in PidNames \cup SessionNames => e.on = r.about
    /\ \A i, j \in DOMAIN effects : effects[i].by = effects[j].by => i = j

\* Sessions are shown, paused, resumed and deleted only for their owner or
\* an operator (session_ownership_ok), whatever happens between the check
\* and the action.  (Deleting a session that is gone is answered with ok.)
OnlyForOwners(ownedBy) ==
    \A a \in Askers :
        /\ request[a].name \in SessionNames \ {"get_session_messages"}
        /\ RoleOf[a] < Operator
        /\ request[a].about \notin ownedBy[a]
        => /\ request[a].reply.ok => request[a].cmd.op = "session-delete"
           /\ \A i \in DOMAIN effects : effects[i].by # a

\* A command that changes something and is shown as done was done, and one
\* that is shown as failed changed nothing.  The install commands of the
\* desktop, web and terminal applications, which do not look at the reply,
\* keep only the second half.
ShownIsTrue ==
    \A a \in Askers :
        LET acted == \E i \in DOMAIN effects : effects[i].by = a
            r == request[a]
        IN /\ r.shown \in {"error", "nothing"} => ~acted
           /\ /\ r.shown = "done" /\ r.screen \in FrontEnds /\ ~IgnoresReply(r.screen, r.name)
              /\ Method(r.cmd) \notin Lookups \cup {<<"proc", "session/get">>}
              => acted \/ (r.cmd.op = "session-delete" /\ stored[r.about] = NoRecord)

\* A list asked for without a user name holds what belongs to the asker
\* (the gateway fills in the caller's identity).
ListsAreOwn ==
    \A a \in Askers :
        LET r == request[a] IN
        r.reply.ok /\ Field(r.cmd.body, "username", "-") = "" =>
            CASE r.cmd.op = "invocation-list" -> \A p \in r.reply.body : invoked[p].user = a
              [] r.cmd.op = "list-installed" -> \A k \in r.reply.body : k[2] \in {a, "system"}
              [] OTHER -> TRUE
=============================================================================
