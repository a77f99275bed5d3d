------------------------------ MODULE MCTasks ------------------------------
(***************************************************************************)
(* Model-checking module of the components that are tasks, timers and      *)
(* loops, with what they must eventually do.  As in MCRecords, in a        *)
(* behaviour the part in focus takes steps and the others stay as they     *)
(* began.  Sessions and EventBus are here for the boot that must come to   *)
(* its end and the pump that must keep up.                                 *)
(***************************************************************************)
EXTENDS Jobs, Pipes, HumanInLoop, Services, McpBridge, Clients, LlmService, Cron, Sessions,
        EventBus, LlmStream, AgentTools, Memory, Vfs, Workspace, Ipc, Boot

CONSTANT InFocus  \* the parts that a run looks at

VARIABLE focus

TaskParts == {"jobs", "pipes", "hil", "services", "mcp", "client", "llm", "cron", "tui", "sessions", "events", "stream",
              "tools", "memory", "vfs", "workspace", "ipc", "boot", "notices"}

ASSUME InFocusAssumption == InFocus \subseteq TaskParts

MCPipeConfigs == {<<"out", "error">>, <<"in", "drop">>, <<"bidirectional", "block">>}

MCPipeConfig == {<<"out", "block">>}

MCRestartPolicy == [u \in Units |-> IF u = "u1" THEN "on-failure" ELSE "never"]

MCSupports == [p \in Providers |-> {"text", "media"}]
MCDefaultOf == [m \in {"text", "media"} |-> "pa"]
MCClientsFor == {<<"pa", "text">>, <<"pa", "media">>, <<"pb", "text">>}

MCOnFailure == [j \in CronJobs |-> CASE j = "j0" -> "ignore" [] j = "j1" -> "retry" [] j = "j2" -> "alert"]
MCMaxAttempts == [j \in CronJobs |-> IF j = "j1" THEN 2 ELSE 0]
MCDueAt == [j \in CronJobs |-> {1, 2}]

MCClass == {[kind |-> "status", owner |-> "s1", minRole |-> 1]}
MCSubscription == {{"*"}}

MCCallNames == <<<<"fs", "/", "read">>, <<"mcp", "/", "git", "/", "list">>>>

MCMovable == {FsRead}
MCProposals == {<<FsRead>>, <<RequestTool, ProcSpawn>>, <<MemoryForget, FsReadDir>>}

\* An old pinned record, an old one and a pinned fact of one agent, of which
\* the last two are shared with the other.
MemAgent == <<"u", "x">>
Remembered(type, id, key, pinned) ==
    [type |-> type, who |-> MemAgent, id |-> id, key |-> key, old |-> TRUE, pinned |-> pinned, words |-> Words]
MCMemories ==
    {Remembered("episodic", 1, MNone, TRUE), Remembered("episodic", 2, MNone, FALSE)}
        \cup {Remembered("semantic", 3, k, TRUE) : k \in Keys}
MCGrants == {[id |-> 4, by |-> MemAgent, to |-> "y", records |-> {2, 3}, scope |-> "session", session |-> s] : s \in MSessions}

\* A user's directory, mounted by itself below the tree of all users.
MCMountTable == <<<<"users">>, <<"users", "a">>>>
MCVfsPaths == {<<"users", "a", "f">>, <<"users", "a", ".keep">>, <<"tools", ".keep">>}
MCBootPaths == {<<"proc", ".keep">>}
MCMemMounts == {<<"tools">>}
MCContexts == {[username |-> "ann", crews |-> {}, admin |-> FALSE]}

\* A project with a file and a directory, and a request of every kind on it
\* by its owner or by someone else.
MCWFiles == [p \in {<<"a", "workspace", "p", "main.py">>, <<"a", "workspace", "p", "sub", "x">>} |-> <<"l", "q">>]
MCWithin == {<<"q", "q">>, <<"main.py", "q">>}
WCall(op, user) ==
    [op |-> op, user |-> user, bad |-> FALSE, absolute |-> FALSE, path |-> <<"p", "main.py">>, project |-> "p",
     text |-> <<"q">>, name |-> "s", template |-> "python", query |-> "q", kind |-> "content"]
MCWCalls ==
    <<WCall("list", "a"), WCall("read", "a"), WCall("info", WNone), WCall("write", "a"), WCall("delete", "a"),
      WCall("create-project", "a"), WCall("snapshot", "a"), WCall("search", "a"), WCall("set-default", "b"),
      WCall("unknown", "b"), [WCall("read", "a") EXCEPT !.bad = TRUE],
      [WCall("search", "a") EXCEPT !.kind = "name"], [WCall("search", "a") EXCEPT !.kind = "other"],
      [WCall("write", "b") EXCEPT !.absolute = TRUE, !.path = <<"a", "workspace", "p", "main.py">>]>>

MCKindsOf == [x1 |-> {"exec", "oversize"}, x2 |-> {"request", "notification", "malformed"}]

MCKernelEdits ==
    {[KernelTemplate EXCEPT !.models = "kernel", !.secrets = "audit"],
     [KernelTemplate EXCEPT !.ipc = "moved", !.models = "other"],
     [KernelTemplate EXCEPT !.ipc = "timeout", !.secrets = "store"],
     [KernelTemplate EXCEPT !.memory = "omitted"]}

MCLlmEdits == {[LlmTemplate EXCEPT !.default["text"] = "openai"]}

TasksInit ==
    /\ focus \in InFocus
    /\ JobsInit /\ PipesInit /\ HilInit /\ ServicesInit /\ McpInit
    /\ ClientInit /\ LlmInit /\ CronInit /\ TuiInit /\ SessionsInit /\ EventBusInit
    /\ LlmStreamInit /\ (focus # "stream" => dialect = "openai")
    /\ ToolsInit /\ (focus # "tools" => manifest = {} /\ agBudget = -1)
    /\ MemoryInit(MCMemories, MCGrants)
    /\ VfsInit
    /\ WorkspaceInit
    /\ IpcInit
    /\ BootInit /\ (focus # "boot" => btKey.by = 0)
    /\ NoticesInit /\ (focus # "notices" => daemon = "down")

TasksNext ==
    /\ UNCHANGED focus
    /\ IF focus = "jobs" THEN JobsNext ELSE UNCHANGED jobVars
    /\ IF focus = "pipes" THEN PipesNext ELSE UNCHANGED pipeVars
    /\ IF focus = "hil" THEN HilNext ELSE UNCHANGED hilVars
    /\ IF focus = "services" THEN ServicesNext ELSE UNCHANGED svcVars
    /\ IF focus = "mcp" THEN McpNext ELSE UNCHANGED mcpVars
    /\ IF focus = "client" THEN ClientNext ELSE UNCHANGED clientVars
    /\ IF focus = "llm" THEN LlmNext ELSE UNCHANGED llmVars
    /\ IF focus = "cron" THEN CronNext ELSE UNCHANGED cronVars
    /\ IF focus = "tui" THEN TuiNext ELSE UNCHANGED tuiVars
    /\ IF focus = "sessions" THEN SessionsNext ELSE UNCHANGED sessionVars
    /\ IF focus = "events" THEN EventBusNext ELSE UNCHANGED eventBusVars
    /\ IF focus = "stream" THEN LlmStreamNext ELSE UNCHANGED llmStreamVars
    /\ IF focus = "tools" THEN ToolsNext ELSE UNCHANGED toolVars
    /\ IF focus = "memory" THEN MemoryNext ELSE UNCHANGED mmVars
    /\ IF focus = "vfs" THEN VfsNext ELSE UNCHANGED vfsVars
    /\ IF focus = "workspace" THEN WorkspaceNext ELSE UNCHANGED wsVars
    /\ IF focus = "ipc" THEN IpcNext ELSE UNCHANGED ipcVars
    /\ IF focus = "boot" THEN BootNext ELSE UNCHANGED bootVars
    /\ IF focus = "notices" THEN NoticesNext ELSE UNCHANGED noticeVars

taskVars ==
    <<focus, jobVars, pipeVars, hilVars, svcVars, mcpVars, clientVars, llmVars, cronVars, tuiVars,
      sessionVars, eventBusVars, llmStreamVars, toolVars, mmVars, vfsVars, wsVars, ipcVars, bootVars, noticeVars>>

\* The parts' own fairness.  Where a fair step is possible in the part's first
\* state it is asked for only while the part is in focus.
TasksFairness ==
    /\ JobsFairness /\ PipesFairness /\ HilFairness /\ ServicesFairness /\ McpFairness
    /\ ClientFairness /\ CronFairness /\ SessionsFairness /\ EventBusFairness
    /\ \A p \in Providers : WF_llmVars(focus = "llm" /\ HealthStep(p))
    /\ \A p \in Renewing : WF_llmVars(focus = "llm" /\ RenewStep(p))
    /\ WF_tuiVars(focus = "tui" /\ LoopStep)

TasksSafety == TasksInit /\ [][TasksNext]_taskVars

TasksSpec == TasksSafety /\ TasksFairness

-----------------------------------------------------------------------------
\* The variables of the component in focus have their types (with what each of the type
\* invariants says of queues, locks and running agents).
TasksTypeOK ==
    /\ focus = "jobs" => JobsTypeOK
    /\ focus = "pipes" => PipesTypeOK
    /\ focus = "hil" => HilTypeOK
    /\ focus = "services" => ServicesTypeOK
    /\ focus = "mcp" => McpTypeOK
    /\ focus = "client" => ClientTypeOK
    /\ focus = "llm" => LlmTypeOK
    /\ focus = "cron" => CronTypeOK
    /\ focus = "tui" => TuiTypeOK
    /\ focus = "stream" => LlmStreamTypeOK
    /\ focus = "tools" => ToolsTypeOK
    /\ focus = "memory" => MemoryTypeOK
    /\ focus = "vfs" => VfsTypeOK
    /\ focus = "workspace" => WorkspaceTypeOK
    /\ focus = "ipc" => IpcTypeOK
    /\ focus = "boot" => BootTypeOK
    /\ focus = "notices" => NoticesTypeOK

\* The services do what they answer: files of the VFS are found again as they
\* were (VfsIsKept), so are records, preferences and grants of the memory
\* service (MemoryIsKept); workspace requests tell and change what is their
\* user's (WorkspaceIsKept); the transport brings each call its own answer,
\* also from a server that stops (IpcIsKept); and what set-up and start
\* promise holds through repeated and cut-off starts: one kernel on the socket,
\* the keys as first written, tools only of services that answer (BootIsKept).
ServicesAreFaithful == VfsIsKept /\ MemoryIsKept /\ WorkspaceIsKept /\ IpcIsKept /\ BootIsKept

\* Every call ends with an answer: a tool call through the MCP bridge, a
\* command of the user interface, a request for human approval, a cron run.
AnswersCome == CallsAreAnswered /\ InvokesAreAnswered /\ RequestsAreClosed /\ CronRunsEnd

\* Whoever waits for the end of something is told: the watchers of a job, the
\* partner of a closed pipe.
EndsAreTold == EndIsTold /\ PartnerIsTold

\* What failed comes back: an exited service, a provider's health and token,
\* the agents interrupted by a crash of the daemon.
FailuresAreRepaired == ServiceComesBack /\ HealthRecovers /\ TokenIsRenewed /\ RestoreCompletes

\* Loops go on: the event pump of a connection, the terminal interface (unless
\* it sends into its own full queue).
LoopsGoOn == PumpKeepsUp /\ OnlyAFullQueueStopsTheLoop
=============================================================================
