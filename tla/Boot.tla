--------------------------------- MODULE Boot ---------------------------------
(***************************************************************************)
(* From an empty root to a serving daemon: `avix server config init`       *)
(* (cli/config_init.rs), `avix server start` (bootstrap/mod.rs, with the   *)
(* executor factory) and `avix server config reload`                       *)
(* (cli/config_reload.rs), all on one root directory.  Commands overlap    *)
(* and die at any step; a daemon that died leaves its sockets' files.      *)
(* What phase 2.5 repairs and 3.5 restores in the records is in Sessions,  *)
(* the installed services' lives are in Services and the sockets' own      *)
(* behaviour is in Ipc.  One agent stands for all.                         *)
(***************************************************************************)
EXTENDS Config, FiniteSets, Functions

CONSTANTS
    Setups,        \* the runs of config init, numbered from 1
    Daemons,       \* the runs of server start, numbered from 1
    KernelEdits,   \* what an operator may make of kernel.yaml
    LlmEdits,      \* what an operator may make of llm.yaml
    MaxCommands,   \* bound: commands and edits from here on
    MaxDeaths      \* bound: commands cut off, and steps that fail

ASSUME BootAssumption ==
    /\ Setups \subseteq Nat \ {0}
    /\ 1 \in Setups
    /\ Daemons \subseteq Nat \ {0}
    /\ KernelEdits \subseteq KernelSpec
    /\ MaxCommands \in Nat \ {0}
    /\ MaxDeaths \in Nat

VARIABLES
    btKey,       \* etc/signing.key
    btAuth,      \* etc/auth.conf
    btEtc,       \* the other files of config init
    btLlm,       \* what llm.yaml says
    btSetup,     \* the runs of config init
    btDaemon,    \* the runs of the daemon
    btStore,     \* who holds the redb stores
    btSocket,    \* who bound each socket last
    btRuns,      \* the agent's record and its executors
    btReload,    \* what config reload last answered
    btFuel       \* commands and deaths left, and whether two setups ever overlapped

bootVars == <<btKey, btAuth, btEtc, btLlm, btSetup, btDaemon, btStore, btSocket, btRuns,
              btReload, btFuel>>

fileVars == <<btKey, btAuth, btEtc, btLlm>>

serveVars == <<btDaemon, btStore, btSocket, btRuns>>

\* The files written with write_if_absent, in order; "others" stands for users,
\* crews, crontab, the crontab defaults and fstab, which the start does not read.
EtcFiles == <<"kernel.yaml", "others", "llm.yaml", "mcp.json">>

\* The sockets a property speaks of: router.sock is bound with exec.sock.
Sockets == {"kernel", "exec", "llm", "gateway"}

\* The stages of a real start in order; a test start skips the middle ones.
Stages == <<"off", "checked", "keyed", "stored", "kernel", "wired", "exec", "llm", "services",
            "restored", "up">>

Over == {"failed", "dead"}

Rank(stage) == CHOOSE i \in DOMAIN Stages : Stages[i] = stage

Alive(d) == btDaemon[d].stage \notin Over \cup {"off"}

Past(d, stage) == Alive(d) /\ Rank(btDaemon[d].stage) >= Rank(stage)

NotThere == [by |-> 0, state |-> "none"]

Whole(s) == [by |-> s, state |-> "whole"]

NotReloaded == [answer |-> "none", restart |-> {}, reloaded |-> {}, spec |-> KernelTemplate]

\* An empty root, or one that the first config init has set up.
BootInit ==
    \E ready \in BOOLEAN :
        /\ btKey = IF ready THEN Whole(1) ELSE NotThere
        /\ btAuth = IF ready THEN Whole(1) ELSE NotThere
        /\ btEtc = [f \in Range(EtcFiles) |-> IF ready THEN "whole" ELSE "none"]
        /\ btLlm = LlmTemplate
        /\ btSetup = [s \in Setups |-> IF ready /\ s = 1 THEN [step |-> "told", n |-> Len(EtcFiles) + 1]
                                                        ELSE [step |-> "off", n |-> 1]]
        /\ btDaemon = [d \in Daemons |-> [stage |-> "off", test |-> FALSE, key |-> 0, tools |-> {}]]
        /\ btStore = 0
        /\ btSocket = [k \in Sockets |-> 0]
        /\ btRuns = [record |-> "none", starting |-> 0, real |-> 0, mock |-> 0, early |-> FALSE]
        /\ btReload = NotReloaded
        /\ btFuel = [commands |-> IF ready THEN MaxCommands ELSE MaxCommands - 1, deaths |-> MaxDeaths,
                     overlap |-> FALSE]

-----------------------------------------------------------------------------
(* config init *)

Busy(s) == btSetup[s].step \notin {"off", "told", "existing", "dead"}

Step(s, step) == btSetup' = [btSetup EXCEPT ![s].step = step]

\* run_config_init: the directory is there, is there a signing key?
SetupBegins(s) ==
    /\ btSetup[s].step = "off"
    /\ \A r \in Setups : r < s => btSetup[r].step # "off"
    /\ Step(s, IF btKey.state = "none" THEN "key" ELSE "auth?")
    /\ btFuel.commands > 0
    /\ btFuel' = [btFuel EXCEPT !.commands = @ - 1, !.overlap = @ \/ \E r \in Setups : Busy(r)]
    /\ UNCHANGED <<fileVars, serveVars, btReload>>

WritesKey(s) ==
    /\ btSetup[s].step = "key"
    /\ btKey' = Whole(s)
    /\ Step(s, "auth?")
    /\ UNCHANGED <<btAuth, btEtc, btLlm, serveVars, btReload, btFuel>>

\* The early return: an auth.conf means that all was done before.
ChecksAuth(s) ==
    /\ btSetup[s].step = "auth?"
    /\ Step(s, IF btAuth.state = "none" THEN "auth" ELSE "existing")
    /\ UNCHANGED <<fileVars, serveVars, btReload, btFuel>>

\* A new API key; its hash goes into auth.conf, the key itself is printed last.
WritesAuth(s) ==
    /\ btSetup[s].step = "auth"
    /\ btAuth' = Whole(s)
    /\ Step(s, "etc")
    /\ UNCHANGED <<btKey, btEtc, btLlm, serveVars, btReload, btFuel>>

\* write_if_absent, once for each file.
WritesEtc(s) ==
    LET n == btSetup[s].n
    IN  /\ btSetup[s].step = "etc"
        /\ n <= Len(EtcFiles)
        /\ btEtc' = [btEtc EXCEPT ![EtcFiles[n]] = IF @ = "none" THEN "whole" ELSE @]
        /\ btSetup' = [btSetup EXCEPT ![s].n = n + 1]
        /\ UNCHANGED <<btKey, btAuth, btLlm, serveVars, btReload, btFuel>>

\* The data directories, and the key on the terminal.
SetupTells(s) ==
    /\ btSetup[s].step = "etc"
    /\ btSetup[s].n > Len(EtcFiles)
    /\ Step(s, "told")
    /\ UNCHANGED <<fileVars, serveVars, btReload, btFuel>>

CutOff(content) == [content EXCEPT !.state = "cut"]

\* The command is cut off, or the disk refuses a write: the file being written,
\* truncated by std::fs::write, may be left cut.  It may be run again.
SetupDies(s) ==
    /\ Busy(s)
    /\ btFuel.deaths > 0
    /\ btFuel' = [btFuel EXCEPT !.deaths = @ - 1, !.commands = @ + 1]
    /\ Step(s, "dead")
    /\ \/ UNCHANGED <<btKey, btAuth, btEtc>>
       \/ btSetup[s].step = "key" /\ btKey' = CutOff(Whole(s)) /\ UNCHANGED <<btAuth, btEtc>>
       \/ btSetup[s].step = "auth" /\ btAuth' = CutOff(Whole(s)) /\ UNCHANGED <<btKey, btEtc>>
       \/ /\ btSetup[s].step = "etc"
          /\ btSetup[s].n <= Len(EtcFiles)
          /\ btEtc[EtcFiles[btSetup[s].n]] = "none"
          /\ btEtc' = [btEtc EXCEPT ![EtcFiles[btSetup[s].n]] = "cut"]
          /\ UNCHANGED <<btKey, btAuth>>
    /\ UNCHANGED <<btLlm, serveVars, btReload>>

\* The operator edits llm.yaml.
Edits ==
    /\ btFuel.commands > 0
    /\ btFuel' = [btFuel EXCEPT !.commands = @ - 1]
    /\ btEtc["llm.yaml"] = "whole"
    /\ btLlm' \in LlmEdits
    /\ UNCHANGED <<btKey, btAuth, btEtc, btSetup, serveVars, btReload>>

-----------------------------------------------------------------------------
(* server start *)

Reaches(d, stage) == btDaemon' = [btDaemon EXCEPT ![d].stage = stage]

NoRuns == [btRuns EXCEPT !.starting = 0, !.real = 0, !.mock = 0]

\* start returns an error and the process ends, or it is killed: the stores'
\* locks and the TCP port go with it, the socket files stay.
DaemonEnds(d, how) ==
    /\ btDaemon' = [btDaemon EXCEPT ![d].stage = how]
    /\ btStore' = IF btStore = d THEN 0 ELSE btStore
    /\ btRuns' = IF btStore = d THEN NoRuns ELSE btRuns
    /\ btSocket' = [btSocket EXCEPT !["gateway"] = IF @ = d THEN 0 ELSE @]

RestKept == UNCHANGED <<fileVars, btSetup, btReload, btFuel>>

ServesOn(d, socket) == btSocket' = [btSocket EXCEPT ![socket] = d]

\* bootstrap_with_root, phase 1: no auth.conf, no start.
ChecksRoot(d, test) ==
    /\ btDaemon[d].stage = "off"
    /\ \A e \in Daemons : e < d => btDaemon[e].stage # "off"
    /\ btDaemon' = [btDaemon EXCEPT ![d].stage = IF btAuth.state = "none" THEN "failed" ELSE "checked",
                                    ![d].test = test]
    /\ btFuel.commands > 0
    /\ btFuel' = [btFuel EXCEPT !.commands = @ - 1]
    /\ UNCHANGED <<fileVars, btSetup, btStore, btSocket, btRuns, btReload>>

\* bootstrap_with_root, phase 2: the signing key is read once.
ReadsKey(d) ==
    /\ btDaemon[d].stage = "checked"
    /\ btDaemon' = [btDaemon EXCEPT ![d].stage = IF btKey.state = "none" THEN "failed" ELSE "keyed",
                                    ![d].key = btKey.by]
    /\ UNCHANGED <<btStore, btSocket, btRuns>>
    /\ RestKept

\* phase2_kernel: redb lets one process open a file; a cut key may not decode.
OpensStores(d) ==
    /\ btDaemon[d].stage = "keyed"
    /\ ~btDaemon[d].test
    /\ \/ btStore = 0 /\ btStore' = d /\ Reaches(d, "stored") /\ UNCHANGED <<btSocket, btRuns>>
       \/ btStore # 0 /\ DaemonEnds(d, "failed")
       \/ btKey.state = "cut" /\ DaemonEnds(d, "failed")
    /\ RestKept

\* KernelIpcServer::start: from here on kernel/proc/spawn is answered.
ServesKernel(d) ==
    /\ btDaemon[d].stage = "stored"
    /\ ServesOn(d, "kernel")
    /\ Reaches(d, "kernel")
    /\ UNCHANGED <<btStore, btRuns>>
    /\ RestKept

\* Phase 2.5, whose repair is in Sessions; then phase3_services gives the tool
\* registry to the kernel's handlers and to the executor factory.
Wires(d) ==
    /\ btDaemon[d].stage = IF btDaemon[d].test THEN "keyed" ELSE "kernel"
    /\ btDaemon' = [btDaemon EXCEPT ![d].stage = "wired", ![d].tools = {"syscalls"}]
    /\ UNCHANGED <<btStore, btSocket, btRuns>>
    /\ RestKept

\* router.svc, exec.svc with its tool, and the fs tools that lead to kernel.sock.
StartsBuiltIns(d) ==
    /\ btDaemon[d].stage = "wired"
    /\ ServesOn(d, "exec")
    /\ btDaemon' = [btDaemon EXCEPT ![d].stage = "exec", ![d].tools = @ \cup {"exec", "fs"}]
    /\ UNCHANGED <<btStore, btRuns>>
    /\ RestKept

LlmUsable == btEtc["llm.yaml"] = "whole" /\ LlmValid(btLlm)

\* llm.svc: a missing, unreadable or invalid llm.yaml is only warned about, and
\* so is a socket that cannot be bound.
StartsLlm(d) ==
    /\ btDaemon[d].stage = "exec"
    /\ \/ /\ LlmUsable
          /\ ServesOn(d, "llm")
          /\ btDaemon' = [btDaemon EXCEPT ![d].stage = "llm", ![d].tools = @ \cup {"llm"}]
          /\ UNCHANGED btFuel
       \/ /\ ~LlmUsable
          /\ Reaches(d, "llm")
          /\ UNCHANGED <<btSocket, btFuel>>
       \/ /\ btFuel.deaths > 0
          /\ btFuel' = [btFuel EXCEPT !.deaths = @ - 1]
          /\ Reaches(d, "llm")
          /\ UNCHANGED btSocket
    /\ UNCHANGED <<btStore, btRuns, fileVars, btSetup, btReload>>

\* The MCP bridge, the installed services and the watchdog: none of them stops
\* the start, and their lives are in McpBridge and Services.
StartsOthers(d) ==
    /\ btDaemon[d].stage = "llm"
    /\ Reaches(d, "services")
    /\ UNCHANGED <<btStore, btSocket, btRuns>>
    /\ RestKept

\* Phase 3.5: whatever record is not final gets an executor, also one that was
\* spawned through kernel.sock since phase 2.
Restores(d) ==
    /\ btDaemon[d].stage = "services"
    /\ btRuns' = IF ~btDaemon[d].test /\ btRuns.record = "live" THEN [btRuns EXCEPT !.starting = @ + 1] ELSE btRuns
    /\ Reaches(d, "restored")
    /\ UNCHANGED <<btStore, btSocket>>
    /\ RestKept

\* phase4_atp_gateway: auth.conf is read again, now through the VFS; the task
\* that binds the port may fail without anyone noticing.
OpensGateway(d) ==
    /\ btDaemon[d].stage = "restored"
    /\ \/ /\ btAuth.state = "whole"
          /\ Reaches(d, "up")
          /\ btSocket' = [btSocket EXCEPT !["gateway"] = IF @ = 0 THEN d ELSE @]
          /\ UNCHANGED <<btStore, btRuns>>
       \/ btAuth.state = "cut" /\ DaemonEnds(d, "failed")
    /\ RestKept

\* A start whose step fails ends with the error, a running daemon is killed.
DaemonDies(d) ==
    /\ Alive(d)
    /\ btFuel.deaths > 0
    /\ btFuel' = [btFuel EXCEPT !.deaths = @ - 1]
    /\ DaemonEnds(d, "dead")
    /\ UNCHANGED <<fileVars, btSetup, btReload>>

-----------------------------------------------------------------------------
(* Agents of the daemon that serves kernel.sock *)

\* kernel/proc/spawn by a local client, or through the gateway.  Bound: on a
\* root that the first config init has set up.
Spawns(d) ==
    /\ btSetup[1].step = "told"
    /\ \A s \in Setups : ~Busy(s)
    /\ btSocket["kernel"] = d
    /\ Past(d, "kernel")
    /\ btRuns.record = "none"
    /\ btRuns' = [btRuns EXCEPT !.record = "live", !.starting = 1, !.early = ~Past(d, "restored")]
    /\ UNCHANGED <<btDaemon, btStore, btSocket>>
    /\ RestKept

\* IpcExecutorFactory::launch: the task takes the registry if it is there by then.
Launches(d) ==
    /\ btStore = d
    /\ btRuns.starting > 0
    /\ btRuns' = [btRuns EXCEPT !.starting = @ - 1,
                                !.real = IF Past(d, "wired") THEN @ + 1 ELSE @,
                                !.mock = IF Past(d, "wired") THEN @ ELSE @ + 1]
    /\ UNCHANGED <<btDaemon, btStore, btSocket>>
    /\ RestKept

AgentEnds ==
    /\ \/ btRuns.real > 0 /\ btRuns' = [btRuns EXCEPT !.record = "final", !.real = @ - 1]
       \/ btRuns.mock > 0 /\ btRuns' = [btRuns EXCEPT !.record = "final", !.mock = @ - 1]
    /\ UNCHANGED <<btDaemon, btStore, btSocket>>
    /\ RestKept

-----------------------------------------------------------------------------
(* config reload *)

\* run_config_reload on what the operator made of kernel.yaml.  The marker is
\* written under the root; the daemon polls another path and its hot_reload does
\* nothing, so only the answer is kept.  Bound: a reload is the last command,
\* and no other is under way (none but config init touches kernel.yaml).
ReloadsConfig ==
    /\ btFuel.commands > 0
    /\ \A s \in Setups : ~Busy(s)
    /\ \A d \in Daemons : btDaemon[d].stage \in Over \cup {"off", "up"}
    /\ btFuel' = [btFuel EXCEPT !.commands = 0]
    /\ \E spec \in KernelEdits \cup {KernelTemplate} :
           btReload' = IF btEtc["kernel.yaml"] # "whole" \/ ~Validates(spec)
                       THEN [NotReloaded EXCEPT !.answer = "error", !.spec = spec]
                       ELSE [answer |-> "ok", restart |-> Restarts(spec), reloaded |-> Reloads(spec), spec |-> spec]
    /\ UNCHANGED <<fileVars, btSetup, serveVars>>

BootNext ==
    \/ \E s \in Setups : \/ SetupBegins(s) \/ WritesKey(s) \/ ChecksAuth(s) \/ WritesAuth(s)
                         \/ WritesEtc(s) \/ SetupTells(s) \/ SetupDies(s)
    \/ Edits
    \/ \E d \in Daemons : \/ \E test \in BOOLEAN : ChecksRoot(d, test)
                          \/ ReadsKey(d) \/ OpensStores(d) \/ ServesKernel(d) \/ Wires(d)
                          \/ StartsBuiltIns(d) \/ StartsLlm(d) \/ StartsOthers(d)
                          \/ Restores(d) \/ OpensGateway(d)
                          \/ DaemonDies(d) \/ Spawns(d) \/ Launches(d)
    \/ AgentEnds
    \/ ReloadsConfig

BootSpec == BootInit /\ [][BootNext]_bootVars

-----------------------------------------------------------------------------
(* Properties *)

BootFile == [by : Setups \cup {0}, state : {"none", "cut", "whole"}]

\* Every piece of the state of set-up and start is in its range.
BootTypeOK ==
    /\ btKey \in BootFile
    /\ btAuth \in BootFile
    /\ btEtc \in [Range(EtcFiles) -> {"none", "cut", "whole"}]
    /\ btLlm \in LlmEdits \cup {LlmTemplate}
    /\ \A s \in Setups : btSetup[s].n \in 1 .. Len(EtcFiles) + 1
    /\ \A d \in Daemons : btDaemon[d].stage \in Range(Stages) \cup Over
    /\ btStore \in Daemons \cup {0}
    /\ btSocket \in [Sockets -> Daemons \cup {0}]
    /\ btRuns.starting + btRuns.real + btRuns.mock \in 0 .. 2

\* Phases 2.5 to 3.5 come before the gateway so that no agent runs without its
\* tools or beside itself: unless it was spawned through kernel.sock before
\* phase 3.5 of the same start, an agent has one executor at most, and that one
\* has the real tool registry.
StartedOnce ==
    ~btRuns.early => btRuns.starting + btRuns.real + btRuns.mock <= 1 /\ btRuns.mock = 0

\* Two starts on one root: redb's lock lets one of them into the stores, so
\* kernel.sock is never another live daemon's than the stores'.
OneKernel ==
    /\ \A d, e \in Daemons :
           Past(d, "stored") /\ Past(e, "stored") /\ ~btDaemon[d].test /\ ~btDaemon[e].test => d = e
    /\ LET k == btSocket["kernel"] IN k # 0 /\ Alive(k) => btStore = k

\* config init never regenerates the signing key ("would invalidate all issued
\* tokens"), and the API key it prints is the one auth.conf knows, with every
\* file in place: as long as no two inits overlap, a daemon's key is that of the
\* root, whatever was cut off and run again.
KeysAreKept ==
    ~btFuel.overlap =>
        /\ \A d \in Daemons : Past(d, "keyed") => btDaemon[d].key = btKey.by
        /\ \A s \in Setups :
               btSetup[s].step = "told" => btAuth = Whole(s) /\ \A f \in Range(EtcFiles) : btEtc[f] # "none"

\* A daemon lists the tools of a service only if that service answers for them:
\* the socket the tools lead to is its own, or another start has taken it over.
ToolsAreServed ==
    \A d \in Daemons : \A k \in {"exec", "llm"} :
        Alive(d) /\ k \in btDaemon[d].tools =>
            btSocket[k] = d \/ \E e \in Daemons \ {d} : btSocket[k] = e /\ k \in btDaemon[e].tools

\* config reload's report: a changed section is in exactly one of the two lists,
\* and what KernelConfig::requires_restart asks for is never called reloadable.
ReloadTells ==
    btReload.answer = "ok" =>
        /\ btReload.restart \cap btReload.reloaded = {}
        /\ \A f \in DOMAIN btReload.spec : Changed(btReload.spec[f]) => f \in btReload.restart \cup btReload.reloaded
        /\ RequiresRestart(btReload.spec) => btReload.restart # {}

\* What set-up and start promise together.
BootIsKept == StartedOnce /\ OneKernel /\ KeysAreKept /\ ToolsAreServed /\ ReloadTells
=============================================================================
