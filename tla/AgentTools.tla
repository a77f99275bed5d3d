----------------------------- MODULE AgentTools -----------------------------
(***************************************************************************)
(* What an agent may call and what becomes of its calls: the capability    *)
(* groups of its manifest resolved to tool names at spawn, the signed      *)
(* token that carries them, the tool list and the prompt that are rebuilt  *)
(* at every turn, the validation of every call the model proposes, the     *)
(* Category 2 handlers inside the executor and the dispatch of the other   *)
(* calls to a service or to the kernel.                                    *)
(*                                                                         *)
(* A tool name is the sequence of its pieces, so that a prefix of a name   *)
(* is a prefix of the sequence: <<"fs", "read", "dir">> is fs/read-dir.    *)
(* Services add and remove their tools at any time.  Time is a counter of  *)
(* ticks, a renewal window long each.                                      *)
(***************************************************************************)
EXTENDS Integers, Sequences, FiniteSets

CONSTANTS
    TokenTtl,   \* life of a minted token, in ticks
    MaxClock,   \* bound on the clock
    MaxChain,   \* max_tool_chain_length
    MaxGoals,   \* bound on the goals the agent is given
    Movable,    \* the service tools that come and go
    Proposals   \* the sequences of calls the model may propose in a turn

RequestTool == <<"cap", "request-tool">>
SysTools == <<"sys", "tools">>
CapList == <<"cap", "list">>
MemoryForget == <<"memory", "forget">>
FsRead == <<"fs", "read">>
FsReadDir == <<"fs", "read", "dir">>
ProcSpawn == <<"kernel", "proc", "spawn">>
SysInfo == <<"kernel", "sys", "info">>

(* SyscallRegistry, which is also registered as tools at boot. *)
Syscalls == {ProcSpawn, SysInfo}
Domain(s) == s[2]
ServiceTools == {FsRead, FsReadDir, MemoryForget}
KnownTools == ServiceTools \cup Syscalls \cup {RequestTool, SysTools, CapList}

(* A response that asks for calls has at least one. *)
ASSUME ToolsAssumption ==
    /\ TokenTtl \in Nat /\ MaxClock \in Nat /\ MaxChain \in Nat /\ MaxGoals \in Nat
    /\ Movable \subseteq KnownTools /\ Proposals \subseteq Seq(KnownTools) \ {<<>>}

(* The router's list, which the resolver grants, and the executor's list,  *)
(* which also holds sys/tools.                                             *)
RouterAlwaysPresent == {RequestTool, CapList}
AlwaysPresent == RouterAlwaysPresent \cup {SysTools}

(* CapabilityToolMap: Category 2 tools that need a grant.  The memory      *)
(* tools are listed there although a service offers them.                  *)
GatedCat2 == {MemoryForget}

(* A capability group is <<namespace, filter>>. *)
Manifests == {{}, {<<"fs", "read">>}, {<<"proc", "spawn">>, <<"memory", "*">>}, {<<"kernel", "*">>, <<"fs", "*">>}}

VARIABLES
    registry,    \* names in the ToolRegistry
    clock,
    manifest,    \* requestedCapabilities of the agent
    agPc,        \* where the executor is
    agToken,     \* its CapabilityToken
    agCat2,      \* registered_cat2, fixed at spawn
    agLookups,   \* granted names refresh_tool_list has still to look up
    agCat1,      \* cat1_descriptors
    agAfter,     \* where the executor goes after the refresh
    agList,      \* tool_list: descriptors offered to the model
    agPrompt,    \* the tools the system prompt of this turn lists, and the denied ones
    agDenied,    \* denied_tools
    agBudget,    \* calls left of FsRead, or -1 for no budget
    agCalls,     \* calls of the turn still to be handled
    agAnswers,   \* tool_results of the turn
    agTurn,      \* the turn's calls as the model proposed them
    agChain,     \* calls proposed since the goal began
    agGoals,     \* goals so far
    approved,    \* history: tools a human approved
    fsReads,     \* history: requests for FsRead under a budget
    reached      \* history: the last request that left the executor

tokenVars == <<agToken, agCat2, agDenied, approved>>
turnVars == <<agCalls, agAnswers, agTurn, agChain, agGoals, fsReads, reached>>
listVars == <<agLookups, agCat1, agAfter, agList, agPrompt>>
toolVars == <<registry, clock, manifest, agPc, tokenVars, listVars, turnVars, agBudget>>

-----------------------------------------------------------------------------
(* Tokens. *)

(* compute_signature: over the times and the tools, under the kernel key. *)
Signature(t) == [tools |-> t.tools, exp |-> t.exp]
Mint(tools) ==
    LET t == [tools |-> tools, exp |-> clock + TokenTtl] IN [tools |-> tools, exp |-> t.exp, sig |-> Signature(t)]
VerifySignature(t) == t.sig = Signature(t)
HasTool(t, name) == name \in t.tools
IsExpired(t) == clock > t.exp

(* KernelResourceHandler::handle for a renewal: the same grants, a new     *)
(* expiry; refused when the token's signature does not verify.             *)
HandleRenewal(t) == IF VerifySignature(t) THEN {Mint(t.tools)} ELSE {}

(* maybe_renew_token: only inside the last tick; without a grant of the    *)
(* handler the expiry alone is moved.                                      *)
MaybeRenewed(t) ==
    LET left == t.exp - clock IN
    IF ~(left > 0 /\ left <= 1) THEN t
    ELSE IF HandleRenewal(t) # {} THEN CHOOSE n \in HandleRenewal(t) : TRUE
    ELSE [t EXCEPT !.exp = clock + TokenTtl]

-----------------------------------------------------------------------------
(* Grants at spawn. *)

(* str::starts_with on names in pieces. *)
StartsWith(name, prefix) == Len(prefix) <= Len(name) /\ SubSeq(name, 1, Len(prefix)) = prefix

(* A capability group against the system calls. *)
ResolveSyscalls(ns, filter) ==
    {s \in Syscalls :
        IF ns = "kernel" THEN filter = "*" \/ Domain(s) = filter
        ELSE Domain(s) = ns /\ (filter = "*" \/ StartsWith(s, <<"kernel", ns, filter>>))}

(* A capability group against the registered tools. *)
ResolveTools(ns, filter) ==
    {t \in registry : StartsWith(t, IF filter = "*" THEN <<ns>> ELSE <<ns, filter>>)}

(* CapabilityResolver::resolve. *)
Resolve(caps) ==
    (UNION {ResolveSyscalls(c[1], c[2]) \cup ResolveTools(c[1], c[2]) : c \in caps}) \cup RouterAlwaysPresent

(* compute_cat2_tools. *)
ComputeCat2(t) == AlwaysPresent \cup {n \in GatedCat2 : HasTool(t, n)}

(* cat2_tool_descriptor knows the executor's own tools; any other name     *)
(* gets a descriptor without parameters.                                   *)
Cat2Descriptor(n) == [name |-> n, schema |-> n \in AlwaysPresent]

(* resolve_granted_tools: the groups of the agent's manifest. *)
ResolveGrantedTools == Resolve(manifest)

(* AgentManager::spawn's token, and spawn_with_registry_ref, which ends    *)
(* with a refresh of the tool list.                                        *)
SpawnAgent ==
    /\ agPc = "none"
    /\ agToken' = Mint(ResolveGrantedTools)
    /\ agCat2' = ComputeCat2(agToken')
    /\ agLookups' = agToken'.tools \ agCat2' /\ agCat1' = {} /\ agAfter' = "idle"
    /\ agPc' = "refresh"
    /\ UNCHANGED <<registry, clock, manifest, agList, agPrompt, agDenied, approved, turnVars, agBudget>>

-----------------------------------------------------------------------------
(* The tool list and the prompt. *)

StartRefresh(after) ==
    /\ agLookups' = agToken'.tools \ agCat2 /\ agCat1' = {} /\ agAfter' = after
    /\ agPc' = "refresh"

(* One look-up of refresh_tool_list: a granted tool that is not registered *)
(* is left out.                                                            *)
RefreshLookup(n) ==
    /\ agPc = "refresh" /\ n \in agLookups
    /\ agLookups' = agLookups \ {n}
    /\ agCat1' = IF n \in registry THEN agCat1 \cup {n} ELSE agCat1
    /\ UNCHANGED <<registry, clock, manifest, agPc, tokenVars, agAfter, agList, agPrompt, turnVars, agBudget>>

(* ToolManager::refresh_tool_list: the Category 2 tools of the token and   *)
(* the descriptors found.                                                  *)
OfferedTools == {Cat2Descriptor(n) : n \in ComputeCat2(agToken)} \cup {[name |-> n, schema |-> TRUE] : n \in agCat1}

RefreshDone ==
    /\ agPc = "refresh" /\ agLookups = {}
    /\ agList' = OfferedTools
    /\ agPc' = agAfter /\ agAfter' = "none" /\ agCat1' = {}
    /\ UNCHANGED <<registry, clock, manifest, tokenVars, agLookups, agPrompt, turnVars, agBudget>>

(* The next goal, from SIGSTART or the spawn. *)
BeginGoal ==
    /\ agPc = "idle" /\ agGoals < MaxGoals
    /\ agGoals' = agGoals + 1
    /\ agPc' = "prompt"
    /\ UNCHANGED <<registry, clock, manifest, tokenVars, listVars, agCalls, agAnswers, agTurn, agChain, fsReads, reached, agBudget>>

(* build_system_prompt: the tools listed, and the tools the model is told  *)
(* not to ask for again.                                                   *)
SystemPrompt == [tools |-> {d.name : d \in agList}, denied |-> agDenied]

(* The head of the loop: the system prompt is built from the list of the   *)
(* turn before, then the list is refreshed.                                *)
BuildSystemPrompt ==
    /\ agPc = "prompt"
    /\ agPrompt' = SystemPrompt
    /\ UNCHANGED agToken /\ StartRefresh("renew")
    /\ UNCHANGED <<registry, clock, manifest, agCat2, agDenied, approved, agList, turnVars, agBudget>>

(* run_with_client returns; the messages of the goal are its locals. *)
ReturnFromGoal ==
    /\ agPc' = "idle"
    /\ agCalls' = <<>> /\ agTurn' = <<>> /\ agAnswers' = <<>> /\ agChain' = 0

(* maybe_renew_token and the check of the expiry; an expired token fails   *)
(* the goal.                                                               *)
RenewOrFail ==
    /\ agPc = "renew"
    /\ agToken' = MaybeRenewed(agToken)
    /\ IF IsExpired(agToken') THEN ReturnFromGoal ELSE agPc' = "llm" /\ UNCHANGED <<agCalls, agTurn, agAnswers, agChain>>
    /\ UNCHANGED <<registry, clock, manifest, agCat2, agDenied, approved, listVars, agGoals, fsReads, reached, agBudget>>

(* The model ends its turn: the answer is saved, the agent idle. *)
ModelEnds ==
    /\ agPc = "llm"
    /\ ReturnFromGoal
    /\ UNCHANGED <<registry, clock, manifest, tokenVars, listVars, agGoals, fsReads, reached, agBudget>>

(* The model proposes calls; over the limit the goal ends. *)
ModelCalls(calls) ==
    /\ agPc = "llm"
    /\ IF agChain + Len(calls) > MaxChain THEN ReturnFromGoal
       ELSE agPc' = "call" /\ agChain' = agChain + Len(calls) /\ agCalls' = calls /\ agTurn' = calls /\ agAnswers' = <<>>
    /\ UNCHANGED <<registry, clock, manifest, tokenVars, listVars, agGoals, fsReads, reached, agBudget>>

-----------------------------------------------------------------------------
(* Calls. *)

(* validate_tool_call: expiry, grant, budget.  A token without any grant   *)
(* passes every call.                                                      *)
GrantCheck(n) == agToken.tools = {} \/ HasTool(agToken, n) \/ n \in AlwaysPresent
HasBudget(n) == ~(n = FsRead /\ agBudget = 0)
ValidateToolCall(n) == ~IsExpired(agToken) /\ GrantCheck(n) /\ HasBudget(n)
Spent(n) == IF n = FsRead /\ agBudget > 0 THEN agBudget - 1 ELSE agBudget

(* The result of a call, and the next call or the next round of the loop. *)
AnswerCall(kind) ==
    /\ agAnswers' = Append(agAnswers, <<Head(agCalls), kind>>)
    /\ agCalls' = Tail(agCalls)
    /\ agPc' = IF agCalls' = <<>> THEN "prompt" ELSE "call"

(* A call that fails the validation is answered with the error. *)
RefuseCall ==
    /\ agPc = "call" /\ ~ValidateToolCall(Head(agCalls))
    /\ AnswerCall("refused")
    /\ UNCHANGED <<registry, clock, manifest, tokenVars, listVars, agTurn, agChain, agGoals, fsReads, reached, agBudget>>

(* dispatch_category2 except for cap/request-tool: sys/tools and cap/list  *)
(* read, the other names answer without an effect.                         *)
HandleCat2 ==
    LET n == Head(agCalls) IN
    /\ agPc = "call" /\ n \in agCat2 /\ n # RequestTool /\ ValidateToolCall(n)
    /\ AnswerCall(IF n \in AlwaysPresent THEN "listed" ELSE "not wired")
    /\ agBudget' = Spent(n)
    /\ UNCHANGED <<registry, clock, manifest, tokenVars, listVars, agTurn, agChain, agGoals, fsReads, reached>>

(* check_tool_execute_permission applies only to a tool the token does not *)
(* name; the registered tools are open to all users here.                  *)
MayExecute(n) == HasTool(agToken, n) \/ n \in registry

(* Kernel tools are always caller-scoped, a service's by its descriptor. *)
CallerScoped(n) == n[1] = "kernel" \/ n = MemoryForget

(* A request over a fresh connection, recorded with whether it names the   *)
(* caller, and any of the ways it can end.                                 *)
SendRequest(n, caller) ==
    /\ reached' = {[tool |-> n, caller |-> caller, late |-> IsExpired(agToken)]}
    /\ fsReads' = fsReads + (IF n = FsRead /\ agBudget # -1 THEN 1 ELSE 0)
    /\ \E end \in {"result", "error"} : AnswerCall(end)

(* dispatch_kernel_syscall: to the kernel's socket, always with _caller. *)
DispatchKernelSyscall(n) == SendRequest(n, TRUE)

(* dispatch_cat1_tool: to the socket of the tool's endpoint, under the     *)
(* endpoint's method.                                                      *)
DispatchCat1Tool(n) == SendRequest(n, CallerScoped(n))

(* Faulty variant: a listed tool is dispatched without a check. *)
FaultyDispatchViaRouter ==
    LET n == Head(agCalls) IN
    /\ agPc = "call" /\ n \notin agCat2
    /\ IF n \in registry THEN DispatchCat1Tool(n) ELSE AnswerCall("error") /\ UNCHANGED <<fsReads, reached>>
    /\ agBudget' = Spent(n)
    /\ UNCHANGED <<registry, clock, manifest, tokenVars, listVars, agTurn, agChain, agGoals>>

(* dispatch_via_router: look-up, permission, then the kernel's or the      *)
(* service's socket.                                                       *)
DispatchViaRouter ==
    LET n == Head(agCalls) IN
    /\ agPc = "call" /\ n \notin agCat2 /\ ValidateToolCall(n)
    /\ IF n \in registry /\ MayExecute(n)
       THEN IF n \in Syscalls THEN DispatchKernelSyscall(n) ELSE DispatchCat1Tool(n)
       ELSE AnswerCall("error") /\ UNCHANGED <<fsReads, reached>>
    /\ agBudget' = Spent(n)
    /\ UNCHANGED <<registry, clock, manifest, tokenVars, listVars, agTurn, agChain, agGoals>>

(* cap/request-tool up to the wait for a human: the handler checks the     *)
(* token's signature; without it the tool is denied at once.               *)
AskForTool ==
    /\ agPc = "call" /\ Head(agCalls) = RequestTool /\ ValidateToolCall(RequestTool)
    /\ IF VerifySignature(agToken)
       THEN agPc' = "hil" /\ UNCHANGED <<agDenied, agCalls, agAnswers>>
       ELSE AnswerCall("denied") /\ agDenied' = agDenied \cup {FsRead}
    /\ UNCHANGED <<registry, clock, manifest, agToken, agCat2, approved, listVars, agTurn, agChain, agGoals, fsReads, reached, agBudget>>

(* CapabilityUpgrader: an approval that carries a token replaces the       *)
(* executor's; the list is refreshed before the call is answered.          *)
HilApproved(withToken) ==
    /\ agPc = "hil"
    /\ agToken' = IF withToken THEN Mint(agToken.tools \cup {FsRead}) ELSE agToken
    /\ approved' = IF withToken THEN approved \cup {FsRead} ELSE approved
    /\ StartRefresh("answer")
    /\ UNCHANGED <<registry, clock, manifest, agCat2, agDenied, agList, agPrompt, turnVars, agBudget>>

AnswerApproved ==
    /\ agPc = "answer"
    /\ AnswerCall("approved")
    /\ UNCHANGED <<registry, clock, manifest, tokenVars, listVars, agTurn, agChain, agGoals, fsReads, reached, agBudget>>

(* A denial or the time-out of ten minutes. *)
HilRefused ==
    /\ agPc = "hil"
    /\ AnswerCall("denied") /\ agDenied' = agDenied \cup {FsRead}
    /\ UNCHANGED <<registry, clock, manifest, agToken, agCat2, approved, listVars, agTurn, agChain, agGoals, fsReads, reached, agBudget>>

-----------------------------------------------------------------------------
(* The world: services come and go, time passes. *)

RegistryChanges(n) ==
    /\ n \in Movable
    /\ registry' = IF n \in registry THEN registry \ {n} ELSE registry \cup {n}
    /\ UNCHANGED <<clock, manifest, agPc, tokenVars, listVars, turnVars, agBudget>>

Tick ==
    /\ clock < MaxClock /\ agPc \in {"idle", "llm", "call", "hil"}
    /\ clock' = clock + 1
    /\ UNCHANGED <<registry, manifest, agPc, tokenVars, listVars, turnVars, agBudget>>

ToolsInit ==
    /\ registry = Syscalls \cup {MemoryForget, FsReadDir} /\ clock = 0
    /\ manifest \in Manifests
    /\ agPc = "none" /\ agToken = Mint({}) /\ agCat2 = {}
    /\ agLookups = {} /\ agCat1 = {} /\ agAfter = "none" /\ agList = {}
    /\ agPrompt = [tools |-> {}, denied |-> {}] /\ agDenied = {}
    /\ agBudget \in {-1, 1}
    /\ agCalls = <<>> /\ agAnswers = <<>> /\ agTurn = <<>> /\ agChain = 0 /\ agGoals = 0
    /\ approved = {} /\ fsReads = 0 /\ reached = {}

ToolsNext ==
    \/ SpawnAgent \/ RefreshDone \/ BeginGoal \/ BuildSystemPrompt \/ RenewOrFail \/ ModelEnds
    \/ RefuseCall \/ HandleCat2 \/ DispatchViaRouter \/ AskForTool \/ AnswerApproved \/ HilRefused \/ Tick
    \/ \E n \in KnownTools : RefreshLookup(n) \/ RegistryChanges(n)
    \/ \E calls \in Proposals : ModelCalls(calls)
    \/ \E withToken \in BOOLEAN : HilApproved(withToken)

ToolsSpec == ToolsInit /\ [][ToolsNext]_toolVars

-----------------------------------------------------------------------------

(* Types of the agent's token, list and calls. *)
ToolsTypeOK ==
    /\ registry \subseteq KnownTools /\ clock \in 0..MaxClock /\ manifest \in Manifests
    /\ agPc \in {"none", "refresh", "idle", "prompt", "renew", "llm", "call", "hil", "answer"}
    /\ agToken.tools \subseteq KnownTools /\ agToken.exp \in 0..(MaxClock + TokenTtl)
    /\ agCat2 \subseteq KnownTools /\ agLookups \subseteq KnownTools /\ agCat1 \subseteq KnownTools
    /\ agList \subseteq [name : KnownTools, schema : BOOLEAN]
    /\ agDenied \subseteq KnownTools /\ approved \subseteq KnownTools /\ agBudget \in -1..1
    /\ agCalls \in Seq(KnownTools) /\ agTurn \in Seq(KnownTools) /\ agChain \in Nat /\ agGoals \in 0..MaxGoals

(* A capability group names a tool: its namespace and the first piece of   *)
(* the rest; a system call is also named by its domain.                    *)
Names(c, n) ==
    \/ n[1] = c[1] /\ c[2] \in {"*", n[2]}
    \/ n[1] = "kernel" /\ n[2] = c[1] /\ c[2] \in {"*", n[3]}

Entitled(n) == n \in AlwaysPresent \cup approved \/ \E c \in manifest : Names(c, n)

(* Whatever the model proposes, whichever tools come and go, and however   *)
(* often the token is renewed or upgraded: a request leaves the executor   *)
(* only for a tool the agent's manifest asked for or a human approved, and *)
(* never under an expired token; the token and the list offered to the     *)
(* model name no other tool; every proposed call has exactly one answer,   *)
(* in order, before the next turn; and a call budget is never exceeded     *)
(* (resolve_granted_tools, maybe_renew_token, validate_tool_call,          *)
(* dispatch_via_router, run_with_client).                                  *)
GrantsAreTrue ==
    /\ \A r \in reached : Entitled(r.tool) /\ ~r.late
    /\ \A n \in agToken.tools : Entitled(n)
    /\ \A d \in agList : Entitled(d.name)
    /\ [i \in DOMAIN agAnswers |-> agAnswers[i][1]] \o agCalls = agTurn
    /\ agBudget # -1 => fsReads + agBudget <= 1

=============================================================================
