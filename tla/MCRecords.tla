----------------------------- MODULE MCRecords -----------------------------
(***************************************************************************)
(* Model-checking module of the components that keep records which several *)
(* calls read and write: sessions and invocations, logins and commands,    *)
(* the gateway's event ring, installed packages, parameter files.  Each of *)
(* them is a specification of its own; in a behaviour one of them, the     *)
(* part in focus, takes steps and the others stay as they began, so that   *)
(* one run explores every part and their state spaces add up.              *)
(***************************************************************************)
EXTENDS Sessions, GatewayAuth, EventBus, Installer, Params, KernelApi, Conversations, McpService, Packages, Catalog

VARIABLE focus

RecordParts == {"sessions", "gateway", "events", "installer", "params", "api", "talk", "wire", "packages", "catalog"}

\* Callers and connections, and PIDs and publishers, are interchangeable
\* identifiers: no definition compares them except for equality.
Alike == Permutations(Callers) \cup Permutations(Pids)

MCClasses ==
    {[kind |-> "status", owner |-> "s1", minRole |-> 1],
     [kind |-> "chunk", owner |-> "s1", minRole |-> 1],
     [kind |-> "tool", owner |-> "s2", minRole |-> 1]}

MCSubscriptions == {{"*"}, {"status"}}

\* Entrypoint sections of defaults, limits and manifests.
Defaults(chain, model) == [chain |-> chain, model |-> model]
Limits(lo, hi, models) == [min |-> lo, max |-> hi, models |-> models]

Person(name, uid, own, home) ==
    [username |-> name, uid |-> uid, crews |-> own, workspace |-> TRUE, home |-> home, quota |-> TRUE]
MCUserFiles ==
    {<<Person("ann", 1001, <<"crew1", "crew2">>, FALSE)>>,
     <<Person("olga", 0, <<>>, FALSE), Person("ann", 1001, <<"crew1">>, FALSE)>>,
     <<Person("olga", 1001, <<>>, FALSE), Person("ann", 1001, <<"crew1">>, FALSE)>>,
     <<Person("ann", 999, <<"crew1">>, FALSE)>>, <<Person("ann", 1000, <<"crew2">>, TRUE)>>,
     <<Person("olga", 1002, <<"crew2">>, FALSE)>>}
MCExtraCrews == {Unset, "crew1", "crew2"}

MCDefaults ==
    [p \in Places |->
        CASE p = "system" -> {NoFile, Defaults(2, "m1"), Defaults(Unset, Unset)}
          [] p = "crew1"  -> {NoFile, Defaults(1, Unset), Defaults(4, "m2")}
          [] p = "crew2"  -> {Defaults(Unset, "m1"), Defaults(3, Unset)}
          [] p = "user"   -> {NoFile, Defaults(5, "m2")}]

MCLimits ==
    [p \in Places |->
        CASE p = "system" -> {Limits(1, 4, Unset), Limits(Unset, Unset, {"m1", "m2"})}
          [] p = "crew1"  -> {NoFile, Limits(3, Unset, {"m1"}), Limits(Unset, 2, Unset)}
          [] p = "crew2"  -> {Limits(Unset, 3, {"m1", "m2"}), Limits(2, 5, {"m2"})}
          [] p = "user"   -> {NoFile, Limits(4, 4, Unset)}]

MCManifests == {Defaults(Unset, Unset), Defaults(3, Unset), Defaults(0, "m1")}

\* One user and one operator; the user's session is running, paused or idle,
\* the last with its agent there or gone.
MCRole == [ann |-> User, olga |-> Operator]
Session(owner, status, ps, lead) == [owner |-> owner, status |-> status, pids |-> ps, lead |-> lead]
KernelAt(status, up) ==
    [table |-> [p1 |-> "running", p2 |-> "stopped", p3 |-> "none"], running |-> up,
     invoked |-> [p1 |-> [user |-> "ann", session |-> "s1", over |-> "p1" \notin up],
                  p2 |-> [user |-> "olga", session |-> "s2", over |-> TRUE], p3 |-> NotInvoked],
     stored |-> [s1 |-> Session("ann", status, {"p1"}, "p1"), s2 |-> Session("olga", "failed", {}, "p2"), s3 |-> NoRecord]]
MCInitially == {KernelAt("running", {"p1"}), KernelAt("paused", {"p1"}), KernelAt("idle", {"p1"}), KernelAt("idle", {})}
MCUses == [olga |-> {"session delete", "session-pause"}]
MCOwned == [ann |-> {"s1"}, olga |-> {"s2"}]

\* A server without a mount and one mounted below "mcp", where the meta-tools
\* of the bridge have their names.
MCServers == <<"s1", "s2">>
MCOffers == [s1 |-> <<"a">>, s2 |-> <<"a", "b">>]
MCMounts == {[s1 |-> NoMount, s2 |-> <<"mcp", "s2">>]}
MCToolCalls == {<<"mcp", "s2", "a">>, <<"mcp", "tools">>}

\* An agent in the making, a second one whose name contains the first's, and a
\* service; calls that interfere with each other are made together.
MCPkgNames == {"agent", "my-agent", "svc"}
MCWithin == {<<"agent", "my-agent">>}
MCWorkdirs ==
    [n \in {"agent", "my-agent", "svc"} |-> CASE n = "agent" -> NoDir [] n = "my-agent" -> Scaffold("Agent") [] n = "svc" -> [Scaffold("Service") EXCEPT !.bin = "filled"]]
Build(n, skip) == [op |-> "build", name |-> n, skip |-> skip]
FromSource(kind, name, source, official, checksum, noVerify) ==
    [op |-> "install", kind |-> kind, user |-> "ann", name |-> name, source |-> source, official |-> official,
     checksum |-> checksum, noVerify |-> noVerify]
MCPackageCalls ==
    <<{[op |-> "new", name |-> "agent", kind |-> "Agent"], Build("agent", FALSE), Build("my-agent", TRUE),
      FromSource("agent", "my-agent", "github", TRUE, "none", FALSE), FromSource("agent", "agent", "git", FALSE, "none", TRUE),
      [op |-> "uninstall", kind |-> "agent", name |-> "agent"]},
      {Build("svc", FALSE), FromSource("service", "svc", "http", TRUE, "right", FALSE), FromSource("service", "svc", "file", FALSE, "wrong", TRUE),
      [op |-> "uninstall", kind |-> "service", name |-> "svc"]},
     {[op |-> "trust", key |-> "k", allowed |-> {[glob |-> "/*", text |-> <<"acme">>], [glob |-> "", text |-> <<"lab">>]}],
      [op |-> "untrust", key |-> "k"], [op |-> "verify", key |-> "k", source |-> <<"acme", "/", "x">>],
      [op |-> "verify", key |-> "k", source |-> <<"acme", "corp">>], [op |-> "verify", key |-> "official", source |-> <<"lab">>]}>>

\* A service's directory in the way of an agent, two users, one signature that
\* is right and one that is not, tools that parse and that do not.
CatDir(n, v) == [name |-> n, version |-> v]
Manifest(n, v, kind) == "apiVersion" :> "avix/v1" @@ "kind" :> kind @@ "name" :> n @@ "version" :> v @@ "spec" :> "spec"
InstalledAs(n, v, kind, rest) == [dir |-> CatDir(n, v), doc |-> rest @@ Manifest(n, v, kind)]
Signed == [Parsed(Manifest("a", "2", "Agent")) EXCEPT !.signature = NoDoc]
MCToolFile(n, ok) == [name |-> n, parses |-> ok, state |-> "new", owner |-> ""]
MCListings ==
    "/bin" :> <<<<[dir |-> CatDir(".keep", ""), doc |-> NoDoc]>>,
               <<InstalledAs("a", "1", "Service", <<>>), InstalledAs("a", "2", "Agent", "signature" :> Signed @@ "maxToolChain" :> 5)>> >>
    @@ "ann" :> <<<<InstalledAs("a", "1", "Agent", "required" :> <<"x">> @@ "optional" :> <<"y">> @@ "prompt" :> "p" @@ "files" :> {"p"} @@ "goalTemplate" :> "g"),
                   InstalledAs("b", "1", "Agent", "signature" :> [Signed EXCEPT !.version = "3"])>>,
                 <<[dir |-> CatDir("a", "1"), doc |-> NoDoc]>> >>
    @@ "bob" :> <<<<InstalledAs("b", "1", "Agent", <<>>)>> >>
    @@ "services" :> <<<<InstalledAs("s", "1", "Service", "binary" :> "s" @@ "namespace" :> "s"), InstalledAs("s", "2", "Service", <<>>)>>,
                      <<InstalledAs("s", "", "Service", "binary" :> "s" @@ "namespace" :> "s" @@ "tools" :> {MCToolFile("x", TRUE), MCToolFile("", TRUE)})>>,
                      <<InstalledAs("s", "", "Service", "tools" :> {MCToolFile("x", FALSE)})>> >>
ResolveCall(n, allowed, denied, m) == [op |-> "resolve", name |-> n, user |-> "ann", model |-> m, allowed |-> allowed, denied |-> denied, goal |-> "goal"]
MCLookups ==
    {[op |-> "scan", user |-> "ann"], [op |-> "scan all"], [op |-> "get", name |-> "a", user |-> "ann"], [op |-> "unit", name |-> "s"], [op |-> "units"], [op |-> "tools", name |-> "s"],
     ResolveCall("a", {"x", "y"}, {"y"}, "m"), ResolveCall("a", {}, {}, "m"), ResolveCall("b", {}, {}, "m")}
MCCatUsers == <<".keep", "ann", "bob">>

\* The kind of package is chosen only where it is looked at.
RecordsInit ==
    /\ focus \in RecordParts
    /\ SessionsInit /\ GatewayAuthInit /\ EventBusInit /\ ParamsInit
    /\ KernelApiInit
    /\ (focus # "api" => expired = [a \in Askers |-> FALSE] /\ \A s \in ApiSessions : stored[s].status # "idle" /\ stored[s].status # "paused")
    /\ InstallerInit /\ (focus # "installer" => package = "agent")
    /\ ConversationsInit
    /\ McpServiceInit
    /\ PackagesInit /\ (focus # "packages" => pkgUses.of = 1)
    /\ CatalogInit /\ (focus # "catalog" => \A p \in CatPlaces : bins[p] = 1)

RecordsNext ==
    /\ UNCHANGED focus
    /\ IF focus = "sessions" THEN SessionsNext ELSE UNCHANGED sessionVars
    /\ IF focus = "gateway" THEN GatewayAuthNext ELSE UNCHANGED gatewayAuthVars
    /\ IF focus = "events" THEN EventBusNext ELSE UNCHANGED eventBusVars
    /\ IF focus = "installer" THEN InstallerNext ELSE UNCHANGED installVars
    /\ IF focus = "params" THEN ParamsNext ELSE UNCHANGED paramVars
    /\ IF focus = "api" THEN KernelApiNext ELSE UNCHANGED apiVars
    /\ IF focus = "talk" THEN ConversationsNext ELSE UNCHANGED convVars
    /\ IF focus = "wire" THEN McpServiceNext ELSE UNCHANGED mcpServiceVars
    /\ IF focus = "packages" THEN PackagesNext ELSE UNCHANGED pkgVars
    /\ IF focus = "catalog" THEN CatalogNext ELSE UNCHANGED catalogVars

RecordsSpec ==
    RecordsInit /\ [][RecordsNext]_<<focus, sessionVars, gatewayAuthVars, eventBusVars, installVars, paramVars, apiVars, convVars, mcpServiceVars, pkgVars, catalogVars>>

-----------------------------------------------------------------------------
\* The variables of the component in focus have their types (with what each of the type
\* invariants says of locks, capacities and replies).
RecordsTypeOK ==
    /\ focus = "sessions" => SessionsTypeOK
    /\ focus = "gateway" => GatewayAuthTypeOK
    /\ focus = "events" => EventBusTypeOK
    /\ focus = "installer" => InstallerTypeOK
    /\ focus = "api" => KernelApiTypeOK
    /\ focus = "talk" => ConversationsTypeOK
    /\ focus = "wire" => McpServiceTypeOK
    /\ focus = "packages" => PackagesTypeOK
    /\ focus = "catalog" => CatalogTypeOK

\* Together: what a front end sends is understood, acted on once and only on
\* what was named, for owners and operators only, and shown as it went; what a
\* caller of an MCP tool gets is the answer to its own call (WireIsKept).
RequestsAreServed ==
    /\ focus = "api" =>
          CommandsAreUnderstood /\ ActsOnceOnWhatWasNamed /\ OnlyForOwners(MCOwned) /\ ShownIsTrue /\ ListsAreOwn
    /\ focus = "wire" => WireIsKept

\* What is written is found again as it was: conversations and the counters of
\* the invocation record (ConversationsAreKept), packages with their checksums,
\* quotas and trusted keys (PackagesAreKept), the agents and services that are
\* installed (CatalogIsRight).
FilesAreKept ==
    /\ focus = "talk" => ConversationsAreKept
    /\ focus = "packages" => PackagesAreKept
    /\ focus = "catalog" => CatalogIsRight

=============================================================================
