------------------------------ MODULE Packages ------------------------------
(***************************************************************************)
(* The life of a package: scaffolded, validated and built by `avix         *)
(* package`, put on a release with its checksums.sha256, installed and     *)
(* removed through the kernel's package methods, which keep a quota, and   *)
(* the store of trusted signing keys.  Commands and calls are processes    *)
(* over the same directories and run at any time.  Installer has the steps *)
(* of placing one version; here placing is one step.                       *)
(***************************************************************************)
EXTENDS Naturals, Sequences, FiniteSets, SequencesExt, TLC

CONSTANTS
    PkgNames,      \* package names, which are their file names too: one version each
    Within,        \* pairs <<n, m>>: the file name of n is a substring of that of m
    Workdirs,      \* the package directories at the start
    PackageCalls,  \* sets of commands and calls; a behaviour makes those of one
    PkgTasks,      \* processes
    QuotaLimit,    \* INSTALL_QUOTA: installs in a window
    QuotaWindow,   \* and its length
    NoBytes,       \* no archive, no digest
    NoDir,         \* no directory, no metadata file
    MaxPkgCalls,   \* bound: calls made
    MaxPkgTime,    \* bound: the clock
    MaxPkgEdits,   \* bound: edits of package directories
    MaxUploads     \* bound: uploads

VARIABLES
    workdir,    \* the package directories
    dist,       \* the output directory: archives, lines of checksums.sha256
    release,    \* what was uploaded, the same shape
    placed,     \* installed packages [kind, name, ver, bytes]
    quota,      \* InstallQuota.counters: [count, since]
    keys,       \* etc/avix/trusted-keys: the .asc files and the .meta.yaml files
    pkgTask,    \* the processes
    pkgClock,   \* time
    pkgUses,    \* the calls to choose from, and counters of the bounds
    pkgPast     \* history: good builds, overlaps, admissions, revocations

pkgVars == <<workdir, dist, release, placed, quota, keys, pkgTask, pkgClock, pkgUses, pkgPast>>

-----------------------------------------------------------------------------
(* Package directories *)

\* empty: required metadata fields that are the empty string; prompt: whether
\* systemPromptPath is set and names a file; bin: the bin/ directory.
Dir(kind, parses, empty, prompt, bin) ==
    [kind |-> kind, parses |-> parses, empty |-> empty, prompt |-> prompt, bin |-> bin]

\* Plausible slip: the prompt file of the manifest's systemPromptPath is not written.
ScaffoldWithoutPrompt(kind) ==
    Dir(kind, TRUE, {}, IF kind = "Agent" THEN "missing" ELSE "none", "missing")

\* scaffold_agent, scaffold_service.
Scaffold(kind) ==
    Dir(kind, TRUE, {}, IF kind = "Agent" THEN "there" ELSE "none", "missing")

\* A directory without manifest.yaml.
Unfinished == Dir("none", FALSE, {}, "none", "missing")

\* PackageType::detect
Detected(d) == d.kind \in {"Agent", "Service"}

ManifestErrors(d) == IF d.parses THEN d.empty ELSE {"manifest.yaml"}

ValidateAgent(d) ==
    (ManifestErrors(d) \ {"binary"}) \cup (IF d.parses /\ d.prompt = "missing" THEN {"prompt"} ELSE {})

ValidateService(d) == ManifestErrors(d) \cup (IF d.bin = "filled" THEN {} ELSE {"bin/"})

\* PackageValidator::validate: every error at once.
Validate(d) ==
    IF ~Detected(d) THEN {"kind"} ELSE IF d.kind = "Agent" THEN ValidateAgent(d) ELSE ValidateService(d)

\* The digest of something that was never built.
Foreign(n) == [of |-> n, no |-> 0, dir |-> Unfinished]

\* add_dir_to_archive adds files, so that an empty directory is lost.
Packed(n, no, d) ==
    [of |-> n, no |-> no, dir |-> [d EXCEPT !.bin = IF @ = "filled" THEN "filled" ELSE "missing"]]

\* extract_tarball takes the folder around the files away again and wants a
\* manifest.yaml at the top.
Extracts(bytes) == bytes.dir.kind # "none"

\* static_verify_checksum: equal digests are equal bytes.
ChecksumOk(sum, bytes) == sum = bytes

\* What an installer makes of the manifest in an archive.  AgentManifest takes
\* every field it needs from a service's manifest too; the reverse fails.
Loads(kind, d) == d.parses /\ (kind = "service" => d.kind = "Service")

-----------------------------------------------------------------------------
(* Processes *)

IdleTask ==
    [pc |-> "idle", call |-> [op |-> "none"], bytes |-> NoBytes, sum |-> NoBytes, lines |-> <<>>,
     outcome |-> "none", barred |-> FALSE]

At(t, op, pc) == pkgTask[t].call.op = op /\ pkgTask[t].pc = pc

PkgGoes(t, pc) == pkgTask' = [pkgTask EXCEPT ![t].pc = pc]

Ends(t, outcome) == pkgTask' = [pkgTask EXCEPT ![t].pc = "done", ![t].outcome = outcome]

Running(op) == {t \in PkgTasks : pkgTask[t].call.op = op /\ pkgTask[t].pc # "done"}

\* A command is run or a method called, one at a time: a beginning changes
\* nothing that others see.  A checksum that is passed is the one of the
\* archive uploaded now, or another one.
Begins(t) ==
    /\ pkgTask[t].pc \in {"idle", "done"} /\ pkgUses.calls < MaxPkgCalls
    /\ \A s \in PkgTasks : pkgTask[s].pc # "begin"
    /\ \E c \in PackageCalls[pkgUses.of] :
          /\ pkgTask' =
                [pkgTask EXCEPT ![t] =
                    [IdleTask EXCEPT
                        !.pc = "begin", !.call = c,
                        !.sum = IF c.op = "install" /\ c.checksum # "none" THEN
                                   IF c.checksum = "right" THEN release.archives[c.name] ELSE Foreign(c.name)
                                ELSE NoBytes]]
          /\ pkgPast' = [pkgPast EXCEPT !.overlapped = @ \/ (c.op = "build" /\ Running("build") # {})]
    /\ pkgUses' = [pkgUses EXCEPT !.calls = @ + 1]
    /\ UNCHANGED <<workdir, dist, release, placed, quota, keys, pkgClock>>

\* The process is killed, or an I/O call of it fails where nothing is undone.
Dies(t) ==
    /\ pkgTask[t].pc \notin {"idle", "begin", "done"} /\ pkgTask[t].call.op \in {"build", "trust", "untrust"}
    /\ Ends(t, "died")
    /\ UNCHANGED <<workdir, dist, release, placed, quota, keys, pkgClock, pkgUses, pkgPast>>

\* Only the quota looks at the clock.
PkgTick ==
    /\ pkgClock < MaxPkgTime /\ quota # <<>>
    /\ pkgClock' = pkgClock + 1
    /\ UNCHANGED <<workdir, dist, release, placed, quota, keys, pkgTask, pkgUses, pkgPast>>

-----------------------------------------------------------------------------
(* avix package new, edits, and builds *)

\* PackageScaffold::create; a write that fails leaves what was written before:
\* no manifest, or all but the prompt.
New(t, ok) ==
    /\ At(t, "new", "begin")
    /\ LET n == pkgTask[t].call.name  whole == Scaffold(pkgTask[t].call.kind) IN
       IF workdir[n] # NoDir THEN Ends(t, "error") /\ UNCHANGED workdir
       ELSE /\ \E d \in IF ok THEN {whole} ELSE {Unfinished, [whole EXCEPT !.prompt = IF @ = "there" THEN "missing" ELSE @]} :
                  workdir' = [workdir EXCEPT ![n] = d]
            /\ Ends(t, IF ok THEN "ok" ELSE "error")
    /\ UNCHANGED <<dist, release, placed, quota, keys, pkgClock, pkgUses, pkgPast>>

\* The developer's changes, and the upload of the output directory.
Edit(n) ==
    /\ pkgUses.edits < MaxPkgEdits /\ workdir[n] # NoDir
    /\ \E d \in {[workdir[n] EXCEPT !.bin = "filled"], [workdir[n] EXCEPT !.parses = FALSE]} :
          d # workdir[n] /\ workdir' = [workdir EXCEPT ![n] = d]
    /\ pkgUses' = [pkgUses EXCEPT !.edits = @ + 1]
    /\ UNCHANGED <<dist, release, placed, quota, keys, pkgTask, pkgClock, pkgPast>>

Upload ==
    /\ pkgUses.uploads < MaxUploads /\ Running("build") = {} /\ release # dist
    /\ release' = dist
    /\ pkgUses' = [pkgUses EXCEPT !.uploads = @ + 1]
    /\ UNCHANGED <<workdir, dist, placed, quota, keys, pkgTask, pkgClock, pkgPast>>

\* PackageBuilder::build validates, or only detects the kind, reads the name,
\* and writes the archive over an earlier one.
Builds(t) ==
    /\ At(t, "build", "begin")
    /\ LET n == pkgTask[t].call.name  d == workdir[n] IN
       IF d = NoDir \/ ~Detected(d) \/ (~pkgTask[t].call.skip /\ Validate(d) # {})
       THEN Ends(t, "error") /\ UNCHANGED <<dist, pkgPast>>
       ELSE /\ dist' = [dist EXCEPT !.archives[n] = Packed(n, pkgPast.builds + 1, d)]
            /\ pkgPast' = [pkgPast EXCEPT !.builds = @ + 1]
            /\ PkgGoes(t, "digest")
    /\ UNCHANGED <<workdir, release, placed, quota, keys, pkgClock, pkgUses>>

\* The archive is read back and hashed, and checksums.sha256 is read.
Digests(t) ==
    /\ At(t, "build", "digest")
    /\ pkgTask' = [pkgTask EXCEPT ![t].pc = "sums", ![t].lines = dist.sums,
                                  ![t].bytes = dist.archives[pkgTask[t].call.name]]
    /\ UNCHANGED <<workdir, dist, release, placed, quota, keys, pkgClock, pkgUses, pkgPast>>

\* Plausible slip: the new line is added and earlier ones for the file are kept.
LinesAppended(lines, n, bytes) == Append(lines, [digest |-> bytes, file |-> n])

\* Lines that contain the file name go, then the new one is added.
LinesWith(lines, n, bytes) ==
    Append(SelectSeq(lines, LAMBDA l : l.file # n /\ <<n, l.file>> \notin Within), [digest |-> bytes, file |-> n])

WritesSums(t) ==
    /\ At(t, "build", "sums")
    /\ LET n == pkgTask[t].call.name  lines == LinesWith(pkgTask[t].lines, n, pkgTask[t].bytes) IN
       /\ dist' = [dist EXCEPT !.sums = lines]
       /\ pkgPast' = [pkgPast EXCEPT !.good[n] = pkgTask[t].bytes,
                                     !.eaten = (@ \cup {l.file : l \in ToSet(pkgTask[t].lines)}) \ {l.file : l \in ToSet(lines)}]
    /\ Ends(t, "ok")
    /\ UNCHANGED <<workdir, release, placed, quota, keys, pkgClock, pkgUses>>

-----------------------------------------------------------------------------
(* kernel/proc/package/install-agent and install-service *)

\* The quota is kept by user; services are all installed by "default".
Payer(c) == IF c.kind = "agent" THEN c.user ELSE "default"

\* Plausible slip: the count of a window that is over is reset, its start is not.
CounterOfBefore(u) ==
    IF u \notin DOMAIN quota THEN [count |-> 0, since |-> pkgClock]
    ELSE IF pkgClock - quota[u].since > QuotaWindow THEN [count |-> 0, since |-> quota[u].since]
    ELSE quota[u]

\* InstallQuota::check resets a window that is over before it compares.
Counter(u) ==
    IF u \in DOMAIN quota /\ pkgClock - quota[u].since <= QuotaWindow THEN quota[u]
    ELSE [count |-> 0, since |-> pkgClock]

\* check_untrusted_source: the kernel calls with a token that has the method
\* only, so a source that is not official passes only unverified.
SourceAllowed(c) == c.noVerify \/ c.official

\* Capability, quota, then the source.
Admits(t) ==
    /\ At(t, "install", "begin")
    /\ LET c == pkgTask[t].call  u == Payer(c)  k == Counter(u) IN
       IF k.count >= QuotaLimit
       THEN /\ quota' = (u :> k) @@ quota
            /\ Ends(t, "over quota") /\ UNCHANGED pkgPast
       ELSE /\ quota' = (u :> [k EXCEPT !.count = @ + 1]) @@ quota
            /\ pkgPast' = [pkgPast EXCEPT !.admitted = Append(@, <<u, pkgClock>>)]
            /\ IF c.source = "missing" \/ ~SourceAllowed(c) THEN Ends(t, "error") ELSE PkgGoes(t, "resolve")
    /\ UNCHANGED <<workdir, dist, release, placed, keys, pkgClock, pkgUses>>

\* PackageSource::resolve: the release's assets are looked up for a github
\* source; an unknown scheme is an error.  install_service does not clone.
Resolves(t, ok) ==
    /\ At(t, "install", "resolve")
    /\ LET c == pkgTask[t].call IN
       IF \/ c.source = "unknown" \/ (c.source = "git" /\ c.kind = "service")
          \/ (c.source = "github" /\ (~ok \/ release.archives[c.name] = NoBytes))
       THEN Ends(t, "error") ELSE PkgGoes(t, "fetch")
    /\ UNCHANGED <<workdir, dist, release, placed, quota, keys, pkgClock, pkgUses, pkgPast>>

\* git_clone_to brings the directory itself.
Cloned(n) == IF workdir[n] = NoDir THEN NoBytes ELSE [of |-> n, no |-> 0, dir |-> workdir[n]]

\* What a source holds now.
Served(c) ==
    CASE c.source \in {"github", "http"} -> release.archives[c.name]
      [] c.source = "file" -> dist.archives[c.name]
      [] c.source = "git" -> Cloned(c.name)

\* fetch_source, git_clone_to, fetch_source_bytes; a clone is not verified.
\* The service installer fetches once more, and knows fewer schemes.
Fetches1(t, ok) ==
    /\ At(t, "install", "fetch")
    /\ LET c == pkgTask[t].call  got == Served(c) IN
       IF ~ok \/ got = NoBytes THEN Ends(t, "error")
       ELSE pkgTask' = [pkgTask EXCEPT ![t].bytes = got, ![t].pc = IF c.source = "git" THEN "place" ELSE "verify"]
    /\ UNCHANGED <<workdir, dist, release, placed, quota, keys, pkgClock, pkgUses, pkgPast>>

\* The first line of a release's checksum file, as it is now.
ReleaseSum == release.sums[1].digest

\* The checksum passed, or for an agent from a release that of its file.
Verifies(t, ok) ==
    /\ At(t, "install", "verify")
    /\ LET c == pkgTask[t].call
           next == IF c.kind = "agent" THEN "place" ELSE "fetch again"
           ofRelease == c.kind = "agent" /\ c.source = "github" /\ c.checksum = "none" /\ release.sums # <<>> IN
       IF c.noVerify \/ (c.checksum = "none" /\ ~ofRelease) THEN PkgGoes(t, next)
       ELSE IF ofRelease
       THEN IF ok /\ ChecksumOk(ReleaseSum, pkgTask[t].bytes)
            THEN pkgTask' = [pkgTask EXCEPT ![t].pc = next, ![t].sum = ReleaseSum]
            ELSE Ends(t, "error")
       ELSE IF ChecksumOk(pkgTask[t].sum, pkgTask[t].bytes) THEN PkgGoes(t, next) ELSE Ends(t, "error")
    /\ UNCHANGED <<workdir, dist, release, placed, quota, keys, pkgClock, pkgUses, pkgPast>>

\* ServiceInstaller::fetch takes file:// and http(s):// only.
FetchesFrom == {"http", "file"}

\* Plausible slip: the bytes that were fetched again are not compared.
RefetchUnverified(t, ok) ==
    /\ At(t, "install", "fetch again")
    /\ LET c == pkgTask[t].call  got == Served(c) IN
       IF ~ok \/ c.source \notin FetchesFrom \/ got = NoBytes THEN Ends(t, "error")
       ELSE pkgTask' = [pkgTask EXCEPT ![t].bytes = got, ![t].pc = "place"]
    /\ UNCHANGED <<workdir, dist, release, placed, quota, keys, pkgClock, pkgUses, pkgPast>>

\* ServiceInstaller::install: fetch and verify_checksum, whatever no_verify says.
Refetch(t, ok) ==
    /\ At(t, "install", "fetch again")
    /\ LET c == pkgTask[t].call  got == Served(c) IN
       IF \/ ~ok \/ c.source \notin FetchesFrom \/ got = NoBytes
          \/ (c.checksum # "none" /\ ~ChecksumOk(pkgTask[t].sum, got))
       THEN Ends(t, "error")
       ELSE pkgTask' = [pkgTask EXCEPT ![t].bytes = got, ![t].pc = "place"]
    /\ UNCHANGED <<workdir, dist, release, placed, quota, keys, pkgClock, pkgUses, pkgPast>>

\* Extraction, the manifest, the conflict check and the rename.
PutsInPlace(t) ==
    /\ At(t, "install", "place")
    /\ LET c == pkgTask[t].call
           p == [kind |-> c.kind, name |-> c.name, ver |-> 1, bytes |-> pkgTask[t].bytes] IN
       IF ~Extracts(p.bytes) \/ ~Loads(c.kind, p.bytes.dir) \/ \E q \in placed : q.kind = p.kind /\ q.name = p.name /\ q.ver = p.ver
       THEN Ends(t, "error") /\ UNCHANGED placed
       ELSE placed' = placed \cup {p} /\ Ends(t, "ok")
    /\ UNCHANGED <<workdir, dist, release, quota, keys, pkgClock, pkgUses, pkgPast>>

\* uninstall_agent removes the directory named, which is one version.
UninstallsAgent(t) ==
    /\ At(t, "uninstall", "begin") /\ pkgTask[t].call.kind = "agent"
    /\ LET there == {p \in placed : p.kind = "agent" /\ p.name = pkgTask[t].call.name /\ p.ver = 1} IN
       \/ placed' = placed \ there /\ Ends(t, IF there = {} THEN "error" ELSE "ok")
       \/ there # {} /\ UNCHANGED placed /\ Ends(t, "error")
    /\ UNCHANGED <<workdir, dist, release, quota, keys, pkgClock, pkgUses, pkgPast>>

\* uninstall_service every version of the name, up to one that it cannot remove.
UninstallsService(t) ==
    /\ At(t, "uninstall", "begin") /\ pkgTask[t].call.kind = "service"
    /\ LET there == {p \in placed : p.kind = "service" /\ p.name = pkgTask[t].call.name} IN
       \E gone \in SUBSET there :
          /\ placed' = placed \ gone
          /\ Ends(t, IF there # {} /\ gone = there THEN "ok" ELSE "error")
    /\ UNCHANGED <<workdir, dist, release, quota, keys, pkgClock, pkgUses, pkgPast>>

-----------------------------------------------------------------------------
(* Trusted keys *)

\* TrustStore::add: the test of the key file, then the two writes.
TrustBegins(t) ==
    /\ At(t, "trust", "begin")
    /\ IF pkgTask[t].call.key \in keys.asc THEN Ends(t, "error") ELSE PkgGoes(t, "asc")
    /\ pkgPast' = [pkgPast EXCEPT !.revoked = @ \ {pkgTask[t].call.key}]
    /\ UNCHANGED <<workdir, dist, release, placed, quota, keys, pkgClock, pkgUses>>

TrustWritesKey(t) ==
    /\ At(t, "trust", "asc")
    /\ keys' = [keys EXCEPT !.asc = @ \cup {pkgTask[t].call.key}]
    /\ PkgGoes(t, "meta")
    /\ UNCHANGED <<workdir, dist, release, placed, quota, pkgClock, pkgUses, pkgPast>>

TrustWritesMeta(t) ==
    /\ At(t, "trust", "meta")
    /\ keys' = [keys EXCEPT !.meta[pkgTask[t].call.key] = pkgTask[t].call.allowed]
    /\ pkgPast' = [pkgPast EXCEPT !.added = @ \cup {<<pkgTask[t].call.key, pkgTask[t].call.allowed>>}]
    /\ Ends(t, "ok")
    /\ UNCHANGED <<workdir, dist, release, placed, quota, pkgClock, pkgUses>>

\* TrustStore::remove: the test, then the key file.
UntrustRemovesKey(t) ==
    /\ At(t, "untrust", "begin")
    /\ IF pkgTask[t].call.key \in keys.asc
       THEN keys' = [keys EXCEPT !.asc = @ \ {pkgTask[t].call.key}] /\ PkgGoes(t, "meta")
       ELSE Ends(t, "error") /\ UNCHANGED keys
    /\ UNCHANGED <<workdir, dist, release, placed, quota, pkgClock, pkgUses, pkgPast>>

\* Then its metadata, without which it is an error.
UntrustRemovesMeta(t) ==
    /\ At(t, "untrust", "meta")
    /\ LET k == pkgTask[t].call.key IN
       /\ keys' = [keys EXCEPT !.meta[k] = NoDir]
       /\ Ends(t, IF keys.meta[k] = NoDir THEN "error" ELSE "ok")
       /\ pkgPast' = IF \E s \in Running("trust") : pkgTask[s].call.key = k THEN pkgPast
                     ELSE [pkgPast EXCEPT !.revoked = @ \cup {k}]
    /\ UNCHANGED <<workdir, dist, release, placed, quota, pkgClock, pkgUses>>

\* glob_match, on sources as sequences of words and slashes.
GlobMatch(p, source) ==
    CASE p.glob = "/*" -> IsPrefix(Append(p.text, "/"), source) \/ source = p.text
      [] p.glob = "*" -> IsPrefix(p.text, source)
      [] p.glob = "" -> source = p.text

AllowsSource(allowed, source) == allowed = {} \/ \E p \in allowed : GlobMatch(p, source)

\* Plausible slip: what the key file says is enough.
TrustsKey(t) == pkgTask[t].call.key \in keys.asc

\* verify_signature: the official key, else the store's, if its two files are
\* there, and the source is one of its own.
Trusts(t) ==
    /\ pkgTask[t].call.key \in keys.asc
    /\ keys.meta[pkgTask[t].call.key] # NoDir
    /\ AllowsSource(keys.meta[pkgTask[t].call.key], pkgTask[t].call.source)

VerifiesSignature(t) ==
    /\ At(t, "verify", "begin")
    /\ LET c == pkgTask[t].call IN
       pkgTask' = [pkgTask EXCEPT
                      ![t].pc = "done",
                      ![t].outcome = IF c.key = "official" THEN "official" ELSE IF Trusts(t) THEN "trusted" ELSE "error",
                      ![t].barred = c.key \in pkgPast.revoked]
    /\ UNCHANGED <<workdir, dist, release, placed, quota, keys, pkgClock, pkgUses, pkgPast>>

-----------------------------------------------------------------------------

PackagesInit ==
    /\ workdir = Workdirs
    /\ dist = [archives |-> [n \in PkgNames |-> NoBytes], sums |-> <<>>]
    /\ release = dist
    /\ placed = {[kind |-> "service", name |-> n, ver |-> 0, bytes |-> NoBytes] : n \in {m \in PkgNames : Workdirs[m] # NoDir /\ Workdirs[m].kind = "Service"}}
    /\ quota = <<>>
    /\ keys = [asc |-> {}, meta |-> [k \in {c.key : c \in {d \in UNION {PackageCalls[g] : g \in DOMAIN PackageCalls} : d.op = "trust"}} |-> NoDir]]
    /\ pkgTask = [t \in PkgTasks |-> IdleTask]
    /\ pkgClock = 0
    /\ pkgUses \in [of : DOMAIN PackageCalls, calls : {0}, edits : {0}, uploads : {0}]
    /\ pkgPast = [builds |-> 0, good |-> [n \in PkgNames |-> NoBytes], overlapped |-> FALSE, eaten |-> {}, admitted |-> <<>>,
                  added |-> {}, revoked |-> {}]

PackagesNext ==
    \/ PkgTick \/ Upload \/ \E n \in PkgNames : Edit(n)
    \/ \E t \in PkgTasks :
          \/ Begins(t) \/ Dies(t) \/ Builds(t) \/ Digests(t) \/ WritesSums(t) \/ Admits(t) \/ PutsInPlace(t) \/ UninstallsAgent(t) \/ UninstallsService(t)
          \/ TrustBegins(t) \/ TrustWritesKey(t) \/ TrustWritesMeta(t) \/ UntrustRemovesKey(t) \/ UntrustRemovesMeta(t)
          \/ VerifiesSignature(t)
          \/ \E ok \in BOOLEAN : New(t, ok) \/ Resolves(t, ok) \/ Fetches1(t, ok) \/ Verifies(t, ok) \/ Refetch(t, ok)

PackagesSpec == PackagesInit /\ [][PackagesNext]_pkgVars

-----------------------------------------------------------------------------
(* Properties *)

\* Types; a process has an outcome exactly when it is done.
PackagesTypeOK ==
    /\ \A n \in PkgNames : workdir[n] # NoDir => workdir[n].kind \in {"Agent", "Service", "none"}
    /\ \A d \in {dist, release} : \A l \in ToSet(d.sums) : l.file \in PkgNames
    /\ \A t \in PkgTasks : (pkgTask[t].pc = "done") <=> (pkgTask[t].outcome # "none")
    /\ \A u \in DOMAIN quota : quota[u].count \in 0..QuotaLimit /\ quota[u].since \in 0..pkgClock

\* What `avix package new` writes is what `avix package build` accepts: an
\* agent's at once, a service's as soon as its binary is there (create,
\* validate).
ScaffoldsValidate ==
    \A kind \in {"Agent", "Service"} : Validate([Scaffold(kind) EXCEPT !.bin = "filled"]) = {}

\* As long as builds into a directory do not overlap, checksums.sha256 has one
\* line for every archive whose build finished, with the digest of what lies
\* there, unless a package whose file name is part of its own was built since
\* (build's filter goes by substring).
ChecksumsAreKept ==
    (~pkgPast.overlapped /\ Running("build") = {}) =>
        \A n \in PkgNames :
            (dist.archives[n] # NoBytes /\ dist.archives[n] = pkgPast.good[n] /\ n \notin pkgPast.eaten)
                => \E i \in DOMAIN dist.sums :
                      /\ dist.sums[i] = [digest |-> dist.archives[n], file |-> n]
                      /\ \A j \in DOMAIN dist.sums \ {i} : dist.sums[j].file # n

\* An install that compared a checksum put exactly those bytes in place,
\* although a service's archive is fetched twice and may change in between.
VerifiedIsInstalled ==
    \A t \in PkgTasks :
        LET c == pkgTask[t].call IN
        (c.op = "install" /\ pkgTask[t].outcome = "ok" /\ pkgTask[t].sum # NoBytes /\ (c.kind = "service" \/ ~c.noVerify))
            => pkgTask[t].bytes = pkgTask[t].sum

\* No user has more than the limit of installs admitted since the window of
\* InstallQuota began, and a window is no older than its length when it admits.
QuotaHolds ==
    \A u \in DOMAIN quota :
        LET mine == {i \in DOMAIN pkgPast.admitted : pkgPast.admitted[i][1] = u /\ pkgPast.admitted[i][2] >= quota[u].since} IN
        /\ Cardinality(mine) <= QuotaLimit
        /\ \A i \in mine : pkgPast.admitted[i][2] - quota[u].since <= QuotaWindow

\* A signature passes by a key of the store only if the key was added whole,
\* for that source, and no removal has returned since, whatever adds and
\* removals of it met or were cut off half-way (add, remove, get).
TrustIsCurrent ==
    \A t \in PkgTasks :
        pkgTask[t].outcome = "trusted" =>
            /\ ~pkgTask[t].barred
            /\ \E a \in pkgPast.added : a[1] = pkgTask[t].call.key /\ AllowsSource(a[2], pkgTask[t].call.source)

PackagesAreKept == ScaffoldsValidate /\ ChecksumsAreKept /\ VerifiedIsInstalled /\ QuotaHolds /\ TrustIsCurrent
=============================================================================
