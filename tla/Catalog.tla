------------------------------- MODULE Catalog -------------------------------
(***************************************************************************)
(* Finding an installed agent: ManifestScanner (the catalogue and the      *)
(* manifest that a spawn takes its capabilities from), ManifestLoader and  *)
(* SpawnResolver, and on the side of services ServiceUnit and ToolScanner. *)
(* All of them list a directory, then read the manifests in it one by one, *)
(* while packages are installed, removed and edited.                       *)
(***************************************************************************)
EXTENDS Naturals, Sequences, FiniteSets, SequencesExt, TLC

CONSTANTS
    CatUsers,       \* users, in the order in which /users lists them
    Listings,       \* for "/bin", each user's bin and the services directory: what may lie there
    CatLookups,        \* the calls
    CatTasks,       \* who makes them
    NoDoc,          \* no manifest
    MaxLookups,     \* bound: calls
    MaxCatChanges   \* bound: changes of a directory

VARIABLES
    bins,      \* which of them lies there now
    lookup,    \* the calls
    catUses    \* counters of the bounds

catalogVars == <<bins, lookup, catUses>>

UserBins == ToSet(CatUsers) \ {".keep"}
CatPlaces == {"/bin", "services"} \cup UserBins

-----------------------------------------------------------------------------
(* Manifests: documents are functions of the fields written in them *)

\* metadata and the top level.
NeededFields == {"apiVersion", "kind", "name", "version", "spec"}

\* The #[serde(default)]s of entrypoint, memory, snapshot and environment.
EntrypointDefaults ==
    [minContextWindow |-> 8000, recommended |-> "claude-sonnet-4", maxToolChain |-> 5, maxTurnsPerGoal |-> 20]
StateDefaults ==
    [workingContext |-> "dynamic", semanticStoreAccess |-> "none", snapshot |-> "disabled", timeoutSec |-> 300]
SpecDefaults ==
    [required |-> <<>>, optional |-> <<>>, prompt |-> "", goalTemplate |-> "", signature |-> NoDoc, requested |-> {}]

\* from_yaml; a document that is not UTF-8 or not YAML has no fields.
ManifestParses(doc) == doc # NoDoc /\ NeededFields \subseteq DOMAIN doc
Parsed(doc) == doc @@ SpecDefaults @@ StateDefaults @@ EntrypointDefaults

\* What the scanner takes from a directory.
IsAgent(doc) == ManifestParses(doc) /\ doc.kind = "Agent"

\* ServiceManifest: a binary and a tools section are needed too.
UnitParses(doc) == ManifestParses(doc) /\ {"binary", "namespace"} \subseteq DOMAIN doc
UnitDefaults ==
    [language |-> "any", restart |-> "on-failure", restartDelay |-> "5s", maxConcurrent |-> 20, queueMax |-> 100,
     queueTimeout |-> "5s", runAs |-> "service", requires |-> {}, after |-> {}]
UnitFromManifest(doc) == doc @@ UnitDefaults

\* The digest is of the parsed manifest with the signature blanked, so whether
\* a default is written out does not matter; an empty one is not compared.
SignatureOk(doc) == Parsed(doc).signature \in {NoDoc, [Parsed(doc) EXCEPT !.signature = NoDoc]}

-----------------------------------------------------------------------------
(* Directories *)

Listing(place) == Listings[place][bins[place]]

\* The manifest at <place>/<dir>/manifest.yaml now.
Doc(place, dir) ==
    LET at == {e \in ToSet(Listing(place)) : e.dir = dir} IN
    IF at = {} THEN NoDoc ELSE (CHOOSE e \in at : TRUE).doc

DirsOf(place) == [i \in DOMAIN Listing(place) |-> Listing(place)[i].dir]

\* The installers name a directory <name>@<version>.
NamedAfter(name, dir) == dir.name = name /\ dir.version # ""
Hidden(dir) == dir.name = ".keep"

\* An install, removal, or edit.
Changes(place) ==
    /\ catUses.changes < MaxCatChanges
    /\ \E l \in DOMAIN Listings[place] \ {bins[place]} : bins' = [bins EXCEPT ![place] = l]
    /\ lookup' = [t \in CatTasks |-> [lookup[t] EXCEPT !.calm = FALSE]]
    /\ catUses' = [catUses EXCEPT !.changes = @ + 1]

-----------------------------------------------------------------------------
(* Calls *)

NoLookup ==
    [pc |-> "idle", call |-> [op |-> "none"], places |-> <<>>, dirs |-> <<>>, seen |-> {}, found |-> <<>>,
     outcome |-> "none", doc |-> NoDoc, calm |-> TRUE]

\* scan_all leaves out names of users that begin with a dot.
PlacesFor(c) ==
    CASE c.op = "scan all" -> <<"/bin">> \o SelectSeq(CatUsers, LAMBDA u : u # ".keep")
      [] c.op \in {"unit", "units", "tools"} -> <<"services">>
      [] OTHER -> <<"/bin", c.user>>

LooksUp(t) ==
    /\ lookup[t].pc \in {"idle", "done"} /\ catUses.lookups < MaxLookups
    /\ \E c \in CatLookups : lookup' = [lookup EXCEPT ![t] = [NoLookup EXCEPT !.pc = "list", !.call = c, !.places = PlacesFor(c)]]
    /\ catUses' = [catUses EXCEPT !.lookups = @ + 1]
    /\ UNCHANGED bins

CatReturns(t, outcome, doc) ==
    lookup' = [lookup EXCEPT ![t].pc = "done", ![t].outcome = outcome, ![t].doc = doc, ![t].dirs = <<>>]

\* Which directories a call looks at: all, those of a name, or for the tools of
\* a service that registers the directory of its bare name.
Wanted(c, d) ==
    CASE c.op \in {"scan", "scan all"} -> ~Hidden(d)
      [] c.op = "units" -> TRUE
      [] c.op = "tools" -> d = [name |-> c.name, version |-> ""]
      [] OTHER -> NamedAfter(c.name, d)

\* vfs.list of the next place.  read_dir gives services in any order, and
\* load_for_service takes the first.
ListsPlace(t) ==
    /\ lookup[t].pc = "list" /\ lookup[t].places # <<>>
    /\ LET c == lookup[t].call
           wanted == SelectSeq(DirsOf(Head(lookup[t].places)), LAMBDA d : Wanted(c, d)) IN
       \E order \in IF c.op = "unit" THEN {<<d>> : d \in ToSet(wanted)} \cup (IF wanted = <<>> THEN {<<>>} ELSE {}) ELSE {wanted} :
          lookup' = [lookup EXCEPT ![t].dirs = order, ![t].pc = "read"]
    /\ UNCHANGED <<bins, catUses>>

\* scan_dir: what does not parse or is no agent is passed over; a user's agent
\* with the name of one of the system's is left out, and in scan_all one with
\* the name of another user's.
ScansNext(t) ==
    /\ lookup[t].pc = "read" /\ lookup[t].dirs # <<>> /\ lookup[t].call.op \in {"scan", "scan all"}
    /\ LET place == Head(lookup[t].places)
           d == Doc(place, Head(lookup[t].dirs))
           new == IsAgent(d) /\ (place = "/bin" \/ d.name \notin lookup[t].seen)
           marks == new /\ (place = "/bin" \/ lookup[t].call.op = "scan all") IN
       lookup' = [lookup EXCEPT
                     ![t].dirs = Tail(@),
                     ![t].found = IF new THEN Append(@, [place |-> place, name |-> d.name, version |-> d.version]) ELSE @,
                     ![t].seen = IF marks THEN @ \cup {d.name} ELSE @]
    /\ UNCHANGED <<bins, catUses>>

\* Plausible slip: a manifest that does not parse ends the search.
GetsFirst(t) ==
    /\ lookup[t].pc = "read" /\ lookup[t].dirs # <<>> /\ lookup[t].call.op = "get"
    /\ LET d == Doc(Head(lookup[t].places), Head(lookup[t].dirs)) IN
       IF IsAgent(d) /\ d.name = lookup[t].call.name THEN CatReturns(t, "ok", d) ELSE CatReturns(t, "not found", NoDoc)
    /\ UNCHANGED <<bins, catUses>>

\* get_manifest_from_dir: the first that is an agent of this name.
GetsNext(t) ==
    /\ lookup[t].pc = "read" /\ lookup[t].dirs # <<>> /\ lookup[t].call.op = "get"
    /\ LET d == Doc(Head(lookup[t].places), Head(lookup[t].dirs)) IN
       IF IsAgent(d) /\ d.name = lookup[t].call.name THEN CatReturns(t, "ok", d)
       ELSE lookup' = [lookup EXCEPT ![t].dirs = Tail(@)]
    /\ UNCHANGED <<bins, catUses>>

\* find_versioned_manifest: the first that exists, whatever it is.
FindsNext(t) ==
    /\ lookup[t].pc = "read" /\ lookup[t].dirs # <<>> /\ lookup[t].call.op = "resolve"
    /\ lookup' = IF Doc(Head(lookup[t].places), Head(lookup[t].dirs)) # NoDoc
                 THEN [lookup EXCEPT ![t].pc = "load"] ELSE [lookup EXCEPT ![t].dirs = Tail(@)]
    /\ UNCHANGED <<bins, catUses>>

\* A place is done: the next one, or the end.
PlaceDone(t) ==
    /\ lookup[t].pc = "read" /\ lookup[t].dirs = <<>>
    /\ IF Len(lookup[t].places) > 1
       THEN lookup' = [lookup EXCEPT ![t].pc = "list", ![t].places = Tail(@)]
       ELSE CatReturns(t, IF lookup[t].call.op \in {"scan", "scan all", "units", "tools"} THEN "ok" ELSE "not found", NoDoc)
    /\ UNCHANGED <<bins, catUses>>

\* load_from_path reads the file that was found.
LoadsFound(t) ==
    /\ lookup[t].pc = "load"
    /\ LET d == Doc(Head(lookup[t].places), Head(lookup[t].dirs)) IN
       IF d = NoDoc THEN CatReturns(t, "not found", NoDoc)
       ELSE IF ~IsAgent(d) \/ ~SignatureOk(d) THEN CatReturns(t, "error", NoDoc)
       ELSE lookup' = [lookup EXCEPT ![t].pc = "grant", ![t].doc = d]
    /\ UNCHANGED <<bins, catUses>>

\* load_for_service: the manifest of the directory that came first.  For
\* discover_installed one manifest that does not parse is an error of the whole.
LoadsUnit(t) ==
    /\ lookup[t].pc = "read" /\ lookup[t].dirs # <<>> /\ lookup[t].call.op \in {"unit", "units"}
    /\ LET d == Doc("services", Head(lookup[t].dirs))  all == lookup[t].call.op = "units" IN
       IF all /\ d = NoDoc THEN lookup' = [lookup EXCEPT ![t].dirs = Tail(@)]
       ELSE IF ~UnitParses(d) THEN CatReturns(t, "error", NoDoc)
       ELSE IF all THEN lookup' = [lookup EXCEPT ![t].dirs = Tail(@), ![t].found = Append(@, UnitFromManifest(d))]
       ELSE CatReturns(t, "ok", UnitFromManifest(d))
    /\ UNCHANGED <<bins, catUses>>

\* ToolScanner::scan_as_entries: names that are no tool names are left out;
\* what is not available or degraded is unavailable; an owner stands in for a
\* permissions block.
ToolEntries(files) ==
    {[name |-> f.name, state |-> IF f.state \in {"available", "degraded"} THEN f.state ELSE "unavailable",
      owner |-> IF f.owner = "" THEN "root" ELSE f.owner] : f \in {g \in files : g.name # ""}}

\* ToolScanner::scan: no tools/ directory is no tools; one descriptor that does
\* not parse fails the registration.
ScansTools(t) ==
    /\ lookup[t].pc = "read" /\ lookup[t].dirs # <<>> /\ lookup[t].call.op = "tools"
    /\ LET d == Doc("services", Head(lookup[t].dirs))
           files == IF d # NoDoc /\ "tools" \in DOMAIN d THEN d.tools ELSE {} IN
       IF \E f \in files : ~f.parses THEN CatReturns(t, "error", NoDoc)
       ELSE lookup' = [lookup EXCEPT ![t].dirs = <<>>, ![t].found = SetToSeq(ToolEntries(files))]
    /\ UNCHANGED <<bins, catUses>>

AlwaysGranted == {"cap/request-tool", "cap/escalate", "cap/list", "job/watch"}

\* ToolGrantResolver::resolve
Permitted(c) == c.allowed \ c.denied
GrantedTools(c, m) == (ToSet(m.required) \cup (ToSet(m.optional) \cap Permitted(c))) \cup AlwaysGranted

\* ModelValidator, then the grants; then the goal: a template of the manifest
\* is rendered in place of the goal given.
Grants(t) ==
    /\ lookup[t].pc = "grant"
    /\ LET c == lookup[t].call  m == Parsed(lookup[t].doc) IN
       IF c.model = "" \/ ~(ToSet(m.required) \subseteq Permitted(c)) THEN CatReturns(t, "error", NoDoc)
       ELSE lookup' = [lookup EXCEPT ![t].pc = "prompt",
                           ![t].found = <<[tools |-> GrantedTools(c, m),
                                           goal |-> IF m.goalTemplate = "" THEN c.goal ELSE m.goalTemplate]>>]
    /\ UNCHANGED <<bins, catUses>>

\* load_system_prompt reads the file in the directory: empty if it is not there.
ReadsPrompt(t) ==
    /\ lookup[t].pc = "prompt"
    /\ LET d == Doc(Head(lookup[t].places), Head(lookup[t].dirs))
           file == Parsed(lookup[t].doc).prompt
           text == IF file # "" /\ d # NoDoc /\ "files" \in DOMAIN d /\ file \in d.files THEN file ELSE "" IN
       lookup' = [lookup EXCEPT ![t].pc = "done", ![t].outcome = "ok", ![t].found = <<[@[1] EXCEPT !.goal = <<@, text>>]>>]
    /\ UNCHANGED <<bins, catUses>>

-----------------------------------------------------------------------------

CatalogInit ==
    /\ bins \in {b \in [CatPlaces -> UNION {DOMAIN Listings[p] : p \in CatPlaces}] : \A p \in CatPlaces : b[p] \in DOMAIN Listings[p]}
    /\ lookup = [t \in CatTasks |-> NoLookup]
    /\ catUses = [lookups |-> 0, changes |-> 0]

CatalogNext ==
    \/ \E p \in CatPlaces : Changes(p)
    \/ \E t \in CatTasks :
          \/ LooksUp(t) \/ ListsPlace(t) \/ ScansNext(t) \/ GetsNext(t) \/ FindsNext(t) \/ PlaceDone(t)
          \/ LoadsFound(t) \/ LoadsUnit(t) \/ ScansTools(t) \/ Grants(t) \/ ReadsPrompt(t)

CatalogSpec == CatalogInit /\ [][CatalogNext]_catalogVars

-----------------------------------------------------------------------------
(* Properties *)

\* Types; a call has an outcome exactly when it is done.
CatalogTypeOK ==
    /\ \A p \in CatPlaces : bins[p] \in DOMAIN Listings[p]
    /\ \A t \in CatTasks : (lookup[t].pc = "done") <=> (lookup[t].outcome # "none")

\* What is installed at a place, as the catalogue should show it.
Installed(place) ==
    {[place |-> place, name |-> e.doc.name, version |-> e.doc.version] : e \in {x \in ToSet(Listing(place)) : ~Hidden(x.dir) /\ IsAgent(x.doc)}}

NamesAt(place) == {e.name : e \in Installed(place)}

Shown(user) == Installed("/bin") \cup {e \in Installed(user) : e.name \notin NamesAt("/bin")}

Settled(t, op) == lookup[t].pc = "done" /\ lookup[t].calm /\ lookup[t].call.op = op

\* The catalogue of a user has the system's agents and those of the user whose
\* names the system does not use, each once; that of an administrator every
\* name somebody has (scan, scan_all), if nothing changed meanwhile.
ScansAreRight ==
    \A t \in CatTasks :
        /\ Settled(t, "scan") => ToSet(lookup[t].found) = Shown(lookup[t].call.user) /\ IsInjective(lookup[t].found)
        /\ Settled(t, "scan all") =>
              /\ {e.name : e \in ToSet(lookup[t].found)} = UNION {NamesAt(p) : p \in CatPlaces \ {"services"}}
              /\ \A i, j \in DOMAIN lookup[t].found :
                    (i # j /\ lookup[t].found[i].name = lookup[t].found[j].name) =>
                        lookup[t].found[i].place = "/bin" /\ lookup[t].found[j].place = "/bin"

\* A spawn finds a manifest exactly for the agents the user's catalogue shows,
\* and takes it from the place the catalogue names (get_manifest and scan).
SpawnsAsShown ==
    \A t \in CatTasks :
        Settled(t, "get") =>
            LET named == {e \in Shown(lookup[t].call.user) : e.name = lookup[t].call.name} IN
            /\ (lookup[t].outcome = "ok") <=> named # {}
            /\ lookup[t].outcome = "ok" => \E e \in named : e.version = lookup[t].doc.version /\ Doc(e.place, [name |-> e.name, version |-> e.version]) = lookup[t].doc

\* What the resolver resolves is an agent the catalogue shows (the converse
\* fails: a manifest that is no agent's, found first, ends the search), with
\* all required tools, no tool that is denied or not allowed but the kernel's
\* own, and the prompt of its own directory (load_with_dir, resolve).
ResolvesAsShown ==
    \A t \in CatTasks :
        (Settled(t, "resolve") /\ lookup[t].outcome = "ok") =>
            LET m == Parsed(lookup[t].doc)  c == lookup[t].call  r == lookup[t].found[1] IN
            /\ \E e \in Shown(c.user) : e.name = c.name /\ e.version = m.version
            /\ ToSet(m.required) \subseteq r.tools
            /\ \A x \in r.tools \ AlwaysGranted : x \in c.allowed /\ x \notin c.denied
            /\ r.goal[2] # "" => r.goal[2] = m.prompt

CatalogIsRight == ScansAreRight /\ SpawnsAsShown /\ ResolvesAsShown
=============================================================================
