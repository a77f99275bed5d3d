----------------------------- MODULE Workspace -----------------------------
(***************************************************************************)
(* The workspace service (services/workspace): it registers with the       *)
(* kernel, and then answers one request per connection, several at a time, *)
(* each on a clone of the service made for it.  A handler asks the kernel  *)
(* for one file operation after the other over connections of their own,   *)
(* so the handlers of two requests interleave at each of them.  A kernel   *)
(* call may be refused (no connection, or an error reply, as for a method  *)
(* the kernel does not know), or be carried out although its answer is     *)
(* lost to the five seconds' time-out.                                     *)
(*                                                                         *)
(* A path is the sequence of its segments below /users, a text the         *)
(* sequence of its lines.                                                  *)
(***************************************************************************)
EXTENDS Naturals, Sequences, FiniteSets, SequencesExt

CONSTANTS
  WUsers,        \* users that requests name
  WCalls,        \* sequence of the requests' contents
  WHandlers,     \* connections served at the same time
  WFiles,        \* files at the start: a function from paths to texts
  BeginWith,     \* segments whose text begins with "workspace"
  Within,        \* pairs of a text and a query found in it
  MaxRequests,   \* bound: requests
  WNone          \* no project, no answer

VARIABLES
  wsUp,          \* the service: "starting", "serving", "exited"
  wsFiles,       \* the kernel's files
  wsCaller,      \* clone |-> caller_user
  wsTask,        \* handler |-> its request
  wsCount        \* requests so far

wsVars == <<wsUp, wsFiles, wsCaller, wsTask, wsCount>>

Fates == {"answered", "lost", "refused"}

WMethods ==
  {"list", "read", "info", "write", "delete", "create-project", "snapshot", "search", "set-default"}

NoRequestOf == [pc |-> "free", of |-> 0, dir |-> <<>>, todo |-> {}, text |-> <<>>,
                done |-> <<>>, wrote |-> {}, code |-> 0, alone |-> TRUE, sure |-> TRUE, at |-> <<>>]

-----------------------------------------------------------------------------
(* The kernel's side of a file call.                                       *)

Below(dir) == {p \in DOMAIN wsFiles : Len(p) > Len(dir) /\ SubSeq(p, 1, Len(dir)) = dir}

Children(dir) == {p[Len(dir) + 1] : p \in Below(dir)}

\* VfsClient::list, with every failure and every shapeless answer an empty
\* listing, as its callers make it.
WsListed(dir, fate) == IF fate = "answered" THEN Children(dir) ELSE {}

\* VfsClient::read: whether it gives a text, and the text.
Readable(path, fate) == fate = "answered" /\ path \in DOMAIN wsFiles

\* VfsClient::write: the file afterwards, and whether the caller learns of it.
WsWritten(path, text, fate) ==
  IF fate = "refused" THEN wsFiles
  ELSE [p \in DOMAIN wsFiles \cup {path} |-> IF p = path THEN text ELSE wsFiles[p]]

\* VfsClient::delete: the kernel's reply has no member "deleted", so that a
\* successful call reports FALSE.
DeletedFrom(path, fate) ==
  IF fate = "refused" THEN wsFiles ELSE [p \in DOMAIN wsFiles \ {path} |-> wsFiles[p]]

-----------------------------------------------------------------------------
WorkspaceInit ==
  /\ wsUp = "starting"
  /\ wsFiles = WFiles
  /\ wsCaller = [h \in WHandlers |-> WNone]
  /\ wsTask = [h \in WHandlers |-> NoRequestOf]
  /\ wsCount = 0

\* main: without the kernel's consent, or without its socket, it gives up.
Registers(fate) ==
  /\ wsUp = "starting"
  /\ wsUp' = IF fate = "answered" THEN "serving" ELSE "exited"
  /\ UNCHANGED <<wsFiles, wsCaller, wsTask, wsCount>>

\* A slip: clones that share the handlers they were cloned from.
SharedClone(h) == CHOOSE g \in WHandlers : TRUE

\* Clone gives each connection handlers of its own.
CloneOf(h) == h

WsEnds(t, code, done) == [t EXCEPT !.pc = "answered", !.code = code, !.done = done]

\* extract_caller_user
CallerIn(c) == IF c.user = WNone THEN "anonymous" ELSE c.user

\* handle_request: the caller is taken from the request and the method
\* looked up; parameters that do not parse end it.
Request(h, n) ==
  LET c == WCalls[n]
      free == {g \in WHandlers : wsTask[g].pc \in {"free", "answered"}}
      t == [NoRequestOf EXCEPT !.of = n, !.pc = "named", !.alone = (free = WHandlers),
           !.at = IF free = WHandlers THEN wsFiles ELSE <<>>]
  IN /\ wsUp = "serving" /\ wsCount < MaxRequests /\ h \in free
     /\ wsCount' = wsCount + 1
     /\ wsCaller' = [wsCaller EXCEPT ![CloneOf(h)] = CallerIn(c)]
     /\ wsTask' = [g \in WHandlers |->
          IF g = h THEN CASE c.op \notin WMethods -> WsEnds(t, -32601, <<>>)
                          [] c.bad -> WsEnds(t, -32602, <<>>)
                          [] OTHER -> t
          ELSE [wsTask[g] EXCEPT !.alone = FALSE, !.at = <<>>]]
     /\ UNCHANGED <<wsUp, wsFiles>>

\* get_workspace_root
WorkspaceRoot(h) == <<wsCaller[CloneOf(h)], "workspace">>

\* The target of read, write and delete: a path that starts with a slash is
\* taken as it is if its text begins with the root's.
InsideRoot(p, root) == Len(p) >= 2 /\ p[1] = root[1] /\ p[2] \in BeginWith

TargetOf(c, root) == IF c.absolute THEN c.path ELSE root \o c.path

ProjectOf(c, root) == IF c.project = WNone THEN root ELSE Append(root, c.project)

\* Every handler first finds the caller's root and the path it works on.
FindsRoot(h) ==
  LET t == wsTask[h]
      c == WCalls[t.of]
      root == WorkspaceRoot(h)
      onPath == c.op \in {"read", "write", "delete"}
      d == CASE onPath -> TargetOf(c, root)
             [] c.op \in {"info", "set-default"} -> root
             [] OTHER -> ProjectOf(c, root)
  IN /\ t.pc = "named"
     /\ wsTask' = [wsTask EXCEPT ![h] =
          IF onPath /\ c.absolute /\ ~InsideRoot(c.path, root) THEN WsEnds(t, -32000, <<>>)
          ELSE [t EXCEPT !.pc = "call", !.dir = d]]
     /\ UNCHANGED <<wsUp, wsFiles, wsCaller, wsCount>>

\* The request a handler works on, at its next kernel call.
WsAt(h, pc, ops) == wsTask[h].pc = pc /\ WCalls[wsTask[h].of].op \in ops

WsGoes(h, t, files, fate) ==
  /\ wsTask' = [wsTask EXCEPT ![h] = [t EXCEPT !.sure = @ /\ fate = "answered"]]
  /\ wsFiles' = files
  /\ UNCHANGED <<wsUp, wsCaller, wsCount>>

\* handle_list: one listing.
ListsNames(h, fate) ==
  /\ WsAt(h, "call", {"list"})
  /\ WsGoes(h, WsEnds(wsTask[h], 0, <<WsListed(wsTask[h].dir, fate)>>), wsFiles, fate)

\* handle_info lists the projects; its default project is always none.
TellsInfo(h, fate) ==
  /\ WsAt(h, "call", {"info"})
  /\ WsGoes(h, WsEnds(wsTask[h], 0, <<WsListed(wsTask[h].dir, fate)>>), wsFiles, fate)

\* handle_search by name: the names that hold the query.
SearchesNames(h, fate) ==
  LET t == wsTask[h]
      c == WCalls[t.of]
  IN /\ WsAt(h, "call", {"search"}) /\ c.kind = "name"
     /\ WsGoes(h, WsEnds(t, 0, <<{n \in WsListed(t.dir, fate) : <<n, c.query>> \in Within}>>), wsFiles, fate)

\* A search of an unknown kind finds nothing, without a call.
SearchesNothing(h) ==
  LET t == wsTask[h] IN
  /\ WsAt(h, "call", {"search"})
  /\ WCalls[t.of].kind \notin {"name", "content"}
  /\ WsGoes(h, WsEnds(t, 0, <<{}>>), wsFiles, "answered")

\* handle_read makes every failure a missing file.
ReadsFile(h, fate) ==
  LET t == wsTask[h] IN
  /\ WsAt(h, "call", {"read"})
  /\ WsGoes(h, IF Readable(t.dir, fate) THEN WsEnds(t, 0, wsFiles[t.dir]) ELSE WsEnds(t, -32000, <<>>),
          wsFiles, fate)

\* handle_write reads the file first; no failure of that read is the
\* FileNotFound it would pass over.
ReadsBefore(h, fate) ==
  LET t == wsTask[h] IN
  /\ WsAt(h, "call", {"write"})
  /\ WsGoes(h, IF Readable(t.dir, fate) THEN [t EXCEPT !.pc = "write"] ELSE WsEnds(t, -32000, <<>>),
          wsFiles, fate)

WritesFile(h, fate) ==
  LET t == wsTask[h] IN
  /\ WsAt(h, "write", {"write"})
  /\ WsGoes(h, [WsEnds(t, IF fate = "answered" THEN 0 ELSE -32000, <<>>) EXCEPT !.wrote = {t.dir}],
          WsWritten(t.dir, WCalls[t.of].text, fate), fate)

DeletesFile(h, fate) ==
  LET t == wsTask[h]
      ok == fate = "answered" /\ t.dir \in DOMAIN wsFiles
  IN /\ WsAt(h, "call", {"delete"})
     /\ WsGoes(h, [WsEnds(t, IF ok THEN 0 ELSE -32000, <<FALSE>>) EXCEPT !.wrote = {t.dir}],
             DeletedFrom(t.dir, fate), fate)

-----------------------------------------------------------------------------
(* The handlers of several files.                                          *)

TemplateFiles(template) ==
  CASE template = "python" -> <<"main.py", "requirements.txt", "README.md">>
    [] template = "web" -> <<"index.html", "style.css", "script.js">>
    [] OTHER -> <<>>

TemplateText(name) == IF name = "requirements.txt" THEN <<>> ELSE <<name>>

\* handle_create_project writes the template's files in their order and
\* stops at the first call that fails.
CreatesFile(h, fate) ==
  LET t == wsTask[h]
      files == TemplateFiles(WCalls[t.of].template)
      name == files[Len(t.done) + 1]
      path == Append(t.dir, name)
      more == [t EXCEPT !.done = Append(@, name), !.wrote = @ \cup {path}]
  IN /\ WsAt(h, "call", {"create-project"})
     /\ \/ /\ Len(t.done) = Len(files)
           /\ fate = "answered"
           /\ WsGoes(h, WsEnds(t, 0, t.done), wsFiles, fate)
        \/ /\ Len(t.done) < Len(files)
           /\ WsGoes(h, IF fate = "answered" THEN more
                      ELSE [WsEnds(t, -32000, t.done) EXCEPT !.wrote = @ \cup {path}],
                   WsWritten(path, TemplateText(name), fate), fate)

\* A snapshot and a search of contents list the project ...
ListsProject(h, fate) ==
  LET t == wsTask[h]
      c == WCalls[t.of]
  IN /\ WsAt(h, "call", {"snapshot", "search"})
     /\ c.op = "search" => c.kind = "content"
     /\ WsGoes(h, [t EXCEPT !.pc = "each", !.todo = WsListed(t.dir, fate),
                 !.done = IF c.op = "search" THEN <<{}>> ELSE <<0>>], wsFiles, fate)

SnapshotDir(c, u) == <<u, "workspace", ".snapshots", c.project, c.name>>

\* The lines of a text that hold the query, by number.
Hits(path, text, query) == {<<path, i>> : i \in {k \in DOMAIN text : <<text[k], query>> \in Within}}

\* ... and take its names one by one, in the listing's order, which is left
\* open; a name that cannot be read is passed over.
TakesName(h, name, fate) ==
  LET t == wsTask[h]
      c == WCalls[t.of]
      path == Append(t.dir, name)
      rest == [t EXCEPT !.todo = @ \ {name}]
  IN /\ WsAt(h, "each", {"snapshot", "search"}) /\ name \in t.todo
     /\ WsGoes(h, CASE ~Readable(path, fate) -> rest
                  [] c.op = "search" -> [rest EXCEPT !.done = <<@[1] \cup Hits(path, wsFiles[path], c.query)>>]
                  [] OTHER -> [rest EXCEPT !.pc = "copy", !.text = <<name, wsFiles[path]>>], wsFiles, fate)

\* A copy counts whether or not it was written.
CopiesFile(h, fate) ==
  LET t == wsTask[h]
      path == Append(SnapshotDir(WCalls[t.of], t.dir[1]), t.text[1])
  IN /\ WsAt(h, "copy", {"snapshot"})
     /\ WsGoes(h, [t EXCEPT !.pc = "each", !.done = <<@[1] + 1>>, !.text = <<>>, !.wrote = @ \cup {path}],
             WsWritten(path, t.text[2], fate), fate)

HasTakenAll(h) ==
  LET t == wsTask[h] IN
  /\ WsAt(h, "each", {"snapshot", "search"}) /\ t.todo = {}
  /\ WsGoes(h, WsEnds(t, 0, t.done), wsFiles, "answered")

\* handle_set_default ignores what became of its write.
SetsDefault(h, fate) ==
  LET t == wsTask[h]
      path == Append(t.dir, ".default")
  IN /\ WsAt(h, "call", {"set-default"})
     /\ WsGoes(h, [WsEnds(t, 0, <<>>) EXCEPT !.wrote = {path}], WsWritten(path, <<WCalls[t.of].project>>, fate), fate)

WorkspaceNext ==
  \/ \E fate \in {"answered", "refused"} : Registers(fate)
  \/ \E h \in WHandlers :
       \/ \E n \in DOMAIN WCalls : Request(h, n)
       \/ FindsRoot(h) \/ SearchesNothing(h) \/ HasTakenAll(h)
       \/ \E fate \in Fates :
            \/ ListsNames(h, fate) \/ TellsInfo(h, fate) \/ SearchesNames(h, fate) \/ ReadsFile(h, fate) \/ ReadsBefore(h, fate) \/ WritesFile(h, fate)
            \/ DeletesFile(h, fate) \/ CreatesFile(h, fate) \/ ListsProject(h, fate) \/ CopiesFile(h, fate)
            \/ SetsDefault(h, fate) \/ \E name \in wsTask[h].todo : TakesName(h, name, fate)

-----------------------------------------------------------------------------
\* The service's, the handlers' and the files' values are of their kinds.
WorkspaceTypeOK ==
  /\ wsUp \in {"starting", "serving", "exited"}
  /\ wsCount \in 0..MaxRequests
  /\ \A h \in WHandlers :
       /\ wsCaller[h] \in WUsers \cup {WNone}
       /\ wsTask[h].pc \in {"free", "named", "call", "write", "each", "copy", "answered"}
       /\ wsTask[h].of \in 0..Len(WCalls)
       /\ wsTask[h].code \in {0, -32000, -32601, -32602}
  /\ \A p \in DOMAIN wsFiles : p[1] \in WUsers /\ p[2] \in BeginWith

\* What a request tried to change lies below the workspace of the user it
\* named, whoever else is served in between: handle_request sets the caller
\* (set_caller_from_params) and the handler reads it later.
ChangesOwnWorkspace ==
  \A h \in WHandlers : \A p \in wsTask[h].wrote : InsideRoot(p, <<CallerIn(WCalls[wsTask[h].of]), "workspace">>)

\* A project reported as created got every file of its template, in order;
\* after a failure a front part of them, and at most one more, was written
\* (handle_create_project).
CreatedIsComplete ==
  \A h \in WHandlers : WsAt(h, "answered", {"create-project"}) /\ wsTask[h].code \in {0, -32000} =>
    LET t == wsTask[h]
        files == TemplateFiles(WCalls[t.of].template)
    IN /\ IsPrefix(t.done, files)
       /\ t.code = 0 => t.done = files
       /\ \A p \in t.wrote : \E i \in DOMAIN files : i <= Len(t.done) + 1 /\ files[i] = Last(p)
       /\ t.alone => \A n \in Range(t.done) : Append(t.dir, n) \in DOMAIN wsFiles

\* A request served alone, with every call answered, tells what was there
\* when it came: the file's text, the names, the lines that hold the query;
\* a snapshot copied exactly the project's own files, unchanged.
AloneIsExact ==
  \A h \in WHandlers :
    LET t == wsTask[h]
        c == WCalls[t.of]
        names == {p[Len(t.dir) + 1] : p \in {q \in DOMAIN t.at : Len(q) > Len(t.dir) /\ SubSeq(q, 1, Len(t.dir)) = t.dir}}
        own == {n \in names : Append(t.dir, n) \in DOMAIN t.at}
    IN t.pc = "answered" /\ t.alone /\ t.sure /\ t.code = 0 =>
         CASE c.op = "read" -> t.done = t.at[t.dir]
           [] c.op \in {"list", "info"} -> t.done = <<names>>
           [] c.op = "search" /\ c.kind = "name" -> t.done = <<{n \in names : <<n, c.query>> \in Within}>>
           [] c.op = "search" /\ c.kind = "content" ->
                t.done = <<UNION {Hits(Append(t.dir, n), t.at[Append(t.dir, n)], c.query) : n \in own}>>
           [] c.op = "snapshot" ->
                /\ t.done = <<Cardinality(own)>>
                /\ t.wrote = {Append(SnapshotDir(c, CallerIn(c)), n) : n \in own}
           [] OTHER -> TRUE

\* The three together.
WorkspaceIsKept == ChangesOwnWorkspace /\ CreatedIsComplete /\ AloneIsExact

=============================================================================
