-------------------------------- MODULE Vfs --------------------------------
(***************************************************************************)
(* The virtual file system (memfs): VfsRouter over the in-memory default    *)
(* tree, the directories on disk that phase 2 of the boot mounts and the    *)
(* in-memory tree that phase 3 mounts at /tools; the kernel's fs/* methods  *)
(* and ensure_dir as its callers; the caller context an agent's launch sets; *)
(* a crash of the daemon, after which only the disk is left.                *)
(* A path is the sequence of its components, so that a prefix of it ends at *)
(* a component, as the router's comparison with "<prefix>/" does.           *)
(***************************************************************************)
EXTENDS Naturals, Sequences, FiniteSets

CONSTANTS
  VPaths,       \* paths that calls name
  BootPaths,    \* paths phase 1 writes
  MountTable,   \* sequence of the prefixes phase 2 mounts on disk
  MemMounts,    \* prefixes phase 3 mounts in memory
  Contents,     \* what a caller may write
  Skeleton,     \* what phase 1 writes
  Gone,         \* no such file
  Cut,          \* the file just truncated by a write on disk
  Mixed,        \* the bytes of two writes on disk that overlapped
  AgentContexts, \* caller contexts, as init_vfs_caller builds them
  NoContext,    \* no caller context is set
  VTasks,       \* concurrent calls
  MaxVfsCalls,  \* bound: calls
  MaxVfsCrashes \* bound: crashes

VARIABLES
  vfPhase,      \* phase of the boot
  vfLocal,      \* mounted prefixes: disk
  vfMem,        \* mounted prefixes: memory
  vfFiles,      \* prefix |-> (path |-> content); <<>> is the default tree
  vfContext,    \* the router's caller context
  vfTask,       \* call |-> where it is
  vfCalls,      \* calls made
  vfCrashes,    \* crashes so far
  vfAcked,      \* history: what the last acknowledged write left at a path
  vfSure,       \* history: that write overlapped no other and no crash
  vfEnsured     \* history: directories ensure_dir has answered for

vfsVars == <<vfPhase, vfLocal, vfMem, vfFiles, vfContext, vfTask, vfCalls, vfCrashes, vfAcked, vfSure, vfEnsured>>

\* What only the boot, a launch or a crash changes.
vfBooted == <<vfPhase, vfLocal, vfMem, vfContext, vfCrashes>>

Paths == VPaths \cup BootPaths

DiskMounts == {MountTable[i] : i \in DOMAIN MountTable}

Dirs == {SubSeq(p, 1, Len(p) - 1) : p \in Paths} \ {<<>>}

Keep(dir) == Append(dir, ".keep")

Under(prefix, path) == Len(prefix) <= Len(path) /\ SubSeq(path, 1, Len(prefix)) = prefix

Longest(prefixes) == CHOOSE p \in prefixes : \A q \in prefixes : Len(q) <= Len(p)

\* The tree that serves a path: the longest disk mount above it, else the
\* longest memory mount, else the default tree.
Route(path) ==
  LET disk == {p \in vfLocal : Under(p, path)}
      mem  == {p \in vfMem : Under(p, path)}
  IN IF disk # {} THEN Longest(disk) ELSE IF mem # {} THEN Longest(mem) ELSE <<>>

\* effective_for: the permissions are the same for every path, and their
\* "owner" and "crew" are the mode strings themselves.
Effective(c) ==
  CASE c.admin -> {"r", "w", "x"}
    [] ~c.admin /\ c.username = "rwx" -> {"r", "w", "x"}
    [] ~c.admin /\ c.username # "rwx" /\ "rw-" \in c.crews -> {"r", "w"}
    [] OTHER -> {"r"}

\* Without a caller context nothing is checked.
Allowed(mode) == vfContext = NoContext \/ mode \in Effective(vfContext)

\* exists looks in the disk mount, then in the memory mount, whose root always
\* exists, and at last in the default tree.
Exists(path) ==
  \/ \E p \in vfLocal : p = Route(path) /\ vfFiles[p][path] # Gone
  \/ \E p \in vfMem : Under(p, path) /\ (p = path \/ vfFiles[p][path] # Gone)
  \/ vfFiles[<<>>][path] # Gone

\* list: the names below the directory in the tree that serves it; a
\* directory without any is an error.
Listed(dir) == {p[Len(dir) + 1] : p \in {q \in Paths : Under(dir, q) /\ q # dir /\ vfFiles[Route(dir)][q] # Gone}}

NoFsCall == [op |-> "none", pc |-> "idle", path |-> <<>>, content |-> Gone, alone |-> TRUE]

MidWrite(path) == {t \in VTasks : vfTask[t].pc = "fill" /\ vfTask[t].path = path}

Empty == [p \in Paths |-> Gone]

VfsInit ==
  /\ vfPhase = "phase1"
  /\ vfLocal = {} /\ vfMem = {}
  /\ vfFiles = [m \in {<<>>} \cup DiskMounts \cup MemMounts |-> Empty]
  /\ vfContext = NoContext
  /\ vfTask = [t \in VTasks |-> NoFsCall]
  /\ vfCalls = 0 /\ vfCrashes = 0
  /\ vfAcked = Empty
  /\ vfSure = [p \in Paths |-> TRUE]
  /\ vfEnsured = {}

-----------------------------------------------------------------------------
(* Boot.                                                                    *)

\* Phase 1 writes the skeleton into the default tree; nothing is mounted yet.
Phase1 ==
  /\ vfPhase = "phase1"
  /\ vfFiles' = [vfFiles EXCEPT ![<<>>] = [p \in Paths |-> IF p \in BootPaths THEN Skeleton ELSE @[p]]]
  /\ vfAcked' = [p \in Paths |-> IF p \in BootPaths THEN Skeleton ELSE vfAcked[p]]
  /\ vfEnsured' = vfEnsured \cup {d \in Dirs : Keep(d) \in BootPaths}
  /\ vfPhase' = "phase2"
  /\ UNCHANGED <<vfLocal, vfMem, vfContext, vfTask, vfCalls, vfCrashes, vfSure>>

\* mount: one more prefix, kept sorted so that the longest match is found
\* first; the same prefix again replaces the entry.
Mount(prefix) == vfLocal' = vfLocal \cup {prefix}

\* mount_persistent_trees: directory by directory; then the kernel's server
\* starts.
Phase2 ==
  /\ vfPhase = "phase2"
  /\ LET done == Cardinality(vfLocal) IN
     \/ done < Len(MountTable) /\ Mount(MountTable[done + 1]) /\ UNCHANGED vfPhase
     \/ done = Len(MountTable) /\ vfPhase' = "phase3" /\ UNCHANGED vfLocal
  /\ UNCHANGED <<vfMem, vfFiles, vfContext, vfTask, vfCalls, vfCrashes, vfAcked, vfSure, vfEnsured>>

\* phase3_services mounts a new MemFs at /tools, while calls are served
\* already: what they wrote there before is hidden from now on.
Phase3 ==
  /\ vfPhase = "phase3"
  /\ vfMem' = MemMounts
  /\ vfAcked' = [p \in Paths |-> IF \E m \in MemMounts : Under(m, p) THEN Gone ELSE vfAcked[p]]
  /\ vfEnsured' = {d \in vfEnsured : ~\E m \in MemMounts : Under(m, d)}
  /\ vfPhase' = "up"
  /\ UNCHANGED <<vfLocal, vfFiles, vfContext, vfTask, vfCalls, vfCrashes, vfSure>>

Serving == vfPhase \in {"phase3", "up"}

\* init_vfs_caller at an agent's launch; nobody takes the context back.
SetCaller(c) ==
  /\ vfPhase = "up" /\ vfContext # c
  /\ vfContext' = c
  /\ UNCHANGED <<vfPhase, vfLocal, vfMem, vfFiles, vfTask, vfCalls, vfCrashes, vfAcked, vfSure, vfEnsured>>

\* The daemon is killed: memory is lost, calls end, a write on disk may be
\* left half done.
VfsCrash ==
  /\ vfCrashes < MaxVfsCrashes /\ Serving
  /\ vfCrashes' = vfCrashes + 1
  /\ vfPhase' = "phase1"
  /\ vfLocal' = {} /\ vfMem' = {}
  /\ vfFiles' = [m \in DOMAIN vfFiles |-> IF m \in DiskMounts THEN vfFiles[m] ELSE Empty]
  /\ vfContext' = NoContext
  /\ vfTask' = [t \in VTasks |-> NoFsCall]
  /\ vfAcked' = [p \in Paths |-> IF \E m \in DiskMounts : Under(m, p) THEN vfAcked[p] ELSE Gone]
  /\ vfSure' = [p \in Paths |-> (vfSure[p] /\ MidWrite(p) = {}) \/ ~\E m \in DiskMounts : Under(m, p)]
  /\ vfEnsured' = {d \in vfEnsured : \E m \in DiskMounts : Under(m, d)}
  /\ UNCHANGED vfCalls

-----------------------------------------------------------------------------
(* Calls.                                                                   *)

Advance(t, call) == vfTask' = [vfTask EXCEPT ![t] = call]

\* A parsed call of fs/read, fs/write, fs/delete or ensure_dir comes in.
VfsCall(t, op, path, content) ==
  /\ Serving /\ vfTask[t].pc = "idle" /\ vfCalls < MaxVfsCalls
  /\ vfCalls' = vfCalls + 1
  /\ Advance(t, [op |-> op, pc |-> IF op = "ensure" THEN "look" ELSE "check", path |-> path,
                 content |-> content, alone |-> TRUE])
  /\ UNCHANGED <<vfBooted, vfFiles, vfAcked, vfSure, vfEnsured>>

\* ensure_dir looks for the anchor and is done when there is one.
EnsureLooks(t) ==
  LET c == vfTask[t] IN
  /\ c.pc = "look"
  /\ IF Exists(c.path)
     THEN /\ Advance(t, NoFsCall)
          /\ vfEnsured' = vfEnsured \cup {SubSeq(c.path, 1, Len(c.path) - 1)}
     ELSE Advance(t, [c EXCEPT !.pc = "check"]) /\ UNCHANGED vfEnsured
  /\ UNCHANGED <<vfBooted, vfFiles, vfCalls, vfAcked, vfSure>>

\* The permission check; the context may change before the call goes on.
CheckAccess(t) ==
  LET c == vfTask[t] IN
  /\ c.pc = "check"
  /\ Advance(t, IF Allowed(IF c.op = "read" THEN "r" ELSE "w") THEN [c EXCEPT !.pc = "act"] ELSE NoFsCall)
  /\ UNCHANGED <<vfBooted, vfFiles, vfCalls, vfAcked, vfSure, vfEnsured>>

Disturbed(path) == [t \in VTasks |-> IF t \in MidWrite(path) THEN [vfTask[t] EXCEPT !.alone = FALSE] ELSE vfTask[t]]

Acknowledge(c, sure) ==
  /\ vfAcked' = [vfAcked EXCEPT ![c.path] = c.content]
  /\ vfSure' = [vfSure EXCEPT ![c.path] = sure]
  /\ vfEnsured' = IF c.op = "ensure" THEN vfEnsured \cup {SubSeq(c.path, 1, Len(c.path) - 1)} ELSE vfEnsured

\* A write on disk opens and truncates the file, and then fills it; in memory
\* it is one insert.
WriteActs(t) ==
  LET c == vfTask[t]
      m == Route(c.path)
  IN /\ c.pc = "act" /\ c.op \in {"write", "ensure"}
     /\ IF m \in DiskMounts
        THEN /\ vfFiles' = [vfFiles EXCEPT ![m][c.path] = Cut]
             /\ vfTask' = [Disturbed(c.path) EXCEPT ![t] = [c EXCEPT !.pc = "fill", !.alone = MidWrite(c.path) = {}]]
             /\ UNCHANGED <<vfAcked, vfSure, vfEnsured>>
        ELSE /\ vfFiles' = [vfFiles EXCEPT ![m][c.path] = c.content]
             /\ Advance(t, NoFsCall)
             /\ Acknowledge(c, TRUE)
     /\ UNCHANGED <<vfBooted, vfCalls>>

\* If another write filled the file meanwhile, bytes of both may be left; if
\* the file was deleted meanwhile, the bytes go to a file without a name.
WriteFills(t) ==
  LET c == vfTask[t]
      m == Route(c.path)
  IN /\ c.pc = "fill"
     /\ \E result \in CASE vfFiles[m][c.path] = Cut -> {c.content}
                        [] vfFiles[m][c.path] = Gone -> {Gone}
                        [] OTHER -> {c.content, Mixed} :
          vfFiles' = [vfFiles EXCEPT ![m][c.path] = result]
     /\ Advance(t, NoFsCall)
     /\ Acknowledge(c, c.alone)
     /\ UNCHANGED <<vfBooted, vfCalls>>

\* delete, an error when the file is not there.
DeleteActs(t) ==
  LET c == vfTask[t]
      m == Route(c.path)
  IN /\ c.pc = "act" /\ c.op = "delete"
     /\ IF vfFiles[m][c.path] = Gone
        THEN Advance(t, NoFsCall) /\ UNCHANGED <<vfFiles, vfAcked, vfSure, vfEnsured>>
        ELSE /\ vfFiles' = [vfFiles EXCEPT ![m][c.path] = Gone]
             /\ vfTask' = [Disturbed(c.path) EXCEPT ![t] = NoFsCall]
             /\ vfAcked' = [vfAcked EXCEPT ![c.path] = Gone]
             /\ vfSure' = [vfSure EXCEPT ![c.path] = MidWrite(c.path) = {}]
             /\ vfEnsured' = {d \in vfEnsured : Keep(d) # c.path}
     /\ UNCHANGED <<vfBooted, vfCalls>>

\* read: the answer is kept until the caller takes it.
ReadActs(t) ==
  LET c == vfTask[t] IN
  /\ c.pc = "act" /\ c.op = "read"
  /\ Advance(t, [c EXCEPT !.pc = "answer", !.content = vfFiles[Route(c.path)][c.path],
                 !.alone = vfSure[c.path] /\ MidWrite(c.path) = {}])
  /\ UNCHANGED <<vfBooted, vfFiles, vfCalls, vfAcked, vfSure, vfEnsured>>

ReadReturns(t) ==
  /\ vfTask[t].pc = "answer"
  /\ Advance(t, NoFsCall)
  /\ UNCHANGED <<vfBooted, vfFiles, vfCalls, vfAcked, vfSure, vfEnsured>>

VfsNext ==
  \/ Phase1 \/ Phase2 \/ Phase3 \/ VfsCrash
  \/ \E c \in AgentContexts : SetCaller(c)
  \/ \E t \in VTasks :
       \/ \E p \in VPaths : VfsCall(t, "read", p, Gone) \/ VfsCall(t, "delete", p, Gone)
       \/ \E p \in VPaths, v \in Contents : VfsCall(t, "write", p, v)
       \/ \E d \in Dirs : Keep(d) \in VPaths /\ VfsCall(t, "ensure", Keep(d), Skeleton)
       \/ EnsureLooks(t) \/ CheckAccess(t)
       \/ WriteActs(t) \/ WriteFills(t) \/ DeleteActs(t)
       \/ ReadActs(t) \/ ReadReturns(t)

-----------------------------------------------------------------------------
\* Type correctness; and a truncated or mixed file is only ever on disk.
VfsTypeOK ==
  /\ vfPhase \in {"phase1", "phase2", "phase3", "up"}
  /\ vfLocal \subseteq DiskMounts /\ vfMem \subseteq MemMounts
  /\ \A m \in DOMAIN vfFiles, p \in Paths :
       vfFiles[m][p] \in Contents \cup {Skeleton, Gone} \cup IF m \in DiskMounts THEN {Cut, Mixed} ELSE {}
  /\ vfContext \in AgentContexts \cup {NoContext}
  /\ \A t \in VTasks : vfTask[t].path \in Paths \cup {<<>>}

\* An acknowledged write, delete or boot file is what a read finds, across
\* mounts made meanwhile and across crashes for the trees on disk
\* (router.rs:172-262, phase2.rs:20-43): unless another call or a crash cut
\* into it, a file that nobody is writing has the content last acknowledged.
WritesAreFound ==
  Serving =>
    \A p \in Paths : vfSure[p] /\ MidWrite(p) = {} => vfFiles[Route(p)][p] = vfAcked[p]

\* ensure_dir promises a directory that can be listed (router.rs:475-479):
\* once it has answered, and until the anchor is deleted, the directory's
\* listing holds the anchor.  (Not below a memory mount: an anchor that the
\* mount has hidden still counts as existing.)
EnsuredIsListed ==
  Serving =>
    \A d \in vfEnsured : (~\E m \in MemMounts : Under(m, d)) /\ vfSure[Keep(d)] /\ MidWrite(Keep(d)) = {} => ".keep" \in Listed(d)

\* A reader sees a truncated or mixed file only if a write or a crash cut
\* into the file it reads (local_provider.rs:59-69).
TornOnlyWhenCut ==
  \A t \in VTasks :
    vfTask[t].pc = "answer" /\ vfTask[t].content \in {Cut, Mixed} => ~vfTask[t].alone

VfsIsKept == WritesAreFound /\ EnsuredIsListed /\ TornOnlyWhenCut
=============================================================================
