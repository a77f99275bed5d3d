------------------------------ MODULE Sessions ------------------------------
(***************************************************************************)
(* Sessions, the invocations that run in them, and what a crash of the     *)
(* daemon leaves behind.  The kernel's calls (spawn, kill, pause, resume,  *)
(* session/resume, session/delete), the executors that go idle, and the    *)
(* boot phases 2.5 and 3.5 all change a session by reading the whole       *)
(* record and writing it back in another transaction; every such read and  *)
(* write is a step here.  The invocation store, the session store survive  *)
(* a crash, the process table, the active maps and the tasks do not.       *)
(* Names of agents, goals and participants are left out; one invocation    *)
(* per PID.  The turns of an executor are module AgentExecutor's.          *)
(***************************************************************************)
EXTENDS Naturals, FiniteSets

CONSTANTS
    Pids,        \* PIDs that Pid::generate may hand out, each once
    SessionIds,  \* session ids that may be created
    Callers,     \* kernel IPC calls that run at the same time
    NoPid, NoSession,
    MaxCrashes,  \* bound: crashes of the daemon
    MaxCalls     \* bound: kill, pause, resume and session calls in a behaviour

ASSUME SessionsAssumption ==
    /\ NoPid \notin Pids /\ NoSession \notin SessionIds
    /\ MaxCrashes \in Nat /\ MaxCalls \in Nat

VARIABLES
    sess,       \* session store: a SessionRecord or Absent for each id
    inv,        \* invocation store: status and session of each PID's record
    procs,      \* process table: status of each PID
    actSess,    \* active_sessions
    actInv,     \* active_invocations
    handles,    \* task_handles
    execTask,   \* the executor task of each PID
    kernelCall, \* the kernel call in progress of each caller
    bootAt,     \* boot phase and the records it still has to visit
    crashes, kernelCalls,
    kills,      \* history: PIDs a kill was issued for since the last boot
    deleted     \* history: sessions that were deleted

durable == <<sess, inv>>
kernelMaps == <<procs, actSess, actInv, handles>>
sessionVars == <<sess, inv, procs, actSess, actInv, handles, execTask, kernelCall, bootAt, crashes,
                 kernelCalls, kills, deleted>>
sessHistory == <<kills, deleted>>

LiveStates == {"running", "paused", "idle"}

NoSessionRecord == [status |-> "absent", pids |-> {}, owner |-> NoPid, meta |-> {}]

\* SessionRecord::new
NewSession(p) == [status |-> "running", pids |-> {p}, owner |-> p, meta |-> {}]

NoInvocation == [status |-> "none", session |-> NoSession]

NoTask == [pc |-> "none", copy |-> NoSessionRecord, aborted |-> FALSE, goal |-> FALSE, restored |-> FALSE]

NoCall == [pc |-> "idle", pid |-> NoPid, s |-> NoSession, copy |-> NoSessionRecord, todo |-> {}]

DaemonUp == bootAt.phase = "up"

\* PersistentSessionStore::update: the whole record is inserted again.  The
\* callers update only what an earlier get returned.
SessionUpdate(s, copy, new) == IF copy = NoSessionRecord THEN sess ELSE [sess EXCEPT ![s] = new]

BeginCall(c, rec) ==
    /\ DaemonUp /\ kernelCall[c].pc = "idle"
    /\ kernelCall' = [kernelCall EXCEPT ![c] = rec]

FreshPid(p) == inv[p] = NoInvocation /\ procs[p] = "none" /\ \A c \in Callers : kernelCall[c].pid # p
            /\ \A s \in SessionIds : p \notin sess[s].pids /\ sess[s].owner # p

-----------------------------------------------------------------------------
(* AgentManager::spawn                                                     *)

\* A spawn without session id and parent creates the session first.
SpawnNew(c, p, s) ==
    /\ FreshPid(p)
    /\ sess[s] = NoSessionRecord /\ s \notin deleted /\ \A q \in Pids : inv[q].session # s
    /\ BeginCall(c, [NoCall EXCEPT !.pc = "insert", !.pid = p, !.s = s])
    /\ sess' = [sess EXCEPT ![s] = NewSession(p)]
    /\ UNCHANGED <<inv, kernelMaps, execTask, bootAt, crashes, kernelCalls, sessHistory>>

\* A spawn into a session, by id or as the child of a PID in it: get,
SpawnInto(c, p, s) ==
    /\ FreshPid(p)
    /\ sess[s] # NoSessionRecord
    /\ BeginCall(c, [NoCall EXCEPT !.pc = "participant", !.pid = p, !.s = s, !.copy = sess[s]])
    /\ UNCHANGED <<durable, kernelMaps, execTask, bootAt, crashes, kernelCalls, sessHistory>>

\* add_participant and update.
SpawnParticipant(c) ==
    /\ kernelCall[c].pc = "participant"
    /\ sess' = SessionUpdate(kernelCall[c].s, kernelCall[c].copy, kernelCall[c].copy)
    /\ kernelCall' = [kernelCall EXCEPT ![c].pc = "insert"]
    /\ UNCHANGED <<inv, kernelMaps, execTask, bootAt, crashes, kernelCalls, sessHistory>>

\* The process entry, and the get before add_pid.
SpawnInsert(c) ==
    /\ kernelCall[c].pc = "insert"
    /\ procs' = [procs EXCEPT ![kernelCall[c].pid] = "pending"]
    /\ kernelCall' = [kernelCall EXCEPT ![c].pc = "addPid", ![c].copy = sess[kernelCall[c].s]]
    /\ UNCHANGED <<durable, actSess, actInv, handles, execTask, bootAt, crashes, kernelCalls, sessHistory>>

SpawnAddPid(c) ==
    /\ kernelCall[c].pc = "addPid"
    /\ LET p == kernelCall[c].pid  s == kernelCall[c].s  old == kernelCall[c].copy IN
       /\ sess' = SessionUpdate(s, old, [old EXCEPT !.pids = @ \cup {p}])
       /\ actSess' = [actSess EXCEPT ![p] = s]
    /\ kernelCall' = [kernelCall EXCEPT ![c].pc = "create"]
    /\ UNCHANGED <<inv, procs, actInv, handles, execTask, bootAt, crashes, kernelCalls, sessHistory>>

\* The invocation record, and the get before add_invocation_pid.
SpawnCreate(c) ==
    /\ kernelCall[c].pc = "create"
    /\ inv' = [inv EXCEPT ![kernelCall[c].pid] = [status |-> "running", session |-> kernelCall[c].s]]
    /\ kernelCall' = [kernelCall EXCEPT ![c].pc = "meta", ![c].copy = sess[kernelCall[c].s]]
    /\ UNCHANGED <<sess, kernelMaps, execTask, bootAt, crashes, kernelCalls, sessHistory>>

SpawnMeta(c) ==
    /\ kernelCall[c].pc = "meta"
    /\ LET p == kernelCall[c].pid  old == kernelCall[c].copy IN
       /\ sess' = SessionUpdate(kernelCall[c].s, old, [old EXCEPT !.meta = @ \cup {p}])
       /\ actInv' = actInv \cup {p}
    /\ kernelCall' = [kernelCall EXCEPT ![c].pc = "launch"]
    /\ UNCHANGED <<inv, procs, actSess, handles, execTask, bootAt, crashes, kernelCalls, sessHistory>>

SpawnLaunch(c) ==
    /\ kernelCall[c].pc = "launch"
    /\ execTask' = [execTask EXCEPT ![kernelCall[c].pid] = [NoTask EXCEPT !.pc = "starting"]]
    /\ kernelCall' = [kernelCall EXCEPT ![c].pc = "handle"]
    /\ UNCHANGED <<durable, kernelMaps, bootAt, crashes, kernelCalls, sessHistory>>

SpawnHandle(c) ==
    /\ kernelCall[c].pc = "handle"
    /\ handles' = handles \cup {kernelCall[c].pid}
    /\ procs' = [procs EXCEPT ![kernelCall[c].pid] = "running"]
    /\ kernelCall' = [kernelCall EXCEPT ![c] = NoCall]
    /\ UNCHANGED <<durable, actSess, actInv, execTask, bootAt, crashes, kernelCalls, sessHistory>>

SpawnStep(c) ==
    \/ SpawnParticipant(c) \/ SpawnInsert(c) \/ SpawnAddPid(c) \/ SpawnCreate(c)
    \/ SpawnMeta(c) \/ SpawnLaunch(c) \/ SpawnHandle(c)

-----------------------------------------------------------------------------
(* kernel/proc/kill: abort_agent and the two finalize_invocation           *)

CallCounted == kernelCalls < MaxCalls /\ kernelCalls' = kernelCalls + 1

KillAgent(c, p) ==
    /\ procs[p] # "none"
    /\ CallCounted
    /\ BeginCall(c, [NoCall EXCEPT !.pc = "finalize", !.pid = p])
    /\ handles' = handles \ {p}
    /\ execTask' = IF p \in handles THEN [execTask EXCEPT ![p].aborted = TRUE] ELSE execTask
    /\ procs' = [procs EXCEPT ![p] = "stopped"]
    /\ kills' = kills \cup {p}
    /\ UNCHANGED <<durable, actSess, actInv, bootAt, crashes, deleted>>

KillFinalize(c) ==
    /\ kernelCall[c].pc = "finalize"
    /\ LET p == kernelCall[c].pid IN
       /\ actInv' = actInv \ {p}
       /\ inv' = IF p \in actInv /\ inv[p] # NoInvocation
                 THEN [inv EXCEPT ![p].status = "killed"] ELSE inv
       /\ procs' = [procs EXCEPT ![p] = "stopped"]
       /\ actSess' = [actSess EXCEPT ![p] = NoSession]
       /\ kernelCall' = [kernelCall EXCEPT ![c] =
                      IF actSess[p] = NoSession THEN NoCall
                      ELSE [@ EXCEPT !.pc = "leave", !.s = actSess[p], !.copy = sess[actSess[p]]]]
    /\ UNCHANGED <<sess, handles, execTask, bootAt, crashes, kernelCalls, sessHistory>>

\* finalize_session_for_pid writes back what it read.
KillLeave(c) ==
    /\ kernelCall[c].pc = "leave"
    /\ LET p == kernelCall[c].pid  old == kernelCall[c].copy IN
       sess' = SessionUpdate(kernelCall[c].s, old,
                      [old EXCEPT !.pids = @ \ {p},
                                  !.status = IF p = old.owner THEN "failed" ELSE @])
    /\ kernelCall' = [kernelCall EXCEPT ![c] = NoCall]
    /\ UNCHANGED <<inv, kernelMaps, execTask, bootAt, crashes, kernelCalls, sessHistory>>

-----------------------------------------------------------------------------
(* Pause and resume, with the cascade to the other PIDs of the session     *)

Marked(ps, status) ==
    /\ procs' = [p \in Pids |-> IF p \in ps /\ procs[p] # "none" THEN status ELSE procs[p]]
    /\ inv' = [p \in Pids |-> IF p \in ps \cap actInv /\ inv[p] # NoInvocation
                              THEN [inv[p] EXCEPT !.status = status] ELSE inv[p]]

SessionCopy(s) == IF s = NoSession THEN NoSessionRecord ELSE sess[s]

PauseAgent(c, p) ==
    /\ procs[p] # "none"
    /\ CallCounted
    /\ Marked({p}, "paused")
    /\ LET old == SessionCopy(actSess[p]) IN
       BeginCall(c, IF p = old.owner
                THEN [NoCall EXCEPT !.pc = "pauseAll", !.pid = p, !.s = actSess[p], !.copy = old]
                ELSE NoCall)
    /\ UNCHANGED <<sess, actSess, actInv, handles, execTask, bootAt, crashes, sessHistory>>

PauseAll(c) ==
    /\ kernelCall[c].pc = "pauseAll"
    /\ LET old == kernelCall[c].copy IN
       /\ Marked(old.pids \ {kernelCall[c].pid}, "paused")
       /\ sess' = SessionUpdate(kernelCall[c].s, old, [old EXCEPT !.status = "paused"])
    /\ kernelCall' = [kernelCall EXCEPT ![c] = NoCall]
    /\ UNCHANGED <<actSess, actInv, handles, execTask, bootAt, crashes, kernelCalls, sessHistory>>

\* resume_agent of one PID; more are left to do in session/resume.
ResumeOne(c, p, todo) ==
    /\ Marked({p}, "running")
    /\ LET old == SessionCopy(actSess[p]) IN
       kernelCall' = [kernelCall EXCEPT ![c] =
                   IF old.status = "paused"
                   THEN [NoCall EXCEPT !.pc = "resumeAll", !.pid = p, !.s = actSess[p],
                                       !.copy = old, !.todo = todo]
                   ELSE IF todo = {} THEN NoCall
                   ELSE [NoCall EXCEPT !.pc = "resumeNext", !.todo = todo]]
    /\ UNCHANGED <<sess, actSess, actInv, handles, execTask, bootAt, crashes, sessHistory>>

ResumeAgent(c, p) ==
    /\ DaemonUp /\ kernelCall[c].pc = "idle"
    /\ procs[p] # "none"
    /\ CallCounted
    /\ ResumeOne(c, p, {})

ResumeAll(c) ==
    /\ kernelCall[c].pc = "resumeAll"
    /\ LET old == kernelCall[c].copy IN
       /\ Marked(old.pids \ {kernelCall[c].pid}, "running")
       /\ sess' = SessionUpdate(kernelCall[c].s, old, [old EXCEPT !.status = "running"])
       /\ kernelCall' = [kernelCall EXCEPT ![c] =
                      IF kernelCall[c].todo = {} THEN NoCall
                      ELSE [NoCall EXCEPT !.pc = "resumeNext", !.todo = kernelCall[c].todo]]
    /\ UNCHANGED <<actSess, actInv, handles, execTask, bootAt, crashes, kernelCalls, sessHistory>>

ResumeNext(c) ==
    /\ kernelCall[c].pc = "resumeNext"
    /\ \E p \in kernelCall[c].todo : ResumeOne(c, p, kernelCall[c].todo \ {p})
    /\ UNCHANGED kernelCalls

\* session/resume: resume the paused members, give the idle owner a goal,
\* or spawn a new invocation into the session.
Reachable(p) == p # NoPid /\ execTask[p].pc \notin {"none", "starting", "ended", "failed"}

SessionResumePaused(c, s) ==
    /\ sess[s].status = "paused" /\ sess[s].pids # {}
    /\ CallCounted
    /\ BeginCall(c, [NoCall EXCEPT !.pc = "resumeNext", !.todo = sess[s].pids])
    /\ UNCHANGED <<durable, kernelMaps, execTask, bootAt, crashes, sessHistory>>

SessionResumeIdle(c, s) ==
    /\ DaemonUp /\ kernelCall[c].pc = "idle"
    /\ sess[s].status = "idle" /\ sess[s].pids # {} /\ Reachable(sess[s].owner)
    /\ CallCounted
    /\ execTask' = [execTask EXCEPT ![sess[s].owner].goal = TRUE]
    /\ UNCHANGED <<durable, kernelMaps, kernelCall, bootAt, crashes, sessHistory>>

SessionResumeSpawn(c, p, s) ==
    /\ \/ sess[s].status = "running"
       \/ sess[s].status \in {"paused", "idle"} /\ sess[s].pids = {}
       \/ sess[s].status = "idle" /\ ~Reachable(sess[s].owner)
    /\ SpawnInto(c, p, s)

SessionDelete(c, s) ==
    /\ DaemonUp /\ kernelCall[c].pc = "idle"
    /\ sess[s] # NoSessionRecord
    /\ CallCounted
    /\ sess' = [sess EXCEPT ![s] = NoSessionRecord]
    /\ deleted' = deleted \cup {s}
    /\ UNCHANGED <<inv, kernelMaps, execTask, kernelCall, bootAt, crashes, kills>>

-----------------------------------------------------------------------------
(* The executor task, as far as it touches the records                     *)

TaskRuns(p, pcs) == execTask[p].pc \in pcs /\ ~execTask[p].aborted

\* A launched task registers its channel and begins its first turn; a
\* restored one goes idle at once.  idle() records the invocation as Idle
\* and reads the session; the write is the next step.
GoIdle(p) ==
    /\ execTask' = [execTask EXCEPT ![p].pc = "idling", ![p].copy = sess[inv[p].session]]
    /\ inv' = [inv EXCEPT ![p].status = "idle"]

TaskStart(p) ==
    /\ TaskRuns(p, {"starting"})
    /\ IF execTask[p].restored
       THEN GoIdle(p) /\ UNCHANGED procs
       ELSE /\ execTask' = [execTask EXCEPT ![p].pc = "running"]
            /\ procs' = [procs EXCEPT ![p] = "running"]
            /\ UNCHANGED inv
    /\ UNCHANGED <<sess, actSess, actInv, handles, kernelCall, bootAt, crashes, kernelCalls, sessHistory>>

TaskStartFails(p) ==
    /\ TaskRuns(p, {"starting"})
    /\ execTask' = [execTask EXCEPT ![p].pc = "failed"]
    /\ procs' = [procs EXCEPT ![p] = "crashed"]
    /\ UNCHANGED <<durable, actSess, actInv, handles, kernelCall, bootAt, crashes, kernelCalls, sessHistory>>

TaskTurnEnds(p) ==
    /\ TaskRuns(p, {"running"})
    /\ GoIdle(p)
    /\ UNCHANGED <<sess, procs, actSess, actInv, handles, kernelCall, bootAt, crashes, kernelCalls, sessHistory>>

\* The update of idle(): an abort does not come between the two.
TaskIdles(p) ==
    /\ execTask[p].pc = "idling"
    /\ LET old == execTask[p].copy IN
       sess' = SessionUpdate(inv[p].session, old, [old EXCEPT !.status = "idle"])
    /\ execTask' = [execTask EXCEPT ![p].pc = "waiting", ![p].copy = NoSessionRecord]
    /\ procs' = IF execTask[p].aborted THEN procs ELSE [procs EXCEPT ![p] = "waiting"]
    /\ UNCHANGED <<inv, actSess, actInv, handles, kernelCall, bootAt, crashes, kernelCalls, sessHistory>>

TaskGetsGoal(p) ==
    /\ TaskRuns(p, {"waiting"}) /\ execTask[p].goal
    /\ execTask' = [execTask EXCEPT ![p].pc = "running", ![p].goal = FALSE]
    /\ procs' = [procs EXCEPT ![p] = "running"]
    /\ UNCHANGED <<durable, actSess, actInv, handles, kernelCall, bootAt, crashes, kernelCalls, sessHistory>>

TaskAborted(p) ==
    /\ execTask[p].aborted /\ execTask[p].pc \in {"starting", "running", "waiting"}
    /\ execTask' = [execTask EXCEPT ![p] = [NoTask EXCEPT !.pc = "ended"]]
    /\ UNCHANGED <<durable, kernelMaps, kernelCall, bootAt, crashes, kernelCalls, sessHistory>>

TaskStep(p) == TaskStart(p) \/ TaskIdles(p) \/ TaskAborted(p)

-----------------------------------------------------------------------------
(* Crash and boot                                                          *)

DaemonCrash ==
    /\ crashes < MaxCrashes
    /\ crashes' = crashes + 1
    /\ procs' = [p \in Pids |-> "none"]
    /\ actSess' = [p \in Pids |-> NoSession]
    /\ actInv' = {} /\ handles' = {}
    /\ execTask' = [p \in Pids |-> NoTask]
    /\ kernelCall' = [c \in Callers |-> NoCall]
    /\ bootAt' = [phase |-> "repair", todo |-> {}, copy |-> NoSessionRecord]
    /\ kills' = {}
    /\ UNCHANGED <<durable, kernelCalls, deleted>>

Interrupted == {p \in Pids : inv[p].status \in LiveStates}

\* Phase 2.5, before anything can call the kernel: the sessions of live
\* invocations lose their PIDs and are marked Idle.
Repaired(r) ==
    IF r = NoSessionRecord THEN r
    ELSE [r EXCEPT !.pids = {}, !.status = IF @ \in {"running", "paused"} THEN "idle" ELSE @]

CrashRecovery ==
    /\ bootAt.phase = "repair"
    /\ sess' = [s \in SessionIds |-> IF \E p \in Interrupted : inv[p].session = s
                                     THEN Repaired(sess[s]) ELSE sess[s]]
    /\ bootAt' = [bootAt EXCEPT !.phase = "list"]
    /\ UNCHANGED <<inv, kernelMaps, execTask, kernelCall, crashes, kernelCalls, sessHistory>>

\* Faulty variant: idle agents are not taken for interrupted ones.
RestoreListsBusy ==
    /\ bootAt.phase = "list"
    /\ bootAt' = [bootAt EXCEPT !.phase = "restore",
                            !.todo = {p \in Pids : inv[p].status \in {"running", "paused"}}]
    /\ UNCHANGED <<durable, kernelMaps, execTask, kernelCall, crashes, kernelCalls, sessHistory>>

\* Phase 3.5: restore_interrupted_agents lists the invocations once ...
RestoreLists ==
    /\ bootAt.phase = "list"
    /\ bootAt' = [bootAt EXCEPT !.phase = "restore", !.todo = Interrupted]
    /\ UNCHANGED <<durable, kernelMaps, execTask, kernelCall, crashes, kernelCalls, sessHistory>>

\* ... and for each of them enters the process, reads the session,
RestoreReads(p) ==
    /\ bootAt.phase = "restore" /\ p \in bootAt.todo
    /\ procs' = [procs EXCEPT ![p] = "waiting"]
    /\ bootAt' = [phase |-> "attach", todo |-> bootAt.todo, copy |-> sess[inv[p].session]]
    /\ UNCHANGED <<durable, actSess, actInv, handles, execTask, kernelCall, crashes, kernelCalls, sessHistory>>

\* adds the PID to it, fills the maps and launches the executor.
RestoreAttaches(p) ==
    /\ bootAt.phase = "attach" /\ p \in bootAt.todo /\ procs[p] # "none" /\ actSess[p] = NoSession
    /\ sess' = SessionUpdate(inv[p].session, bootAt.copy, [bootAt.copy EXCEPT !.pids = @ \cup {p}])
    /\ actSess' = [actSess EXCEPT ![p] = inv[p].session]
    /\ actInv' = actInv \cup {p}
    /\ handles' = handles \cup {p}
    /\ execTask' = [execTask EXCEPT ![p] = [NoTask EXCEPT !.pc = "starting", !.restored = TRUE]]
    /\ bootAt' = [phase |-> "restore", todo |-> bootAt.todo \ {p}, copy |-> NoSessionRecord]
    /\ UNCHANGED <<inv, procs, kernelCall, crashes, kernelCalls, sessHistory>>

BootDone ==
    /\ bootAt.phase = "restore" /\ bootAt.todo = {}
    /\ bootAt' = [bootAt EXCEPT !.phase = "up"]
    /\ UNCHANGED <<durable, kernelMaps, execTask, kernelCall, crashes, kernelCalls, sessHistory>>

BootStep ==
    CrashRecovery \/ RestoreLists \/ BootDone \/ \E p \in Pids : RestoreReads(p) \/ RestoreAttaches(p)

-----------------------------------------------------------------------------
SessionsInit ==
    /\ sess = [s \in SessionIds |-> NoSessionRecord]
    /\ inv = [p \in Pids |-> NoInvocation]
    /\ procs = [p \in Pids |-> "none"]
    /\ actSess = [p \in Pids |-> NoSession]
    /\ actInv = {} /\ handles = {}
    /\ execTask = [p \in Pids |-> NoTask]
    /\ kernelCall = [c \in Callers |-> NoCall]
    /\ bootAt = [phase |-> "up", todo |-> {}, copy |-> NoSessionRecord]
    /\ crashes = 0 /\ kernelCalls = 0
    /\ kills = {} /\ deleted = {}

CallStep(c) ==
    SpawnStep(c) \/ KillFinalize(c) \/ KillLeave(c) \/ PauseAll(c) \/ ResumeAll(c) \/ ResumeNext(c)

SessionsNext ==
    \/ \E c \in Callers, p \in Pids, s \in SessionIds :
          SpawnNew(c, p, s) \/ SpawnInto(c, p, s) \/ SessionResumeSpawn(c, p, s)
    \/ \E c \in Callers, p \in Pids : KillAgent(c, p) \/ PauseAgent(c, p) \/ ResumeAgent(c, p)
    \/ \E c \in Callers, s \in SessionIds :
          SessionResumePaused(c, s) \/ SessionResumeIdle(c, s) \/ SessionDelete(c, s)
    \/ \E c \in Callers : CallStep(c)
    \/ \E p \in Pids : TaskStep(p) \/ TaskStartFails(p) \/ TaskTurnEnds(p) \/ TaskGetsGoal(p)
    \/ DaemonCrash \/ BootStep

\* The boot sequence and the calls and tasks that have begun go on; when a
\* turn ends, who calls and whether the daemon crashes is open.
SessionsFairness ==
    /\ WF_sessionVars(BootStep)
    /\ \A p \in Pids : WF_sessionVars(TaskStep(p))
    /\ \A c \in Callers : WF_sessionVars(CallStep(c))

SessionsSpec == SessionsInit /\ [][SessionsNext]_sessionVars /\ SessionsFairness

-----------------------------------------------------------------------------
SessionRecords ==
    [status : {"absent", "running", "idle", "paused", "failed"}, pids : SUBSET Pids,
     owner : Pids \cup {NoPid}, meta : SUBSET Pids]

\* Types; and a session record that exists has a status and an owner
\* (SessionRecord::new; update writes an existing record).
SessionsTypeOK ==
    /\ sess \in [SessionIds -> SessionRecords]
    /\ \A s \in SessionIds : sess[s] # NoSessionRecord => sess[s].status # "absent" /\ sess[s].owner \in Pids
    /\ inv \in [Pids -> [status : LiveStates \cup {"none", "killed"}, session : SessionIds \cup {NoSession}]]
    /\ procs \in [Pids -> {"none", "pending", "running", "paused", "waiting", "stopped", "crashed"}]
    /\ actSess \in [Pids -> SessionIds \cup {NoSession}]
    /\ actInv \subseteq Pids /\ handles \subseteq Pids
    /\ execTask \in [Pids -> [pc : {"none", "starting", "running", "idling", "waiting", "ended", "failed"},
                          copy : SessionRecords, aborted : BOOLEAN, goal : BOOLEAN, restored : BOOLEAN]]
    /\ \A c \in Callers : kernelCall[c].pid \in Pids \cup {NoPid} /\ kernelCall[c].copy \in SessionRecords
    /\ kills \subseteq Pids /\ deleted \subseteq SessionIds
    /\ bootAt.phase \in {"up", "repair", "list", "restore", "attach"} /\ bootAt.todo \subseteq Pids

Spawning(p) == \E c \in Callers : kernelCall[c].pid = p /\ kernelCall[c].pc \in {"create", "meta", "launch"}

\* While the daemon is up, every invocation that is recorded as running,
\* paused or idle has an executor, is being spawned, failed to start or was
\* asked to be killed: after a crash at any step of a
\* spawn, a kill or a boot, phase 3.5 brought it back.
InterruptedAreLive ==
    DaemonUp => \A p \in Interrupted :
             \/ Spawning(p) \/ p \in kills
             \/ execTask[p].pc \in {"starting", "running", "idling", "waiting", "failed"}

\* A crash never leaves an invocation without its session: whatever step of
\* a spawn the daemon stops at, a recorded invocation belongs to a session
\* that was recorded before it (unless the session was deleted).
NoOrphanInvocation ==
    \A p \in Pids : inv[p] # NoInvocation =>
        sess[inv[p].session] # NoSessionRecord \/ inv[p].session \in deleted

\* Together: what a crash leaves in the stores is whole enough to be repaired,
\* and phases 2.5 and 3.5 repair it.
CrashesAreRepaired == NoOrphanInvocation /\ InterruptedAreLive

\* After a crash the daemon comes up again and every interrupted agent
\* ends up waiting for its next goal, unless it fails to start, is killed
\* or another crash comes first.
RestoreCompletes ==
    \A p \in Pids :
        (bootAt.phase = "restore" /\ p \in bootAt.todo)
            ~> \/ execTask[p].pc \in {"waiting", "failed", "ended"}
               \/ bootAt.phase \in {"repair", "list"}

\* start_daemon: crash recovery runs "so no client ever observes a
\* Running/Paused record that has no live executor".
NoStaleSession ==
    DaemonUp /\ (\A c \in Callers : kernelCall[c].pc = "idle")
    => \A s \in SessionIds :
          sess[s].status \in {"running", "paused"}
          => \E p \in Pids : inv[p].session = s /\ execTask[p].pc \notin {"none", "ended", "failed"}
=============================================================================
