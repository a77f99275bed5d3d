---------------------------- MODULE AgentExecutor ----------------------------
(***************************************************************************)
(* One agent: the executor task that IpcExecutorFactory::launch spawns, the *)
(* in-process signal channel that reaches it, and the kernel requests that  *)
(* act on it at the same time (pause, resume, kill, session/resume and the  *)
(* plain signals).                                                          *)
(*                                                                          *)
(* Executor and requests run on different threads of the tokio runtime.     *)
(* Each of them is a control point plus `todo`, the store accesses that the *)
(* handler still has to make, in program order.  An access to the           *)
(* invocation or the session store is a read of the record into a copy and, *)
(* in a later step, the write of the whole record: the stores offer no      *)
(* transaction that spans the two.  The process table is updated in one     *)
(* step, under its own lock.                                                *)
(***************************************************************************)
EXTENDS Naturals, Sequences

CONSTANTS
    Callers,       \* concurrent kernel IPC connections, one task each
    Ops,           \* the kernel requests this instance issues
    LongWaits,     \* bound: the control points at which an hour may pass
    Modes,         \* how the executor is launched: "fresh", "restore"
    MaxRequests,   \* bound: requests issued in one behaviour
    ChanCap,       \* capacity of the mpsc signal channel (64 in the code)
    ChainLimit,    \* max_tool_chain_length (50 in the code)
    MaxCalls       \* bound: tool calls in one LLM response

Signals == {"SIGSTART", "SIGKILL", "SIGSTOP", "SIGSAVE", "SIGPIPE"}
AllOps == {"pause", "resume", "kill", "session/resume", "snapshot"} \cup Signals

ASSUME ExecutorAssumption ==
    /\ Ops \subseteq AllOps
    /\ LongWaits \subseteq {"pausedWait", "llm", "tools", "waitGoal"}
    /\ Modes \subseteq {"fresh", "restore"}
    /\ MaxRequests \in Nat
    /\ ChanCap \in Nat \ {0}
    /\ ChainLimit \in Nat
    /\ MaxCalls \in Nat \ {0}

VARIABLES
    pc,         \* control point of the executor task
    todo,       \* store accesses the executor still has to make
    copy,       \* the record it has read for the access in progress
    paused,     \* RuntimeExecutor.paused
    killed,     \* RuntimeExecutor.killed
    saveReq,    \* RuntimeExecutor.snapshot_requested
    chain,      \* chain_count of run_with_client
    calls,      \* tool calls of the current response still to be made
    token,      \* capability token: "valid" or "expired"
    after,      \* what wait_for_next_goal follows: "ok", "err", "restore"
    chan,       \* signals queued in the mpsc channel
    registered, \* SignalChannelRegistry has an entry for the pid
    lock,       \* caller that holds the registry mutex across a full send
    abortReq,   \* AbortHandle::abort was called
    handle,     \* AgentManager.task_handles has an entry for the pid
    active,     \* active_invocations has an entry for the pid
    activeSess, \* active_sessions has an entry for the pid
    inv,        \* the invocation record on disk
    proc,       \* ProcessEntry.status
    sess,       \* the session record on disk
    spawning,   \* what AgentManager::spawn still does after launch
    call,       \* per caller: accesses still to be made and record copy
    requests    \* requests issued so far

execVars == <<pc, paused, killed, saveReq, chain, calls, token, after>>
sigVars == <<chan, registered, lock>>
kernVars == <<abortReq, handle, active, activeSess, spawning>>
storeVars == <<inv, proc, sess>>
callVars == <<call, requests>>
vars == <<execVars, todo, copy, sigVars, kernVars, storeVars, callVars>>

-----------------------------------------------------------------------------
(* Records and store accesses *)

Kinds == {"Start", "Pause", "Resume", "Kill", "Stop", "Save", "Pipe"}
InvStatus == {"Running", "Idle", "Paused", "Completed", "Failed", "Killed"}
Live == {"Running", "Idle", "Paused"}
ProcStatus == {"Pending", "Running", "Paused", "Waiting", "Stopped", "Crashed"}
SessStatus == {"Running", "Idle", "Paused", "Completed", "Failed", "Archived"}

\* The part of an invocation or session record that the properties tell apart.
\* `pids` says whether the agent's pid is in SessionRecord.pids.
Record(kind, status, pids) == [kind |-> kind, status |-> status, pids |-> pids]
NoCopy == Record("none", "none", FALSE)
InvRecord == [kind : {"inv"}, status : InvStatus, pids : {FALSE}]
SessRecord == [kind : {"sess"}, status : SessStatus, pids : BOOLEAN]

Access(store, arg) == [store |-> store, arg |-> arg]

\* The record an access writes, from the copy it has read.
Updated(arg, rec) ==
    CASE arg = "keep"   -> rec
      [] arg = "leave"  -> [rec EXCEPT !.status = "Failed", !.pids = FALSE]
      [] arg = "resume" -> IF rec.status = "Paused"
                           THEN [rec EXCEPT !.status = "Running"] ELSE rec
      [] OTHER          -> [rec EXCEPT !.status = arg]

\* Whether the access writes at all: resume_agent updates only a Paused session.
Writes(arg, rec) == arg = "resume" => rec.status = "Paused"

\* persist_interim, update_goal: the whole record is written, status as read.
Interim == Access("inv", "keep")

\* idle() and persist_turn_error(), then ProcessStatus::Waiting.
IdleWrites == << Interim, Access("inv", "Idle"), Access("sess", "Idle"),
                 Access("proc", "Waiting") >>

Dead == {"exited", "dropped"}
ExecPc == {"launch", "top", "drain", "pausedWait", "llm", "tools", "waitGoal",
           "exiting"} \cup Dead

\* The receiver is gone: sends to the channel fail.  run_turn_loop owns the
\* executor and drops it on return; on the restore path it lives to the end.
Closed == pc \in Dead \/ (pc = "exiting" /\ after # "restore")

Ready(p) == pc = p /\ todo = << >>
-----------------------------------------------------------------------------
(* The executor task *)

\* IpcExecutorFactory::launch up to the registration of the signal channel.
SpawnFails ==
    /\ Ready("launch")
    /\ pc' = "exiting"
    /\ todo' = << Access("proc", "Crashed") >>
    /\ UNCHANGED <<paused, killed, saveReq, chain, calls, token, after, copy, sigVars,
                   kernVars, storeVars, callVars>>

Launch ==
    /\ Ready("launch")
    /\ lock = "none"
    /\ registered' = TRUE
    /\ IF after = "restore"
       THEN pc' = "waitGoal" /\ todo' = IdleWrites
       ELSE pc' = "top" /\ todo' = << Access("proc", "Running") >>
    /\ UNCHANGED <<paused, killed, saveReq, chain, calls, token, after, copy, chan, lock,
                   kernVars, storeVars, callVars>>

\* run_with_client returns Err; run_turn_loop persists it and waits for a goal.
TurnError(writes) ==
    /\ pc' = "waitGoal"
    /\ after' = "err"
    /\ todo' = writes \o IdleWrites

\* An hour passes on the wall clock since the token was issued or renewed.
TokenAges ==
    /\ token = "valid"
    /\ \E p \in LongWaits : Ready(p)
    /\ token' = "expired"
    /\ UNCHANGED <<pc, paused, killed, saveReq, chain, calls, after, todo, copy, sigVars,
                   kernVars, storeVars, callVars>>

\* Top of a turn: maybe_renew_token renews a token in its last five minutes, which
\* still is a valid one.  It does not renew an expired token, and that fails the turn.
TokenExpired ==
    /\ Ready("top")
    /\ token = "expired"
    /\ TurnError(<< >>)
    /\ UNCHANGED <<paused, killed, saveReq, chain, calls, token, copy, sigVars,
                   kernVars, storeVars, callVars>>

BeginTurn ==
    /\ Ready("top")
    /\ token = "valid"
    /\ pc' = "drain"
    /\ UNCHANGED <<paused, killed, saveReq, chain, calls, token, after, todo, copy, sigVars,
                   kernVars, storeVars, callVars>>

\* Faulty variant: the kernel's write is trusted, the executor writes nothing.
BetweenTurnsWrites_Trusting(k) == << >>

\* Store accesses of handle_signal_between_turns.
BetweenTurnsWrites(k) ==
    CASE k = "Pause"  -> << Access("inv", "Paused") >>
      [] k = "Resume" -> << Access("inv", "Running") >>
      [] OTHER        -> << >>

\* Faulty variant: SIGSTOP is forgotten.
HandleBetweenTurns_KillOnly(k) ==
    /\ killed' = (killed \/ k = "Kill")
    /\ paused' = IF k \in {"Pause", "Resume"} THEN k = "Pause" ELSE paused
    /\ saveReq' = (saveReq \/ k = "Save")

\* handle_signal_between_turns: its effect on the flags.
HandleBetweenTurns(k) ==
    /\ killed' = (killed \/ k \in {"Kill", "Stop"})
    /\ paused' = IF k \in {"Pause", "Resume"} THEN k = "Pause" ELSE paused
    /\ saveReq' = (saveReq \/ k = "Save")

\* Faulty variant: the pause loop polls the flag and never receives.
Receiving_DrainOnly == Ready("drain")

\* The drain loop and the pause loop receive signals.
Receiving == Ready("drain") \/ (Ready("pausedWait") /\ paused)

TurnSignal ==
    /\ Receiving
    /\ chan # << >>
    /\ chan' = Tail(chan)
    /\ HandleBetweenTurns(Head(chan))
    /\ IF killed'
       THEN TurnError(BetweenTurnsWrites(Head(chan)))
       ELSE todo' = BetweenTurnsWrites(Head(chan)) /\ UNCHANGED <<pc, after>>
    /\ UNCHANGED <<chain, calls, token, copy, registered, lock, kernVars, storeVars, callVars>>

EnterPause ==
    /\ Ready("drain")
    /\ chan = << >>
    /\ paused
    /\ pc' = "pausedWait"
    /\ UNCHANGED <<paused, killed, saveReq, chain, calls, token, after, todo, copy, sigVars,
                   kernVars, storeVars, callVars>>

\* Faulty variants: the pause flag is not looked at after the drain; the pause
\* loop is left without a signal; the drain waits for a signal.
MayCallLlm_NoCheck == (Ready("drain") /\ chan = << >>) \/ (Ready("pausedWait") /\ ~paused)
MayCallLlm_Leaves == (Ready("drain") /\ chan = << >> /\ ~paused) \/ Ready("pausedWait")
MayCallLlm_Waits == Ready("pausedWait") /\ ~paused

\* The signals are drained, or the pause is over.
MayCallLlm ==
    /\ ~paused
    /\ (Ready("drain") /\ chan = << >>) \/ Ready("pausedWait")

\* The snapshot that SIGSAVE asked for is taken, then the LLM is called.
CallLlm ==
    /\ MayCallLlm
    /\ pc' = "llm"
    /\ todo' = IF saveReq THEN << Interim >> ELSE << >>
    /\ saveReq' = FALSE
    /\ UNCHANGED <<paused, killed, chain, calls, token, after, copy, sigVars, kernVars,
                   storeVars, callVars>>

\* Store accesses of handle_signal_during_llm.
DuringLlmWrites(k) ==
    CASE k = "Pause" -> << Access("inv", "Paused") >>
      [] k = "Save"  -> << Interim >>
      [] OTHER       -> << >>

\* A signal wins the select!: the LLM call is cancelled and the turn restarts.
LlmSignal ==
    /\ Ready("llm")
    /\ chan # << >>
    /\ chan' = Tail(chan)
    /\ LET k == Head(chan) IN
       /\ killed' = (killed \/ k \in {"Kill", "Stop"})
       /\ paused' = IF k \in {"Pause", "Resume"} THEN k = "Pause" ELSE paused
       /\ IF killed'
          THEN TurnError(DuringLlmWrites(k))
          ELSE pc' = "top" /\ todo' = DuringLlmWrites(k) /\ UNCHANGED after
    /\ UNCHANGED <<saveReq, chain, calls, token, copy, registered, lock, kernVars, storeVars,
                   callVars>>

\* The LLM call fails.  Its completion needs a poll, which an aborted task
\* never gets again.
LlmFails ==
    /\ Ready("llm")
    /\ ~abortReq
    /\ TurnError(<< >>)
    /\ UNCHANGED <<paused, killed, saveReq, chain, calls, token, copy, sigVars, kernVars,
                   storeVars, callVars>>

\* run_with_client returns Ok; run_turn_loop goes idle.
FinishTurn ==
    /\ pc' = "waitGoal"
    /\ after' = "ok"
    /\ todo' = << Interim, Access("sess", "keep") >> \o IdleWrites

\* The LLM answers: a final text or a context summary.
LlmFinal ==
    /\ Ready("llm")
    /\ ~abortReq
    /\ FinishTurn
    /\ UNCHANGED <<paused, killed, saveReq, chain, calls, token, copy, sigVars, kernVars,
                   storeVars, callVars>>

\* Faulty variant: the limit is compared before the calls are counted.
OverLimit_Late(n) == chain > ChainLimit

OverLimit(n) == chain + n > ChainLimit

\* The LLM answers with n tool calls: over the chain limit the turn ends
\* gracefully, otherwise they are dispatched one by one.  A tool_use response
\* without a call (n = 0) just starts the next round.
LlmTools(n) ==
    /\ Ready("llm")
    /\ ~abortReq
    /\ IF OverLimit(n)
       THEN FinishTurn /\ UNCHANGED <<chain, calls>>
       ELSE /\ pc' = "tools" /\ chain' = chain + n /\ calls' = n
            /\ UNCHANGED <<todo, after>>
    /\ UNCHANGED <<paused, killed, saveReq, token, copy, sigVars, kernVars, storeVars, callVars>>

\* Faulty variant: the loop runs once too often.
MoreCalls_OffByOne == calls >= 0

MoreCalls == calls > 0

\* One tool call: refused by validation or the HIL gate, or dispatched and
\* followed by save_invocation_state.  No signal is looked at in between.
ToolCall ==
    /\ Ready("tools")
    /\ MoreCalls
    /\ calls' = calls - 1
    /\ \/ todo' = << >>
       \/ ~abortReq /\ todo' = << Interim >>
    /\ UNCHANGED <<pc, paused, killed, saveReq, chain, token, after, copy, sigVars, kernVars,
                   storeVars, callVars>>

ToolsDone ==
    /\ Ready("tools")
    /\ calls = 0
    /\ pc' = "top"
    /\ UNCHANGED <<paused, killed, saveReq, chain, calls, token, after, todo, copy, sigVars,
                   kernVars, storeVars, callVars>>

\* wait_for_next_goal receives SIGSTART: the goal is recorded (not on the
\* restore path) and run_turn_loop starts the next turn.
GoalArrives ==
    /\ Ready("waitGoal")
    /\ chan # << >>
    /\ Head(chan) = "Start"
    /\ chan' = Tail(chan)
    /\ pc' = "top"
    /\ chain' = 0
    /\ todo' = (IF after = "restore" THEN << >> ELSE << Interim >>)
               \o << Access("proc", "Running") >>
    /\ UNCHANGED <<paused, killed, saveReq, calls, token, after, copy, registered, lock,
                   kernVars, storeVars, callVars>>

\* wait_for_next_goal receives SIGKILL or SIGSTOP: the loop is left; only
\* after a failed turn are the records finalized.
KilledWhileWaiting ==
    /\ Ready("waitGoal")
    /\ chan # << >>
    /\ Head(chan) \in {"Kill", "Stop"}
    /\ chan' = Tail(chan)
    /\ killed' = TRUE
    /\ pc' = "exiting"
    /\ todo' = IF after = "err"
               THEN << Access("inv", "Killed"), Access("proc", "Crashed") >>
               ELSE << >>
    /\ UNCHANGED <<paused, saveReq, chain, calls, token, after, copy, registered, lock,
                   kernVars, storeVars, callVars>>

\* Any other signal while waiting; a killed flag left by an earlier turn is
\* noticed here.
SignalWhileWaiting ==
    /\ Ready("waitGoal")
    /\ chan # << >>
    /\ Head(chan) \notin {"Start", "Kill", "Stop"}
    /\ chan' = Tail(chan)
    /\ HandleBetweenTurns(Head(chan))
    /\ todo' = BetweenTurnsWrites(Head(chan)) \o
               (IF killed /\ after = "err"
                THEN << Access("inv", "Killed"), Access("proc", "Crashed") >>
                ELSE << >>)
    /\ pc' = IF killed THEN "exiting" ELSE pc
    /\ UNCHANGED <<chain, calls, token, after, copy, registered, lock, kernVars, storeVars,
                   callVars>>

\* The end of the task: the channel is unregistered under the registry mutex.
Exit ==
    /\ Ready("exiting")
    /\ lock = "none"
    /\ registered' = FALSE
    /\ pc' = "exited"
    /\ UNCHANGED <<paused, killed, saveReq, chain, calls, token, after, todo, copy, chan,
                   lock, kernVars, storeVars, callVars>>

\* tokio drops an aborted task at a suspension point; the stores have none
\* between the read and the write of an access.
AbortSeen == pc \notin Dead /\ copy = NoCopy

Dropped ==
    /\ abortReq
    /\ AbortSeen
    /\ pc' = "dropped"
    /\ todo' = << >>
    /\ UNCHANGED <<paused, killed, saveReq, chain, calls, token, after, copy, sigVars,
                   kernVars, storeVars, callVars>>

\* The next store access of the executor.
ExecRead ==
    /\ todo # << >>
    /\ Head(todo).store \in {"inv", "sess"}
    /\ copy = NoCopy
    /\ copy' = IF Head(todo).store = "inv" THEN inv ELSE sess
    /\ UNCHANGED <<execVars, todo, sigVars, kernVars, storeVars, callVars>>

ExecWrite ==
    /\ todo # << >>
    /\ copy # NoCopy
    /\ IF Head(todo).store = "inv"
       THEN inv' = Updated(Head(todo).arg, copy) /\ UNCHANGED sess
       ELSE sess' = Updated(Head(todo).arg, copy) /\ UNCHANGED inv
    /\ copy' = NoCopy
    /\ todo' = Tail(todo)
    /\ UNCHANGED <<execVars, sigVars, kernVars, proc, callVars>>

ExecSetStatus ==
    /\ todo # << >>
    /\ Head(todo).store = "proc"
    /\ proc' = Head(todo).arg
    /\ todo' = Tail(todo)
    /\ UNCHANGED <<execVars, copy, sigVars, kernVars, inv, sess, callVars>>

Executor ==
    \/ SpawnFails \/ Launch \/ TokenExpired \/ BeginTurn \/ TurnSignal
    \/ EnterPause \/ CallLlm \/ LlmSignal \/ LlmFails \/ LlmFinal
    \/ \E n \in 0..MaxCalls : LlmTools(n)
    \/ ToolCall \/ ToolsDone \/ GoalArrives \/ KilledWhileWaiting
    \/ SignalWhileWaiting \/ Exit \/ ExecRead \/ ExecWrite \/ ExecSetStatus

-----------------------------------------------------------------------------
(* AgentManager::spawn after factory.launch: the abort handle is stored, then *)
(* the process is marked Running.                                             *)

StoreHandle ==
    /\ spawning = "handle"
    /\ handle' = TRUE
    /\ spawning' = IF after = "restore" THEN "done" ELSE "status"
    /\ UNCHANGED <<execVars, todo, copy, sigVars, abortReq, active, activeSess,
                   storeVars, callVars>>

MarkRunning ==
    /\ spawning = "status"
    /\ proc' = "Running"
    /\ spawning' = "done"
    /\ UNCHANGED <<execVars, todo, copy, sigVars, abortReq, handle, active, activeSess,
                   inv, sess, callVars>>

-----------------------------------------------------------------------------
(* Kernel requests.  Each is the list of its steps, run by one caller.        *)

\* SignalHandler::pause_agent and resume_agent.
SignalSteps(status, kind, sessArg) ==
    << Access("proc", status), Access("lookupInv", status), Access("send", kind),
       Access("lookupSess", sessArg) >>
PauseSteps == SignalSteps("Paused", "Pause", "Paused")
ResumeSteps == SignalSteps("Running", "Resume", "resume")

\* kernel/proc/kill: AgentManager::abort_agent, ProcHandler::abort_agent with
\* finalize_session_for_pid, then kill_proc.
KillSteps ==
    << Access("abort", "task"), Access("proc", "Stopped"), Access("takeInv", "Killed"),
       Access("proc", "Stopped"), Access("takeInv", "Killed"),
       Access("takeSess", "leave"), Access("proc", "Stopped") >>

\* SignalHandler::send_signal: the signal kind of a signal name.
KindOf == [SIGSTART |-> "Start", SIGKILL |-> "Kill", SIGSTOP |-> "Stop",
           SIGSAVE |-> "Save", SIGPIPE |-> "Pipe"]

\* kernel/proc/session/resume reads the session: a Paused one is resumed, an
\* Idle one gets SIGSTART.  Any other starts a new agent, which is not this one.
SessionResumeSteps ==
    CASE sess.status = "Paused" /\ sess.pids -> ResumeSteps
      [] sess.status = "Idle" /\ sess.pids   -> << Access("send", "Start") >>
      [] OTHER                               -> << >>

\* snapshot_invocation checks the status before it calls persist_interim.
SnapshotSteps == IF inv.status \in Live THEN << Interim >> ELSE << >>

Steps(op) ==
    CASE op = "pause"          -> PauseSteps
      [] op = "resume"         -> ResumeSteps
      [] op = "kill"           -> KillSteps
      [] op = "session/resume" -> SessionResumeSteps
      [] op = "snapshot"       -> SnapshotSteps
      [] op \in Signals        -> << Access("send", KindOf[op]) >>

\* A request arrives on an idle connection.  session/resume and snapshot make
\* their first read here.
Request(c, op) ==
    /\ requests < MaxRequests
    /\ call[c].todo = << >>
    /\ requests' = requests + 1
    /\ call' = [call EXCEPT ![c].todo = Steps(op)]
    /\ UNCHANGED <<execVars, todo, copy, sigVars, kernVars, storeVars>>

NextStep(c) == Head(call[c].todo)
At(c, stores) == call[c].todo # << >> /\ NextStep(c).store \in stores
Advance(c) == [call EXCEPT ![c].todo = Tail(@)]
\* The step is replaced by an access to the record it has looked up.
Resolve(c, found, store) ==
    [call EXCEPT ![c].todo = (IF found THEN << Access(store, NextStep(c).arg) >>
                              ELSE << >>) \o Tail(@)]

CallSetStatus(c) ==
    /\ At(c, {"proc"})
    /\ proc' = NextStep(c).arg
    /\ call' = Advance(c)
    /\ UNCHANGED <<execVars, todo, copy, sigVars, kernVars, inv, sess, requests>>

\* active_invocations.get and active_sessions.get.
CallLookup(c) ==
    /\ At(c, {"lookupInv", "lookupSess"})
    /\ call' = IF NextStep(c).store = "lookupInv"
               THEN Resolve(c, active, "inv")
               ELSE Resolve(c, activeSess, "sess")
    /\ UNCHANGED <<execVars, todo, copy, sigVars, kernVars, storeVars, requests>>

\* Faulty variant: the entry is read, not removed.
CallTakeInv_Get(c) ==
    /\ At(c, {"takeInv"})
    /\ call' = Resolve(c, active, "inv")
    /\ UNCHANGED <<execVars, todo, copy, sigVars, kernVars, storeVars, requests>>

\* finalize_invocation: active_invocations.remove decides who finalizes.
CallTakeInv(c) ==
    /\ At(c, {"takeInv"})
    /\ call' = Resolve(c, active, "inv")
    /\ active' = FALSE
    /\ UNCHANGED <<execVars, todo, copy, sigVars, abortReq, handle, activeSess, spawning,
                   storeVars, requests>>

\* finalize_session_for_pid: active_sessions.remove.
CallTakeSess(c) ==
    /\ At(c, {"takeSess"})
    /\ call' = Resolve(c, activeSess, "sess")
    /\ activeSess' = FALSE
    /\ UNCHANGED <<execVars, todo, copy, sigVars, abortReq, handle, active, spawning,
                   storeVars, requests>>

\* task_handles.remove and AbortHandle::abort.
CallAbort(c) ==
    /\ At(c, {"abort"})
    /\ abortReq' = (abortReq \/ handle)
    /\ handle' = FALSE
    /\ call' = Advance(c)
    /\ UNCHANGED <<execVars, todo, copy, sigVars, active, activeSess, spawning, storeVars,
                   requests>>

\* Faulty variant: the sender locks the registry again after it has waited.
MaySend_Relocks(c) == lock = "none"

MaySend(c) == lock \in {"none", c}

\* SignalChannelRegistry::send: refused without a live channel; otherwise the
\* signal is queued when there is room.
CallSend(c) ==
    /\ At(c, {"send"})
    /\ MaySend(c)
    /\ lock' = "none"
    /\ IF ~registered \/ Closed
       THEN UNCHANGED chan
       ELSE Len(chan) < ChanCap /\ chan' = Append(chan, NextStep(c).arg)
    /\ call' = Advance(c)
    /\ UNCHANGED <<execVars, todo, copy, registered, kernVars, storeVars, requests>>

\* The channel is full: the sender waits for room and keeps the registry mutex.
CallSendBlocks(c) ==
    /\ At(c, {"send"})
    /\ lock = "none"
    /\ registered
    /\ ~Closed
    /\ Len(chan) = ChanCap
    /\ lock' = c
    /\ UNCHANGED <<execVars, todo, copy, chan, registered, kernVars, storeVars, callVars>>

CallRead(c) ==
    /\ At(c, {"inv", "sess"})
    /\ call[c].copy = NoCopy
    /\ call' = [call EXCEPT ![c].copy = IF NextStep(c).store = "inv" THEN inv ELSE sess]
    /\ UNCHANGED <<execVars, todo, copy, sigVars, kernVars, storeVars, requests>>

CallWrite(c) ==
    /\ At(c, {"inv", "sess"})
    /\ call[c].copy # NoCopy
    /\ LET new == Updated(NextStep(c).arg, call[c].copy)
       IN IF ~Writes(NextStep(c).arg, call[c].copy)
          THEN UNCHANGED <<inv, sess>>
          ELSE IF NextStep(c).store = "inv"
               THEN inv' = new /\ UNCHANGED sess
               ELSE sess' = new /\ UNCHANGED inv
    /\ call' = [call EXCEPT ![c] = [todo |-> Tail(@.todo), copy |-> NoCopy]]
    /\ UNCHANGED <<execVars, todo, copy, sigVars, kernVars, proc, requests>>

CallStep(c) ==
    \/ CallSetStatus(c) \/ CallLookup(c) \/ CallTakeInv(c) \/ CallTakeSess(c)
    \/ CallAbort(c) \/ CallSend(c) \/ CallSendBlocks(c) \/ CallRead(c) \/ CallWrite(c)

-----------------------------------------------------------------------------
(* Behaviours *)

\* spawn (or restore_from_invocation) has just called factory.launch.
Init ==
    /\ pc = "launch"
    /\ todo = << >>
    /\ copy = NoCopy
    /\ paused = FALSE /\ killed = FALSE /\ saveReq = FALSE
    /\ chain = 0 /\ calls = 0 /\ token = "valid"
    /\ chan = << >> /\ registered = FALSE /\ lock = "none"
    /\ abortReq = FALSE /\ handle = FALSE
    /\ active = TRUE /\ activeSess = TRUE
    /\ spawning = "handle"
    /\ \/ /\ "fresh" \in Modes
          /\ after = "ok"
          /\ inv = Record("inv", "Running", FALSE)
          /\ proc = "Pending"
          /\ sess = Record("sess", "Running", TRUE)
       \/ /\ "restore" \in Modes
          /\ after = "restore"
          /\ inv \in {Record("inv", s, FALSE) : s \in Live}
          /\ proc = "Waiting"
          /\ sess = Record("sess", "Idle", TRUE)
    /\ call = [c \in Callers |-> [todo |-> << >>, copy |-> NoCopy]]
    /\ requests = 0

\* Nothing is left to do: the requests are used up and the executor is dead,
\* or it waits for a signal.
Quiet ==
    /\ requests = MaxRequests
    /\ \A c \in Callers : call[c].todo = << >>
    /\ spawning = "done"
    /\ pc \in Dead \/ (chan = << >> /\ (Ready("waitGoal") \/ (Ready("pausedWait") /\ paused)))

Next ==
    \/ Executor
    \/ Dropped
    \/ TokenAges
    \/ StoreHandle
    \/ MarkRunning
    \/ \E c \in Callers : CallStep(c)
    \/ \E c \in Callers, op \in Ops : Request(c, op)
    \/ Quiet /\ UNCHANGED vars

Spec == Init /\ [][Next]_vars

\* The runtime polls every task that can make progress, LLM and tool calls
\* return, and tokio drops an aborted task that cannot go on.  Clients need
\* not send requests.  A mutex or a channel slot goes to each waiter in turn.
FairSpec ==
    /\ Spec
    /\ WF_vars(Executor)
    /\ WF_vars(Dropped)
    /\ WF_vars(StoreHandle) /\ WF_vars(MarkRunning)
    /\ \A c \in Callers : SF_vars(CallStep(c))

-----------------------------------------------------------------------------
(* Properties *)

InvArgs == InvStatus \cup {"keep"}
SessArgs == {"Idle", "Paused", "keep", "leave", "resume"}
ExecAccesses ==
    [store : {"inv"}, arg : InvArgs] \cup [store : {"sess"}, arg : SessArgs]
    \cup [store : {"proc"}, arg : ProcStatus]
CallAccesses ==
    ExecAccesses
    \cup [store : {"lookupInv", "takeInv"}, arg : InvStatus]
    \cup [store : {"lookupSess", "takeSess"}, arg : SessArgs]
    \cup [store : {"send"}, arg : Kinds] \cup [store : {"abort"}, arg : {"task"}]
Copies == InvRecord \cup SessRecord \cup {NoCopy}

\* A copy is held only for the access in progress, and is of its store's kind.
CopyMatches(q, cp) == cp # NoCopy => q # << >> /\ cp.kind = Head(q).store

ExecType ==
    /\ pc \in ExecPc
    /\ chain \in Nat
    /\ calls \in 0..MaxCalls
    /\ token \in {"valid", "expired"}
    /\ after \in {"ok", "err", "restore"}
TodoType ==
    /\ todo \in Seq(ExecAccesses)
    /\ copy \in Copies
    /\ CopyMatches(todo, copy)
FlagType ==
    /\ paused \in BOOLEAN /\ killed \in BOOLEAN /\ saveReq \in BOOLEAN
    /\ registered \in BOOLEAN /\ abortReq \in BOOLEAN /\ handle \in BOOLEAN
    /\ active \in BOOLEAN /\ activeSess \in BOOLEAN
StoreType ==
    /\ chan \in Seq(Kinds)
    /\ lock \in Callers \cup {"none"}
    /\ spawning \in {"handle", "status", "done"}
    /\ inv \in InvRecord
    /\ proc \in ProcStatus
    /\ sess \in SessRecord
CallType ==
    /\ call \in [Callers -> [todo : Seq(CallAccesses), copy : Copies]]
    /\ \A c \in Callers : CopyMatches(call[c].todo, call[c].copy)
    /\ requests \in 0..MaxRequests

\* Type invariant of the executor, its channel, the kernel maps and the stores.
TypeOK == ExecType /\ TodoType /\ FlagType /\ StoreType /\ CallType

\* A paused agent consumes nothing: while the pause flag is set the executor is
\* neither in an LLM call nor dispatching tools (run_with_client drains the
\* channel and waits before every call, and no signal is handled mid-dispatch).
PausedConsumesNothing == pc \in {"llm", "tools"} => ~paused

\* The executor leaves the pause loop only because a signal lifted the pause or
\* killed it, or because the task was aborted.
PauseHolds ==
    [][pc = "pausedWait" /\ pc' # "pausedWait" => ~paused \/ killed' \/ abortReq]_vars

\* Tools are dispatched only within max_tool_chain_length calls of one goal.
ChainWithinLimit == pc = "tools" => chain <= ChainLimit /\ calls <= chain

\* However many kill requests run at once, active_invocations.remove lets one of
\* them finalize the invocation, and none after it is finalized.
Finalizing(c) == At(c, {"inv"}) /\ NextStep(c).arg = "Killed"
KernelFinalizesOnce ==
    /\ \A c \in Callers : Finalizing(c) => ~active
    /\ \A c, d \in Callers : Finalizing(c) /\ Finalizing(d) => c = d

\* No request and no store access is in flight.
Settled ==
    /\ todo = << >>
    /\ chan = << >>
    /\ \A c \in Callers : call[c].todo = << >>

\* A pause survives the races on the invocation record: once the executor sits in
\* the pause loop with nothing in flight, the record on disk says Paused, because
\* the executor repeats the kernel's write when it handles the signal.  Only a
\* turn that failed while paused leaves Idle there (persist_turn_error).
PauseIsRecorded ==
    Settled /\ pc = "pausedWait" /\ paused /\ active =>
        inv.status = "Paused" \/ (after = "err" /\ inv.status = "Idle")

\* Every queued signal is eventually taken out of the channel by the executor,
\* unless the executor is gone.
SignalsConsumed == \A n \in 1..ChanCap :
    Len(chan) = n ~> Len(chan) # n \/ Closed

\* Every request to the kernel returns, a send on a full channel included.
RequestsReturn == \A c \in Callers : call[c].todo # << >> ~> call[c].todo = << >>

\* The agent implements the mailbox contract: signals are taken in order and once,
\* an idle agent starts work only on SIGSTART, a held one only after the hold is
\* lifted, and a gone agent does nothing.
Mode ==
    CASE pc = "launch" -> "starting"
      [] pc \in {"top", "drain", "llm", "tools"} -> "busy"
      [] pc = "pausedWait" -> "held"
      [] pc = "waitGoal" -> "idle"
      [] OTHER -> IF Closed THEN "gone" ELSE "leaving"
Mailbox == INSTANCE AgentMailbox
           WITH Capacity <- ChanCap, mode <- Mode, inbox <- chan, hold <- paused,
                stopped <- killed
ImplementsMailbox == Mailbox!Spec

\* A goal that starts a turn reaches the LLM, unless the agent is paused, killed
\* or aborted on the way (run_turn_loop keeps the executor alive for a retry), or
\* its token has expired, which fails the turn before the call.
GoalRuns ==
    Ready("top") ~> pc = "llm" \/ paused \/ killed \/ abortReq \/ token = "expired"

\* SIGKILL and SIGSTOP terminate the agent.
SigkillEnds == killed ~> pc \in Dead

\* A finalized invocation is not brought back to a live status.
FinalizedStaysFinal == [][inv.status \notin Live => inv'.status \notin Live]_vars

\* A session that is Idle and has an active pid has its owner in wait_for_next_goal.
IdleSessionWaits ==
    sess.status = "Idle" /\ sess.pids /\ todo = << >> => pc \in {"launch", "waitGoal"}

=============================================================================
