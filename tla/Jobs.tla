-------------------------------- MODULE Jobs --------------------------------
(***************************************************************************)
(* Long-running tool calls (jobs/).  A service starts a job in the         *)
(* JobRegistry, its work task reports progress and ends it, anyone may     *)
(* cancel it, and agents follow it with the job/watch tool, one reply per  *)
(* call, in a loop.  The registry publishes its events on one broadcast    *)
(* channel for all jobs; a watch call sees what is sent after it           *)
(* subscribed, and at most JobEventCapacity events are kept for it.        *)
(***************************************************************************)
EXTENDS Naturals, Sequences

CONSTANTS
    JobIds,            \* the jobs that may be created
    NoJob,             \* no job
    Watchers,          \* agents polling with job/watch
    JobEventCapacity,  \* EVENT_CAPACITY, the length of the broadcast channel
    MaxReports         \* bound: progress and log calls in a behaviour

ASSUME JobsAssumption == NoJob \notin JobIds /\ JobEventCapacity \in Nat \ {0} /\ MaxReports \in Nat

VARIABLES
    jobState,   \* JobRegistry.jobs: the state of each job, "none" before create
    reports,    \* progress and log calls made so far
    watch       \* the job/watch call of each watcher and its last reply

jobVars == <<jobState, reports, watch>>

JobStates == {"none", "pending", "running", "done", "failed", "cancelled"}

\* The events of JobEvent; a StatusChange is named after its new state.
JobEventKinds == {"running", "report", "done", "failed", "cancelled", "complete", "fail"}

JobEvents == [job : JobIds, kind : JobEventKinds]

JobReplies == JobEventKinds \cup {"none", "timeout", "not_found"}

IsTerminal(s) == s \in {"done", "failed", "cancelled"}

\* A watcher of j with nothing to receive, and the last reply it had.
Watching(pc, j, reply) == [pc |-> pc, job |-> j, queue |-> <<>>, lagged |-> FALSE, reply |-> reply]

Off == Watching("off", NoJob, "none")

\* What broadcast::send does to the receiver of a watch call: the event is
\* appended and, when the channel is over its capacity, the oldest is lost.
Heard(r, es) ==
    IF r.pc \notin {"look", "wait"} THEN r
    ELSE LET q == r.queue \o es IN
         [r EXCEPT !.queue  = IF Len(q) > JobEventCapacity
                              THEN SubSeq(q, Len(q) - JobEventCapacity + 1, Len(q)) ELSE q,
                   !.lagged = @ \/ Len(q) > JobEventCapacity]

Emit(j, kinds) ==
    watch' = [w \in Watchers |-> Heard(watch[w], [i \in DOMAIN kinds |-> [job |-> j, kind |-> kinds[i]]])]

JobCreate(j) ==
    /\ jobState[j] = "none"
    /\ jobState' = [jobState EXCEPT ![j] = "pending"]
    /\ UNCHANGED <<reports, watch>>

JobStart(j) ==
    /\ jobState[j] = "pending"
    /\ jobState' = [jobState EXCEPT ![j] = "running"]
    /\ Emit(j, <<"running">>)
    /\ UNCHANGED reports

\* start_job: create and start under one hold of the registry's write lock.
StartJob(j) ==
    /\ jobState[j] = "none"
    /\ jobState' = [jobState EXCEPT ![j] = "running"]
    /\ Emit(j, <<"running">>)
    /\ UNCHANGED reports

\* progress and log: refused unless the job is running.
JobReport(j) ==
    /\ jobState[j] = "running"
    /\ reports < MaxReports
    /\ reports' = reports + 1
    /\ Emit(j, <<"report">>)
    /\ UNCHANGED jobState

\* Faulty variant: complete does not look whether the job already ended.
JobCompleteUnguarded(j) ==
    /\ jobState[j] # "none"
    /\ jobState' = [jobState EXCEPT ![j] = "done"]
    /\ Emit(j, <<"done", "complete">>)
    /\ UNCHANGED reports

JobComplete(j) ==
    /\ jobState[j] # "none" /\ ~IsTerminal(jobState[j])
    /\ jobState' = [jobState EXCEPT ![j] = "done"]
    /\ Emit(j, <<"done", "complete">>)
    /\ UNCHANGED reports

JobFail(j) ==
    /\ jobState[j] # "none" /\ ~IsTerminal(jobState[j])
    /\ jobState' = [jobState EXCEPT ![j] = "failed"]
    /\ Emit(j, <<"failed", "fail">>)
    /\ UNCHANGED reports

JobCancel(j) ==
    /\ jobState[j] # "none" /\ ~IsTerminal(jobState[j])
    /\ jobState' = [jobState EXCEPT ![j] = "cancelled"]
    /\ Emit(j, <<"cancelled">>)
    /\ UNCHANGED reports

-----------------------------------------------------------------------------
(* job/watch.  A watcher is "off", "call" (about to call), "look"          *)
(* (subscribed, has not looked at the job), "wait" (in the receive loop)   *)
(* or "told" (it has the final event and calls no more).                   *)

WatchBegin(w, j) ==
    /\ watch[w].pc = "off"
    /\ watch' = [watch EXCEPT ![w] = Watching("call", j, "none")]
    /\ UNCHANGED <<jobState, reports>>

WatchSubscribe(w) ==
    /\ watch[w].pc = "call"
    /\ watch' = [watch EXCEPT ![w] = Watching("look", watch[w].job, watch[w].reply)]
    /\ UNCHANGED <<jobState, reports>>

\* A call returns: the agent stops on complete or fail and calls again otherwise.
Returned(w, reply) ==
    Watching(IF reply \in {"complete", "fail"} THEN "told" ELSE "call", watch[w].job, reply)

\* What the look at the job answers at once; "none": go on and wait.
FinalReply(s) ==
    CASE s = "none"      -> "not_found"
      [] s = "done"      -> "complete"
      [] s = "failed"    -> "fail"
      [] s = "cancelled" -> "cancelled"
      [] OTHER           -> "none"

\* Faulty variant: only an unknown job is answered at once.
WatchLookUnknown(w) ==
    /\ watch[w].pc = "look"
    /\ LET s == jobState[watch[w].job] IN
       watch' = [watch EXCEPT ![w] =
                    IF s = "none" THEN Returned(w, FinalReply(s)) ELSE [@ EXCEPT !.pc = "wait"]]
    /\ UNCHANGED <<jobState, reports>>

WatchLook(w) ==
    /\ watch[w].pc = "look"
    /\ LET s == jobState[watch[w].job] IN
       watch' = [watch EXCEPT ![w] =
                    IF FinalReply(s) # "none"
                    THEN Returned(w, FinalReply(s)) ELSE [@ EXCEPT !.pc = "wait"]]
    /\ UNCHANGED <<jobState, reports>>

\* rx.recv(): a lagged receiver ends the call as a time-out, an event of
\* the job is its reply, one of another job is skipped.
WatchRecv(w) ==
    /\ watch[w].pc = "wait"
    /\ watch[w].lagged \/ watch[w].queue # <<>>
    /\ watch' = [watch EXCEPT ![w] =
                    IF watch[w].lagged THEN Returned(w, "timeout")
                    ELSE IF Head(watch[w].queue).job = watch[w].job
                         THEN Returned(w, Head(watch[w].queue).kind)
                         ELSE [watch[w] EXCEPT !.queue = Tail(watch[w].queue)]]
    /\ UNCHANGED <<jobState, reports>>

WatchTimeout(w) ==
    /\ watch[w].pc = "wait"
    /\ watch' = [watch EXCEPT ![w] = Returned(w, "timeout")]
    /\ UNCHANGED <<jobState, reports>>

WatchStep(w) == WatchSubscribe(w) \/ WatchLook(w) \/ WatchRecv(w) \/ WatchTimeout(w)

JobsInit ==
    /\ jobState = [j \in JobIds |-> "none"]
    /\ reports = 0
    /\ watch = [w \in Watchers |-> Off]

JobsNext ==
    \/ \E j \in JobIds : JobCreate(j) \/ JobStart(j) \/ StartJob(j) \/ JobReport(j)
                         \/ JobComplete(j) \/ JobFail(j) \/ JobCancel(j)
    \/ \E w \in Watchers, j \in JobIds : WatchBegin(w, j)
    \/ \E w \in Watchers : WatchStep(w)

\* A call in progress goes on: the runtime polls its future and its timer
\* fires, and the agent's loop calls again.
JobsFairness == \A w \in Watchers : WF_jobVars(WatchStep(w))

JobsSpec == JobsInit /\ [][JobsNext]_jobVars /\ JobsFairness

-----------------------------------------------------------------------------
\* Types; and a receiver never holds more events than EVENT_CAPACITY.
JobsTypeOK ==
    /\ jobState \in [JobIds -> JobStates]
    /\ reports \in 0..MaxReports
    /\ watch \in [Watchers -> [pc : {"off", "call", "look", "wait", "told"}, job : JobIds \cup {NoJob},
                              queue : Seq(JobEvents), lagged : BOOLEAN, reply : JobReplies]]
    /\ \A w \in Watchers : Len(watch[w].queue) <= JobEventCapacity

\* A watcher in the receive loop of handle_job_watch never waits for an
\* event that has already gone: while its job has ended, the channel still
\* holds an event of that job for it or it has lagged and returns.
NoEventMissed ==
    \A w \in Watchers :
        watch[w].pc = "wait" /\ IsTerminal(jobState[watch[w].job]) =>
            \/ watch[w].lagged
            \/ \E i \in DOMAIN watch[w].queue : watch[w].queue[i].job = watch[w].job

\* Whatever a watcher was told about the end of its job by job/watch stays
\* true: the job ended that way and no later complete, fail or cancel
\* changed it.
ToldTheTruth ==
    \A w \in Watchers :
        /\ watch[w].reply \in {"complete", "done"} => jobState[watch[w].job] = "done"
        /\ watch[w].reply \in {"fail", "failed"} => jobState[watch[w].job] = "failed"
        /\ watch[w].reply = "cancelled" => jobState[watch[w].job] = "cancelled"

\* Once its job has ended, a polling agent is eventually told how it ended,
\* however its calls time out, lag or hear of other jobs meanwhile.
EndIsTold ==
    \A w \in Watchers, j \in JobIds :
        (watch[w].job = j /\ IsTerminal(jobState[j]))
            ~> (watch[w].job = j /\ watch[w].reply = FinalReply(jobState[j]))

\* Together: what handle_job_watch waits for can still come, and what it
\* answers is how the job ended.
WatchersHearTheTruth == NoEventMissed /\ ToldTheTruth
=============================================================================
