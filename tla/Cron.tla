-------------------------------- MODULE Cron --------------------------------
(***************************************************************************)
(* cron_svc: the tick loop that asks the scheduler which jobs are due and  *)
(* run_job, which runs one job with its retry and alert policy.  The       *)
(* scheduler knows a job by the id it gave it when the job was added; the  *)
(* runner keeps the specifications by the crontab's id.  Agents are        *)
(* started and stopped through the AgentSpawner trait: what it does is     *)
(* external.                                                               *)
(***************************************************************************)
EXTENDS Naturals, FiniteSets

CONSTANTS
    CronJobs,     \* crontab ids
    OnFailure,    \* job -> "ignore", "alert" or "retry"
    MaxAttempts,  \* job -> retryPolicy.maxAttempts
    DueAt,        \* job -> instants the schedule names
    MaxCronTime   \* bound: the clock

ASSUME CronAssumption ==
    /\ OnFailure \in [CronJobs -> {"ignore", "alert", "retry"}]
    /\ MaxAttempts \in [CronJobs -> Nat] /\ MaxCronTime \in Nat
    /\ DueAt \in [CronJobs -> SUBSET Nat]

VARIABLES
    cronNow,    \* Utc::now()
    cronTick,   \* the tick loop: last_tick, tick_time, last_run of each job
    cronRun     \* run_job of each job

cronVars == <<cronNow, cronTick, cronRun>>

\* add_job: the scheduler's id is a fresh uuid.
SchedulerId(j) == <<"uuid", j>>

Attempts(j) == IF OnFailure[j] # "retry" \/ MaxAttempts[j] = 0 THEN 1 ELSE MaxAttempts[j]

RunStarted == [pc |-> "spawn", attempt |-> 1, agents |-> 0, failed |-> FALSE, alerts |-> 0]

NotRun == [pc |-> "idle", attempt |-> 0, agents |-> 0, failed |-> FALSE, alerts |-> 0]

-----------------------------------------------------------------------------
(* The tick loop *)

CronTimePasses ==
    /\ cronNow < MaxCronTime
    /\ cronNow' = cronNow + 1
    /\ UNCHANGED <<cronTick, cronRun>>

TickWakes ==
    /\ cronTick.pc = "sleep" /\ cronNow > cronTick.last
    /\ cronTick' = [cronTick EXCEPT !.pc = "due", !.time = cronNow]
    /\ UNCHANGED <<cronNow, cronRun>>

\* The first instant of the schedule after last_tick has come.
DueJobs == {j \in CronJobs : \E t \in DueAt[j] : cronTick.last < t /\ t <= cronNow}

\* due_jobs reads its own clock; jobs.get(&id) is by the scheduler's id.
\* update_last_run is written and not read again.
TickFires ==
    /\ cronTick.pc = "due"
    /\ LET ids == {SchedulerId(j) : j \in DueJobs}
       IN  cronRun' = [j \in CronJobs |-> IF j \in ids THEN RunStarted ELSE cronRun[j]]
    /\ cronTick' = [cronTick EXCEPT !.pc = "sleep", !.last = cronTick.time,
                                    !.lastRun = [j \in CronJobs |-> IF j \in DueJobs THEN cronTick.time ELSE @[j]]]
    /\ UNCHANGED cronNow

-----------------------------------------------------------------------------
(* run_job *)

\* run_job is entered: it is public, and the tests call it without the loop.
RunJobCalled(j) ==
    /\ cronRun[j].pc = "idle"
    /\ cronRun' = [cronRun EXCEPT ![j] = RunStarted]
    /\ UNCHANGED <<cronNow, cronTick>>

SpawnsAgent(j) ==
    /\ cronRun[j].pc = "spawn"
    /\ cronRun' = [cronRun EXCEPT ![j].pc = "wait", ![j].agents = @ + 1]
    /\ UNCHANGED <<cronNow, cronTick>>

SpawnRefused(j) ==
    /\ cronRun[j].pc = "spawn"
    /\ cronRun' = [cronRun EXCEPT ![j].pc = "failed"]
    /\ UNCHANGED <<cronNow, cronTick>>

AgentExits(j, ok) ==
    /\ cronRun[j].pc = "wait"
    /\ cronRun' = [cronRun EXCEPT ![j].pc = IF ok THEN "done" ELSE "failed", ![j].agents = @ - 1]
    /\ UNCHANGED <<cronNow, cronTick>>

\* The time-out drops the wait; stop is awaited before the failure is seen.
AgentTimesOut(j) ==
    /\ cronRun[j].pc = "wait"
    /\ cronRun' = [cronRun EXCEPT ![j].pc = "stop"]
    /\ UNCHANGED <<cronNow, cronTick>>

StopsAgent(j) ==
    /\ cronRun[j].pc = "stop"
    /\ cronRun' = [cronRun EXCEPT ![j].pc = "failed", ![j].agents = @ - 1]
    /\ UNCHANGED <<cronNow, cronTick>>

\* Faulty variant: every failed attempt is alerted.
AttemptFailedLoud(j) ==
    /\ cronRun[j].pc = "failed"
    /\ cronRun' = [cronRun EXCEPT ![j] =
        IF OnFailure[j] = "retry" /\ cronRun[j].attempt < Attempts(j)
        THEN [@ EXCEPT !.pc = "backoff", !.alerts = @ + 1]
        ELSE [@ EXCEPT !.pc = "done", !.failed = TRUE, !.alerts = IF OnFailure[j] = "ignore" THEN @ ELSE @ + 1]]
    /\ UNCHANGED <<cronNow, cronTick>>

\* Ignore drops the failure, Alert reports it, Retry reports only the last one.
AttemptFailed(j) ==
    LET run == cronRun[j]
        alerts == IF OnFailure[j] = "ignore" THEN run.alerts ELSE run.alerts + 1 IN
    /\ run.pc = "failed"
    /\ cronRun' = [cronRun EXCEPT ![j] =
        IF OnFailure[j] = "retry" /\ run.attempt < Attempts(j) THEN [run EXCEPT !.pc = "backoff"]
        ELSE [run EXCEPT !.pc = "done", !.failed = TRUE, !.alerts = alerts]]
    /\ UNCHANGED <<cronNow, cronTick>>

BackoffEnds(j) ==
    /\ cronRun[j].pc = "backoff"
    /\ cronRun' = [cronRun EXCEPT ![j].pc = "spawn", ![j].attempt = @ + 1]
    /\ UNCHANGED <<cronNow, cronTick>>

-----------------------------------------------------------------------------

CronInit ==
    /\ cronNow = 0
    /\ cronTick = [pc |-> "sleep", last |-> 0, time |-> 0, lastRun |-> [j \in CronJobs |-> 0]]
    /\ cronRun = [j \in CronJobs |-> NotRun]

RunStep(j) ==
    \/ SpawnsAgent(j) \/ SpawnRefused(j)
    \/ \E ok \in BOOLEAN : AgentExits(j, ok)
    \/ AgentTimesOut(j) \/ StopsAgent(j) \/ AttemptFailed(j) \/ BackoffEnds(j)

CronNext ==
    \/ CronTimePasses \/ TickWakes \/ TickFires
    \/ \E j \in CronJobs : RunJobCalled(j) \/ RunStep(j)

CronFairness == \A j \in CronJobs : WF_cronVars(RunStep(j))

CronSpec == CronInit /\ [][CronNext]_cronVars /\ CronFairness

-----------------------------------------------------------------------------
(* Properties *)

\* Types; and a run never has more agents than the one it waits for: the late
\* agent is stopped before the next attempt spawns another.
CronTypeOK ==
    /\ cronNow \in 0 .. MaxCronTime
    /\ cronTick \in [pc : {"sleep", "due"}, last : 0 .. MaxCronTime, time : 0 .. MaxCronTime,
                     lastRun : [CronJobs -> 0 .. MaxCronTime]]
    /\ cronRun \in [CronJobs -> [pc : {"idle", "spawn", "wait", "stop", "failed", "backoff", "done"},
                              attempt : Nat, agents : 0 .. 1, failed : BOOLEAN, alerts : Nat]]
    /\ \A j \in CronJobs : cronRun[j].agents = IF cronRun[j].pc \in {"wait", "stop"} THEN 1 ELSE 0

\* A run that has ended was alerted exactly once if it failed and the job does
\* not ignore failures, and never otherwise; and it failed only after the
\* attempts its policy gives it (one, when maxAttempts is 0).
AlertedOnceAtTheEnd ==
    \A j \in CronJobs :
        /\ cronRun[j].alerts =
              IF cronRun[j].pc = "done" /\ cronRun[j].failed /\ OnFailure[j] # "ignore" THEN 1 ELSE 0
        /\ cronRun[j].failed => cronRun[j].attempt = Attempts(j)

\* Every run of a job ends, whatever its agents do.
CronRunsEnd ==
    \A j \in CronJobs : cronRun[j].pc = "spawn" ~> cronRun[j].pc = "done"
=============================================================================
