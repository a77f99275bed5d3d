------------------------------ MODULE Services ------------------------------
(***************************************************************************)
(* The service manager and its watchdog.  At boot every discovered unit    *)
(* gets a token and a process; the process registers its endpoint with the *)
(* token, and may add and remove tools; the watchdog polls the processes   *)
(* one after the other and replaces one that has exited, according to its  *)
(* restart policy.  A process is its token: both are numbered by the PID   *)
(* that the manager allots.  Requests of a process that has exited in the  *)
(* meantime are still handled.                                             *)
(***************************************************************************)
EXTENDS Naturals, FiniteSets

CONSTANTS
    Units,          \* the discovered service units
    RestartPolicy,  \* policy of each unit: "always", "on-failure" or "never"
    MaxSvcPids,     \* bound: PIDs allotted in a behaviour
    MaxSpawnFails   \* bound: failures to start a binary

ASSUME ServicesAssumption ==
    /\ RestartPolicy \in [Units -> {"always", "on-failure", "never"}]
    /\ MaxSvcPids \in Nat /\ MaxSpawnFails \in Nat
    /\ "no-unit" \notin Units

VARIABLES
    svcRecord,   \* ServiceManager.services: current PID, and the PID whose endpoint is recorded
    tokenOwner,  \* token_to_svc, by the PID of the token; nothing removes an entry
    svcProc,     \* the service processes
    regCall,     \* ipc.register of each process
    svcTools,    \* units whose tools are in the tool registry
    watched,     \* watchdog entries: the PID of the process
    restarts,    \* restart_count of each entry
    dog,         \* the watchdog's loop
    spawnFails

svcVars == <<svcRecord, tokenOwner, svcProc, regCall, svcTools, watched, restarts, dog, spawnFails>>

SvcPids == 1..MaxSvcPids
NoUnit == "no-unit"
NoService == [pid |-> 0, endpoint |-> 0]
DogAsleep == [pc |-> "sleep", todo |-> {}, unit |-> NoUnit, pid |-> 0]

\* pid_counter, which fetch_add moves by one: the PIDs below it have been issued.
NextSvcPid == CHOOSE n \in 1 .. MaxSvcPids + 1 : \A k \in SvcPids : k < n <=> tokenOwner[k] # NoUnit

\* spawn_and_get_token: a fresh record replaces the old one.
Issue(u, k) ==
    /\ k = NextSvcPid /\ k \in SvcPids
    /\ svcRecord' = [svcRecord EXCEPT ![u] = [pid |-> k, endpoint |-> 0]]
    /\ tokenOwner' = [tokenOwner EXCEPT ![k] = u]

\* Boot: token, process and watchdog entry of a discovered unit; when the
\* binary does not start there is no entry.
BootStarts(u) ==
    /\ dog.pc = "boot" /\ svcRecord[u] = NoService
    /\ \E k \in SvcPids :
        /\ Issue(u, k)
        /\ \/ /\ svcProc' = [svcProc EXCEPT ![k] = "running"]
              /\ watched' = [watched EXCEPT ![u] = k]
              /\ UNCHANGED spawnFails
           \/ /\ spawnFails < MaxSpawnFails /\ spawnFails' = spawnFails + 1
              /\ UNCHANGED <<svcProc, watched>>
    /\ UNCHANGED <<regCall, svcTools, restarts, dog>>

DogStarts ==
    /\ dog.pc = "boot" /\ \A u \in Units : svcRecord[u] # NoService
    /\ dog' = DogAsleep
    /\ UNCHANGED <<svcRecord, tokenOwner, svcProc, regCall, svcTools, watched, restarts, spawnFails>>

-----------------------------------------------------------------------------
(* The service process and the service IPC server                          *)

ProcessExits(k) ==
    /\ svcProc[k] = "running"
    /\ NextSvcPid \in SvcPids
    /\ svcProc' = [svcProc EXCEPT ![k] = "exited"]
    /\ UNCHANGED <<svcRecord, tokenOwner, regCall, svcTools, watched, restarts, dog, spawnFails>>

RegisterSent(k) ==
    /\ svcProc[k] = "running" /\ regCall[k] = "none"
    /\ regCall' = [regCall EXCEPT ![k] = "sent"]
    /\ UNCHANGED <<svcRecord, tokenOwner, svcProc, svcTools, watched, restarts, dog, spawnFails>>

\* handle_ipc_register: the token names the service, whichever process of
\* it the token was issued to.
RegisterValidates(k) ==
    /\ regCall[k] = "sent" /\ tokenOwner[k] # NoUnit
    /\ regCall' = [regCall EXCEPT ![k] = "valid"]
    /\ UNCHANGED <<svcRecord, tokenOwner, svcProc, svcTools, watched, restarts, dog, spawnFails>>

RegisterRecords(k) ==
    /\ regCall[k] = "valid"
    /\ svcRecord' = [svcRecord EXCEPT ![tokenOwner[k]].endpoint = k]
    /\ regCall' = [regCall EXCEPT ![k] = "recorded"]
    /\ UNCHANGED <<tokenOwner, svcProc, svcTools, watched, restarts, dog, spawnFails>>

RegisterScans(k) ==
    /\ regCall[k] = "recorded"
    /\ regCall' = [regCall EXCEPT ![k] = "done"]
    /\ svcTools' = svcTools \cup {tokenOwner[k]}
    /\ UNCHANGED <<svcRecord, tokenOwner, svcProc, watched, restarts, dog, spawnFails>>

\* A descriptor does not parse: an error, after the endpoint was recorded.
RegisterScanFails(k) ==
    /\ regCall[k] = "recorded"
    /\ regCall' = [regCall EXCEPT ![k] = "failed"]
    /\ UNCHANGED <<svcRecord, tokenOwner, svcProc, svcTools, watched, restarts, dog, spawnFails>>

\* handle_tool_add and handle_tool_remove.
ToolAdd(k) ==
    /\ svcProc[k] = "running" /\ tokenOwner[k] # NoUnit
    /\ svcTools' = svcTools \cup {tokenOwner[k]}
    /\ UNCHANGED <<svcRecord, tokenOwner, svcProc, regCall, watched, restarts, dog, spawnFails>>

ToolRemove(k) ==
    /\ svcProc[k] = "running" /\ tokenOwner[k] # NoUnit
    /\ svcTools' = svcTools \ {tokenOwner[k]}
    /\ UNCHANGED <<svcRecord, tokenOwner, svcProc, regCall, watched, restarts, dog, spawnFails>>

-----------------------------------------------------------------------------
(* check_and_restart                                                       *)

DogWakes ==
    /\ dog.pc = "sleep"
    /\ dog' = [DogAsleep EXCEPT !.pc = "next", !.todo = {u \in Units : watched[u] # 0}]
    /\ UNCHANGED <<svcRecord, tokenOwner, svcProc, regCall, svcTools, watched, restarts, spawnFails>>

\* Faulty variant: the process is replaced whether it runs or not.
ShouldRestartAlways(u) == RestartPolicy[u] # "never"

\* Faulty variant: only the policy "always" restarts.
ShouldRestartNarrow(u) == svcProc[watched[u]] # "running" /\ RestartPolicy[u] = "always"

ShouldRestart(u) ==
    svcProc[watched[u]] # "running" /\ RestartPolicy[u] \in {"always", "on-failure"}

\* One entry: alive or not to be restarted is skipped, another one waits
\* for restart_delay.
DogLooks(u) ==
    /\ dog.pc = "next" /\ u \in dog.todo
    /\ dog' = IF ShouldRestart(u) THEN [dog EXCEPT !.pc = "delay", !.unit = u]
              ELSE [dog EXCEPT !.todo = @ \ {u}]
    /\ UNCHANGED <<svcRecord, tokenOwner, svcProc, regCall, svcTools, watched, restarts, spawnFails>>

DogIssues ==
    /\ dog.pc = "delay"
    /\ \E k \in SvcPids :
        /\ Issue(dog.unit, k)
        /\ dog' = [dog EXCEPT !.pc = "spawn", !.pid = k]
    /\ UNCHANGED <<svcProc, regCall, svcTools, watched, restarts, spawnFails>>

DogNext == [dog EXCEPT !.pc = "next", !.todo = @ \ {dog.unit}, !.unit = NoUnit, !.pid = 0]

DogSpawns ==
    /\ dog.pc = "spawn"
    /\ svcProc' = [svcProc EXCEPT ![dog.pid] = "running"]
    /\ dog' = [dog EXCEPT !.pc = "store"]
    /\ UNCHANGED <<svcRecord, tokenOwner, regCall, svcTools, watched, restarts, spawnFails>>

DogSpawnFails ==
    /\ dog.pc = "spawn"
    /\ spawnFails < MaxSpawnFails /\ spawnFails' = spawnFails + 1
    /\ dog' = DogNext
    /\ UNCHANGED <<svcRecord, tokenOwner, svcProc, regCall, svcTools, watched, restarts>>

DogStores ==
    /\ dog.pc = "store"
    /\ watched' = [watched EXCEPT ![dog.unit] = dog.pid]
    /\ restarts' = [restarts EXCEPT ![dog.unit] = @ + 1]
    /\ dog' = DogNext
    /\ UNCHANGED <<svcRecord, tokenOwner, svcProc, regCall, svcTools, spawnFails>>

DogSleeps ==
    /\ dog.pc = "next" /\ dog.todo = {}
    /\ dog' = DogAsleep
    /\ UNCHANGED <<svcRecord, tokenOwner, svcProc, regCall, svcTools, watched, restarts, spawnFails>>

DogStep ==
    \/ DogWakes \/ DogIssues \/ DogSpawns \/ DogSpawnFails \/ DogStores \/ DogSleeps
    \/ \E u \in Units : DogLooks(u)

ServicesInit ==
    /\ svcRecord = [u \in Units |-> NoService]
    /\ tokenOwner = [k \in SvcPids |-> NoUnit]
    /\ svcProc = [k \in SvcPids |-> "none"]
    /\ regCall = [k \in SvcPids |-> "none"]
    /\ svcTools = {}
    /\ watched = [u \in Units |-> 0]
    /\ restarts = [u \in Units |-> 0]
    /\ dog = [DogAsleep EXCEPT !.pc = "boot"]
    /\ spawnFails = 0

ServicesNext ==
    \/ \E u \in Units : BootStarts(u)
    \/ DogStarts
    \/ \E k \in SvcPids :
        \/ ProcessExits(k) \/ RegisterSent(k) \/ RegisterValidates(k) \/ RegisterRecords(k)
        \/ RegisterScans(k) \/ RegisterScanFails(k) \/ ToolAdd(k) \/ ToolRemove(k)
    \/ DogStep

\* The watchdog task always goes on to its next step.
ServicesFairness == WF_svcVars(DogStep)

ServicesSpec == ServicesInit /\ [][ServicesNext]_svcVars /\ ServicesFairness

-----------------------------------------------------------------------------
\* Types; and the watchdog works on a unit exactly between its decision to
\* restart it and its next look at the list (check_and_restart).
ServicesTypeOK ==
    /\ svcRecord \in [Units -> [pid : 0..MaxSvcPids, endpoint : 0..MaxSvcPids]]
    /\ tokenOwner \in [SvcPids -> Units \cup {NoUnit}]
    /\ svcProc \in [SvcPids -> {"none", "running", "exited"}]
    /\ regCall \in [SvcPids -> {"none", "sent", "valid", "recorded", "done", "failed"}]
    /\ svcTools \subseteq Units
    /\ watched \in [Units -> 0..MaxSvcPids] /\ restarts \in [Units -> 0..MaxSvcPids]
    /\ dog \in [pc : {"boot", "sleep", "next", "delay", "spawn", "store"}, todo : SUBSET Units,
                unit : Units \cup {NoUnit}, pid : 0..MaxSvcPids]
    /\ dog.unit = NoUnit <=> dog.pc \in {"boot", "sleep", "next"}
    /\ spawnFails \in 0..MaxSpawnFails

\* A service never runs twice, and the one process of it that runs holds
\* the token of the manager's current record, although the watchdog decides
\* on a restart, waits, issues the token and starts the binary in steps.
OneProcessPerService ==
    \A k \in SvcPids : svcProc[k] = "running" => svcRecord[tokenOwner[k]].pid = k

\* A watched service whose policy is not "never" is running again and again:
\* an exit is noticed and repaired although the watchdog serves the units
\* one at a time and a start may fail.
ServiceComesBack ==
    \A u \in Units :
        RestartPolicy[u] # "never" =>
            (dog.pc # "boot" /\ \E k \in SvcPids : watched[u] = k /\ svcProc[k] = "exited")
                ~> \/ \E k \in SvcPids : tokenOwner[k] = u /\ svcProc[k] = "running"
                   \/ NextSvcPid \notin SvcPids

=============================================================================
