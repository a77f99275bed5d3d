---------------------------- MODULE RecordsProofs ---------------------------
(***************************************************************************)
(* Sessions proved for any PIDs, sessions, concurrent calls and crashes:   *)
(* what a crash leaves in the stores can be repaired, and the boot repairs *)
(* it.                                                                     *)
(*                                                                         *)
(* SessionsInv says who answers for an invocation at each point.  The      *)
(* stores: a record read earlier and written back later is never an empty  *)
(* one, so only session/delete removes a session (StoresOK, and WellMade   *)
(* of every copy in flight).  The calls: a spawn has recorded its session  *)
(* before its invocation, and its invocation before the launch (CallsOK).  *)
(* The tasks: one that runs has its invocation, one that is aborted was    *)
(* killed (TasksOK).  Backed: whoever is active or recorded as live is     *)
(* backed by a spawn, a kill or a task, or the boot has still to visit it  *)
(* (BackedInv).  Active invocations are part of it because pause and       *)
(* resume set their status whatever it was.                                *)
(*                                                                         *)
(* Installer: installs of one version that meet leave a whole directory or *)
(* none.                                                                   *)
(***************************************************************************)
EXTENDS Sessions, Installer, TLAPS

-----------------------------------------------------------------------------
(* install: what is left on disk                                           *)

\* The call whose files are there has not given up, an empty directory
\* belongs to a call that will fill or remove it, and a service's files get
\* their receipt before the call commits.
LeftoverInv ==
    /\ targetDir.exists /\ targetDir.from = Nothing
          => \E i \in Installs : install[i].pc \in {"rename", "rollback", "drop"}
    /\ \A i \in Installs : targetDir.from = i =>
          \/ install[i].pc \in {"receipt", "commit", "drop"}
          \/ install[i].pc = "done" /\ install[i].outcome = "ok"
    /\ \A i \in Installs :
          /\ package = "service" /\ targetDir.from = i /\ install[i].pc \notin {"receipt", "drop"}
          => targetDir.receipt

InstallInv == InstallerTypeOK /\ LeftoverInv

InstallStates ==
    [pc : {"fetch", "check", "create", "rename", "rollback", "receipt", "commit", "drop", "done"},
     outcome : {"none", "ok", "error"}]

\* A call moves on; the others stay.
LEMMA InstallMoves ==
    ASSUME InstallInv, NEW i \in Installs, NEW q \in InstallStates,
           install' = [install EXCEPT ![i] = q]
    PROVE  /\ install' \in [Installs -> InstallStates] /\ install'[i] = q
           /\ \A k \in Installs \ {i} : install'[k] = install[k]
BY Zenon DEF InstallInv, InstallerTypeOK, InstallStates

LEMMA ProceedMoves ==
    ASSUME InstallInv, NEW i \in Installs, install[i].pc # "done",
           NEW pc \in {"check", "create", "rename", "rollback", "receipt", "commit", "drop"},
           Proceeds(i, pc)
    PROVE  /\ install' \in [Installs -> InstallStates] /\ install'[i] = [pc |-> pc, outcome |-> "none"]
           /\ \A k \in Installs \ {i} : install'[k] = install[k]
<1>1. install[i] \in InstallStates /\ install[i].outcome = "none"
  BY Zenon DEF InstallInv, InstallerTypeOK, InstallStates
<1>2. [install[i] EXCEPT !.pc = pc] = [pc |-> pc, outcome |-> "none"]
  BY <1>1 DEF InstallStates
<1>3. install' = [install EXCEPT ![i] = [pc |-> pc, outcome |-> "none"]]
  BY Zenon, <1>2 DEF Proceeds, InstallInv, InstallerTypeOK
<1> QED BY Zenon, <1>3, InstallMoves DEF InstallStates

LEMMA ReturnMoves ==
    ASSUME InstallInv, NEW i \in Installs, NEW outcome \in {"ok", "error"}, Returns(i, outcome)
    PROVE  /\ install' \in [Installs -> InstallStates]
           /\ install'[i] = [pc |-> "done", outcome |-> outcome]
           /\ \A k \in Installs \ {i} : install'[k] = install[k]
BY Zenon, InstallMoves DEF Returns, InstallStates

LEMMA InstallInitInv == InstallerInit => InstallInv
<1> SUFFICES ASSUME InstallerInit PROVE InstallInv BY Zenon
<1>1. InstallerTypeOK BY Zenon DEF InstallerInit, InstallerTypeOK, Absent
<1>2. LeftoverInv BY Zenon, InstallerAssumption DEF InstallerInit, LeftoverInv, Absent
<1> QED BY Zenon, <1>1, <1>2 DEF InstallInv

\* A step that leaves the directory alone, and gives up neither the duty to
\* fill or remove an empty directory nor the files of the call.
LEMMA DirKept ==
    ASSUME InstallInv, NEW i \in Installs, NEW q \in InstallStates,
           UNCHANGED <<package, targetDir>>, install[i].pc # "done",
           install' \in [Installs -> InstallStates], install'[i] = q,
           \A k \in Installs \ {i} : install'[k] = install[k],
           q.pc = "done" <=> q.outcome # "none",
           install[i].pc \in {"rename", "rollback", "drop"} => q.pc \in {"rename", "rollback", "drop"},
           install[i].pc \in {"receipt", "commit", "drop"} =>
               q.pc \in {"receipt", "commit", "drop"} \/ q.outcome = "ok",
           install[i].pc \in {"receipt", "drop"} => q.pc \in {"receipt", "drop"}
    PROVE  InstallInv'
<1>1. InstallerTypeOK' BY DEF InstallInv, InstallerTypeOK, InstallStates
<1>2. LeftoverInv' BY DEF InstallInv, LeftoverInv, InstallStates
<1> QED BY Zenon, <1>1, <1>2 DEF InstallInv

LEMMA InstallStepKeeps ==
    ASSUME InstallInv, NEW i \in Installs,
           \/ \E ok \in BOOLEAN : Fetches(i, ok)
           \/ ChecksConflicts(i) \/ CreatesTarget(i) \/ CreateFails(i) \/ Renames(i) \/ RenameFails(i)
           \/ RollsBack(i) \/ WritesReceipt(i) \/ ReceiptFails(i) \/ Commits(i) \/ GuardDrops(i)
    PROVE  InstallInv'
<1>1. ASSUME NEW ok \in BOOLEAN, Fetches(i, ok) PROVE InstallInv'
  <2>1. install[i].pc = "fetch" /\ UNCHANGED <<package, targetDir>> BY Zenon, <1>1 DEF Fetches
  <2>2. CASE Proceeds(i, "check") BY <2>1, <2>2, ProceedMoves, DirKept DEF InstallStates
  <2>3. CASE Returns(i, "error") BY <2>1, <2>3, ReturnMoves, DirKept DEF InstallStates
  <2> QED BY Zenon, <1>1, <2>2, <2>3 DEF Fetches
<1>2. CASE ChecksConflicts(i)
  <2>1. install[i].pc = "check" /\ UNCHANGED <<package, targetDir>> BY Zenon, <1>2 DEF ChecksConflicts
  <2>2. CASE Proceeds(i, "create") BY <2>1, <2>2, ProceedMoves, DirKept DEF InstallStates
  <2>3. CASE Returns(i, "error") BY <2>1, <2>3, ReturnMoves, DirKept DEF InstallStates
  <2> QED BY Zenon, <1>2, <2>2, <2>3 DEF ChecksConflicts
<1>3. CASE CreateFails(i)
  <2>1. install[i].pc = "create" /\ UNCHANGED <<package, targetDir>> BY Zenon, <1>3 DEF CreateFails
  <2>2. CASE Proceeds(i, "drop") BY <2>1, <2>2, ProceedMoves, DirKept DEF InstallStates
  <2> QED BY Zenon, <1>3, <2>2 DEF CreateFails
<1>4. CASE RenameFails(i)
  <2>1. install[i].pc = "rename" /\ UNCHANGED <<package, targetDir>> BY Zenon, <1>4 DEF RenameFails
  <2>2. CASE Proceeds(i, "rollback") BY <2>1, <2>2, ProceedMoves, DirKept DEF InstallStates
  <2> QED BY Zenon, <1>4, <2>2 DEF RenameFails
<1>5. CASE ReceiptFails(i)
  <2>1. install[i].pc = "receipt" /\ UNCHANGED <<package, targetDir>> BY Zenon, <1>5 DEF ReceiptFails
  <2>2. CASE Proceeds(i, "drop") BY <2>1, <2>2, ProceedMoves, DirKept DEF InstallStates
  <2> QED BY Zenon, <1>5, <2>2 DEF ReceiptFails
<1>6. CASE Commits(i)
  <2>1. install[i].pc = "commit" /\ UNCHANGED <<package, targetDir>> BY Zenon, <1>6 DEF Commits
  <2>2. CASE Returns(i, "ok") BY <2>1, <2>2, ReturnMoves, DirKept DEF InstallStates
  <2> QED BY Zenon, <1>6, <2>2 DEF Commits
<1>7. CASE CreatesTarget(i)
  <2>1. /\ install[i].pc = "create" /\ package' = package
        /\ targetDir' = (IF targetDir.exists THEN targetDir ELSE Created)
    BY Zenon, <1>7 DEF CreatesTarget
  <2>2. /\ install' \in [Installs -> InstallStates] /\ install'[i] = [pc |-> "rename", outcome |-> "none"]
        /\ \A k \in Installs \ {i} : install'[k] = install[k]
    BY Zenon, <1>7, <2>1, ProceedMoves DEF CreatesTarget
  <2>3. InstallerTypeOK' BY <2>1, <2>2 DEF InstallInv, InstallerTypeOK, InstallStates, Created
  <2>4. LeftoverInv'
    BY <2>1, <2>2, InstallerAssumption DEF InstallInv, LeftoverInv, InstallStates, Created
  <2> QED BY Zenon, <2>3, <2>4 DEF InstallInv
<1>8. CASE Renames(i)
  <2>1. /\ install[i].pc = "rename" /\ package' = package
        /\ targetDir' = [exists |-> TRUE, from |-> i, receipt |-> FALSE]
    BY Zenon, <1>8 DEF Renames
  <2>2. /\ install' \in [Installs -> InstallStates]
        /\ install'[i].pc = (IF package = "service" THEN "receipt" ELSE "commit")
        /\ install'[i].outcome = "none"
        /\ \A k \in Installs \ {i} : install'[k] = install[k]
    <3> DEFINE to == IF package = "service" THEN "receipt" ELSE "commit"
    <3>1. to \in {"receipt", "commit"} /\ Proceeds(i, to) BY Zenon, <1>8 DEF Renames
    <3> HIDE DEF to
    <3>2. /\ install' \in [Installs -> InstallStates] /\ install'[i] = [pc |-> to, outcome |-> "none"]
          /\ \A k \in Installs \ {i} : install'[k] = install[k]
      BY Zenon, <2>1, <3>1, ProceedMoves
    <3> QED BY <3>2 DEF to
  <2>3. InstallerTypeOK' BY <2>1, <2>2 DEF InstallInv, InstallerTypeOK, InstallStates
  <2>4. LeftoverInv'
    BY Zenon, <2>1, <2>2, InstallerAssumption DEF InstallInv, LeftoverInv, InstallStates
  <2> QED BY <2>3, <2>4 DEF InstallInv
<1>9. CASE WritesReceipt(i)
  <2>1. /\ install[i].pc = "receipt" /\ package' = package /\ targetDir.exists
        /\ targetDir' = [targetDir EXCEPT !.receipt = TRUE]
    BY Zenon, <1>9 DEF WritesReceipt
  <2>2. /\ install' \in [Installs -> InstallStates] /\ install'[i] = [pc |-> "commit", outcome |-> "none"]
        /\ \A k \in Installs \ {i} : install'[k] = install[k]
    BY Zenon, <1>9, <2>1, ProceedMoves DEF WritesReceipt
  <2>3. InstallerTypeOK'
    <3>1. /\ targetDir' \in [exists : BOOLEAN, from : Installs \cup {Nothing}, receipt : BOOLEAN]
          /\ targetDir'.exists
      BY Zenon, <2>1 DEF InstallInv, InstallerTypeOK
    <3>2. package' \in {"service", "agent"} BY Zenon, <2>1 DEF InstallInv, InstallerTypeOK
    <3>3. \A k \in Installs : install'[k].pc = "done" <=> install'[k].outcome # "none"
      BY <2>2 DEF InstallInv, InstallerTypeOK
    <3> QED BY Zenon, <2>2, <3>1, <3>2, <3>3 DEF InstallerTypeOK, InstallStates
  <2>4. LeftoverInv'
    <3>1. targetDir'.from = targetDir.from /\ targetDir'.exists /\ targetDir'.receipt
      BY Zenon, <2>1 DEF InstallInv, InstallerTypeOK
    <3> QED BY <2>1, <2>2, <3>1 DEF InstallInv, LeftoverInv
  <2> QED BY <2>3, <2>4 DEF InstallInv
<1>10. CASE RollsBack(i) \/ GuardDrops(i)
  <2>1. targetDir' = Absent /\ package' = package BY Zenon, <1>10 DEF RollsBack, GuardDrops
  <2>2. /\ install' \in [Installs -> InstallStates]
        /\ install'[i].pc = "done" <=> install'[i].outcome # "none"
        /\ \A k \in Installs \ {i} : install'[k] = install[k]
    <3>1. CASE RollsBack(i) BY <3>1, ProceedMoves DEF RollsBack
    <3>2. CASE GuardDrops(i) BY <3>2, ReturnMoves DEF GuardDrops
    <3> QED BY Zenon, <1>10, <3>1, <3>2
  <2>3. InstallerTypeOK' BY <2>1, <2>2 DEF InstallInv, InstallerTypeOK, InstallStates, Absent
  <2>4. LeftoverInv' BY Zenon, <2>1, InstallerAssumption DEF LeftoverInv, Absent
  <2> QED BY <2>3, <2>4 DEF InstallInv
<1> QED BY Zenon, <1>1, <1>2, <1>3, <1>4, <1>5, <1>6, <1>7, <1>8, <1>9, <1>10

LEMMA InstallStepInv == InstallInv /\ [InstallerNext]_installVars => InstallInv'
<1> SUFFICES ASSUME InstallInv, [InstallerNext]_installVars PROVE InstallInv' BY Zenon
<1>1. CASE InstallerNext BY Zenon, <1>1, InstallStepKeeps DEF InstallerNext
<1>2. CASE UNCHANGED installVars
  BY <1>2 DEF installVars, InstallInv, InstallerTypeOK, LeftoverInv
<1> QED BY Zenon, <1>1, <1>2

\* However many installs of one version meet, what is on disk when they have
\* all returned is whole: for any number of calls of ServiceInstaller::install
\* and AgentInstaller::install.
THEOREM Leftovers == InstallerSpec => [](InstallerTypeOK /\ LeftoversAreComplete)
<1>1. InstallInv => InstallerTypeOK BY Zenon DEF InstallInv
<1>2. InstallInv => LeftoversAreComplete
  <2> SUFFICES ASSUME InstallInv, targetDir.exists, \A i \in Installs : install[i].pc = "done"
               PROVE  /\ targetDir.from # Nothing /\ install[targetDir.from].outcome = "ok"
                      /\ package = "service" => targetDir.receipt
    BY Zenon DEF LeftoversAreComplete
  <2>1. targetDir.from \in Installs BY Zenon DEF InstallInv, InstallerTypeOK, LeftoverInv
  <2> QED BY Zenon, <2>1, InstallerAssumption DEF InstallInv, LeftoverInv
<1> QED BY <1>1, <1>2, InstallInitInv, InstallStepInv, PTL DEF InstallerSpec

-----------------------------------------------------------------------------
(* Sessions: the invariant                                                 *)

\* A session record that exists has an owner.
WellMade(r) == r \in SessionRecords /\ (r # NoSessionRecord => r.owner \in Pids)

\* A session that was recorded, and still is unless it was deleted.
Recorded(s) == s \in SessionIds /\ (sess[s] # NoSessionRecord \/ s \in deleted)

Statuses == LiveStates \cup {"none", "killed"}

StoresOK ==
    /\ sess \in [SessionIds -> SessionRecords]
    /\ \A s \in SessionIds : WellMade(sess[s])
    /\ inv \in [Pids -> [status : Statuses, session : SessionIds \cup {NoSession}]]
    /\ \A p \in Pids : inv[p] # NoInvocation => Recorded(inv[p].session)
    /\ actSess \in [Pids -> SessionIds \cup {NoSession}]
    /\ actInv \subseteq Pids /\ kills \subseteq Pids /\ deleted \subseteq SessionIds

\* A task that runs has its invocation recorded, and is aborted only by a kill.
TaskPcs == {"none", "starting", "running", "idling", "waiting", "ended", "failed"}
TaskOK(p) ==
    /\ WellMade(execTask[p].copy)
    /\ execTask[p].pc \in {"starting", "running", "idling", "waiting"} => inv[p] # NoInvocation
    /\ execTask[p].aborted => p \in kills
TasksOK ==
    /\ execTask \in [Pids -> [pc : TaskPcs, copy : SessionRecords, aborted : BOOLEAN, goal : BOOLEAN,
                              restored : BOOLEAN]]
    /\ \A p \in Pids : TaskOK(p)

\* A spawn has recorded its session before anything else, and its invocation
\* before it launches the executor.
SpawnPcs == {"participant", "insert", "addPid", "create", "meta", "launch"}
CallPcs == SpawnPcs \cup {"idle", "handle", "finalize", "leave", "pauseAll", "resumeAll", "resumeNext"}
CallRecords ==
    [pc : CallPcs, pid : Pids \cup {NoPid}, s : SessionIds \cup {NoSession}, copy : SessionRecords,
     todo : SUBSET Pids]
CallOK(c) ==
    /\ WellMade(kernelCall[c].copy)
    /\ kernelCall[c].pc \in SpawnPcs => kernelCall[c].pid \in Pids /\ Recorded(kernelCall[c].s)
    /\ kernelCall[c].pc \in {"meta", "launch"} => inv[kernelCall[c].pid] # NoInvocation
    /\ kernelCall[c].pc = "finalize" => kernelCall[c].pid \in Pids
CallsOK ==
    /\ kernelCall \in [Callers -> CallRecords]
    /\ \A c \in Callers : CallOK(c)

\* A restore visits recorded invocations.
BootOK ==
    /\ bootAt \in [phase : {"up", "repair", "list", "restore", "attach"}, todo : SUBSET Pids,
                   copy : SessionRecords]
    /\ WellMade(bootAt.copy)
    /\ \A p \in bootAt.todo : inv[p] # NoInvocation

\* Somebody answers for the invocation.
Backed(p) ==
    \/ Spawning(p) \/ p \in kills
    \/ execTask[p].pc \in {"starting", "running", "idling", "waiting", "failed"}

\* Whoever is active or recorded as live is backed, or the boot still has to
\* visit it.
BackedInv ==
    /\ \A p \in actInv : Backed(p)
    /\ bootAt.phase = "up" => \A p \in Interrupted : Backed(p)
    /\ bootAt.phase \in {"restore", "attach"} => \A p \in Interrupted : p \in bootAt.todo \/ Backed(p)

SessionsInv == StoresOK /\ TasksOK /\ CallsOK /\ BootOK /\ BackedInv

-----------------------------------------------------------------------------

LEMMA RecordFacts ==
    /\ NoSessionRecord \in SessionRecords /\ WellMade(NoSessionRecord)
    /\ NoCall \in CallRecords /\ NoCall.pc = "idle" /\ NoCall.copy = NoSessionRecord
    /\ NoTask.pc = "none" /\ NoTask.copy = NoSessionRecord /\ ~NoTask.aborted
    /\ NoTask \in [pc : TaskPcs, copy : SessionRecords, aborted : BOOLEAN, goal : BOOLEAN,
                   restored : BOOLEAN]
    /\ NoInvocation \in [status : Statuses, session : SessionIds \cup {NoSession}]
<1>1. NoSessionRecord \in SessionRecords BY Zenon DEF NoSessionRecord, SessionRecords
<1>2. WellMade(NoSessionRecord) BY Zenon, <1>1 DEF WellMade
<1>3. NoInvocation \in [status : Statuses, session : SessionIds \cup {NoSession}]
  BY Zenon DEF NoInvocation, Statuses
<1>4. /\ NoCall \in CallRecords /\ NoCall.pc = "idle" /\ NoCall.copy = NoSessionRecord
  BY Zenon, <1>1 DEF NoCall, CallRecords, CallPcs
<1>5. /\ NoTask.pc = "none" /\ NoTask.copy = NoSessionRecord /\ ~NoTask.aborted
      /\ NoTask \in [pc : TaskPcs, copy : SessionRecords, aborted : BOOLEAN, goal : BOOLEAN,
                     restored : BOOLEAN]
  BY Zenon, <1>1 DEF NoTask, TaskPcs
<1> QED BY Zenon, <1>1, <1>2, <1>3, <1>4, <1>5

LEMMA SessionsInitInv == SessionsInit => SessionsInv
<1> SUFFICES ASSUME SessionsInit PROVE SessionsInv OBVIOUS
<1> USE RecordFacts DEF SessionsInit
<1>1. StoresOK BY Zenon DEF StoresOK
<1>2. TasksOK BY Zenon DEF TasksOK, TaskOK
<1>3. CallsOK BY Zenon DEF CallsOK, CallOK, SpawnPcs
<1>4. BootOK BY Zenon DEF BootOK
<1>5. BackedInv BY Zenon DEF BackedInv, Interrupted, LiveStates, NoInvocation
<1> QED BY Zenon, <1>1, <1>2, <1>3, <1>4, <1>5 DEF SessionsInv

-----------------------------------------------------------------------------
(* What a step of a call, a task or the boot keeps                         *)

\* A session record goes only by session/delete.
SessKept ==
    /\ sess' \in [SessionIds -> SessionRecords]
    /\ \A s \in SessionIds : WellMade(sess'[s])
    /\ deleted' \subseteq SessionIds /\ deleted \subseteq deleted'
    /\ \A s \in SessionIds : sess[s] # NoSessionRecord => sess'[s] # NoSessionRecord \/ s \in deleted'

\* An invocation record never goes, and is made for a recorded session.
InvKept ==
    /\ inv' \in [Pids -> [status : Statuses, session : SessionIds \cup {NoSession}]]
    /\ \A p \in Pids :
          /\ inv[p] # NoInvocation => inv'[p] # NoInvocation
          /\ inv'[p] # NoInvocation =>
                \/ inv[p] # NoInvocation /\ inv'[p].session = inv[p].session
                \/ Recorded(inv'[p].session)

\* Nobody becomes live, or active, without being backed.
BackKept ==
    /\ \A p \in Pids : Backed(p) => Backed(p)'
    /\ \A p \in actInv' : p \in Pids /\ (p \in actInv \/ Backed(p)')
    /\ \A p \in Interrupted' : p \in Interrupted \/ p \in actInv \/ Backed(p)'

LEMMA SessSame == ASSUME StoresOK, UNCHANGED <<sess, deleted>> PROVE SessKept
BY Zenon DEF StoresOK, SessKept

LEMMA InvSame == ASSUME StoresOK, UNCHANGED inv PROVE InvKept
BY Zenon DEF StoresOK, InvKept

\* SessionUpdate writes a changed copy of a record, never an empty one.
LEMMA Updated ==
    ASSUME StoresOK, NEW s, NEW old, NEW new, WellMade(old), new \in SessionRecords, new.owner = old.owner,
           sess' = SessionUpdate(s, old, new), deleted' = deleted
    PROVE  SessKept
<1>1. CASE old = NoSessionRecord
  BY Zenon, <1>1, SessSame DEF SessionUpdate
<1>2. CASE old # NoSessionRecord
  <2>1. sess' = [sess EXCEPT ![s] = new] BY Zenon, <1>2 DEF SessionUpdate
  <2>2. \A t \in SessionIds : sess'[t] = IF t = s THEN new ELSE sess[t]
    BY Zenon, <2>1 DEF StoresOK
  <2>3. WellMade(new) /\ new # NoSessionRecord
    BY <1>2, SessionsAssumption DEF WellMade, NoSessionRecord
  <2> QED BY Zenon, <1>2, <2>1, <2>2, <2>3 DEF SessKept, StoresOK
<1> QED BY Zenon, <1>1, <1>2

LEMMA StoresStep ==
    ASSUME StoresOK, SessKept, InvKept, actSess' \in [Pids -> SessionIds \cup {NoSession}],
           actInv' \subseteq Pids, kills' \subseteq Pids
    PROVE  StoresOK'
<1>1. \A s : Recorded(s) => Recorded(s)'
  BY Zenon DEF Recorded, SessKept
<1>2. \A p \in Pids : inv'[p] # NoInvocation => Recorded(inv[p].session)'
  <2> SUFFICES ASSUME NEW p \in Pids, inv'[p] # NoInvocation PROVE Recorded(inv[p].session)'
    BY Zenon
  <2>1. Recorded(inv'[p].session) BY Zenon DEF InvKept, StoresOK
  <2>2. inv'[p].session \in SessionIds BY Zenon, <2>1 DEF Recorded
  <2> QED BY Zenon, <2>1, <2>2 DEF Recorded, SessKept
<1> QED BY Zenon, <1>2 DEF StoresOK, SessKept, InvKept

LEMMA CallsStep ==
    ASSUME CallsOK, SessKept, InvKept, NEW c \in Callers, kernelCall' \in [Callers -> CallRecords],
           \A d \in Callers \ {c} : kernelCall'[d] = kernelCall[d], CallOK(c)'
    PROVE  CallsOK'
<1>1. SUFFICES ASSUME NEW d \in Callers \ {c} PROVE CallOK(d)'
  BY Zenon DEF CallsOK
<1>2. kernelCall'[d] = kernelCall[d] /\ CallOK(d)
  BY Zenon, <1>1 DEF CallsOK
<1>3. Recorded(kernelCall[d].s) => Recorded(kernelCall[d].s)'
  BY Zenon, <1>2 DEF Recorded, SessKept
<1>4. kernelCall[d].pid \in Pids /\ inv[kernelCall[d].pid] # NoInvocation => inv'[kernelCall[d].pid] # NoInvocation
  BY Zenon DEF InvKept
<1>5. {"meta", "launch"} \subseteq SpawnPcs BY Zenon DEF SpawnPcs
<1> QED BY Zenon, <1>2, <1>3, <1>4, <1>5 DEF CallOK

LEMMA CallsSame ==
    ASSUME CallsOK, SessKept, InvKept, UNCHANGED kernelCall
    PROVE  CallsOK'
<1>1. SUFFICES ASSUME NEW d \in Callers PROVE CallOK(d)'
  BY Zenon DEF CallsOK
<1>2. kernelCall'[d] = kernelCall[d] /\ CallOK(d)
  BY Zenon, <1>1 DEF CallsOK
<1>3. Recorded(kernelCall[d].s) => Recorded(kernelCall[d].s)'
  BY Zenon, <1>2 DEF Recorded, SessKept
<1>4. kernelCall[d].pid \in Pids /\ inv[kernelCall[d].pid] # NoInvocation => inv'[kernelCall[d].pid] # NoInvocation
  BY Zenon DEF InvKept
<1>5. {"meta", "launch"} \subseteq SpawnPcs BY Zenon DEF SpawnPcs
<1> QED BY Zenon, <1>2, <1>3, <1>4, <1>5 DEF CallOK

LEMMA TasksSame ==
    ASSUME TasksOK, InvKept, UNCHANGED execTask, kills \subseteq kills'
    PROVE  TasksOK'
BY Zenon DEF TasksOK, TaskOK, InvKept

LEMMA TasksStep ==
    ASSUME TasksOK, InvKept, NEW p \in Pids, NEW t, execTask' = [execTask EXCEPT ![p] = t],
           t \in [pc : TaskPcs, copy : SessionRecords, aborted : BOOLEAN, goal : BOOLEAN, restored : BOOLEAN],
           WellMade(t.copy), t.pc \in {"starting", "running", "idling", "waiting"} => inv'[p] # NoInvocation,
           t.aborted => p \in kills', kills \subseteq kills'
    PROVE  TasksOK'
<1>1. \A q \in Pids : execTask'[q] = IF q = p THEN t ELSE execTask[q]
  BY Zenon DEF TasksOK
<1>2. \A q \in Pids : TaskOK(q)'
  BY Zenon, <1>1 DEF TasksOK, TaskOK, InvKept
<1> QED BY Zenon, <1>2 DEF TasksOK

LEMMA BootSame == ASSUME BootOK, InvKept, UNCHANGED bootAt PROVE BootOK'
BY Zenon DEF BootOK, InvKept

LEMMA BackedSame == ASSUME BackedInv, BackKept, UNCHANGED bootAt PROVE BackedInv'
<1>1. Interrupted' \subseteq Pids BY Zenon DEF Interrupted
<1> QED BY Zenon, <1>1 DEF BackedInv, BackKept, Interrupted

\* A step of a call other than the launch leaves a spawn in hand, and the
\* tasks where they are.
LEMMA CallBacks ==
    ASSUME NEW c \in Callers, \A d \in Callers \ {c} : kernelCall'[d] = kernelCall[d],
           \/ kernelCall[c].pc \notin {"create", "meta", "launch"}
           \/ kernelCall'[c].pid = kernelCall[c].pid /\ kernelCall'[c].pc \in {"create", "meta", "launch"},
           \A p \in Pids : execTask'[p].pc = execTask[p].pc, kills \subseteq kills'
    PROVE  \A p \in Pids : Backed(p) => Backed(p)'
BY DEF Backed, Spawning

\* A step of a task leaves it alive, or it was killed.
LEMMA TaskBacks ==
    ASSUME NEW q \in Pids, UNCHANGED <<kernelCall, kills>>,
           \A p \in Pids \ {q} : execTask'[p] = execTask[p],
           execTask'[q].pc \in {"starting", "running", "idling", "waiting", "failed"} \/ q \in kills
    PROVE  \A p \in Pids : Backed(p) => Backed(p)'
BY Zenon DEF Backed, Spawning

-----------------------------------------------------------------------------

LEMMA SessionsMove ==
    ASSUME SessionsInv, SessKept, InvKept, BackKept, CallsOK', TasksOK', UNCHANGED bootAt,
           actSess' \in [Pids -> SessionIds \cup {NoSession}], kills' \subseteq Pids
    PROVE  SessionsInv'
<1>1. StoresOK' BY Zenon, StoresStep DEF SessionsInv, BackKept
<1>2. BootOK' BY Zenon, BootSame DEF SessionsInv
<1>3. BackedInv' BY Zenon, BackedSame DEF SessionsInv
<1> QED BY Zenon, <1>1, <1>2, <1>3 DEF SessionsInv

\* Caller c goes on to k; everybody else stays.
LEMMA CallMove ==
    ASSUME SessionsInv, NEW c \in Callers, NEW k \in CallRecords, kernelCall' = [kernelCall EXCEPT ![c] = k],
           WellMade(k.copy),
           k.pc \in SpawnPcs => /\ k.pid \in Pids /\ k.s \in SessionIds
                                /\ Recorded(k.s) \/ sess'[k.s] # NoSessionRecord,
           k.pc \in {"meta", "launch"} => inv'[k.pid] # NoInvocation,
           k.pc = "finalize" => k.pid \in Pids,
           \/ kernelCall[c].pc \notin {"create", "meta", "launch"}
           \/ k.pid = kernelCall[c].pid /\ k.pc \in {"create", "meta", "launch"},
           SessKept, InvKept, TasksOK', \A p \in Pids : execTask'[p].pc = execTask[p].pc,
           kills \subseteq kills', kills' \subseteq Pids, UNCHANGED bootAt,
           actSess' \in [Pids -> SessionIds \cup {NoSession}],
           \A p \in actInv' : p \in Pids /\ (p \in actInv \/ Backed(p)'),
           \A p \in Interrupted' : p \in Interrupted \/ p \in actInv \/ Backed(p)'
    PROVE  SessionsInv'
<1>1. kernelCall \in [Callers -> CallRecords] BY Zenon DEF SessionsInv, CallsOK
<1>2. /\ kernelCall'[c] = k /\ kernelCall' \in [Callers -> CallRecords]
      /\ \A d \in Callers \ {c} : kernelCall'[d] = kernelCall[d]
  BY Zenon, <1>1
<1>3. k.pc \in SpawnPcs => Recorded(k.s)'
  BY Zenon DEF Recorded, SessKept
<1>4. CallOK(c)' BY Zenon, <1>2, <1>3 DEF CallOK
<1>5. CallsOK' BY Zenon, <1>2, <1>4, CallsStep DEF SessionsInv
<1>6. \A p \in Pids : Backed(p) => Backed(p)'
  BY Zenon, <1>2, CallBacks
<1>7. BackKept BY Zenon, <1>6 DEF BackKept
<1> QED BY Zenon, <1>5, <1>7, SessionsMove

\* Like CallMove, for a call that leaves the invocations and the tasks alone.
LEMMA PlainCallMove ==
    ASSUME SessionsInv, NEW c \in Callers, NEW k \in CallRecords, kernelCall' = [kernelCall EXCEPT ![c] = k],
           WellMade(k.copy),
           k.pc \in SpawnPcs => /\ k.pid \in Pids /\ k.s \in SessionIds
                                /\ Recorded(k.s) \/ sess'[k.s] # NoSessionRecord,
           k.pc \in {"meta", "launch"} => inv'[k.pid] # NoInvocation,
           k.pc = "finalize" => k.pid \in Pids,
           \/ kernelCall[c].pc \notin {"create", "meta", "launch"}
           \/ k.pid = kernelCall[c].pid /\ k.pc \in {"create", "meta", "launch"},
           SessKept, UNCHANGED <<inv, execTask, kills, bootAt, actInv>>,
           actSess' \in [Pids -> SessionIds \cup {NoSession}]
    PROVE  SessionsInv'
<1>1. InvKept BY Zenon, InvSame DEF SessionsInv
<1>2. TasksOK' BY Zenon, <1>1, TasksSame DEF SessionsInv
<1>3. Interrupted' = Interrupted BY Zenon DEF Interrupted
<1>4. kills' \subseteq Pids /\ actInv' \subseteq Pids BY Zenon DEF SessionsInv, StoresOK
<1> QED BY Zenon, <1>1, <1>2, <1>3, <1>4, CallMove

-----------------------------------------------------------------------------
(* spawn                                                                   *)

LEMMA SpawnKeeps ==
    ASSUME SessionsInv, NEW c \in Callers,
           \/ \E p \in Pids, s \in SessionIds :
                 SpawnNew(c, p, s) \/ SpawnInto(c, p, s) \/ SessionResumeSpawn(c, p, s)
           \/ SpawnStep(c)
    PROVE  SessionsInv'
<1> DEFINE K == kernelCall[c]
<1>0. /\ StoresOK /\ K \in CallRecords /\ CallOK(c) /\ actSess \in [Pids -> SessionIds \cup {NoSession}]
      /\ kernelCall \in [Callers -> CallRecords]
  BY Zenon DEF SessionsInv, CallsOK, StoresOK
<1>a. /\ K.pc \in CallPcs /\ K.pid \in Pids \cup {NoPid} /\ K.s \in SessionIds \cup {NoSession}
      /\ K.copy \in SessionRecords /\ K.todo \in SUBSET Pids /\ WellMade(K.copy)
  BY Zenon, <1>0 DEF CallRecords, CallOK
<1>b. NoPid \notin Pids BY Zenon, SessionsAssumption
<1>1. ASSUME NEW p \in Pids, NEW s \in SessionIds, SpawnNew(c, p, s) PROVE SessionsInv'
  <2> DEFINE k == [NoCall EXCEPT !.pc = "insert", !.pid = p, !.s = s]
  <2>1. /\ k \in CallRecords /\ k.pc = "insert" /\ k.pid = p /\ k.s = s /\ k.copy = NoSessionRecord
    BY Zenon, RecordFacts DEF NoCall, CallRecords, CallPcs, SpawnPcs
  <2>2. NewSession(p) \in SessionRecords /\ NewSession(p).owner = p /\ NewSession(p) # NoSessionRecord
    BY Zenon, <1>b DEF NewSession, SessionRecords, NoSessionRecord
  <2>3. \A t \in SessionIds : sess'[t] = IF t = s THEN NewSession(p) ELSE sess[t]
    BY Zenon, <1>1, <1>0 DEF SpawnNew, StoresOK
  <2>4. SessKept BY Zenon, <1>1, <1>0, <2>2, <2>3 DEF SpawnNew, sessHistory, SessKept, StoresOK, WellMade
  <2>5. kernelCall' = [kernelCall EXCEPT ![c] = k] /\ K.pc = "idle"
    BY Zenon, <1>1 DEF SpawnNew, BeginCall
  <2>6. UNCHANGED <<inv, execTask, kills, bootAt, actInv, actSess>>
    BY Zenon, <1>1 DEF SpawnNew, kernelMaps, sessHistory
  <2>7. sess'[k.s] # NoSessionRecord BY Zenon, <2>1, <2>2, <2>3
  <2>8. WellMade(k.copy) BY Zenon, <2>1, RecordFacts
  <2> HIDE DEF k
  <2> QED BY Zenon, <1>0, <2>1, <2>4, <2>5, <2>6, <2>7, <2>8, PlainCallMove
<1>2. ASSUME NEW p \in Pids, NEW s \in SessionIds, SpawnInto(c, p, s) PROVE SessionsInv'
  <2> DEFINE k == [NoCall EXCEPT !.pc = "participant", !.pid = p, !.s = s, !.copy = sess[s]]
  <2>1. WellMade(sess[s]) /\ sess[s] \in SessionRecords /\ Recorded(s)
    BY Zenon, <1>2, <1>0 DEF StoresOK, SpawnInto, Recorded
  <2>2. /\ k \in CallRecords /\ k.pc = "participant" /\ k.pid = p /\ k.s = s /\ k.copy = sess[s]
    BY Zenon, <2>1, RecordFacts DEF NoCall, CallRecords, CallPcs, SpawnPcs
  <2>3. kernelCall' = [kernelCall EXCEPT ![c] = k] /\ K.pc = "idle"
    BY Zenon, <1>2 DEF SpawnInto, BeginCall
  <2>4. UNCHANGED <<sess, deleted, inv, execTask, kills, bootAt, actInv, actSess>>
    BY Zenon, <1>2 DEF SpawnInto, kernelMaps, sessHistory, durable
  <2>5. SessKept BY Zenon, <1>0, <2>4, SessSame
  <2> HIDE DEF k
  <2> QED BY Zenon, <1>0, <2>1, <2>2, <2>3, <2>4, <2>5, PlainCallMove
<1>3. ASSUME SpawnParticipant(c) PROVE SessionsInv'
  <2> DEFINE k == [K EXCEPT !.pc = "insert"]
  <2>1. /\ k \in CallRecords /\ k.pc = "insert" /\ k.pid = K.pid /\ k.s = K.s /\ k.copy = K.copy
    BY Zenon, <1>0, <1>a DEF CallRecords, CallPcs, SpawnPcs
  <2>2. kernelCall' = [kernelCall EXCEPT ![c] = k] /\ K.pc = "participant"
    BY Zenon, <1>3 DEF SpawnParticipant
  <2>3. UNCHANGED <<deleted, inv, execTask, kills, bootAt, actInv, actSess>>
    BY Zenon, <1>3 DEF SpawnParticipant, kernelMaps, sessHistory
  <2>4. SessKept BY Zenon, <1>0, <1>a, <1>3, <2>3, Updated DEF SpawnParticipant
  <2>5. K.pid \in Pids /\ Recorded(K.s) /\ K.s \in SessionIds
    BY Zenon, <1>0, <2>2 DEF CallOK, SpawnPcs, Recorded
  <2> HIDE DEF k
  <2> QED BY Zenon, <1>0, <1>a, <2>1, <2>2, <2>3, <2>4, <2>5, PlainCallMove
<1>4. ASSUME SpawnInsert(c) PROVE SessionsInv'
  <2> DEFINE k == [K EXCEPT !.pc = "addPid", !.copy = sess[K.s]]
  <2>2. kernelCall' = [kernelCall EXCEPT ![c] = k] /\ K.pc = "insert"
    BY Zenon, <1>4 DEF SpawnInsert
  <2>3. UNCHANGED <<sess, deleted, inv, execTask, kills, bootAt, actInv, actSess>>
    BY Zenon, <1>4 DEF SpawnInsert, durable, sessHistory
  <2>4. SessKept BY Zenon, <1>0, <2>3, SessSame
  <2>5. K.pid \in Pids /\ Recorded(K.s) /\ K.s \in SessionIds
    BY Zenon, <1>0, <2>2 DEF CallOK, SpawnPcs, Recorded
  <2>6. WellMade(sess[K.s]) /\ sess[K.s] \in SessionRecords BY Zenon, <1>0, <2>5 DEF StoresOK
  <2>1. /\ k \in CallRecords /\ k.pc = "addPid" /\ k.pid = K.pid /\ k.s = K.s /\ k.copy = sess[K.s]
    BY Zenon, <1>0, <1>a, <2>6 DEF CallRecords, CallPcs, SpawnPcs
  <2> HIDE DEF k
  <2> QED BY Zenon, <1>0, <2>1, <2>2, <2>3, <2>4, <2>5, <2>6, PlainCallMove
<1>5. ASSUME SpawnAddPid(c) PROVE SessionsInv'
  <2> DEFINE k == [K EXCEPT !.pc = "create"]
             new == [K.copy EXCEPT !.pids = @ \cup {K.pid}]
  <2>1. /\ k \in CallRecords /\ k.pc = "create" /\ k.pid = K.pid /\ k.s = K.s /\ k.copy = K.copy
    BY Zenon, <1>0, <1>a DEF CallRecords, CallPcs, SpawnPcs
  <2>2. kernelCall' = [kernelCall EXCEPT ![c] = k] /\ K.pc = "addPid"
    BY Zenon, <1>5 DEF SpawnAddPid
  <2>3. UNCHANGED <<deleted, inv, execTask, kills, bootAt, actInv>>
    BY Zenon, <1>5 DEF SpawnAddPid, sessHistory
  <2>5. K.pid \in Pids /\ Recorded(K.s) /\ K.s \in SessionIds
    BY Zenon, <1>0, <2>2 DEF CallOK, SpawnPcs, Recorded
  <2>6. new \in SessionRecords /\ new.owner = K.copy.owner
    BY Zenon, <1>a, <2>5 DEF SessionRecords
  <2>8. sess' = SessionUpdate(K.s, K.copy, new) BY Zenon, <1>5 DEF SpawnAddPid
  <2>9. actSess' \in [Pids -> SessionIds \cup {NoSession}]
    BY Zenon, <1>0, <1>5, <2>5 DEF SpawnAddPid
  <2> HIDE DEF k, new
  <2>4. SessKept BY Zenon, <1>0, <1>a, <2>3, <2>6, <2>8, Updated
  <2> QED BY Zenon, <1>0, <1>a, <2>1, <2>2, <2>3, <2>4, <2>5, <2>9, PlainCallMove
<1>6. ASSUME SpawnCreate(c) PROVE SessionsInv'
  <2> DEFINE k == [K EXCEPT !.pc = "meta", !.copy = sess[K.s]]
             rec == [status |-> "running", session |-> K.s]
  <2>2. kernelCall' = [kernelCall EXCEPT ![c] = k] /\ K.pc = "create"
    BY Zenon, <1>6 DEF SpawnCreate
  <2>3. UNCHANGED <<sess, deleted, execTask, kills, bootAt, actInv, actSess>>
    BY Zenon, <1>6 DEF SpawnCreate, kernelMaps, sessHistory
  <2>4. SessKept BY Zenon, <1>0, <2>3, SessSame
  <2>5. K.pid \in Pids /\ Recorded(K.s) /\ K.s \in SessionIds
    BY Zenon, <1>0, <2>2 DEF CallOK, SpawnPcs, Recorded
  <2>6. WellMade(sess[K.s]) /\ sess[K.s] \in SessionRecords BY <1>0, <2>5 DEF StoresOK
  <2>1. /\ k \in CallRecords /\ k.pc = "meta" /\ k.pid = K.pid /\ k.s = K.s /\ k.copy = sess[K.s]
    BY Zenon, <1>0, <1>a, <2>6 DEF CallRecords, CallPcs, SpawnPcs
  <2>7. \A p \in Pids : inv'[p] = IF p = K.pid THEN rec ELSE inv[p]
    BY Zenon, <1>6, <1>0 DEF SpawnCreate, StoresOK
  <2>8. /\ rec # NoInvocation /\ rec.session = K.s
        /\ rec \in [status : Statuses, session : SessionIds \cup {NoSession}]
    BY Zenon, <2>5 DEF NoInvocation, Statuses, LiveStates
  <2>9. inv' \in [Pids -> [status : Statuses, session : SessionIds \cup {NoSession}]]
    BY Zenon, <1>6, <1>0, <2>8 DEF SpawnCreate, StoresOK
  <2> HIDE DEF k, rec
  <2>10. InvKept BY Zenon, <2>5, <2>7, <2>8, <2>9 DEF InvKept
  <2>11. TasksOK' BY Zenon, <2>3, <2>10, TasksSame DEF SessionsInv
  <2>12. \A q \in Pids : q = K.pid => Backed(q)'
    <3>1. kernelCall'[c] = k BY Zenon, <1>0, <2>2
    <3> QED BY Zenon, <3>1, <2>1 DEF Backed, Spawning
  <2>13. \A p \in Interrupted' : p \in Interrupted \/ Backed(p)'
    BY Zenon, <2>7, <2>12 DEF Interrupted
  <2>14. inv'[k.pid] # NoInvocation BY Zenon, <2>1, <2>5, <2>7, <2>8
  <2>15. kills' \subseteq Pids /\ actInv' \subseteq Pids BY Zenon, <1>0, <2>3 DEF StoresOK
  <2>16. k \in CallRecords /\ WellMade(k.copy) BY Zenon, <2>1, <2>6
  <2> QED BY Zenon, <1>0, <2>1, <2>2, <2>3, <2>4, <2>5, <2>10, <2>11, <2>13, <2>14, <2>15, <2>16, CallMove
<1>7. ASSUME SpawnMeta(c) PROVE SessionsInv'
  <2> DEFINE k == [K EXCEPT !.pc = "launch"]
             new == [K.copy EXCEPT !.meta = @ \cup {K.pid}]
  <2>1. /\ k \in CallRecords /\ k.pc = "launch" /\ k.pid = K.pid /\ k.s = K.s /\ k.copy = K.copy
    BY Zenon, <1>0, <1>a DEF CallRecords, CallPcs, SpawnPcs
  <2>2. kernelCall' = [kernelCall EXCEPT ![c] = k] /\ K.pc = "meta"
    BY Zenon, <1>7 DEF SpawnMeta
  <2>3. UNCHANGED <<deleted, inv, execTask, kills, bootAt, actSess>> /\ actInv' = actInv \cup {K.pid}
    BY Zenon, <1>7 DEF SpawnMeta, sessHistory
  <2>5. K.pid \in Pids /\ Recorded(K.s) /\ K.s \in SessionIds /\ inv[K.pid] # NoInvocation
    BY Zenon, <1>0, <2>2 DEF CallOK, SpawnPcs, Recorded
  <2>6. new \in SessionRecords /\ new.owner = K.copy.owner
    BY Zenon, <1>a, <2>5 DEF SessionRecords
  <2>8. sess' = SessionUpdate(K.s, K.copy, new) BY Zenon, <1>7 DEF SpawnMeta
  <2> HIDE DEF k, new
  <2>4. SessKept BY Zenon, <1>0, <1>a, <2>3, <2>6, <2>8, Updated
  <2>10. InvKept BY Zenon, <1>0, <2>3, InvSame
  <2>11. TasksOK' BY Zenon, <2>3, <2>10, TasksSame DEF SessionsInv
  <2>12. \A q \in Pids : q = K.pid => Backed(q)'
    <3>1. kernelCall'[c] = k BY Zenon, <1>0, <2>2
    <3> QED BY Zenon, <3>1, <2>1 DEF Backed, Spawning
  <2>13. Interrupted' = Interrupted BY Zenon, <2>3 DEF Interrupted
  <2>14. \A p \in actInv' : p \in Pids /\ (p \in actInv \/ Backed(p)')
    BY Zenon, <1>0, <2>3, <2>5, <2>12 DEF StoresOK
  <2>15. kills' \subseteq Pids BY Zenon, <1>0, <2>3 DEF StoresOK
  <2>16. k \in CallRecords /\ WellMade(k.copy) /\ inv'[k.pid] # NoInvocation BY Zenon, <1>a, <2>1, <2>3, <2>5
  <2> QED BY Zenon, <1>0, <2>1, <2>2, <2>3, <2>4, <2>5, <2>10, <2>11, <2>13, <2>14, <2>15, <2>16, CallMove
<1>8. ASSUME SpawnLaunch(c) PROVE SessionsInv'
  <2> DEFINE k == [K EXCEPT !.pc = "handle"]
             t == [NoTask EXCEPT !.pc = "starting"]
  <2>1. /\ k \in CallRecords /\ k.pc = "handle" /\ k.copy = K.copy
    BY Zenon, <1>0, <1>a DEF CallRecords, CallPcs, SpawnPcs
  <2>2. kernelCall' = [kernelCall EXCEPT ![c] = k] /\ K.pc = "launch"
    BY Zenon, <1>8 DEF SpawnLaunch
  <2>3. UNCHANGED <<sess, deleted, inv, kills, bootAt, actSess, actInv>>
    BY Zenon, <1>8 DEF SpawnLaunch, durable, kernelMaps, sessHistory
  <2>4. SessKept /\ InvKept BY Zenon, <1>0, <2>3, SessSame, InvSame
  <2>5. K.pid \in Pids /\ inv[K.pid] # NoInvocation
    BY Zenon, <1>0, <2>2 DEF CallOK, SpawnPcs
  <2>6. execTask' = [execTask EXCEPT ![K.pid] = t] BY Zenon, <1>8 DEF SpawnLaunch
  <2>7. /\ t \in [pc : TaskPcs, copy : SessionRecords, aborted : BOOLEAN, goal : BOOLEAN, restored : BOOLEAN]
        /\ WellMade(t.copy) /\ t.pc = "starting" /\ ~t.aborted
    BY Zenon, RecordFacts DEF NoTask, TaskPcs
  <2> HIDE DEF k, t
  <2>8. TasksOK' BY Zenon, <2>3, <2>4, <2>5, <2>6, <2>7, TasksStep DEF SessionsInv
  <2>9. \A p \in Pids : execTask'[p] = IF p = K.pid THEN t ELSE execTask[p]
    BY Zenon, <2>6 DEF SessionsInv, TasksOK
  <2>10. /\ kernelCall'[c] = k /\ kernelCall' \in [Callers -> CallRecords]
         /\ \A d \in Callers \ {c} : kernelCall'[d] = kernelCall[d]
    BY Zenon, <1>0, <2>1, <2>2
  <2>11. CallOK(c)'
    BY Zenon, <1>a, <2>1, <2>10 DEF CallOK, SpawnPcs
  <2>12. CallsOK' BY Zenon, <2>4, <2>10, <2>11, CallsStep DEF SessionsInv
  <2>13. \A p \in Pids : Backed(p) => Backed(p)'
    BY <2>3, <2>7, <2>9, <2>10 DEF Backed, Spawning
  <2>14. BackKept BY Zenon, <1>0, <2>3, <2>13 DEF BackKept, StoresOK, Interrupted
  <2> QED BY Zenon, <1>0, <2>3, <2>4, <2>8, <2>12, <2>14, SessionsMove DEF StoresOK
<1>9. ASSUME SpawnHandle(c) PROVE SessionsInv'
  <2>1. kernelCall' = [kernelCall EXCEPT ![c] = NoCall] /\ K.pc = "handle"
    BY Zenon, <1>9 DEF SpawnHandle
  <2>2. UNCHANGED <<sess, deleted, inv, execTask, kills, bootAt, actSess, actInv>>
    BY Zenon, <1>9 DEF SpawnHandle, durable, sessHistory
  <2>3. SessKept BY Zenon, <1>0, <2>2, SessSame
  <2>4. NoCall.pc \notin SpawnPcs /\ NoCall.pc \notin {"meta", "launch", "finalize"} BY Zenon, RecordFacts DEF SpawnPcs
  <2> QED BY Zenon, <1>0, <2>1, <2>2, <2>3, <2>4, RecordFacts, PlainCallMove
<1> QED BY <1>1, <1>2, <1>3, <1>4, <1>5, <1>6, <1>7, <1>8, <1>9 DEF SpawnStep, SessionResumeSpawn

-----------------------------------------------------------------------------
(* kill, pause, resume and the session calls                               *)

LEMMA KillKeeps ==
    ASSUME SessionsInv, NEW c \in Callers, (\E p \in Pids : KillAgent(c, p)) \/ KillFinalize(c) \/ KillLeave(c)
    PROVE  SessionsInv'
<1> DEFINE K == kernelCall[c]
<1>0. /\ StoresOK /\ TasksOK /\ K \in CallRecords /\ CallOK(c) /\ actSess \in [Pids -> SessionIds \cup {NoSession}]
      /\ kernelCall \in [Callers -> CallRecords]
  BY Zenon DEF SessionsInv, CallsOK, StoresOK
<1>a. /\ K.pc \in CallPcs /\ K.pid \in Pids \cup {NoPid} /\ K.s \in SessionIds \cup {NoSession}
      /\ K.copy \in SessionRecords /\ K.todo \in SUBSET Pids /\ WellMade(K.copy)
  BY Zenon, <1>0 DEF CallRecords, CallOK
<1>b. NoCall.pc \notin SpawnPcs /\ NoCall.pc \notin {"meta", "launch", "finalize"} BY Zenon, RecordFacts DEF SpawnPcs
<1>1. ASSUME NEW p \in Pids, KillAgent(c, p) PROVE SessionsInv'
  <2> DEFINE k == [NoCall EXCEPT !.pc = "finalize", !.pid = p]
  <2>1. k \in CallRecords /\ k.pc = "finalize" /\ k.pid = p /\ k.copy = NoSessionRecord
    BY Zenon, RecordFacts DEF NoCall, CallRecords, CallPcs
  <2>2. kernelCall' = [kernelCall EXCEPT ![c] = k] /\ K.pc = "idle"
    BY Zenon, <1>1 DEF KillAgent, BeginCall
  <2>3. UNCHANGED <<sess, deleted, inv, bootAt, actInv, actSess>> /\ kills' = kills \cup {p}
    BY Zenon, <1>1 DEF KillAgent, durable
  <2>4. SessKept /\ InvKept BY Zenon, <1>0, <2>3, SessSame, InvSame
  <2>5. TasksOK' /\ \A q \in Pids : execTask'[q].pc = execTask[q].pc
    <3>1. CASE p \in handles
      <4> DEFINE t == [execTask[p] EXCEPT !.aborted = TRUE]
      <4>1. execTask' = [execTask EXCEPT ![p] = t] BY Zenon, <3>1, <1>1 DEF KillAgent
      <4>2. /\ t \in [pc : TaskPcs, copy : SessionRecords, aborted : BOOLEAN, goal : BOOLEAN, restored : BOOLEAN]
            /\ t.copy = execTask[p].copy /\ t.pc = execTask[p].pc
        BY Zenon, <1>0 DEF TasksOK
      <4>3. WellMade(t.copy) /\ (t.pc \in {"starting", "running", "idling", "waiting"} => inv'[p] # NoInvocation)
        BY Zenon, <1>0, <4>2, <2>3 DEF TasksOK, TaskOK
      <4> HIDE DEF t
      <4>4. \A q \in Pids : execTask'[q].pc = execTask[q].pc BY Zenon, <1>0, <4>1, <4>2 DEF TasksOK
      <4>5. p \in kills' /\ kills \subseteq kills' BY Zenon, <2>3
      <4> QED BY Zenon, <1>0, <2>4, <4>1, <4>2, <4>3, <4>4, <4>5, TasksStep
    <3>2. CASE p \notin handles
      <4>1. UNCHANGED execTask BY Zenon, <3>2, <1>1 DEF KillAgent
      <4>2. kills \subseteq kills' BY Zenon, <2>3
      <4> QED BY Zenon, <1>0, <2>4, <4>1, <4>2, TasksSame
    <3> QED BY Zenon, <3>1, <3>2
  <2>6. Interrupted' = Interrupted BY Zenon, <2>3 DEF Interrupted
  <2>7. kills \subseteq kills' /\ kills' \subseteq Pids /\ actInv' \subseteq Pids BY Zenon, <1>0, <2>3 DEF StoresOK
  <2>8. WellMade(k.copy) /\ k.pc \notin SpawnPcs BY Zenon, <2>1, RecordFacts DEF SpawnPcs
  <2> HIDE DEF k
  <2> QED BY Zenon, <1>0, <2>1, <2>2, <2>3, <2>4, <2>5, <2>6, <2>7, <2>8, CallMove
<1>2. ASSUME KillFinalize(c) PROVE SessionsInv'
  <2> DEFINE p == K.pid
             k == IF actSess[p] = NoSession THEN NoCall
                  ELSE [K EXCEPT !.pc = "leave", !.s = actSess[p], !.copy = sess[actSess[p]]]
  <2>1. kernelCall' = [kernelCall EXCEPT ![c] = k] /\ K.pc = "finalize"
    BY Zenon, <1>2 DEF KillFinalize
  <2>2. UNCHANGED <<sess, deleted, execTask, bootAt, kills>> /\ actInv' = actInv \ {p}
    BY Zenon, <1>2 DEF KillFinalize, sessHistory
  <2>3. actSess' \in [Pids -> SessionIds \cup {NoSession}]
    BY Zenon, <1>0, <1>2 DEF KillFinalize
  <2>4. SessKept BY Zenon, <1>0, <2>2, SessSame
  <2>5. InvKept /\ Interrupted' \subseteq Interrupted
    <3>1. CASE inv' = inv BY Zenon, <3>1, <1>0, InvSame DEF Interrupted
    <3>2. CASE p \in actInv /\ inv[p] # NoInvocation
      <4> DEFINE new == [inv[p] EXCEPT !.status = "killed"]
      <4>1. p \in Pids BY Zenon, <3>2, <1>0 DEF StoresOK
      <4>2. /\ new \in [status : Statuses, session : SessionIds \cup {NoSession}]
            /\ new.session = inv[p].session /\ new.status = "killed"
        BY <1>0, <4>1 DEF StoresOK, Statuses
      <4>3. new # NoInvocation BY Zenon, <4>2 DEF NoInvocation
      <4>4. inv' = [inv EXCEPT ![p] = new] BY Zenon, <3>2, <1>2 DEF KillFinalize
      <4> HIDE DEF new
      <4>5. \A q \in Pids : inv'[q] = IF q = p THEN new ELSE inv[q] BY Zenon, <1>0, <4>4 DEF StoresOK
      <4>6. InvKept BY <1>0, <3>2, <4>2, <4>3, <4>4, <4>5 DEF InvKept, StoresOK
      <4>7. Interrupted' \subseteq Interrupted BY Zenon, <4>2, <4>5 DEF Interrupted, LiveStates
      <4> QED BY Zenon, <4>6, <4>7
    <3> QED BY Zenon, <3>1, <3>2, <1>2 DEF KillFinalize
  <2>6. TasksOK' BY Zenon, <1>0, <2>2, <2>5, TasksSame
  <2>7. k \in CallRecords /\ WellMade(k.copy) /\ k.pc \notin SpawnPcs /\ k.pc \notin {"meta", "launch", "finalize"}
    <3>1. CASE actSess[p] = NoSession BY Zenon, <3>1, <1>b, RecordFacts
    <3>0. p \in Pids BY Zenon, <1>0, <2>1 DEF CallOK
    <3>2. CASE actSess[p] # NoSession
      <4>1. actSess[p] \in SessionIds BY Zenon, <3>0, <3>2, <1>0
      <4>2. sess[actSess[p]] \in SessionRecords /\ WellMade(sess[actSess[p]]) BY Zenon, <4>1, <1>0 DEF StoresOK
      <4> QED BY Zenon, <3>2, <4>1, <4>2, <1>0, <1>a DEF CallRecords, CallPcs, SpawnPcs
    <3> QED BY Zenon, <3>1, <3>2
  <2>8. kills' \subseteq Pids /\ actInv' \subseteq actInv /\ actInv \subseteq Pids BY Zenon, <1>0, <2>2 DEF StoresOK
  <2> HIDE DEF k
  <2> QED BY Zenon, <1>0, <2>1, <2>2, <2>3, <2>4, <2>5, <2>6, <2>7, <2>8, CallMove
<1>3. ASSUME KillLeave(c) PROVE SessionsInv'
  <2> DEFINE new == [K.copy EXCEPT !.pids = @ \ {K.pid}, !.status = IF K.pid = K.copy.owner THEN "failed" ELSE @]
  <2>1. kernelCall' = [kernelCall EXCEPT ![c] = NoCall] /\ K.pc = "leave"
    BY Zenon, <1>3 DEF KillLeave
  <2>2. UNCHANGED <<deleted, inv, execTask, kills, bootAt, actSess, actInv>>
    BY Zenon, <1>3 DEF KillLeave, kernelMaps, sessHistory
  <2>3. new \in SessionRecords /\ new.owner = K.copy.owner BY Zenon, <1>a DEF SessionRecords
  <2>4. sess' = SessionUpdate(K.s, K.copy, new) BY Zenon, <1>3 DEF KillLeave
  <2> HIDE DEF new
  <2>5. SessKept BY Zenon, <1>0, <1>a, <2>2, <2>3, <2>4, Updated
  <2> QED BY Zenon, <1>0, <1>b, <2>1, <2>2, <2>5, RecordFacts, PlainCallMove
<1> QED BY Zenon, <1>1, <1>2, <1>3

\* A pause or a resume changes the status of active invocations only.
LEMMA MarkedKeeps ==
    ASSUME StoresOK, NEW ps, NEW status \in LiveStates, Marked(ps, status)
    PROVE  InvKept /\ \A p \in Interrupted' : p \in Interrupted \/ p \in actInv
<1> DEFINE to(p) == [inv[p] EXCEPT !.status = status]
           hit(p) == p \in ps \cap actInv /\ inv[p] # NoInvocation
<1>1. inv' = [p \in Pids |-> IF hit(p) THEN to(p) ELSE inv[p]] BY Zenon DEF Marked
<1>2. \A p \in Pids : /\ to(p) \in [status : Statuses, session : SessionIds \cup {NoSession}]
                      /\ to(p).session = inv[p].session /\ to(p).status = status
  BY Zenon DEF StoresOK, Statuses
<1>3. \A p \in Pids : to(p) # NoInvocation BY Zenon, <1>2 DEF NoInvocation, LiveStates
<1> HIDE DEF to
<1>4. inv' \in [Pids -> [status : Statuses, session : SessionIds \cup {NoSession}]]
  BY Zenon, <1>1, <1>2 DEF StoresOK
<1>5. InvKept BY <1>1, <1>2, <1>3, <1>4 DEF InvKept
<1>6. \A p \in Interrupted' : p \in Interrupted \/ p \in actInv
  BY Zenon, <1>1 DEF Interrupted
<1> QED BY Zenon, <1>5, <1>6

LEMMA MarkingMove ==
    ASSUME SessionsInv, NEW c \in Callers, NEW k \in CallRecords, kernelCall' = [kernelCall EXCEPT ![c] = k],
           WellMade(k.copy), k.pc \notin SpawnPcs, k.pc # "finalize",
           kernelCall[c].pc \in {"idle", "pauseAll", "resumeAll", "resumeNext"},
           NEW ps, NEW status \in LiveStates, Marked(ps, status),
           SessKept, UNCHANGED <<execTask, kills, bootAt, actInv, actSess>>
    PROVE  SessionsInv'
<1>1. InvKept /\ \A p \in Interrupted' : p \in Interrupted \/ p \in actInv
  BY Zenon, MarkedKeeps DEF SessionsInv
<1>2. TasksOK' BY Zenon, <1>1, TasksSame DEF SessionsInv
<1>3. /\ kills' \subseteq Pids /\ actInv' \subseteq Pids /\ actSess' \in [Pids -> SessionIds \cup {NoSession}]
  BY Zenon DEF SessionsInv, StoresOK
<1>4. k.pc \notin {"meta", "launch"} BY Zenon DEF SpawnPcs
<1> QED BY Zenon, <1>1, <1>2, <1>3, <1>4, CallMove

LEMMA CopyFacts ==
    ASSUME StoresOK, NEW p \in Pids
    PROVE  /\ actSess[p] \in SessionIds \cup {NoSession}
           /\ SessionCopy(actSess[p]) \in SessionRecords /\ WellMade(SessionCopy(actSess[p]))
BY Zenon, RecordFacts DEF StoresOK, SessionCopy

LEMMA ResumeOneKeeps ==
    ASSUME SessionsInv, NEW c \in Callers, NEW p \in Pids, NEW todo \in SUBSET Pids, ResumeOne(c, p, todo),
           kernelCall[c].pc \in {"idle", "resumeNext"}
    PROVE  SessionsInv'
<1> DEFINE old == SessionCopy(actSess[p])
           k == IF old.status = "paused"
                THEN [NoCall EXCEPT !.pc = "resumeAll", !.pid = p, !.s = actSess[p], !.copy = old, !.todo = todo]
                ELSE IF todo = {} THEN NoCall
                ELSE [NoCall EXCEPT !.pc = "resumeNext", !.todo = todo]
<1>1. StoresOK /\ old \in SessionRecords /\ WellMade(old) /\ actSess[p] \in SessionIds \cup {NoSession}
  BY Zenon, CopyFacts DEF SessionsInv
<1>2. kernelCall' = [kernelCall EXCEPT ![c] = k] /\ Marked({p}, "running")
  BY Zenon DEF ResumeOne
<1>3. k \in CallRecords /\ WellMade(k.copy) /\ k.pc \notin SpawnPcs /\ k.pc # "finalize"
  <2> HIDE DEF old
  <2>1. CASE old.status = "paused"
    BY Zenon, <1>1, <2>1, RecordFacts DEF NoCall, CallRecords, CallPcs, SpawnPcs
  <2>2. CASE old.status # "paused" /\ todo = {}
    BY Zenon, <2>2, RecordFacts DEF SpawnPcs
  <2>3. CASE old.status # "paused" /\ todo # {}
    BY Zenon, <2>3, RecordFacts DEF NoCall, CallRecords, CallPcs, SpawnPcs
  <2> QED BY Zenon, <2>1, <2>2, <2>3
<1>4. UNCHANGED <<sess, deleted, execTask, kills, bootAt, actInv, actSess>>
  BY Zenon DEF ResumeOne, sessHistory
<1>5. SessKept BY Zenon, <1>1, <1>4, SessSame
<1>6. "running" \in LiveStates BY Zenon DEF LiveStates
<1> HIDE DEF k
<1> QED BY Zenon, <1>2, <1>3, <1>4, <1>5, <1>6, MarkingMove

LEMMA PauseKeeps ==
    ASSUME SessionsInv, NEW c \in Callers,
           \/ \E p \in Pids : PauseAgent(c, p) \/ ResumeAgent(c, p)
           \/ PauseAll(c) \/ ResumeAll(c) \/ ResumeNext(c)
    PROVE  SessionsInv'
<1> DEFINE K == kernelCall[c]
<1>0. StoresOK /\ K \in CallRecords /\ CallOK(c)
  BY Zenon DEF SessionsInv, CallsOK
<1>a. /\ K.pc \in CallPcs /\ K.pid \in Pids \cup {NoPid} /\ K.s \in SessionIds \cup {NoSession}
      /\ K.copy \in SessionRecords /\ K.todo \in SUBSET Pids /\ WellMade(K.copy)
  BY Zenon, <1>0 DEF CallRecords, CallOK
<1>b. NoCall.pc \notin SpawnPcs /\ NoCall.pc # "finalize" BY Zenon, RecordFacts DEF SpawnPcs
<1>c. "running" \in LiveStates /\ "paused" \in LiveStates BY Zenon DEF LiveStates
<1>1. ASSUME NEW p \in Pids, PauseAgent(c, p) PROVE SessionsInv'
  <2> DEFINE old == SessionCopy(actSess[p])
             k == IF p = old.owner
                  THEN [NoCall EXCEPT !.pc = "pauseAll", !.pid = p, !.s = actSess[p], !.copy = old]
                  ELSE NoCall
  <2>1. old \in SessionRecords /\ WellMade(old) /\ actSess[p] \in SessionIds \cup {NoSession}
    BY Zenon, <1>0, CopyFacts
  <2>2. kernelCall' = [kernelCall EXCEPT ![c] = k] /\ K.pc = "idle" /\ Marked({p}, "paused")
    BY Zenon, <1>1 DEF PauseAgent, BeginCall
  <2>3. k \in CallRecords /\ WellMade(k.copy) /\ k.pc \notin SpawnPcs /\ k.pc # "finalize"
    <3> HIDE DEF old
    <3>1. CASE p = old.owner
      BY Zenon, <2>1, <3>1, RecordFacts DEF NoCall, CallRecords, CallPcs, SpawnPcs
    <3>2. CASE p # old.owner
      BY Zenon, <3>2, <1>b, RecordFacts
    <3> QED BY Zenon, <3>1, <3>2
  <2>4. UNCHANGED <<sess, deleted, execTask, kills, bootAt, actInv, actSess>>
    BY Zenon, <1>1 DEF PauseAgent, sessHistory
  <2>5. SessKept BY Zenon, <1>0, <2>4, SessSame
  <2> HIDE DEF k
  <2> QED BY Zenon, <1>c, <2>2, <2>3, <2>4, <2>5, MarkingMove
<1>2. ASSUME NEW p \in Pids, ResumeAgent(c, p) PROVE SessionsInv'
  BY Zenon, <1>2, ResumeOneKeeps DEF ResumeAgent
<1>3. ASSUME PauseAll(c) PROVE SessionsInv'
  <2> DEFINE new == [K.copy EXCEPT !.status = "paused"]
             ps == K.copy.pids \ {K.pid}
  <2>1. kernelCall' = [kernelCall EXCEPT ![c] = NoCall] /\ K.pc = "pauseAll" /\ Marked(ps, "paused")
    BY Zenon, <1>3 DEF PauseAll
  <2>2. UNCHANGED <<deleted, execTask, kills, bootAt, actInv, actSess>>
    BY Zenon, <1>3 DEF PauseAll, sessHistory
  <2>3. new \in SessionRecords /\ new.owner = K.copy.owner BY Zenon, <1>a DEF SessionRecords
  <2>4. sess' = SessionUpdate(K.s, K.copy, new) BY Zenon, <1>3 DEF PauseAll
  <2> HIDE DEF new, ps
  <2>5. SessKept BY Zenon, <1>0, <1>a, <2>2, <2>3, <2>4, Updated
  <2> QED BY Zenon, <1>b, <1>c, <2>1, <2>2, <2>5, RecordFacts, MarkingMove
<1>4. ASSUME ResumeAll(c) PROVE SessionsInv'
  <2> DEFINE new == [K.copy EXCEPT !.status = "running"]
             ps == K.copy.pids \ {K.pid}
             k == IF K.todo = {} THEN NoCall ELSE [NoCall EXCEPT !.pc = "resumeNext", !.todo = K.todo]
  <2>1. kernelCall' = [kernelCall EXCEPT ![c] = k] /\ K.pc = "resumeAll" /\ Marked(ps, "running")
    BY Zenon, <1>4 DEF ResumeAll
  <2>2. UNCHANGED <<deleted, execTask, kills, bootAt, actInv, actSess>>
    BY Zenon, <1>4 DEF ResumeAll, sessHistory
  <2>3. new \in SessionRecords /\ new.owner = K.copy.owner BY Zenon, <1>a DEF SessionRecords
  <2>4. sess' = SessionUpdate(K.s, K.copy, new) BY Zenon, <1>4 DEF ResumeAll
  <2>6. k \in CallRecords /\ WellMade(k.copy) /\ k.pc \notin SpawnPcs /\ k.pc # "finalize"
    <3>1. CASE K.todo = {} BY Zenon, <3>1, <1>b, RecordFacts
    <3>2. CASE K.todo # {} BY Zenon, <3>2, <1>a, RecordFacts DEF NoCall, CallRecords, CallPcs, SpawnPcs
    <3> QED BY Zenon, <3>1, <3>2
  <2> HIDE DEF new, ps, k
  <2>5. SessKept BY <1>0, <1>a, <2>2, <2>3, <2>4, Updated
  <2> QED BY Zenon, <1>c, <2>1, <2>2, <2>5, <2>6, MarkingMove
<1>5. ASSUME ResumeNext(c) PROVE SessionsInv'
  <2>1. PICK p \in K.todo : ResumeOne(c, p, K.todo \ {p}) BY Zenon, <1>5 DEF ResumeNext
  <2>2. p \in Pids /\ K.todo \ {p} \in SUBSET Pids /\ K.pc = "resumeNext" BY Zenon, <1>a, <1>5 DEF ResumeNext
  <2> QED BY Zenon, <2>1, <2>2, ResumeOneKeeps
<1> QED BY Zenon, <1>1, <1>2, <1>3, <1>4, <1>5

LEMMA SessionCallKeeps ==
    ASSUME SessionsInv, NEW c \in Callers, NEW s \in SessionIds,
           SessionResumePaused(c, s) \/ SessionResumeIdle(c, s) \/ SessionDelete(c, s)
    PROVE  SessionsInv'
<1>0. StoresOK /\ TasksOK /\ CallsOK /\ sess[s] \in SessionRecords BY Zenon DEF SessionsInv, StoresOK
<1>1. ASSUME SessionResumePaused(c, s) PROVE SessionsInv'
  <2> DEFINE k == [NoCall EXCEPT !.pc = "resumeNext", !.todo = sess[s].pids]
  <2>1. kernelCall' = [kernelCall EXCEPT ![c] = k] /\ kernelCall[c].pc = "idle"
    BY Zenon, <1>1 DEF SessionResumePaused, BeginCall
  <2>2. sess[s].pids \in SUBSET Pids BY Zenon, <1>0 DEF SessionRecords
  <2>3. k \in CallRecords /\ k.pc = "resumeNext" /\ k.copy = NoSessionRecord
    BY Zenon, <2>2, RecordFacts DEF NoCall, CallRecords, CallPcs
  <2>4. UNCHANGED <<sess, deleted, inv, execTask, kills, bootAt, actInv, actSess>>
    BY Zenon, <1>1 DEF SessionResumePaused, durable, kernelMaps, sessHistory
  <2>5. SessKept BY Zenon, <1>0, <2>4, SessSame
  <2>6. k.pc \notin SpawnPcs /\ WellMade(k.copy) BY Zenon, <2>3, RecordFacts DEF SpawnPcs
  <2>7. actSess' \in [Pids -> SessionIds \cup {NoSession}] BY Zenon, <1>0, <2>4 DEF StoresOK
  <2> HIDE DEF k
  <2> QED BY Zenon, <2>1, <2>3, <2>4, <2>5, <2>6, <2>7, PlainCallMove
<1>2. ASSUME SessionResumeIdle(c, s) PROVE SessionsInv'
  <2> DEFINE p == sess[s].owner
             t == [execTask[p] EXCEPT !.goal = TRUE]
  <2>1. p \in Pids BY Zenon, <1>0, <1>2 DEF SessionResumeIdle, Reachable, SessionRecords
  <2>2. execTask' = [execTask EXCEPT ![p] = t] BY Zenon, <1>2 DEF SessionResumeIdle
  <2>3. UNCHANGED <<sess, deleted, inv, kernelCall, kills, bootAt, actInv, actSess>>
    BY Zenon, <1>2 DEF SessionResumeIdle, durable, kernelMaps, sessHistory
  <2>4. SessKept /\ InvKept BY Zenon, <1>0, <2>3, SessSame, InvSame
  <2>5. /\ t \in [pc : TaskPcs, copy : SessionRecords, aborted : BOOLEAN, goal : BOOLEAN, restored : BOOLEAN]
        /\ t.copy = execTask[p].copy /\ t.pc = execTask[p].pc /\ t.aborted = execTask[p].aborted
    BY Zenon, <1>0, <2>1 DEF TasksOK
  <2> HIDE DEF t
  <2>6. /\ WellMade(t.copy) /\ (t.pc \in {"starting", "running", "idling", "waiting"} => inv'[p] # NoInvocation)
        /\ t.aborted => p \in kills'
    BY Zenon, <1>0, <2>1, <2>3, <2>5 DEF TasksOK, TaskOK
  <2>7. TasksOK' BY Zenon, <1>0, <2>1, <2>2, <2>3, <2>4, <2>5, <2>6, TasksStep
  <2>8. \A q \in Pids : execTask'[q].pc = execTask[q].pc
    BY Zenon, <1>0, <2>2, <2>5 DEF TasksOK
  <2>9. \A q \in Pids : Backed(q) => Backed(q)' BY Zenon, <2>3, <2>8 DEF Backed, Spawning
  <2>10. BackKept BY Zenon, <1>0, <2>3, <2>9 DEF BackKept, StoresOK, Interrupted
  <2>11. CallsOK' BY Zenon, <1>0, <2>3, <2>4, CallsSame
  <2> QED BY <1>0, <2>3, <2>4, <2>7, <2>10, <2>11, SessionsMove DEF StoresOK
<1>3. ASSUME SessionDelete(c, s) PROVE SessionsInv'
  <2>1. UNCHANGED <<inv, execTask, kernelCall, kills, bootAt, actInv, actSess>>
    BY Zenon, <1>3 DEF SessionDelete, kernelMaps
  <2>2. sess' = [sess EXCEPT ![s] = NoSessionRecord] /\ deleted' = deleted \cup {s}
    BY Zenon, <1>3 DEF SessionDelete
  <2>3. \A t \in SessionIds : sess'[t] = IF t = s THEN NoSessionRecord ELSE sess[t]
    BY Zenon, <1>0, <2>2 DEF StoresOK
  <2>4. SessKept BY Zenon, <1>0, <2>2, <2>3, RecordFacts DEF SessKept, StoresOK
  <2>5. InvKept BY Zenon, <1>0, <2>1, InvSame
  <2>6. TasksOK' /\ CallsOK' BY Zenon, <1>0, <2>1, <2>4, <2>5, TasksSame, CallsSame
  <2>7. \A q \in Pids : Backed(q) => Backed(q)' BY Zenon, <2>1 DEF Backed, Spawning
  <2>8. BackKept BY Zenon, <1>0, <2>1, <2>7 DEF BackKept, StoresOK, Interrupted
  <2> QED BY Zenon, <1>0, <2>1, <2>4, <2>5, <2>6, <2>8, SessionsMove DEF StoresOK
<1> QED BY Zenon, <1>1, <1>2, <1>3

-----------------------------------------------------------------------------
(* The executor tasks                                                      *)

LEMMA TaskMove ==
    ASSUME SessionsInv, NEW p \in Pids, NEW t, execTask' = [execTask EXCEPT ![p] = t],
           t \in [pc : TaskPcs, copy : SessionRecords, aborted : BOOLEAN, goal : BOOLEAN, restored : BOOLEAN],
           WellMade(t.copy), t.pc \in {"starting", "running", "idling", "waiting"} => inv[p] # NoInvocation,
           t.aborted => p \in kills,
           t.pc \in {"starting", "running", "idling", "waiting", "failed"} \/ p \in kills,
           SessKept, InvKept, \A q \in Pids \ {p} : inv'[q] = inv[q],
           inv'[p].status \in LiveStates => p \in Interrupted \/ t.pc = "idling",
           UNCHANGED <<kernelCall, kills, bootAt, actInv, actSess>>
    PROVE  SessionsInv'
<1>0. StoresOK /\ TasksOK /\ CallsOK BY Zenon DEF SessionsInv
<1>1. \A q \in Pids : execTask'[q] = IF q = p THEN t ELSE execTask[q]
  BY Zenon, <1>0 DEF TasksOK
<1>2. inv[p] # NoInvocation => inv'[p] # NoInvocation BY Zenon DEF InvKept
<1>3. TasksOK' BY Zenon, <1>0, <1>2, TasksStep
<1>4. CallsOK' BY Zenon, <1>0, CallsSame
<1>5. \A q \in Pids : Backed(q) => Backed(q)' BY <1>1, TaskBacks
<1>6. \A q \in Interrupted' : q \in Interrupted \/ Backed(q)'
  BY Zenon, <1>1 DEF Interrupted, Backed
<1>7. BackKept BY Zenon, <1>0, <1>5, <1>6 DEF BackKept, StoresOK
<1> QED BY Zenon, <1>0, <1>3, <1>4, <1>7, SessionsMove DEF StoresOK

LEMMA GoIdleMove ==
    ASSUME SessionsInv, NEW p \in Pids, TaskRuns(p, {"starting", "running"}), GoIdle(p),
           UNCHANGED <<sess, deleted, kernelCall, kills, bootAt, actInv, actSess>>
    PROVE  SessionsInv'
<1> DEFINE t == [execTask[p] EXCEPT !.pc = "idling", !.copy = sess[inv[p].session]]
           i == [inv[p] EXCEPT !.status = "idle"]
<1>0. /\ StoresOK /\ inv[p] \in [status : Statuses, session : SessionIds \cup {NoSession}]
      /\ execTask[p] \in [pc : TaskPcs, copy : SessionRecords, aborted : BOOLEAN, goal : BOOLEAN, restored : BOOLEAN]
  BY Zenon DEF SessionsInv, StoresOK, TasksOK
<1>1. inv[p] # NoInvocation /\ ~execTask[p].aborted
  BY Zenon DEF SessionsInv, TasksOK, TaskOK, TaskRuns
<1>2. inv[p].session \in SessionIds BY Zenon, <1>0, <1>1 DEF StoresOK, Recorded
<1>3. sess[inv[p].session] \in SessionRecords /\ WellMade(sess[inv[p].session])
  BY Zenon, <1>0, <1>2 DEF StoresOK
<1>4. /\ t \in [pc : TaskPcs, copy : SessionRecords, aborted : BOOLEAN, goal : BOOLEAN, restored : BOOLEAN]
      /\ t.pc = "idling" /\ t.copy = sess[inv[p].session] /\ t.aborted = execTask[p].aborted
  BY Zenon, <1>0, <1>3 DEF TaskPcs
<1>5. /\ i \in [status : Statuses, session : SessionIds \cup {NoSession}]
      /\ i.session = inv[p].session /\ i.status = "idle"
  BY Zenon, <1>0 DEF Statuses, LiveStates
<1>6. i # NoInvocation BY Zenon, <1>5 DEF NoInvocation
<1>7. execTask' = [execTask EXCEPT ![p] = t] /\ inv' = [inv EXCEPT ![p] = i]
  BY Zenon DEF GoIdle
<1> HIDE DEF t, i
<1>8. \A q \in Pids : inv'[q] = IF q = p THEN i ELSE inv[q] BY Zenon, <1>0, <1>7 DEF StoresOK
<1>9. InvKept BY Zenon, <1>0, <1>1, <1>5, <1>6, <1>7, <1>8 DEF InvKept, StoresOK
<1>10. SessKept BY Zenon, <1>0, SessSame
<1>11. WellMade(t.copy) /\ ~t.aborted BY Zenon, <1>1, <1>3, <1>4
<1>12. \A q \in Pids \ {p} : inv'[q] = inv[q] BY Zenon, <1>8
<1>13. execTask' = [execTask EXCEPT ![p] = t] BY Zenon, <1>7
<1> QED BY Zenon, <1>1, <1>4, <1>9, <1>10, <1>11, <1>12, <1>13, TaskMove

LEMMA TaskKeeps ==
    ASSUME SessionsInv, NEW p \in Pids,
           TaskStep(p) \/ TaskStartFails(p) \/ TaskTurnEnds(p) \/ TaskGetsGoal(p)
    PROVE  SessionsInv'
<1> DEFINE T == execTask[p]
<1>0. StoresOK /\ TaskOK(p) BY Zenon DEF SessionsInv, TasksOK
<1>a. T \in [pc : TaskPcs, copy : SessionRecords, aborted : BOOLEAN, goal : BOOLEAN, restored : BOOLEAN]
  BY Zenon DEF SessionsInv, TasksOK
<1>b. NoTask.copy = NoSessionRecord /\ NoSessionRecord \in SessionRecords /\ WellMade(NoSessionRecord)
  BY Zenon, RecordFacts
<1>1. ASSUME TaskStart(p) PROVE SessionsInv'
  <2>1. CASE T.restored
    <3>1. TaskRuns(p, {"starting", "running"}) /\ GoIdle(p)
      BY Zenon, <1>1, <2>1 DEF TaskStart, TaskRuns
    <3>2. UNCHANGED <<sess, deleted, kernelCall, kills, bootAt, actInv, actSess>>
      BY Zenon, <1>1 DEF TaskStart, sessHistory
    <3> QED BY Zenon, <3>1, <3>2, GoIdleMove
  <2>2. CASE ~T.restored
    <3> DEFINE t == [T EXCEPT !.pc = "running"]
    <3>1. execTask' = [execTask EXCEPT ![p] = t] /\ T.pc = "starting" /\ ~T.aborted
      BY Zenon, <1>1, <2>2 DEF TaskStart, TaskRuns
    <3>2. UNCHANGED <<sess, deleted, inv, kernelCall, kills, bootAt, actInv, actSess>>
      BY Zenon, <1>1, <2>2 DEF TaskStart, sessHistory
    <3>3. /\ t \in [pc : TaskPcs, copy : SessionRecords, aborted : BOOLEAN, goal : BOOLEAN, restored : BOOLEAN]
          /\ t.pc = "running" /\ t.copy = T.copy /\ t.aborted = T.aborted
      BY Zenon, <1>a DEF TaskPcs
    <3> HIDE DEF t
    <3>4. SessKept /\ InvKept BY Zenon, <1>0, <3>2, SessSame, InvSame
    <3>5. WellMade(t.copy) /\ inv[p] # NoInvocation BY Zenon, <1>0, <3>1, <3>3 DEF TaskOK
    <3>6. inv'[p].status \in LiveStates => p \in Interrupted BY Zenon, <3>2 DEF Interrupted
    <3> QED BY Zenon, <3>1, <3>2, <3>3, <3>4, <3>5, <3>6, TaskMove
  <2> QED BY Zenon, <2>1, <2>2
<1>2. ASSUME TaskIdles(p) PROVE SessionsInv'
  <2> DEFINE t == [T EXCEPT !.pc = "waiting", !.copy = NoSessionRecord]
             new == [T.copy EXCEPT !.status = "idle"]
  <2>1. execTask' = [execTask EXCEPT ![p] = t] /\ T.pc = "idling"
    BY Zenon, <1>2 DEF TaskIdles
  <2>2. UNCHANGED <<deleted, inv, kernelCall, kills, bootAt, actInv, actSess>>
    BY Zenon, <1>2 DEF TaskIdles, sessHistory
  <2>3. /\ t \in [pc : TaskPcs, copy : SessionRecords, aborted : BOOLEAN, goal : BOOLEAN, restored : BOOLEAN]
        /\ t.pc = "waiting" /\ t.copy = NoSessionRecord /\ t.aborted = T.aborted
    BY Zenon, <1>a, <1>b DEF TaskPcs
  <2>4. T.copy \in SessionRecords /\ new \in SessionRecords /\ new.owner = T.copy.owner
    BY Zenon, <1>a DEF SessionRecords
  <2>5. sess' = SessionUpdate(inv[p].session, T.copy, new) BY Zenon, <1>2 DEF TaskIdles
  <2> HIDE DEF t, new
  <2>6. WellMade(T.copy) /\ inv[p] # NoInvocation /\ (T.aborted => p \in kills)
    BY Zenon, <1>0, <2>1 DEF TaskOK
  <2>7. SessKept BY Zenon, <1>0, <2>2, <2>4, <2>5, <2>6, Updated
  <2>8. InvKept BY Zenon, <1>0, <2>2, InvSame
  <2>9. inv'[p].status \in LiveStates => p \in Interrupted BY Zenon, <2>2 DEF Interrupted
  <2> QED BY Zenon, <1>b, <2>1, <2>2, <2>3, <2>6, <2>7, <2>8, <2>9, TaskMove
<1>3. ASSUME TaskAborted(p) PROVE SessionsInv'
  <2> DEFINE t == [NoTask EXCEPT !.pc = "ended"]
  <2>1. execTask' = [execTask EXCEPT ![p] = t] /\ p \in kills
    BY Zenon, <1>0, <1>3 DEF TaskAborted, TaskOK
  <2>2. UNCHANGED <<sess, deleted, inv, kernelCall, kills, bootAt, actInv, actSess>>
    BY Zenon, <1>3 DEF TaskAborted, durable, kernelMaps, sessHistory
  <2>3. /\ t \in [pc : TaskPcs, copy : SessionRecords, aborted : BOOLEAN, goal : BOOLEAN, restored : BOOLEAN]
        /\ t.pc = "ended" /\ WellMade(t.copy)
    BY Zenon, <1>b DEF NoTask, TaskPcs
  <2> HIDE DEF t
  <2>4. SessKept /\ InvKept BY <1>0, <2>2, SessSame, InvSame
  <2>5. inv'[p].status \in LiveStates => p \in Interrupted BY <2>2 DEF Interrupted
  <2> QED BY Zenon, <2>1, <2>2, <2>3, <2>4, <2>5, TaskMove
<1>4. ASSUME TaskStartFails(p) PROVE SessionsInv'
  <2> DEFINE t == [T EXCEPT !.pc = "failed"]
  <2>1. execTask' = [execTask EXCEPT ![p] = t] BY Zenon, <1>4 DEF TaskStartFails
  <2>2. UNCHANGED <<sess, deleted, inv, kernelCall, kills, bootAt, actInv, actSess>>
    BY Zenon, <1>4 DEF TaskStartFails, durable, sessHistory
  <2>3. /\ t \in [pc : TaskPcs, copy : SessionRecords, aborted : BOOLEAN, goal : BOOLEAN, restored : BOOLEAN]
        /\ t.pc = "failed" /\ t.copy = T.copy /\ t.aborted = T.aborted
    BY Zenon, <1>a DEF TaskPcs
  <2> HIDE DEF t
  <2>4. SessKept /\ InvKept BY <1>0, <2>2, SessSame, InvSame
  <2>5. WellMade(t.copy) /\ (t.aborted => p \in kills) BY Zenon, <1>0, <2>3 DEF TaskOK
  <2>6. inv'[p].status \in LiveStates => p \in Interrupted BY <2>2 DEF Interrupted
  <2> QED BY Zenon, <2>1, <2>2, <2>3, <2>4, <2>5, <2>6, TaskMove
<1>5. ASSUME TaskTurnEnds(p) PROVE SessionsInv'
  <2>1. TaskRuns(p, {"starting", "running"}) /\ GoIdle(p)
    BY Zenon, <1>5 DEF TaskTurnEnds, TaskRuns
  <2>2. UNCHANGED <<sess, deleted, kernelCall, kills, bootAt, actInv, actSess>>
    BY Zenon, <1>5 DEF TaskTurnEnds, sessHistory
  <2> QED BY <2>1, <2>2, GoIdleMove
<1>6. ASSUME TaskGetsGoal(p) PROVE SessionsInv'
  <2> DEFINE t == [T EXCEPT !.pc = "running", !.goal = FALSE]
  <2>1. execTask' = [execTask EXCEPT ![p] = t] /\ T.pc = "waiting"
    BY Zenon, <1>6 DEF TaskGetsGoal, TaskRuns
  <2>2. UNCHANGED <<sess, deleted, inv, kernelCall, kills, bootAt, actInv, actSess>>
    BY Zenon, <1>6 DEF TaskGetsGoal, durable, sessHistory
  <2>3. /\ t \in [pc : TaskPcs, copy : SessionRecords, aborted : BOOLEAN, goal : BOOLEAN, restored : BOOLEAN]
        /\ t.pc = "running" /\ t.copy = T.copy /\ t.aborted = T.aborted
    BY Zenon, <1>a DEF TaskPcs
  <2> HIDE DEF t
  <2>4. SessKept /\ InvKept BY <1>0, <2>2, SessSame, InvSame
  <2>5. WellMade(t.copy) /\ inv[p] # NoInvocation /\ (t.aborted => p \in kills) BY Zenon, <1>0, <2>1, <2>3 DEF TaskOK
  <2>6. inv'[p].status \in LiveStates => p \in Interrupted BY <2>2 DEF Interrupted
  <2> QED BY Zenon, <2>1, <2>2, <2>3, <2>4, <2>5, <2>6, TaskMove
<1> QED BY Zenon, <1>1, <1>2, <1>3, <1>4, <1>5, <1>6 DEF TaskStep

-----------------------------------------------------------------------------
(* Crash and boot                                                          *)

LEMMA CrashKeeps == ASSUME SessionsInv, DaemonCrash PROVE SessionsInv'
<1> USE RecordFacts
<1>1. StoresOK' BY Zenon DEF SessionsInv, StoresOK, DaemonCrash, durable, Recorded
<1>2. TasksOK' BY Zenon DEF TasksOK, TaskOK, DaemonCrash
<1>3. CallsOK' BY Zenon DEF CallsOK, CallOK, DaemonCrash, SpawnPcs
<1>4. BootOK' BY Zenon DEF BootOK, DaemonCrash
<1>5. BackedInv' BY Zenon DEF BackedInv, DaemonCrash
<1> QED BY Zenon, <1>1, <1>2, <1>3, <1>4, <1>5 DEF SessionsInv

LEMMA BootKeeps == ASSUME SessionsInv, BootStep PROVE SessionsInv'
<1>0. StoresOK /\ TasksOK /\ CallsOK /\ BootOK /\ BackedInv BY Zenon DEF SessionsInv
<1>1. ASSUME CrashRecovery PROVE SessionsInv'
  <2>1. UNCHANGED <<inv, deleted, execTask, kernelCall, kills, actInv, actSess>>
        /\ bootAt' = [bootAt EXCEPT !.phase = "list"]
    BY Zenon, <1>1 DEF CrashRecovery, kernelMaps, sessHistory
  <2>2. \A r \in SessionRecords : /\ Repaired(r) \in SessionRecords /\ Repaired(r).owner = r.owner
                                  /\ Repaired(NoSessionRecord) = NoSessionRecord
    <3> TAKE r \in SessionRecords
    <3>1. CASE r = NoSessionRecord BY Zenon, <3>1 DEF Repaired
    <3>2. CASE r # NoSessionRecord BY Zenon, <3>2 DEF Repaired, SessionRecords
    <3> QED BY Zenon, <3>1, <3>2 DEF Repaired
  <2>3. \A r : WellMade(r) =>
           WellMade(Repaired(r)) /\ (r # NoSessionRecord => Repaired(r) # NoSessionRecord)
    BY Zenon, <2>2, SessionsAssumption DEF WellMade, NoSessionRecord
  <2>4. sess' = [s \in SessionIds |-> IF \E p \in Interrupted : inv[p].session = s
                                      THEN Repaired(sess[s]) ELSE sess[s]]
    BY Zenon, <1>1 DEF CrashRecovery
  <2>5. SessKept BY Zenon, <1>0, <2>1, <2>2, <2>3, <2>4 DEF SessKept, StoresOK
  <2>6. InvKept BY Zenon, <1>0, <2>1, InvSame
  <2>7. StoresOK' BY Zenon, <1>0, <2>1, <2>5, <2>6, StoresStep DEF StoresOK
  <2>8. TasksOK' /\ CallsOK' BY Zenon, <1>0, <2>1, <2>5, <2>6, TasksSame, CallsSame
  <2>9. BootOK' BY Zenon, <1>0, <2>1 DEF BootOK
  <2>10. bootAt'.phase = "list" BY Zenon, <1>0, <2>1 DEF BootOK
  <2>11. \A p \in Pids : Backed(p) => Backed(p)' BY Zenon, <2>1 DEF Backed, Spawning
  <2>12. BackedInv' BY Zenon, <1>0, <2>1, <2>10, <2>11 DEF BackedInv, StoresOK
  <2> QED BY Zenon, <2>7, <2>8, <2>9, <2>12 DEF SessionsInv
<1>2. ASSUME RestoreLists \/ BootDone \/ (\E p \in Pids : RestoreReads(p)) PROVE SessionsInv'
  <2>1. UNCHANGED <<sess, inv, deleted, execTask, kernelCall, kills, actInv, actSess>>
    BY Zenon, <1>2 DEF RestoreLists, BootDone, RestoreReads, durable, kernelMaps, sessHistory
  <2>2. SessKept /\ InvKept BY Zenon, <1>0, <2>1, SessSame, InvSame
  <2>3. StoresOK' BY Zenon, <1>0, <2>1, <2>2, StoresStep DEF StoresOK
  <2>4. TasksOK' /\ CallsOK' BY <1>0, <2>1, <2>2, TasksSame, CallsSame
  <2>5. (\A p \in Pids : Backed(p) => Backed(p)') /\ Interrupted' = Interrupted
    BY Zenon, <2>1 DEF Backed, Spawning, Interrupted
  <2>6. Interrupted \subseteq Pids /\ \A p \in Interrupted : inv[p] # NoInvocation
    BY DEF Interrupted, LiveStates, NoInvocation
  <2>7. CASE RestoreLists
    <3>1. bootAt' = [bootAt EXCEPT !.phase = "restore", !.todo = Interrupted] BY Zenon, <2>7 DEF RestoreLists
    <3>2. bootAt'.phase = "restore" /\ bootAt'.todo = Interrupted /\ bootAt'.copy = bootAt.copy
      BY Zenon, <1>0, <3>1 DEF BootOK
    <3>3. BootOK' BY Zenon, <1>0, <2>1, <2>6, <3>1, <3>2 DEF BootOK
    <3>4. BackedInv' BY <1>0, <2>1, <2>5, <3>2 DEF BackedInv, StoresOK
    <3> QED BY <2>3, <2>4, <3>3, <3>4 DEF SessionsInv
  <2>8. CASE BootDone
    <3>1. bootAt' = [bootAt EXCEPT !.phase = "up"] /\ bootAt.phase = "restore" /\ bootAt.todo = {}
      BY Zenon, <2>8 DEF BootDone
    <3>2. bootAt'.phase = "up" /\ bootAt'.todo = bootAt.todo /\ bootAt'.copy = bootAt.copy
      BY Zenon, <1>0, <3>1 DEF BootOK
    <3>3. BootOK' BY Zenon, <1>0, <2>1, <3>1, <3>2 DEF BootOK
    <3>4. BackedInv' BY Zenon, <1>0, <2>1, <2>5, <2>6, <3>1, <3>2 DEF BackedInv, StoresOK
    <3> QED BY <2>3, <2>4, <3>3, <3>4 DEF SessionsInv
  <2>9. ASSUME NEW p \in Pids, RestoreReads(p) PROVE SessionsInv'
    <3>1. /\ bootAt.phase = "restore" /\ p \in bootAt.todo
          /\ bootAt' = [phase |-> "attach", todo |-> bootAt.todo, copy |-> sess[inv[p].session]]
      BY Zenon, <2>9 DEF RestoreReads
    <3>2. inv[p].session \in SessionIds BY Zenon, <1>0, <3>1 DEF BootOK, StoresOK, Recorded
    <3>3. sess[inv[p].session] \in SessionRecords /\ WellMade(sess[inv[p].session])
      BY Zenon, <1>0, <3>2 DEF StoresOK
    <3>4. BootOK' BY <1>0, <2>1, <3>1, <3>3 DEF BootOK
    <3>5. BackedInv' BY Zenon, <1>0, <2>1, <2>5, <2>6, <3>1 DEF BackedInv, StoresOK
    <3> QED BY Zenon, <2>3, <2>4, <3>4, <3>5 DEF SessionsInv
  <2> QED BY Zenon, <1>2, <2>7, <2>8, <2>9
<1>3. ASSUME NEW p \in Pids, RestoreAttaches(p) PROVE SessionsInv'
  <2> DEFINE t == [NoTask EXCEPT !.pc = "starting", !.restored = TRUE]
             new == [bootAt.copy EXCEPT !.pids = @ \cup {p}]
  <2>1. /\ bootAt.phase = "attach" /\ p \in bootAt.todo
        /\ bootAt' = [phase |-> "restore", todo |-> bootAt.todo \ {p}, copy |-> NoSessionRecord]
        /\ execTask' = [execTask EXCEPT ![p] = t] /\ actInv' = actInv \cup {p}
        /\ sess' = SessionUpdate(inv[p].session, bootAt.copy, new)
        /\ UNCHANGED <<inv, deleted, kernelCall, kills>>
    BY Zenon, <1>3 DEF RestoreAttaches, sessHistory
  <2>2. inv[p] # NoInvocation /\ inv[p].session \in SessionIds
    BY Zenon, <1>0, <2>1 DEF BootOK, StoresOK, Recorded
  <2>3. actSess' \in [Pids -> SessionIds \cup {NoSession}]
    BY Zenon, <1>0, <1>3, <2>2 DEF RestoreAttaches, StoresOK
  <2>4. bootAt.copy \in SessionRecords /\ WellMade(bootAt.copy) BY Zenon, <1>0 DEF BootOK
  <2>5. new \in SessionRecords /\ new.owner = bootAt.copy.owner
    BY Zenon, <2>4 DEF SessionRecords
  <2>6. /\ t \in [pc : TaskPcs, copy : SessionRecords, aborted : BOOLEAN, goal : BOOLEAN, restored : BOOLEAN]
        /\ t.pc = "starting" /\ WellMade(t.copy) /\ ~t.aborted
    BY Zenon, RecordFacts DEF NoTask, TaskPcs
  <2> HIDE DEF t, new
  <2>7. SessKept BY Zenon, <1>0, <2>1, <2>4, <2>5, Updated
  <2>8. InvKept BY Zenon, <1>0, <2>1, InvSame
  <2>9. actInv' \subseteq Pids /\ kills' \subseteq Pids /\ kills \subseteq kills' BY Zenon, <1>0, <2>1 DEF StoresOK
  <2>10. StoresOK' BY Zenon, <1>0, <2>3, <2>7, <2>8, <2>9, StoresStep
  <2>11. TasksOK' BY Zenon, <1>0, <2>1, <2>2, <2>6, <2>8, <2>9, TasksStep
  <2>12. CallsOK' BY Zenon, <1>0, <2>1, <2>7, <2>8, CallsSame
  <2>13. BootOK' BY Zenon, <1>0, <2>1, RecordFacts DEF BootOK
  <2>14. \A q \in Pids : execTask'[q] = IF q = p THEN t ELSE execTask[q]
    BY Zenon, <1>0, <2>1 DEF TasksOK
  <2>15. (\A q \in Pids : Backed(q) => Backed(q)') /\ Backed(p)'
    BY Zenon, <2>1, <2>6, <2>14 DEF Backed, Spawning
  <2>16. Interrupted' = Interrupted /\ Interrupted \subseteq Pids BY Zenon, <2>1 DEF Interrupted
  <2>17. BackedInv' BY Zenon, <1>0, <2>1, <2>9, <2>15, <2>16 DEF BackedInv
  <2> QED BY Zenon, <2>10, <2>11, <2>12, <2>13, <2>17 DEF SessionsInv
<1> QED BY Zenon, <1>1, <1>2, <1>3 DEF BootStep

-----------------------------------------------------------------------------

LEMMA SessionsStutter == ASSUME SessionsInv, UNCHANGED sessionVars PROVE SessionsInv'
<1>1. UNCHANGED <<sess, inv, actSess, actInv, execTask, kernelCall, bootAt, kills, deleted>>
  BY Zenon DEF sessionVars
<1>2. SessKept /\ InvKept BY Zenon, <1>1, SessSame, InvSame DEF SessionsInv
<1>3. CallsOK' /\ TasksOK' BY Zenon, <1>1, <1>2, CallsSame, TasksSame DEF SessionsInv
<1>4. BackKept BY Zenon, <1>1 DEF BackKept, Backed, Spawning, Interrupted, SessionsInv, StoresOK
<1> QED BY Zenon, <1>1, <1>2, <1>3, <1>4, SessionsMove DEF SessionsInv, StoresOK

\* Whatever step of a spawn, a kill, a pause, a turn's end or the boot itself
\* the daemon stops at, and however often: a recorded invocation has its
\* session unless that was deleted, and once phases 2.5 and 3.5 are through,
\* each invocation recorded as live has an executor, is being spawned, failed
\* to start or was asked to be killed.  For any number of PIDs, sessions,
\* calls and crashes.
THEOREM CrashRepair == SessionsSpec => []CrashesAreRepaired
<1>1. SessionsInit => SessionsInv BY Zenon, SessionsInitInv
<1>2. SessionsInv /\ [SessionsNext]_sessionVars => SessionsInv'
  BY SpawnKeeps, KillKeeps, PauseKeeps, SessionCallKeeps, TaskKeeps, CrashKeeps, BootKeeps, SessionsStutter
  DEF SessionsNext, CallStep
<1>3. SessionsInv => CrashesAreRepaired
  <2> SUFFICES ASSUME SessionsInv PROVE CrashesAreRepaired BY Zenon
  <2>1. NoOrphanInvocation
    BY Zenon DEF SessionsInv, StoresOK, NoOrphanInvocation, Recorded
  <2>2. InterruptedAreLive
    BY Zenon DEF SessionsInv, BackedInv, InterruptedAreLive, DaemonUp, Backed
  <2> QED BY Zenon, <2>1, <2>2 DEF CrashesAreRepaired
<1> QED BY <1>1, <1>2, <1>3, PTL DEF SessionsSpec

=============================================================================
