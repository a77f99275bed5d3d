------------------------------ MODULE Installer ------------------------------
(***************************************************************************)
(* ServiceInstaller::install and AgentInstaller::install: a package is     *)
(* fetched and unpacked into a temporary directory, which is then renamed  *)
(* onto <name>@<version>.  A guard removes the target when the function    *)
(* leaves before it commits.  The module follows several installs of one   *)
(* version at once (one per sys/install or pkg call): nothing in the code  *)
(* keeps them apart but the file system.                                   *)
(***************************************************************************)
CONSTANTS
    Installs,   \* concurrent calls of install for the same name and version
    Nothing     \* no install

ASSUME InstallerAssumption == Nothing \notin Installs

VARIABLES
    package,     \* "service", which gets a receipt, or "agent", which does not
    targetDir,   \* the install directory
    install      \* the calls: where they are and what they returned

installVars == <<package, targetDir, install>>

\* from: whose files are there; Nothing in a directory just created.
Absent == [exists |-> FALSE, from |-> Nothing, receipt |-> FALSE]

Created == [exists |-> TRUE, from |-> Nothing, receipt |-> FALSE]

Proceeds(i, pc) == install' = [install EXCEPT ![i].pc = pc]

Returns(i, outcome) == install' = [install EXCEPT ![i] = [pc |-> "done", outcome |-> outcome]]

-----------------------------------------------------------------------------

\* fetch, verify_checksum, extract_tarball and the manifest: no target yet.
Fetches(i, ok) ==
    /\ install[i].pc = "fetch"
    /\ IF ok THEN Proceeds(i, "check") ELSE Returns(i, "error")
    /\ UNCHANGED <<package, targetDir>>

\* check_conflicts, or the agent installer's own test of the directory.
ChecksConflicts(i) ==
    /\ install[i].pc = "check"
    /\ IF targetDir.exists THEN Returns(i, "error") ELSE Proceeds(i, "create")
    /\ UNCHANGED <<package, targetDir>>

\* The guard is made, then create_dir_all: an existing directory is fine.
CreatesTarget(i) ==
    /\ install[i].pc = "create"
    /\ targetDir' = IF targetDir.exists THEN targetDir ELSE Created
    /\ Proceeds(i, "rename")
    /\ UNCHANGED package

\* create_dir_all fails.
CreateFails(i) ==
    /\ install[i].pc = "create"
    /\ Proceeds(i, "drop")
    /\ UNCHANGED <<package, targetDir>>

\* rename replaces an empty directory, or one that has gone.
Renames(i) ==
    /\ install[i].pc = "rename" /\ targetDir.from = Nothing /\ ~targetDir.receipt
    /\ targetDir' = [exists |-> TRUE, from |-> i, receipt |-> FALSE]
    /\ Proceeds(i, IF package = "service" THEN "receipt" ELSE "commit")
    /\ UNCHANGED package

\* It fails on a directory with files in it, or across file systems.
RenameFails(i) ==
    /\ install[i].pc = "rename"
    /\ Proceeds(i, "rollback")
    /\ UNCHANGED <<package, targetDir>>

\* Faulty variant: the explicit roll-back does nothing and the guard is gone.
RollsBackNot(i) ==
    /\ install[i].pc = "rollback"
    /\ Returns(i, "error")
    /\ UNCHANGED <<package, targetDir>>

\* remove_dir_all(&install_dir), whoever filled it; the guard follows.
RollsBack(i) ==
    /\ install[i].pc = "rollback"
    /\ targetDir' = Absent
    /\ Proceeds(i, "drop")
    /\ UNCHANGED package

\* .install.json is written into the directory, whose files may be another's.
WritesReceipt(i) ==
    /\ install[i].pc = "receipt" /\ targetDir.exists
    /\ targetDir' = [targetDir EXCEPT !.receipt = TRUE]
    /\ Proceeds(i, "commit")
    /\ UNCHANGED package

ReceiptFails(i) ==
    /\ install[i].pc = "receipt"
    /\ Proceeds(i, "drop")
    /\ UNCHANGED <<package, targetDir>>

\* guard.commit() and Ok.
Commits(i) ==
    /\ install[i].pc = "commit"
    /\ Returns(i, "ok")
    /\ UNCHANGED <<package, targetDir>>

\* ServiceInstallGuard::drop, InstallGuard::drop.
GuardDrops(i) ==
    /\ install[i].pc = "drop"
    /\ targetDir' = Absent
    /\ Returns(i, "error")
    /\ UNCHANGED package

-----------------------------------------------------------------------------

InstallerInit ==
    /\ package \in {"service", "agent"}
    /\ targetDir = Absent
    /\ install = [i \in Installs |-> [pc |-> "fetch", outcome |-> "none"]]

InstallerNext ==
    \E i \in Installs :
        \/ \E ok \in BOOLEAN : Fetches(i, ok)
        \/ ChecksConflicts(i) \/ CreatesTarget(i) \/ CreateFails(i) \/ Renames(i) \/ RenameFails(i)
        \/ RollsBack(i) \/ WritesReceipt(i) \/ ReceiptFails(i) \/ Commits(i) \/ GuardDrops(i)

InstallerSpec == InstallerInit /\ [][InstallerNext]_installVars

-----------------------------------------------------------------------------
(* Properties *)

\* Types; a call has an outcome exactly when it has returned; a directory that
\* does not exist has nothing in it.
InstallerTypeOK ==
    /\ package \in {"service", "agent"}
    /\ targetDir \in [exists : BOOLEAN, from : Installs \cup {Nothing}, receipt : BOOLEAN]
    /\ ~targetDir.exists => targetDir = Absent
    /\ install \in [Installs -> [pc : {"fetch", "check", "create", "rename", "rollback", "receipt",
                                     "commit", "drop", "done"},
                               outcome : {"none", "ok", "error"}]]
    /\ \A i \in Installs : (install[i].pc = "done") <=> (install[i].outcome # "none")

\* However many installs of a version meet, what is on disk when they have
\* returned is whole: the files of an install that returned Ok, with a receipt
\* if it is a service.  No empty or half-installed directory blocks the next
\* install (check_conflicts only asks whether the directory exists).
LeftoversAreComplete ==
    (targetDir.exists /\ \A i \in Installs : install[i].pc = "done")
        => /\ targetDir.from # Nothing /\ install[targetDir.from].outcome = "ok"
           /\ package = "service" => targetDir.receipt
=============================================================================
