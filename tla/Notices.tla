------------------------------- MODULE Notices ------------------------------
(***************************************************************************)
(* The notices a terminal client keeps (notification.rs) and their file    *)
(* (persistence.rs), with the server it may start (server.rs).  The client *)
(* loads the file when it starts; connecting probes the server and starts  *)
(* one that does not answer.  The task that handles the events of the      *)
(* connection saves all notices after each change: the file is written     *)
(* aside and renamed.  The main loop adds alerts that are not saved by     *)
(* themselves.  The client may end at any step and be started again.       *)
(***************************************************************************)
EXTENDS Naturals

CONSTANTS
    NoteIds,     \* approvals the events announce, and alerts
    MaxProbes,   \* 5
    MaxStarts    \* bound: how often the client is started

ASSUME NoticesAssumption == MaxProbes \in Nat \ {0} /\ MaxStarts \in Nat

VARIABLES
    host,       \* the process: what it does, who asked for it, probes made, starts,
                \* and auto_start_server of its config
    daemon,     \* the server: "down", "starting" or "up"
    notes,      \* NotificationStore.inner: a notice is open or has its outcome
    save,       \* the event task: dispatch_event and save_json
    noteTmp,    \* notifications.tmp
    noteFile,   \* notifications.json
    kept        \* history: the latest any completed save said of a notice

noticeVars == <<host, daemon, notes, save, noteTmp, noteFile, kept>>

NoteOutcomes == {"approved", "denied"}
NoteStates == {"none", "open"} \cup NoteOutcomes
NoNotes == [n \in NoteIds |-> "none"]
Files == [state : {"absent", "partial", "whole"}, notes : [NoteIds -> NoteStates]]
NoFile == [state |-> "absent", notes |-> NoNotes]
Idle == [pc |-> "none", snap |-> NoNotes]

-----------------------------------------------------------------------------
(* The process *)

TuiStarts ==
    /\ host.pc = "ended" /\ host.starts < MaxStarts
    /\ \E auto \in BOOLEAN : host' = [host EXCEPT !.pc = "load", !.starts = @ + 1, !.auto = auto]
    /\ UNCHANGED <<daemon, notes, save, noteTmp, noteFile, kept>>

\* load_json: the default without a file, an error for one that does not parse.
LoadsNotes ==
    /\ host.pc = "load"
    /\ notes' = IF noteFile.state = "whole" THEN noteFile.notes ELSE NoNotes
    /\ host' = [host EXCEPT !.pc = "idle"]
    /\ UNCHANGED <<daemon, save, noteTmp, noteFile, kept>>

\* The key c, or the command connect.
AsksToConnect(by) ==
    /\ host.pc = "idle"
    /\ host' = [host EXCEPT !.pc = "probe", !.by = by, !.probes = 0]
    /\ UNCHANGED <<daemon, notes, save, noteTmp, noteFile, kept>>

\* An alert of the main loop, which no save follows.
Alerted == notes' = notes \/ \E n \in NoteIds : notes[n] = "none" /\ notes' = [notes EXCEPT ![n] = "open"]

\* ensure_running failed: the key goes on to connect, the command does not.
EnsureFails == host' = [host EXCEPT !.pc = IF host.by = "key" THEN "connect" ELSE "idle"] /\ Alerted

\* ensure_running, its first probe and the spawn.
EnsureProbes ==
    /\ host.pc = "probe"
    /\ \/ /\ daemon = "up"
          /\ host' = [host EXCEPT !.pc = "connect"]
          /\ UNCHANGED <<daemon, notes>>
       \/ /\ daemon # "up" /\ ~host.auto
          /\ EnsureFails /\ UNCHANGED daemon
       \/ /\ daemon # "up" /\ host.auto
          /\ \/ /\ host' = [host EXCEPT !.pc = "wait"]
                /\ daemon' = "starting" /\ UNCHANGED notes
             \/ EnsureFails /\ UNCHANGED daemon
    /\ UNCHANGED <<save, noteTmp, noteFile, kept>>

\* A probe after 500 ms; after the last one the child is left to itself.
EnsureWaits ==
    /\ host.pc = "wait"
    /\ \/ /\ daemon = "up"
          /\ host' = [host EXCEPT !.pc = "connect"] /\ UNCHANGED notes
       \/ /\ daemon # "up" /\ host.probes + 1 < MaxProbes
          /\ host' = [host EXCEPT !.probes = @ + 1] /\ UNCHANGED notes
       \/ /\ daemon # "up" /\ host.probes + 1 = MaxProbes
          /\ EnsureFails
    /\ UNCHANGED <<daemon, save, noteTmp, noteFile, kept>>

\* AtpClient::connect, which starts the event task.
Connects ==
    /\ host.pc = "connect"
    /\ \/ /\ daemon = "up" /\ host' = [host EXCEPT !.pc = "connected"]
          /\ UNCHANGED notes
       \/ host' = [host EXCEPT !.pc = "idle"] /\ Alerted
    /\ UNCHANGED <<daemon, save, noteTmp, noteFile, kept>>

\* The main loop reports something else, also while the event task saves.
MainAlert ==
    /\ host.pc = "connected"
    /\ Alerted
    /\ UNCHANGED <<host, daemon, save, noteTmp, noteFile, kept>>

\* q, a signal, a crash: the memory is gone, the files are as they are.
TuiEnds ==
    /\ host.pc # "ended"
    /\ host' = [host EXCEPT !.pc = "ended"]
    /\ notes' = NoNotes /\ save' = Idle
    /\ UNCHANGED <<daemon, noteTmp, noteFile, kept>>

DaemonSteps ==
    /\ \/ daemon = "starting" /\ daemon' \in {"up", "down"}
       \/ daemon = "up" /\ daemon' = "down"
    /\ UNCHANGED <<host, notes, save, noteTmp, noteFile, kept>>

-----------------------------------------------------------------------------
(* dispatch_event: the notices of an event, then save_json                 *)

\* agent.exit, hil.request and sys.alert: add.
EventAdds(n) ==
    /\ host.pc = "connected" /\ save.pc = "none" /\ notes[n] = "none"
    /\ notes' = [notes EXCEPT ![n] = "open"]
    /\ save' = [save EXCEPT !.pc = "all"]
    /\ UNCHANGED <<host, daemon, noteTmp, noteFile, kept>>

\* hil.resolved: resolve_hil keeps an outcome that is there.
EventResolves(n, outcome) ==
    /\ host.pc = "connected" /\ save.pc = "none"
    /\ notes' = IF notes[n] = "open" THEN [notes EXCEPT ![n] = outcome] ELSE notes
    /\ save' = [save EXCEPT !.pc = "all"]
    /\ UNCHANGED <<host, daemon, noteTmp, noteFile, kept>>

SaveTakesAll ==
    /\ save.pc = "all"
    /\ save' = [pc |-> "create", snap |-> notes]
    /\ UNCHANGED <<host, daemon, notes, noteTmp, noteFile, kept>>

\* fs::write opens the temporary file, which empties it,
SaveCreates ==
    /\ save.pc = "create"
    /\ \/ /\ noteTmp' = [state |-> "partial", notes |-> NoNotes]
          /\ save' = [save EXCEPT !.pc = "write"]
       \/ save' = Idle /\ UNCHANGED noteTmp
    /\ UNCHANGED <<host, daemon, notes, noteFile, kept>>

\* then fills it, or fails on the way;
SaveWrites ==
    /\ save.pc = "write"
    /\ \/ /\ noteTmp' = [state |-> "whole", notes |-> save.snap]
          /\ save' = [save EXCEPT !.pc = "rename"]
       \/ save' = Idle /\ UNCHANGED noteTmp
    /\ UNCHANGED <<host, daemon, notes, noteFile, kept>>

\* What is known of a notice after one more save: an outcome is known for good.
Learnt(old, new) == IF old \in NoteOutcomes \/ new = "none" THEN old ELSE new

\* and fs::rename puts it in place.
SaveRenames ==
    /\ save.pc = "rename"
    /\ \/ /\ noteFile' = noteTmp /\ noteTmp' = NoFile
          /\ kept' = [n \in NoteIds |-> Learnt(kept[n], save.snap[n])]
       \/ UNCHANGED <<noteTmp, noteFile, kept>>
    /\ save' = Idle
    /\ UNCHANGED <<host, daemon, notes>>

-----------------------------------------------------------------------------

NoticesInit ==
    /\ host = [pc |-> "ended", by |-> "key", probes |-> 0, starts |-> 0, auto |-> TRUE]
    /\ daemon \in {"down", "up"}
    /\ notes = NoNotes /\ save = Idle
    /\ noteTmp = NoFile /\ noteFile = NoFile /\ kept = NoNotes

NoticesNext ==
    \/ TuiStarts \/ LoadsNotes \/ TuiEnds \/ DaemonSteps
    \/ \E by \in {"key", "command"} : AsksToConnect(by)
    \/ EnsureProbes \/ EnsureWaits \/ Connects \/ MainAlert
    \/ \E n \in NoteIds : EventAdds(n) \/ \E outcome \in NoteOutcomes : EventResolves(n, outcome)
    \/ SaveTakesAll \/ SaveCreates \/ SaveWrites \/ SaveRenames

NoticesSpec == NoticesInit /\ [][NoticesNext]_noticeVars

-----------------------------------------------------------------------------
(* Properties *)

\* Types; and only a connected client saves.
NoticesTypeOK ==
    /\ host \in [pc : {"ended", "load", "idle", "probe", "wait", "connect", "connected"},
               by : {"key", "command"}, probes : 0 .. MaxProbes, starts : 0 .. MaxStarts, auto : BOOLEAN]
    /\ daemon \in {"down", "starting", "up"}
    /\ notes \in [NoteIds -> NoteStates] /\ kept \in [NoteIds -> NoteStates]
    /\ save \in [pc : {"none", "all", "create", "write", "rename"}, snap : [NoteIds -> NoteStates]]
    /\ noteTmp \in Files /\ noteFile \in Files
    /\ save.pc # "none" => host.pc = "connected"

\* A notice that was saved once is in the file ever after, and an outcome that
\* was saved stays, through failed saves, ends at any step and restarts: the file
\* is never seen half written, and a start reads all of it before the next save.
NoticesAreKept ==
    /\ noteFile.state # "partial"
    /\ noteFile.notes = kept
=============================================================================
