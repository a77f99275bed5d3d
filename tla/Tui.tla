-------------------------------- MODULE Tui --------------------------------
(***************************************************************************)
(* The terminal dashboard (avix-cli, tui/app.rs and tui/state.rs).  One    *)
(* loop drains the action queue, draws, handles a key and syncs; a task    *)
(* turns the gateway's events into actions of that queue and entries of    *)
(* the notification store; background tasks install packages and fetch the *)
(* catalog.  A command typed at the prompt runs on the loop itself, and    *)
(* sends its actions into the queue that only the loop drains.             *)
(*                                                                         *)
(* A handler with several awaits is a script: the steps it has still to    *)
(* do.  Output, log lines, agent rows and cursors are left out.            *)
(***************************************************************************)
EXTENDS Naturals, Sequences, FiniteSets

CONSTANTS
    Hils,           \* ids of the approvals asked for
    NoHil,
    ActionCapacity, \* capacity of the action channel (100)
    MaxTuiEvents,   \* bound: events of the gateway
    MaxKeys         \* bound: keys pressed

ASSUME TuiAssumption ==
    /\ NoHil \notin Hils /\ ActionCapacity \in Nat \ {0}
    /\ MaxTuiEvents \in Nat /\ MaxKeys \in Nat

VARIABLES
    tui,       \* TuiState: the modal, the open layers, the install panel
    shown,     \* the TuiState last drawn
    loop,      \* run_app's loop: where it is, the script it runs
    actions,   \* the action channel
    feed,      \* script of the event task (<<>>: waiting for an event)
    store,     \* NotificationStore: outcome of each approval
    tuiLink,   \* a dispatcher is connected
    tasks,     \* background tasks running, by the action they end with
    tuiEvents, keys

tuiVars == <<tui, shown, loop, actions, feed, store, tuiLink, tasks, tuiEvents, keys>>

Layers == {"form", "popup", "help", "command"}

HilAnswers == {"approved", "denied"}

\* An Action, with the approval it is about.
Action(kind) == <<kind, NoHil>>

ActionKinds == {"other", "help", "popup", "form", "start", "installed"}

TuiActions == {Action(k) : k \in ActionKinds} \cup ({"hil"} \X (Hils \cup {NoHil}))

TaskActions == {Action("other"), Action("installed")}

\* Steps of a script: send an action, apply one directly, and the awaits.
Send(a) == <<"send", a>>
Apply(a) == <<"apply", a>>
Call == <<"call", Action("other")>>
Dial == <<"dial", Action("other")>>
Launch(a) == <<"launch", a>>

\* dispatch_parsed_command: what each command does, in order.
Script(cmd) ==
    LET log == Send(Action("other"))
    IN  CASE cmd = "connect" -> IF tuiLink THEN <<log>> ELSE <<log, Dial, Send(Action("other"))>>
          [] cmd = "spawn"   -> IF tuiLink THEN <<log, Call, log, log>> ELSE <<log>>
          [] cmd = "kill"    -> IF tuiLink THEN <<log, Call>> ELSE <<log>>
          [] cmd = "logs"    -> <<log, log>>
          [] cmd = "catalog" -> IF tuiLink THEN <<log, log, Launch(Action("other"))>> ELSE <<log, log>>
          [] cmd = "help"    -> <<log, Send(Action("help"))>>
          [] cmd = "notifs"  -> <<log, Send(Action("popup"))>>
          [] cmd = "form"    -> <<log, Send(Action("form"))>>
          [] cmd = "install" -> IF tuiLink THEN <<log, Send(Action("start")), Launch(Action("installed"))>>
                                ELSE <<log, Send(Action("start")), Send(Action("installed"))>>
          [] cmd = "quit"    -> <<>>

Commands == {"connect", "spawn", "kill", "logs", "catalog", "help", "notifs", "form", "install", "quit"}

\* The layer that gets the keys, and that ui() draws: the first one open.
FrontLayer ==
    CASE tui.modal # NoHil        -> "hil"
      [] "form" \in tui.layers    -> "form"
      [] "popup" \in tui.layers   -> "popup"
      [] "help" \in tui.layers    -> "help"
      [] "command" \in tui.layers -> "command"
      [] OTHER                    -> "normal"

Toggle(s, l) == IF l \in s THEN s \ {l} ELSE s \cup {l}

\* TuiState::reducer
Reduced(t, a) ==
    CASE a[1] = "hil"       -> [t EXCEPT !.modal = a[2]]
      [] a[1] \in Layers    -> [t EXCEPT !.layers = Toggle(@, a[1])]
      [] a[1] = "start"     -> [t EXCEPT !.panel = "progress"]
      [] a[1] = "installed" -> [t EXCEPT !.panel = "settled"]
      [] a[1] = "other"     -> t

HasRoomFor == Len(actions) < ActionCapacity

-----------------------------------------------------------------------------
(* The loop *)

Drains ==
    /\ loop.pc = "drain" /\ actions # <<>>
    /\ tui' = Reduced(tui, Head(actions))
    /\ actions' = Tail(actions)
    /\ UNCHANGED <<shown, loop, feed, store, tuiLink, tasks, tuiEvents, keys>>

Draws ==
    /\ loop.pc = "drain" /\ actions = <<>>
    /\ shown' = tui
    /\ loop' = [loop EXCEPT !.pc = "poll"]
    /\ UNCHANGED <<tui, actions, feed, store, tuiLink, tasks, tuiEvents, keys>>

\* poll times out, or the key has no meaning here.
NoKey ==
    /\ loop.pc = "poll"
    /\ loop' = [loop EXCEPT !.pc = "sync"]
    /\ UNCHANGED <<tui, shown, actions, feed, store, tuiLink, tasks, tuiEvents, keys>>

\* A key: the new state of the screen, and the script its handler runs.
Pressed(t, script) ==
    /\ keys < MaxKeys
    /\ keys' = keys + 1
    /\ tui' = t
    /\ loop' = [pc |-> "run", script |-> script]
    /\ UNCHANGED <<shown, actions, feed, store, tuiLink, tasks, tuiEvents>>

Closes(l) == Pressed([tui EXCEPT !.layers = @ \ {l}], <<>>)

\* a and d answer the approval; Esc puts it away unanswered.
HilKey ==
    /\ loop.pc = "poll" /\ FrontLayer = "hil"
    /\ \/ Pressed(tui, IF tuiLink THEN <<Call>> ELSE <<>>)
       \/ Pressed([tui EXCEPT !.modal = NoHil], <<>>)

\* Enter spawns the agent, and only then closes the form.
FormKey ==
    /\ loop.pc = "poll" /\ FrontLayer = "form"
    /\ \/ Pressed(tui, IF tuiLink THEN <<Call, Apply(Action("form"))>> ELSE <<>>)
       \/ Closes("form")

OverlayKey ==
    /\ loop.pc = "poll" /\ FrontLayer \in {"popup", "help"}
    /\ Closes(FrontLayer)

CommandKey ==
    /\ loop.pc = "poll" /\ FrontLayer = "command"
    /\ \/ Closes("command")
       \/ \E cmd \in Commands : Pressed([tui EXCEPT !.layers = @ \ {"command"}], Script(cmd))

NormalKey ==
    /\ loop.pc = "poll" /\ FrontLayer = "normal"
    /\ \/ \E l \in {"command", "form", "popup"} : Pressed([tui EXCEPT !.layers = @ \cup {l}], <<>>)
       \/ tuiLink /\ Pressed(tui, <<Call>>)
       \/ ~tuiLink /\ Pressed(tui, <<Dial, Launch(Action("other"))>>)

QuitKey ==
    /\ loop.pc = "poll" /\ FrontLayer = "normal"
    /\ loop' = [loop EXCEPT !.pc = "quit"]
    /\ UNCHANGED <<tui, shown, actions, feed, store, tuiLink, tasks, tuiEvents, keys>>

NextStepIs(what) == loop.pc = "run" /\ loop.script # <<>> /\ Head(loop.script)[1] = what

StepDone == loop' = [loop EXCEPT !.script = Tail(@)]

LoopSends ==
    /\ NextStepIs("send") /\ HasRoomFor
    /\ actions' = Append(actions, Head(loop.script)[2])
    /\ StepDone
    /\ UNCHANGED <<tui, shown, feed, store, tuiLink, tasks, tuiEvents, keys>>

LoopApplies ==
    /\ NextStepIs("apply")
    /\ tui' = Reduced(tui, Head(loop.script)[2])
    /\ StepDone
    /\ UNCHANGED <<shown, actions, feed, store, tuiLink, tasks, tuiEvents, keys>>

\* Faulty variant: the call is over when the modal is gone.
LoopCallsUntilGone ==
    /\ NextStepIs("call") /\ tui.modal = NoHil
    /\ StepDone
    /\ UNCHANGED <<tui, shown, actions, feed, store, tuiLink, tasks, tuiEvents, keys>>

\* The gateway's answer, an error or the 30 s timeout: the rest is for success.
LoopCalls ==
    /\ NextStepIs("call")
    /\ \/ StepDone
       \/ loop' = [loop EXCEPT !.script = <<>>]
    /\ UNCHANGED <<tui, shown, actions, feed, store, tuiLink, tasks, tuiEvents, keys>>

LoopDials ==
    /\ NextStepIs("dial")
    /\ \/ tuiLink' = TRUE /\ StepDone
       \/ loop' = [loop EXCEPT !.script = <<>>] /\ UNCHANGED tuiLink
    /\ UNCHANGED <<tui, shown, actions, feed, store, tasks, tuiEvents, keys>>

LoopLaunches ==
    /\ NextStepIs("launch")
    /\ tasks' = [tasks EXCEPT ![Head(loop.script)[2]] = @ + 1]
    /\ StepDone
    /\ UNCHANGED <<tui, shown, actions, feed, store, tuiLink, tuiEvents, keys>>

LoopHandled ==
    /\ loop.pc = "run" /\ loop.script = <<>>
    /\ loop' = [loop EXCEPT !.pc = "sync"]
    /\ UNCHANGED <<tui, shown, actions, feed, store, tuiLink, tasks, tuiEvents, keys>>

\* update_state_from_shared copies counts and rows that are not modelled.
Syncs ==
    /\ loop.pc = "sync"
    /\ loop' = [loop EXCEPT !.pc = "drain"]
    /\ UNCHANGED <<tui, shown, actions, feed, store, tuiLink, tasks, tuiEvents, keys>>

-----------------------------------------------------------------------------
(* The event task and the install tasks *)

\* An event arrives; its script is dispatch_event's.
Receives(script) ==
    /\ tuiLink /\ feed = <<>> /\ tuiEvents < MaxTuiEvents
    /\ tuiEvents' = tuiEvents + 1
    /\ feed' = <<Send(Action("other"))>> \o script
    /\ UNCHANGED <<tui, shown, loop, actions, store, tuiLink, tasks, keys>>

\* agent.status, sys.alert and a chunk without text; agent.exit.
ReceivesNotice == Receives(<<>>) \/ Receives(<<Send(Action("other"))>>)

ReceivesOutput == Receives(<<Send(Action("other")), Send(Action("other"))>>)

ReceivesHilRequest ==
    \E h \in Hils : store[h] = "none" /\ Receives(<<<<"open", <<"hil", h>>>>, Send(<<"hil", h>>)>>)

ReceivesHilResolved ==
    \E h \in Hils, o \in HilAnswers :
        store[h] # "none" /\ Receives(<<<<o, <<"hil", h>>>>, Send(<<"hil", NoHil>>)>>)

FeedSends ==
    /\ feed # <<>> /\ Head(feed)[1] = "send" /\ HasRoomFor
    /\ actions' = Append(actions, Head(feed)[2])
    /\ feed' = Tail(feed)
    /\ UNCHANGED <<tui, shown, loop, store, tuiLink, tasks, tuiEvents, keys>>

\* NotificationStore::add and resolve_hil
OutcomeNoted(old, new) == IF old \in {"none", "open"} THEN new ELSE old

FeedNotes ==
    /\ feed # <<>> /\ Head(feed)[1] # "send"
    /\ store' = [store EXCEPT ![Head(feed)[2][2]] = OutcomeNoted(@, Head(feed)[1])]
    /\ feed' = Tail(feed)
    /\ UNCHANGED <<tui, shown, loop, actions, tuiLink, tasks, tuiEvents, keys>>

\* The task's call was answered: an install reports success or failure, the
\* catalog is sent only on success.
TaskEnds(a) ==
    /\ tasks[a] > 0
    /\ tasks' = [tasks EXCEPT ![a] = @ - 1]
    /\ \/ HasRoomFor /\ actions' = Append(actions, a)
       \/ a # Action("installed") /\ UNCHANGED actions
    /\ UNCHANGED <<tui, shown, loop, feed, store, tuiLink, tuiEvents, keys>>

LoopStep ==
    \/ Drains \/ Draws \/ NoKey \/ LoopSends \/ LoopApplies \/ LoopCalls
    \/ LoopDials \/ LoopLaunches \/ LoopHandled \/ Syncs

KeyStep == HilKey \/ FormKey \/ OverlayKey \/ CommandKey \/ NormalKey \/ QuitKey

FeedStep == FeedSends \/ FeedNotes

TuiInit ==
    /\ tui = [modal |-> NoHil, layers |-> {}, panel |-> "idle"]
    /\ shown = tui
    /\ loop = [pc |-> "drain", script |-> <<>>]
    /\ actions = <<>> /\ feed = <<>>
    /\ store = [h \in Hils |-> "none"]
    /\ tuiLink = FALSE /\ tasks = [a \in TaskActions |-> 0]
    /\ tuiEvents = 0 /\ keys = 0

TuiNext ==
    \/ LoopStep \/ KeyStep \/ FeedStep
    \/ ReceivesNotice \/ ReceivesOutput \/ ReceivesHilRequest \/ ReceivesHilResolved
    \/ \E a \in TaskActions : TaskEnds(a)

\* The loop is a task that never returns; a call ends by its 30 s timeout.
TuiFairness == WF_tuiVars(LoopStep)

TuiSpec == TuiInit /\ [][TuiNext]_tuiVars /\ TuiFairness

-----------------------------------------------------------------------------
(* Properties *)

\* Every variable has its type; the channel never holds more than its capacity.
TuiTypeOK ==
    /\ tui \in [modal : Hils \cup {NoHil}, layers : SUBSET Layers, panel : {"idle", "progress", "settled"}]
    /\ shown \in [modal : Hils \cup {NoHil}, layers : SUBSET Layers, panel : {"idle", "progress", "settled"}]
    /\ loop.pc \in {"drain", "poll", "run", "sync", "quit"}
    /\ actions \in Seq(TuiActions) /\ Len(actions) <= ActionCapacity
    /\ store \in [Hils -> {"none", "open"} \cup HilAnswers]
    /\ tuiLink \in BOOLEAN /\ tasks \in [TaskActions -> Nat]
    /\ tuiEvents \in 0..MaxTuiEvents /\ keys \in 0..MaxKeys

\* A key is handled by the layer, and answers the approval, that is on the
\* screen, whatever events arrived between the drawing and the key: only the
\* loop changes the TuiState, and it draws after it drained (run_app).
KeysMeetTheScreen == loop.pc = "poll" => shown = tui

\* While the install panel shows progress an install is still running or the
\* action that ends the panel is on its way: InstallStart is queued before
\* the task that sends InstallComplete or InstallError is spawned.
PanelFollowsInstalls ==
    tui.panel = "progress" =>
        \/ tasks[Action("installed")] > 0
        \/ \E i \in DOMAIN actions : actions[i] = Action("installed")
        \/ \E i \in DOMAIN loop.script : loop.script[i] \in {Launch(Action("installed")), Send(Action("installed"))}

\* A command sends to the channel its own loop drains, and the channel is full.
Wedged == NextStepIs("send") /\ ~HasRoomFor

\* Whatever a key or a command set off, and whatever events arrive meanwhile,
\* run_app's loop comes back to the keyboard; the only thing that can keep it
\* away is its own send into a full action channel.
OnlyAFullQueueStopsTheLoop ==
    loop.pc = "run" ~> (loop.pc \in {"poll", "quit"} \/ Wedged)

\* Together: what the user sees is what the loop acts on.
ScreenIsTrue == KeysMeetTheScreen /\ PanelFollowsInstalls
=============================================================================
