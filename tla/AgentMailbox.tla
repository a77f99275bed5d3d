----------------------------- MODULE AgentMailbox -----------------------------
(***************************************************************************)
(* What an agent promises about the signals sent to it, without its stores, *)
(* turns and callers: accepted signals wait in a mailbox and are taken one  *)
(* by one in the order of arrival; an idle agent goes to work only on       *)
(* SIGSTART; a held agent goes on only after a signal has lifted the hold;  *)
(* a signal ends the agent only while it is idle; and nothing happens once  *)
(* the agent is gone.  AgentExecutor implements this specification.         *)
(***************************************************************************)
EXTENDS Naturals, Sequences

CONSTANT Capacity    \* signals the mailbox holds

VARIABLES
    mode,      \* "starting", "busy", "held", "idle", "leaving", "gone"
    inbox,     \* signals accepted and not yet taken
    hold,      \* the last of SIGPAUSE and SIGRESUME taken was SIGPAUSE
    stopped    \* SIGKILL or SIGSTOP was taken

mbVars == <<mode, inbox, hold, stopped>>

SignalKinds == {"Start", "Pause", "Resume", "Kill", "Stop", "Save", "Pipe"}

Init ==
    /\ mode = "starting"
    /\ inbox = << >>
    /\ hold = FALSE
    /\ stopped = FALSE

\* The agent comes up with its first goal, or restored and without one.
Begin ==
    /\ mode = "starting"
    /\ mode' \in {"busy", "idle"}
    /\ UNCHANGED <<inbox, hold, stopped>>

Deliver(k) ==
    /\ mode \in {"busy", "held", "idle", "leaving"}
    /\ Len(inbox) < Capacity
    /\ inbox' = Append(inbox, k)
    /\ UNCHANGED <<mode, hold, stopped>>

\* The effect of taking the oldest signal on everything but the mode.
Take ==
    /\ inbox # << >>
    /\ inbox' = Tail(inbox)
    /\ stopped' = (stopped \/ Head(inbox) \in {"Kill", "Stop"})
    /\ hold' = IF Head(inbox) \in {"Pause", "Resume"} THEN Head(inbox) = "Pause" ELSE hold

\* A signal taken at work or on hold: one that stops the agent ends the turn.
TakeAtWork ==
    /\ mode \in {"busy", "held"}
    /\ Take
    /\ mode' = IF stopped' THEN "idle" ELSE mode

\* SIGSTART is the only way from idle to busy.
TakeGoal ==
    /\ mode = "idle"
    /\ inbox # << >>
    /\ Head(inbox) = "Start"
    /\ Take
    /\ mode' = "busy"

\* Any other signal leaves an idle agent idle, or ends it once it is stopped.
TakeIdle ==
    /\ mode = "idle"
    /\ inbox # << >>
    /\ Head(inbox) # "Start"
    /\ Take
    /\ IF stopped' THEN mode' \in {"leaving", "gone"} ELSE mode' = mode

Hold ==
    /\ mode = "busy"
    /\ hold
    /\ mode' = "held"
    /\ UNCHANGED <<inbox, hold, stopped>>

Release ==
    /\ mode = "held"
    /\ ~hold
    /\ mode' = "busy"
    /\ UNCHANGED <<inbox, hold, stopped>>

\* The turn is over, with a result or an error.
Finish ==
    /\ mode = "busy"
    /\ mode' = "idle"
    /\ UNCHANGED <<inbox, hold, stopped>>

\* The agent fails to start, is aborted, or has finished leaving.
Vanish ==
    /\ mode # "gone"
    /\ mode' = "gone"
    /\ UNCHANGED <<inbox, hold, stopped>>

FailToStart ==
    /\ mode = "starting"
    /\ mode' = "leaving"
    /\ UNCHANGED <<inbox, hold, stopped>>

Next ==
    \/ Begin \/ TakeAtWork \/ TakeGoal \/ TakeIdle \/ Hold \/ Release \/ Finish
    \/ Vanish \/ FailToStart
    \/ \E k \in SignalKinds : Deliver(k)

Spec == Init /\ [][Next]_mbVars
===============================================================================
