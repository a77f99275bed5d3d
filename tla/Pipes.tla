------------------------------- MODULE Pipes --------------------------------
(***************************************************************************)
(* A pipe between two agents (pipe/): PipeManager keeps the open pipes in  *)
(* a map; a Pipe is one bounded queue, used in both directions when the    *)
(* pipe is bidirectional, and a closed flag.  pipe/write, pipe/read and    *)
(* pipe/close look the pipe up under the map's lock and then go on without *)
(* it, so that calls of the two ends, and the close the kernel makes for   *)
(* an agent that exits, overlap.  Calls that are refused at the look-up    *)
(* (unknown pipe, wrong end, message not in the pipe's encoding) change    *)
(* nothing and are left out.                                               *)
(***************************************************************************)
EXTENDS Naturals, Sequences

CONSTANTS
    PipeConfigs,   \* the configurations tried: direction and back-pressure policy
    PipeCapacity,  \* buffer_tokens
    MaxWrites      \* bound: messages written to the pipe

PipeDirections == {"out", "in", "bidirectional"}

PipePolicies == {"block", "drop", "error"}

ASSUME PipesAssumption ==
    /\ PipeConfigs \subseteq PipeDirections \X PipePolicies
    /\ PipeCapacity \in Nat \ {0} /\ MaxWrites \in Nat

VARIABLES
    pipe,       \* the PipeRecord: in the map, closed flag, configuration
    chan,       \* the mpsc queue
    step,       \* where each call stands
    written,    \* messages each end has written: how many, and those answered Ok
    readLog,    \* every message read, in order
    sigpipes    \* SIGPIPEs sent to each end

pipeVars == <<pipe, chan, step, written, readLog, sigpipes>>

Ends == {"source", "target"}

Other(e) == IF e = "source" THEN "target" ELSE "source"

\* A call is made by an end ("tool") or by the kernel when it exits ("exit").
PipeCalls == Ends \X {"tool", "exit"}

PipeMsgs == [from : Ends, n : 1..MaxWrites]

CanWrite(e) ==
    CASE pipe.dir = "out" -> e = "source"
      [] pipe.dir = "in"  -> e = "target"
      [] OTHER            -> TRUE

CanRead(e) ==
    CASE pipe.dir = "out" -> e = "target"
      [] pipe.dir = "in"  -> e = "source"
      [] OTHER            -> TRUE

StepAt(c, pc) == step[c] = pc

Goto(c, pc) == step' = [step EXCEPT ![c] = pc]

PipeOpen(d, p) ==
    /\ pipe.state = "none"
    /\ pipe' = [state |-> "listed", closed |-> FALSE, dir |-> d, policy |-> p]
    /\ UNCHANGED <<chan, step, written, readLog, sigpipes>>

-----------------------------------------------------------------------------
(* pipe/write                                                              *)

\* An end that has exited makes no further calls.
MayCall(e) == StepAt(<<e, "tool">>, "idle") /\ StepAt(<<e, "exit">>, "idle")

WriteLookup(e) ==
    /\ MayCall(e)
    /\ pipe.state = "listed" /\ CanWrite(e)
    /\ written["source"].n + written["target"].n < MaxWrites
    /\ written' = [written EXCEPT ![e].n = @ + 1]
    /\ Goto(<<e, "tool">>, "write")
    /\ UNCHANGED <<pipe, chan, readLog, sigpipes>>

\* Pipe::write and send_blocking look at the flag first; Drop ignores the error.
WriteCheck(e) ==
    /\ StepAt(<<e, "tool">>, "write")
    /\ Goto(<<e, "tool">>, IF pipe.closed THEN "idle" ELSE "push")
    /\ UNCHANGED <<pipe, chan, written, readLog, sigpipes>>

\* Faulty variant: the channel is taken for unbounded.
RoomUnbounded == TRUE

Room == Len(chan) < PipeCapacity

Message(e) == [from |-> e, n |-> written[e].n]

\* Faulty variant: a full pipe answers Ok under every policy.
WriteOkUnchecked(e) == TRUE

\* Whether the write is answered Ok when it leaves the queue as it is.
WriteOk(e) == Room \/ pipe.policy = "drop"

WritePush(e) ==
    /\ StepAt(<<e, "tool">>, "push")
    /\ chan' = IF Room THEN Append(chan, Message(e)) ELSE chan
    /\ IF ~Room /\ pipe.policy = "block"
       THEN Goto(<<e, "tool">>, "blocked") /\ UNCHANGED written
       ELSE /\ Goto(<<e, "tool">>, "idle")
            /\ written' = IF WriteOk(e)
                          THEN [written EXCEPT ![e].ok = @ \cup {written[e].n}] ELSE written
    /\ UNCHANGED <<pipe, readLog, sigpipes>>

\* tx.send().await gets its permit: the flag is not looked at again.
WriteUnblocked(e) ==
    /\ StepAt(<<e, "tool">>, "blocked")
    /\ Room
    /\ chan' = Append(chan, Message(e))
    /\ written' = [written EXCEPT ![e].ok = @ \cup {written[e].n}]
    /\ Goto(<<e, "tool">>, "idle")
    /\ UNCHANGED <<pipe, readLog, sigpipes>>

-----------------------------------------------------------------------------
(* pipe/read                                                               *)

ReadLookup(e) ==
    /\ MayCall(e)
    /\ pipe.state = "listed" /\ CanRead(e) /\ ~pipe.closed
    /\ Goto(<<e, "tool">>, "read")
    /\ UNCHANGED <<pipe, chan, written, readLog, sigpipes>>

ReadRecv(e) ==
    /\ StepAt(<<e, "tool">>, "read")
    /\ chan # <<>>
    /\ chan' = Tail(chan)
    /\ readLog' = Append(readLog, Head(chan))
    /\ Goto(<<e, "tool">>, "idle")
    /\ UNCHANGED <<pipe, written, sigpipes>>

ReadTimeout(e) ==
    /\ StepAt(<<e, "tool">>, "read")
    /\ Goto(<<e, "tool">>, "idle")
    /\ UNCHANGED <<pipe, chan, written, readLog, sigpipes>>

-----------------------------------------------------------------------------
(* pipe/close, by an end or in close_pipes_for_pid                         *)

CloseLookup(e) ==
    /\ MayCall(e)
    /\ pipe.state = "listed"
    /\ Goto(<<e, "tool">>, "close")
    /\ UNCHANGED <<pipe, chan, written, readLog, sigpipes>>

\* The kernel collects the agent's pipes, and then closes each of them.
EndExits(e) ==
    /\ StepAt(<<e, "exit">>, "idle")
    /\ Goto(<<e, "exit">>, IF pipe.state = "listed" THEN "found" ELSE "gone")
    /\ UNCHANGED <<pipe, chan, written, readLog, sigpipes>>

ExitLookup(e) ==
    /\ StepAt(<<e, "exit">>, "found")
    /\ Goto(<<e, "exit">>, IF pipe.state = "listed" THEN "close" ELSE "gone")
    /\ UNCHANGED <<pipe, chan, written, readLog, sigpipes>>

CloseFlag(c) ==
    /\ StepAt(c, "close")
    /\ pipe' = [pipe EXCEPT !.closed = TRUE]
    /\ Goto(c, "remove")
    /\ UNCHANGED <<chan, written, readLog, sigpipes>>

CloseRemove(c) ==
    /\ StepAt(c, "remove")
    /\ pipe' = [pipe EXCEPT !.state = "removed"]
    /\ Goto(c, "signal")
    /\ UNCHANGED <<chan, written, readLog, sigpipes>>

CloseSignal(c) ==
    /\ StepAt(c, "signal")
    /\ sigpipes' = [sigpipes EXCEPT ![Other(c[1])] = @ + 1]
    /\ Goto(c, "gone")
    /\ UNCHANGED <<pipe, chan, written, readLog>>

CloseStep(c) == CloseFlag(c) \/ CloseRemove(c) \/ CloseSignal(c)

PipesInit ==
    /\ pipe = [state |-> "none", closed |-> FALSE, dir |-> "out", policy |-> "block"]
    /\ chan = <<>>
    /\ step = [c \in PipeCalls |-> "idle"]
    /\ written = [e \in Ends |-> [n |-> 0, ok |-> {}]]
    /\ readLog = <<>>
    /\ sigpipes = [e \in Ends |-> 0]

PipesNext ==
    \/ \E cfg \in PipeConfigs : PipeOpen(cfg[1], cfg[2])
    \/ \E e \in Ends : \/ WriteLookup(e) \/ WriteCheck(e) \/ WritePush(e) \/ WriteUnblocked(e)
                       \/ ReadLookup(e) \/ ReadRecv(e) \/ ReadTimeout(e)
                       \/ CloseLookup(e) \/ EndExits(e) \/ ExitLookup(e)
    \/ \E c \in PipeCalls : CloseStep(c)

\* A close call that has begun runs to its end.
PipesFairness == \A c \in PipeCalls : WF_pipeVars(CloseStep(c))

PipesSpec == PipesInit /\ [][PipesNext]_pipeVars /\ PipesFairness

-----------------------------------------------------------------------------
\* Types; the queue keeps to its capacity, and an end is sent SIGPIPE at most
\* once by each of the two closes that may reach it.
PipesTypeOK ==
    /\ pipe \in [state : {"none", "listed", "removed"}, closed : BOOLEAN,
                 dir : PipeDirections, policy : PipePolicies]
    /\ chan \in Seq(PipeMsgs) /\ Len(chan) <= PipeCapacity
    /\ step \in [PipeCalls -> {"idle", "write", "push", "blocked", "read", "found",
                               "close", "remove", "signal", "gone"}]
    /\ written \in [Ends -> [n : 0..MaxWrites, ok : SUBSET (1..MaxWrites)]]
    /\ readLog \in Seq(PipeMsgs)
    /\ sigpipes \in [Ends -> 0..2]

\* The messages the pipe has taken, in order: those read, and those queued.
Taken == readLog \o chan

\* Between open and close a pipe neither loses nor reorders what it
\* accepted: the messages read and those still queued are, for each
\* writing end, the ones pipe/write answered Ok, in the order in which they
\* were written.  Under the drop policy some of them may be missing, but none
\* is out of order and none was refused.
NothingLostOrReordered ==
    /\ \A i, j \in DOMAIN Taken :
          i < j /\ Taken[i].from = Taken[j].from => Taken[i].n < Taken[j].n
    /\ \A e \in Ends :
          LET kept == {n \in 1..MaxWrites : \E i \in DOMAIN Taken : Taken[i] = [from |-> e, n |-> n]}
          IN  IF pipe.policy = "drop" THEN kept \subseteq written[e].ok ELSE kept = written[e].ok

\* Whenever a close call has found the pipe, the other end is eventually
\* sent SIGPIPE, also when both ends close at once or the kernel closes the
\* pipe of an exiting agent meanwhile (close, close_pipes_for_pid).
PartnerIsTold ==
    \A c \in PipeCalls : StepAt(c, "close") ~> (sigpipes[Other(c[1])] > 0)
=============================================================================
