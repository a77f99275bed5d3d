--------------------------- MODULE Conversations ---------------------------
(***************************************************************************)
(* What a restart finds of an agent: the conversation that the executor    *)
(* keeps in memory, the JSONL file it is flushed to, and the token and     *)
(* tool-call counters of the invocation record.  The executor flushes      *)
(* after every tool call, at the end of a turn, when it goes idle, after a *)
(* failed turn and at exit; kernel requests read and write the record at   *)
(* the same time; the daemon may die at any step, also in the middle of a  *)
(* file, and restores the agent from what it finds.                        *)
(*                                                                         *)
(* The file is written by a blocking thread of tokio, which goes on when   *)
(* the executor's task is aborted: the writer is a process of its own.  An *)
(* entry of a conversation is its number among all entries the agent ever  *)
(* made, with its role; the text is left out.                              *)
(***************************************************************************)
EXTENDS Naturals, Sequences, SequencesExt

CONSTANTS
    MaxEntries,   \* bound: entries the agent makes
    MaxReplies,   \* bound: replies of the LLM (one token each)
    MaxBatch,     \* bound: tool calls in one reply
    MaxRequests,  \* bound: snapshot and kill requests to the kernel
    MaxRestarts   \* bound: crashes of the daemon

VARIABLES
    cvPc,       \* executor: "start", "llm", "tools", "wait", "done" or "down"
    cvTodo,     \* persistence steps it still has to make, in order
    cvCopy,     \* the record it read for the step in progress
    cvHistory,  \* memory.conversation_history
    cvUsed,     \* tokens_consumed and tool_calls_total
    cvBatch,    \* calls of the reply still to be made, and whether one gave a result
    cvAfter,    \* what the wait for a goal follows: "ok", "err" or "restore"
    cvRecord,   \* the invocation record on disk
    cvFile,     \* the JSONL file
    cvWriter,   \* the write of the file in progress
    cvKernel,   \* the kernel request in progress
    cvRequests, \* kernel requests made so far
    cvSaid,     \* history: entries made so far
    cvEver,     \* history: tokens and tool calls of all executors together
    cvLast,     \* history: the conversation of the executor that ended last
    cvSaved,    \* history: the conversation of the last complete write
    cvCut,      \* history: the last write was cut short or failed
    cvRestarts

convVars ==
    <<cvPc, cvTodo, cvCopy, cvHistory, cvUsed, cvBatch, cvAfter, cvRecord, cvFile, cvWriter,
      cvKernel, cvRequests, cvSaid, cvEver, cvLast, cvSaved, cvCut, cvRestarts>>

-----------------------------------------------------------------------------
(* Entries, records and files *)

EntryRoles == {"user", "assistant", "system"}
Entries == [id : 1..MaxEntries, role : EntryRoles]

Counters == [tokens : 0..MaxReplies, calls : 0..(MaxReplies * MaxBatch)]
NoCounts == [tokens |-> 0, calls |-> 0]

InvocationStatus == {"running", "idle", "killed"}
LiveStatus == {"running", "idle"}
InvocationRecords == [status : InvocationStatus, counts : Counters]
NoCopyOf == [status |-> "none", counts |-> NoCounts]

Idle == [busy |-> FALSE, opened |-> FALSE, left |-> << >>]
NoFileYet == [lines |-> << >>, torn |-> "no"]
NoKernelCall == [op |-> "none", first |-> NoCounts, copy |-> NoCopyOf]

Alive == cvPc \notin {"done", "down"}
Conversation == IF Alive THEN cvHistory ELSE cvLast

\* read_conversation: lines that do not parse are skipped, which is the last
\* one of a write that was cut short; a cut inside a character fails the whole
\* read, and the restore then starts from nothing.
ReadConversation == IF cvFile.torn = "character" THEN << >> ELSE cvFile.lines

\* The record that a step writes, from the copy it read.
Written(step, rec) ==
    CASE step = "flush"  -> [rec EXCEPT !.counts = cvUsed]
      [] step = "idle"   -> [rec EXCEPT !.status = "idle"]
      [] step = "goal"   -> rec
      [] step = "final"  -> [status |-> "killed", counts |-> cvUsed]

Say(role) ==
    /\ cvSaid < MaxEntries
    /\ cvSaid' = cvSaid + 1
    /\ cvHistory' = Append(cvHistory, [id |-> cvSaid + 1, role |-> role])

SaveState == <<"flush">>
IdleSteps == <<"flush", "idle">>
-----------------------------------------------------------------------------
(* The executor *)

ConversationsInit ==
    /\ cvPc = "start"
    /\ cvTodo = << >> /\ cvCopy = NoCopyOf
    /\ cvHistory = << >> /\ cvUsed = NoCounts
    /\ cvBatch = [left |-> 0, result |-> FALSE]
    /\ cvAfter = "ok"
    /\ cvRecord = [status |-> "running", counts |-> NoCounts]
    /\ cvFile = NoFileYet /\ cvWriter = Idle
    /\ cvKernel = NoKernelCall /\ cvRequests = 0
    /\ cvSaid = 0 /\ cvEver = NoCounts /\ cvLast = << >>
    /\ cvSaved = << >> /\ cvCut = FALSE /\ cvRestarts = 0

AtRest(p) == cvPc = p /\ cvTodo = << >>

outside == <<cvRecord, cvFile, cvWriter, cvKernel, cvRequests, cvLast, cvSaved, cvCut, cvRestarts, cvCopy>>

\* run_with_client notes the goal as the user's entry.  A goal that follows a
\* turn is written to the record first; the first one after a restore is not.
TakeGoal ==
    /\ cvPc \in {"start", "wait"} /\ cvTodo = << >>
    /\ Say("user")
    /\ cvTodo' = IF cvPc = "wait" /\ cvAfter # "restore" THEN <<"goal">> ELSE << >>
    /\ cvPc' = "llm"
    /\ UNCHANGED <<outside, cvUsed, cvBatch, cvAfter, cvEver>>

Spend(n, c) ==
    /\ cvEver.tokens + n <= MaxReplies
    /\ cvUsed' = [tokens |-> cvUsed.tokens + n, calls |-> cvUsed.calls + c]
    /\ cvEver' = [tokens |-> cvEver.tokens + n, calls |-> cvEver.calls + c]

\* The reply ends the turn: the text is noted and flushed, and idle() flushes
\* again before it writes the status.
FinalReply ==
    /\ AtRest("llm")
    /\ Spend(1, 0) /\ Say("assistant")
    /\ cvPc' = "wait" /\ cvAfter' = "ok"
    /\ cvTodo' = SaveState \o IdleSteps
    /\ UNCHANGED <<outside, cvBatch>>

ToolReply ==
    /\ AtRest("llm")
    /\ Spend(1, 0)
    /\ \E n \in 1..MaxBatch : cvBatch' = [left |-> n, result |-> FALSE]
    /\ cvPc' = "tools"
    /\ UNCHANGED <<outside, cvTodo, cvHistory, cvAfter, cvSaid>>

\* A call that validation refuses is neither counted nor flushed; one that was
\* dispatched is both, whether it gave a result or an error.
ToolCallMade ==
    /\ AtRest("tools") /\ cvBatch.left > 0
    /\ Spend(0, 1)
    /\ \E ok \in BOOLEAN : cvBatch' = [left |-> cvBatch.left - 1, result |-> cvBatch.result \/ ok]
    /\ cvTodo' = SaveState
    /\ UNCHANGED <<outside, cvPc, cvHistory, cvAfter, cvSaid>>

ToolCallRefused ==
    /\ AtRest("tools") /\ cvBatch.left > 0
    /\ cvBatch' = [cvBatch EXCEPT !.left = @ - 1]
    /\ UNCHANGED <<outside, cvPc, cvTodo, cvHistory, cvUsed, cvAfter, cvSaid, cvEver>>

\* The batch becomes one entry, unless it has neither results nor text.  The
\* entry is not flushed before the next call or reply.
BatchNoted ==
    /\ AtRest("tools") /\ cvBatch.left = 0
    /\ \/ Say("assistant")
       \/ ~cvBatch.result /\ UNCHANGED <<cvSaid, cvHistory>>
    /\ cvPc' = "llm"
    /\ UNCHANGED <<outside, cvTodo, cvUsed, cvBatch, cvAfter, cvEver>>

\* A plausible slip: only the status is written after a failed turn.
FailedTurnStepsUnflushed == <<"idle">>

FailedTurnSteps == IdleSteps

\* persist_turn_error notes the failure and flushes.
TurnFails ==
    /\ AtRest("llm")
    /\ Say("system")
    /\ cvPc' = "wait" /\ cvAfter' = "err"
    /\ cvTodo' = FailedTurnSteps
    /\ UNCHANGED <<outside, cvUsed, cvBatch, cvEver>>

\* SIGSAVE during the LLM call flushes; the call is made again.  (The snapshot
\* it also writes is a file of its own, which no restart reads.)
SaveSignal ==
    /\ AtRest("llm")
    /\ cvTodo' = SaveState
    /\ UNCHANGED <<outside, cvPc, cvHistory, cvUsed, cvBatch, cvAfter, cvSaid, cvEver>>

\* Killed while waiting: only after a failed turn does shutdown_with_status
\* write the conversation and the final record.
KilledWaiting ==
    /\ AtRest("wait")
    /\ IF cvAfter = "err"
       THEN cvPc' = "exit" /\ cvTodo' = <<"file", "final">>
            /\ cvWriter' = [busy |-> TRUE, opened |-> FALSE, left |-> cvHistory] /\ UNCHANGED cvLast
       ELSE cvPc' = "done" /\ cvLast' = cvHistory /\ UNCHANGED <<cvTodo, cvWriter>>
    /\ UNCHANGED <<cvRequests, cvCopy, cvHistory, cvUsed, cvBatch, cvAfter, cvRecord, cvFile, cvKernel,
                   cvSaid, cvEver, cvSaved, cvCut, cvRestarts>>

Exited ==
    /\ AtRest("exit")
    /\ cvPc' = "done" /\ cvLast' = cvHistory
    /\ UNCHANGED <<cvRequests, cvTodo, cvCopy, cvHistory, cvUsed, cvBatch, cvAfter, cvRecord, cvFile, cvWriter,
                   cvKernel, cvRequests, cvSaid, cvEver, cvSaved, cvCut, cvRestarts>>
-----------------------------------------------------------------------------
(* The store: a record is read and written whole, then the file *)

executor == <<cvRequests, cvPc, cvHistory, cvUsed, cvBatch, cvAfter, cvSaid, cvEver, cvLast, cvRestarts>>

ReadRecord ==
    /\ Alive /\ cvTodo # << >> /\ Head(cvTodo) # "file" /\ cvCopy = NoCopyOf
    /\ cvCopy' = cvRecord
    /\ UNCHANGED <<executor, cvTodo, cvRecord, cvFile, cvWriter, cvKernel, cvSaved, cvCut>>

\* persist_interim goes on to the file, unless the conversation is empty.
WriteRecord ==
    /\ Alive /\ cvCopy # NoCopyOf
    /\ cvRecord' = Written(Head(cvTodo), cvCopy)
    /\ cvCopy' = NoCopyOf
    /\ IF Head(cvTodo) = "flush" /\ cvHistory # << >>
       THEN cvTodo' = <<"file">> \o Tail(cvTodo)
            /\ cvWriter' = [busy |-> TRUE, opened |-> FALSE, left |-> cvHistory]
       ELSE cvTodo' = Tail(cvTodo) /\ UNCHANGED cvWriter
    /\ UNCHANGED <<executor, cvFile, cvKernel, cvSaved, cvCut>>

\* tokio::fs::write empties the file before it writes it.
WriterOpens ==
    /\ cvWriter.busy /\ ~cvWriter.opened
    /\ cvWriter' = [cvWriter EXCEPT !.opened = TRUE]
    /\ cvFile' = NoFileYet
    /\ UNCHANGED <<executor, cvTodo, cvCopy, cvRecord, cvKernel, cvSaved, cvCut>>

WriterLine ==
    /\ cvWriter.opened /\ cvWriter.left # << >>
    /\ cvFile' = [cvFile EXCEPT !.lines = Append(@, Head(cvWriter.left))]
    /\ cvWriter' = [cvWriter EXCEPT !.left = Tail(@)]
    /\ UNCHANGED <<executor, cvTodo, cvCopy, cvRecord, cvKernel, cvSaved, cvCut>>

\* The executor goes on with its next step, also when the write failed.
WriterEnds(ok) ==
    /\ cvWriter.busy
    /\ ok <=> (cvWriter.opened /\ cvWriter.left = << >>)
    /\ cvWriter' = Idle
    /\ cvTodo' = IF Alive THEN Tail(cvTodo) ELSE cvTodo
    /\ cvCut' = ~ok
    /\ cvSaved' = IF ok THEN cvFile.lines ELSE cvSaved
    /\ UNCHANGED <<executor, cvCopy, cvRecord, cvFile, cvKernel>>
-----------------------------------------------------------------------------
(* Kernel requests, crash and restart *)

kernelOnly == <<cvHistory, cvUsed, cvBatch, cvAfter, cvFile, cvWriter, cvSaid, cvEver, cvSaved, cvCut, cvRestarts>>

Accept(op, counts) ==
    /\ cvKernel = NoKernelCall /\ cvRequests < MaxRequests
    /\ cvKernel' = [cvKernel EXCEPT !.op = op, !.first = counts]
    /\ cvRequests' = cvRequests + 1

\* snapshot_invocation reads the counters, and persist_interim the record
\* again, into which it writes those counters.
TakeInterim ==
    /\ cvPc # "down" /\ cvRecord.status \in LiveStatus
    /\ Accept("snapshot", cvRecord.counts)
    /\ UNCHANGED <<kernelOnly, cvPc, cvTodo, cvCopy, cvRecord, cvLast>>

\* abort_agent drops the task and finalizes with the counters of the process
\* table, which nothing ever raises.
AbortAgent ==
    /\ cvPc # "down"
    /\ Accept("abort", NoCounts)
    /\ cvPc' = "done" /\ cvTodo' = << >> /\ cvCopy' = NoCopyOf
    /\ cvLast' = Conversation
    /\ UNCHANGED <<kernelOnly, cvRecord>>

KernelReads ==
    /\ cvKernel.op # "none" /\ cvKernel.copy = NoCopyOf
    /\ cvKernel' = [cvKernel EXCEPT !.copy = cvRecord]
    /\ UNCHANGED <<kernelOnly, cvRequests, cvPc, cvTodo, cvCopy, cvRecord, cvLast>>

KernelWrites ==
    /\ cvKernel.copy # NoCopyOf
    /\ cvRecord' = [status |-> IF cvKernel.op = "abort" THEN "killed" ELSE cvKernel.copy.status,
                    counts |-> cvKernel.first]
    /\ cvKernel' = NoKernelCall
    /\ UNCHANGED <<kernelOnly, cvRequests, cvPc, cvTodo, cvCopy, cvLast>>

\* Only the disk survives.  A line, or a character, in the middle of which the
\* write stopped stays behind at the end of the file.
Crash ==
    /\ cvPc # "down" /\ cvRestarts < MaxRestarts
    /\ cvPc' = "down" /\ cvLast' = Conversation
    /\ cvTodo' = << >> /\ cvCopy' = NoCopyOf /\ cvKernel' = NoKernelCall /\ cvWriter' = Idle
    /\ cvHistory' = << >> /\ cvUsed' = NoCounts /\ cvBatch' = [left |-> 0, result |-> FALSE]
    /\ cvCut' = (cvCut \/ cvWriter.busy)
    /\ IF cvWriter.opened /\ cvWriter.left # << >>
       THEN \E t \in {"no", "line", "character"} : cvFile' = [cvFile EXCEPT !.torn = t]
       ELSE UNCHANGED cvFile
    /\ cvRestarts' = cvRestarts + 1
    /\ cvAfter' = "restore"
    /\ UNCHANGED <<cvRequests, cvRecord, cvSaid, cvEver, cvSaved>>

\* restore_interrupted_agents launches an executor for a live record; it takes
\* the conversation it can read, flushes it with counters that start again,
\* and waits.
Restart ==
    /\ cvPc = "down"
    /\ IF cvRecord.status \in LiveStatus
       THEN cvPc' = "wait" /\ cvHistory' = ReadConversation /\ cvTodo' = IdleSteps /\ cvLast' = << >>
       ELSE cvPc' = "done" /\ UNCHANGED <<cvHistory, cvTodo, cvLast>>
    /\ UNCHANGED <<cvRequests, cvCopy, cvUsed, cvBatch, cvAfter, cvRecord, cvFile, cvWriter, cvKernel, cvSaid,
                   cvEver, cvSaved, cvCut, cvRestarts>>

ConversationsNext ==
    \/ TakeGoal \/ FinalReply \/ ToolReply \/ ToolCallMade \/ ToolCallRefused \/ BatchNoted
    \/ TurnFails \/ SaveSignal \/ KilledWaiting \/ Exited
    \/ ReadRecord \/ WriteRecord \/ WriterOpens \/ WriterLine \/ (\E ok \in BOOLEAN : WriterEnds(ok))
    \/ TakeInterim \/ AbortAgent \/ KernelReads \/ KernelWrites \/ Crash \/ Restart
-----------------------------------------------------------------------------
(* Properties *)

\* Every variable has its type; one write of the file is in progress at most,
\* and an executor that is alive waits for it (write_conversation_structured).
ConversationsTypeOK ==
    /\ cvPc \in {"start", "llm", "tools", "wait", "exit", "done", "down"}
    /\ cvTodo \in Seq({"flush", "file", "idle", "goal", "final"})
    /\ cvHistory \in Seq(Entries) /\ cvFile.lines \in Seq(Entries)
    /\ cvUsed \in Counters /\ cvEver \in Counters
    /\ cvRecord \in InvocationRecords
    /\ cvFile.torn \in {"no", "line", "character"}
    /\ (cvWriter.busy /\ Alive) => (cvTodo # << >> /\ Head(cvTodo) = "file")
    /\ cvRestarts \in 0..MaxRestarts

\* What can be read back of a conversation, at any moment and after any crash,
\* is a prefix of what the agent has (or had, when it ended): nothing foreign,
\* nothing twice, nothing out of order (read_conversation, launch's restore).
ReadsAreAPrefix ==
    /\ IsPrefix(ReadConversation, Conversation)
    /\ \A k, n \in DOMAIN Conversation : k < n => Conversation[k].id < Conversation[n].id

\* Unless a write was cut short or failed, what was once written stays part of
\* the conversation, over restarts too, and an agent that waits for its next
\* goal has all of its conversation on disk ("Flush conversation JSONL so each
\* completed turn is durable", runtime_executor.rs:669).
TurnsAreDurable ==
    ~cvCut => /\ IsPrefix(cvSaved, Conversation)
              /\ AtRest("wait") => (cvSaved = cvHistory /\ ReadConversation = cvHistory)

\* The record never claims more tokens or tool calls than the agent made, with
\* executors and kernel requests writing it from copies, some of them stale.
RecordNeverOverstates ==
    cvRecord.counts.tokens <= cvEver.tokens /\ cvRecord.counts.calls <= cvEver.calls

\* Together: what was said and done is kept as it was.
ConversationsAreKept == ReadsAreAPrefix /\ TurnsAreDurable /\ RecordNeverOverstates
=============================================================================
