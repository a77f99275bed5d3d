------------------------------ MODULE LlmStream ------------------------------
(***************************************************************************)
(* One LLM turn from the provider's wire to the executor's next step.  A   *)
(* provider says text and tool calls in pieces; the pieces are server-sent *)
(* events in the dialect of OpenAI or of Anthropic, cut anywhere by the    *)
(* network; llm.svc decodes them (sse.rs, http_client.rs and the adapters) *)
(* and forwards them as frames of the open IPC connection; the agent's     *)
(* client queues them (llm_client/ipc_client.rs); the executor puts the    *)
(* answer together again, publishes the text as it comes, interprets the   *)
(* stop reason and builds the next request from the answer and the tools'  *)
(* results.  When the stream cannot be opened, the same request is made    *)
(* without streaming.                                                      *)
(***************************************************************************)
EXTENDS Naturals, Sequences, FiniteSets, TLC

CONSTANTS
    CallNames,       \* the names of the reply's tool calls, in order, as sequences of parts
    SocketCapacity,  \* frames the IPC socket holds
    ChunkCapacity,   \* capacity of the client's channel (64 in the code)
    FlushPieces,     \* pending pieces that are published at once (80 bytes in the code)
    MaxBytes,        \* bound: half lines that arrive at once
    MaxPieces        \* bound: pieces of a reply

ASSUME LlmStreamAssumption ==
    /\ SocketCapacity \in Nat \ {0} /\ ChunkCapacity \in Nat \ {0}
    /\ FlushPieces \in Nat \ {0} /\ MaxBytes \in Nat \ {0} /\ MaxPieces \in Nat

VARIABLES
    dialect,   \* the provider's adapter: "openai" (also xai, ollama) or "anthropic"
    reply,     \* what the provider said so far
    net,       \* halves of SSE lines on their way, then how the connection ended
    sse,       \* the decoder: unfinished bytes, last event name, index -> call id
    svc,       \* llm.svc's side of the IPC connection: "open", "done", "crashed"
    frames,    \* frames in the IPC socket
    chunkQueue,  \* the channel between the client's reader task and the stream's consumer
    turn,      \* the executor's turn
    chunksOut, \* agent.output.chunk events published in this turn
    sent       \* the body of the request that follows the tools' results

llmStreamVars == <<dialect, reply, net, sse, svc, frames, chunkQueue, turn, chunksOut, sent>>

NoAction == [act |-> "none", text |-> <<>>, calls |-> {}]
NoStop == "none"
CallId(k) == <<"call", k>>
NoId == CallId(0)
Index(i) == <<"index", i>>
Indices == 0 .. Len(CallNames) + MaxPieces

-----------------------------------------------------------------------------
(* Names on the wire *)

\* ToolName::mangled and ToolName::unmangle: "/" is written "__".
Mangle(name) == [i \in DOMAIN name |-> IF name[i] = "/" THEN "__" ELSE name[i]]
Unmangle(name) == [i \in DOMAIN name |-> IF name[i] = "__" THEN "/" ELSE name[i]]

-----------------------------------------------------------------------------
(* The provider *)

CallsSaid == {[id |-> CallId(k), name |-> CallNames[k], args |-> reply.args[k]] : k \in 1 .. reply.calls}

Event(name) == [line |-> "event", name |-> name]
Data(d) == [line |-> "data", data |-> d]
Comment == [line |-> "comment"]

\* A line travels as two halves, the second with its newline.
OnWire(lines) ==
    [i \in 1 .. 2 * Len(lines) |-> [part |-> IF i % 2 = 1 THEN "head" ELSE "tail", of |-> lines[(i + 1) \div 2]]]

Streams == turn.pc = "streaming"

\* The reply is laid down while the request is on its way; when its bytes
\* arrive is the network's choice.
MaySay == turn.pc = "asked" /\ reply.stop = NoStop /\ reply.end = "open"

\* Anthropic's content blocks are numbered and sent one after the other.
Closing == IF reply.block = "none" THEN <<>>
           ELSE <<Event("content_block_stop"), Data([kind |-> "stop", index |-> reply.blocks - 1])>>
Opening(b) == Closing \o <<Event("content_block_start"), Data(b)>>

Says(r, openai, anthropic) ==
    /\ MaySay /\ reply.pieces < MaxPieces
    /\ reply' = [r EXCEPT !.pieces = @ + 1]
    /\ net' = net \o OnWire(IF dialect = "openai" THEN openai ELSE anthropic)
    /\ UNCHANGED <<dialect, sse, svc, frames, chunkQueue, turn, chunksOut, sent>>

SaysText ==
    LET new == reply.block # "text"
    IN Says([reply EXCEPT !.text = Append(@, reply.pieces), !.block = "text", !.blocks = IF new THEN @ + 1 ELSE @],
            <<Data([kind |-> "text", piece |-> reply.pieces])>>,
            (IF new THEN Opening([kind |-> "text", index |-> reply.blocks]) ELSE <<>>)
               \o <<Event("content_block_delta"), Data([kind |-> "text_delta", piece |-> reply.pieces])>>)

StartsCall ==
    LET k == reply.calls + 1
        start == [kind |-> "start", id |-> CallId(k), name |-> Mangle(CallNames[k])]
    IN /\ k <= Len(CallNames)
       /\ Says([reply EXCEPT !.calls = k, !.block = "tool", !.blocks = @ + 1,
                             !.indexOf = [@ EXCEPT ![k] = IF dialect = "openai" THEN k - 1 ELSE reply.blocks]],
               <<Data(start @@ [index |-> k - 1])>>,
               Opening(start @@ [index |-> reply.blocks]))

\* OpenAI's parallel calls may be told in turns; Anthropic's only the open one.
SaysArgs(k) ==
    /\ k <= reply.calls
    /\ dialect = "anthropic" => k = reply.calls /\ reply.block = "tool"
    /\ LET piece == [index |-> reply.indexOf[k], piece |-> reply.pieces]
       IN Says([reply EXCEPT !.args[k] = Append(@, reply.pieces)],
               <<Data([kind |-> "args"] @@ piece)>>,
               <<Event("content_block_delta"), Data([kind |-> "input_json_delta"] @@ piece)>>)

KeepsAlive == reply.pieces = 1 /\ Says(reply, <<Comment>>, <<Event("ping"), Data([kind |-> "ping"])>>)

\* The stop reason, and what follows it on the wire.
Finishes(stop) ==
    /\ MaySay
    /\ stop = "tool_use" <=> reply.calls > 0
    /\ reply' = [reply EXCEPT !.stop = stop]
    /\ net' = net \o OnWire(IF dialect = "openai"
                             THEN <<Data([kind |-> "finish", stop |-> stop]), Data([kind |-> "[DONE]"])>>
                             ELSE Closing \o <<Event("message_delta"), Data([kind |-> "stop", stop |-> stop]),
                                               Event("message_stop"), Data([kind |-> "stop"])>>)
    /\ UNCHANGED <<dialect, sse, svc, frames, chunkQueue, turn, chunksOut, sent>>

\* The HTTP body ends or the connection breaks, after the reply or within it.
Hangs(how) ==
    /\ turn.pc = "asked" /\ reply.end = "open"
    /\ reply' = [reply EXCEPT !.end = how]
    /\ net' = Append(net, [part |-> how])
    /\ UNCHANGED <<dialect, sse, svc, frames, chunkQueue, turn, chunksOut, sent>>

-----------------------------------------------------------------------------
(* llm.svc *)

TextDelta(p) == [c |-> "text", piece |-> p]
ToolCallStart(id, name) == [c |-> "start", id |-> id, name |-> name]
ToolCallArgsDelta(id, p) == [c |-> "args", id |-> id, piece |-> p]
ToolCallComplete == [c |-> "complete"]
Done(stop) == [c |-> "done", stop |-> stop]
Skipped == [c |-> "skip"]

\* OpenAiAdapter::parse_stream_event.
ParseOpenAi(d) ==
    CASE d.kind = "text"   -> TextDelta(d.piece)
      [] d.kind = "start"  -> ToolCallStart(d.id, Unmangle(d.name))
      [] d.kind = "args"   -> ToolCallArgsDelta(Index(d.index), d.piece)
      [] d.kind = "finish" -> Done(d.stop)
      [] OTHER             -> Skipped

\* AnthropicAdapter::parse_stream_event: the event name says what the data is.
ParseAnthropic(event, d) ==
    CASE event = "content_block_start" /\ d.kind = "start"            -> ToolCallStart(d.id, Unmangle(d.name))
      [] event = "content_block_delta" /\ d.kind = "text_delta"       -> TextDelta(d.piece)
      [] event = "content_block_delta" /\ d.kind = "input_json_delta" -> ToolCallArgsDelta(Index(d.index), d.piece)
      [] event = "content_block_stop"                                 -> ToolCallComplete
      [] event = "message_delta"                                      -> Done(d.stop)
      [] OTHER                                                        -> Skipped

ParseStreamEvent(event, d) == IF dialect = "openai" THEN ParseOpenAi(d) ELSE ParseAnthropic(event, d)

\* The first complete line of the buffer ends at its first tail (0: none).
FirstTail(buf) ==
    IF \E i \in DOMAIN buf : buf[i].part = "tail"
    THEN CHOOSE i \in DOMAIN buf : buf[i].part = "tail" /\ \A j \in 1 .. i - 1 : buf[j].part # "tail"
    ELSE 0

\* parse_line: a line without its beginning is none.
ParseLine(buf) == IF FirstTail(buf) = 2 THEN buf[2].of ELSE Comment

DecoderIdle == FirstTail(sse.buf) = 0

\* sse_lines pulls the next bytes when it has handed out its lines.
BytesArrive(n) ==
    /\ Streams /\ svc = "open" /\ DecoderIdle
    /\ n \in 1 .. Len(net) /\ \A i \in 1 .. n : net[i].part \in {"head", "tail"}
    /\ sse' = [sse EXCEPT !.buf = @ \o SubSeq(net, 1, n)]
    /\ net' = SubSeq(net, n + 1, Len(net))
    /\ UNCHANGED <<dialect, reply, svc, frames, chunkQueue, turn, chunksOut, sent>>

\* The index -> id map of DirectHttpLlmClient::stream_complete.
LearnsId(ids, d, chunk) == IF chunk.c = "start" THEN [ids EXCEPT ![d.index] = chunk.id] ELSE ids

FaultyRealId(ids, chunk) == chunk

RealId(ids, chunk) ==
    IF chunk.c = "args" /\ ids[chunk.id[2]] # NoId THEN [chunk EXCEPT !.id = ids[chunk.id[2]]] ELSE chunk

\* One line: decoded, its call id repaired, and written to the agent as a frame.
DecodesLine ==
    LET l == ParseLine(sse.buf)
        rest == SubSeq(sse.buf, FirstTail(sse.buf) + 1, Len(sse.buf))
        chunk == IF l.line = "data" /\ l.data.kind # "[DONE]" THEN ParseStreamEvent(sse.event, l.data) ELSE Skipped
    IN /\ Streams /\ svc = "open" /\ ~DecoderIdle /\ Len(frames) < SocketCapacity
       /\ sse' = [buf |-> rest,
                  event |-> CASE l.line = "event" -> l.name [] l.line = "data" -> NoStop [] OTHER -> sse.event,
                  ids |-> IF l.line = "data" THEN LearnsId(sse.ids, l.data, chunk) ELSE sse.ids]
       /\ frames' = IF chunk = Skipped THEN frames ELSE Append(frames, RealId(sse.ids, chunk))
       /\ UNCHANGED <<dialect, reply, net, svc, chunkQueue, turn, chunksOut, sent>>

\* handle_stream_complete's last frame: the summary, or the error.
StreamOver ==
    /\ Streams /\ svc = "open" /\ DecoderIdle /\ Len(frames) < SocketCapacity
    /\ net # <<>> /\ Head(net).part \in {"eof", "drop"}
    /\ frames' = Append(frames, [c |-> IF Head(net).part = "eof" THEN "final" ELSE "err"])
    /\ svc' = "done" /\ net' = Tail(net)
    /\ UNCHANGED <<dialect, reply, sse, chunkQueue, turn, chunksOut, sent>>

SvcCrashes ==
    /\ svc = "open" /\ Streams
    /\ svc' = "crashed" /\ net' = <<>> /\ sse' = [sse EXCEPT !.buf = <<>>]
    /\ UNCHANGED <<dialect, reply, frames, chunkQueue, turn, chunksOut, sent>>

-----------------------------------------------------------------------------
(* The agent's client *)

\* The reader task of IpcLlmClient::stream_complete: chunks go to the channel,
\* the final frame closes it, an error or a broken connection is sent as one.
ReaderTakes ==
    /\ Streams /\ Len(chunkQueue) < ChunkCapacity
    /\ \/ frames # <<>> /\ chunkQueue' = Append(chunkQueue, Head(frames)) /\ frames' = Tail(frames)
          /\ UNCHANGED svc
       \/ frames = <<>> /\ svc = "crashed" /\ chunkQueue' = Append(chunkQueue, [c |-> "err"]) /\ UNCHANGED frames
          /\ svc' = "done"
    /\ UNCHANGED <<dialect, reply, net, sse, turn, chunksOut, sent>>

-----------------------------------------------------------------------------
(* The executor *)

TextBlock(text) == [t |-> "text", text |-> text]
ToolUse(id, name, args) == [t |-> "tool_use", id |-> id, name |-> name, args |-> args]
WithText(text, blocks) == IF text = <<>> THEN blocks ELSE <<TextBlock(text)>> \o blocks

ToolUses(content) == {content[i] : i \in {j \in DOMAIN content : content[j].t = "tool_use"}}
TextOf(content) == IF content # <<>> /\ content[1].t = "text" THEN content[1].text ELSE <<>>

\* interpret_stop_reason.
Interpret(content, stop) ==
    IF stop = "tool_use"
    THEN [act |-> "tools", text |-> <<>>,
          calls |-> {[id |-> b.id, name |-> Unmangle(b.name), args |-> b.args] : b \in ToolUses(content)}]
    ELSE [act |-> IF stop = "max_tokens" THEN "summarise" ELSE "result", text |-> TextOf(content), calls |-> {}]

Answers(content, stop) ==
    turn' = [turn EXCEPT !.pc = "answered", !.pending = <<>>, !.content = content, !.action = Interpret(content, stop)]

OpensStream ==
    /\ turn.pc = "asked" /\ reply.end # "open"
    /\ turn' = [turn EXCEPT !.pc = "streaming"]
    /\ UNCHANGED <<dialect, reply, net, sse, svc, frames, chunkQueue, chunksOut, sent>>

\* The stream could not be opened: the same request, not streamed.
StreamRefused ==
    /\ turn.pc = "asked" /\ reply.end # "open"
    /\ turn' = [turn EXCEPT !.pc = "completing"] /\ net' = <<>>
    /\ UNCHANGED <<dialect, reply, sse, svc, frames, chunkQueue, chunksOut, sent>>

CompleteFails ==
    /\ turn.pc = "completing"
    /\ turn' = [turn EXCEPT !.pc = "failed"]
    /\ UNCHANGED <<dialect, reply, net, sse, svc, frames, chunkQueue, chunksOut, sent>>

\* parse_complete_response: OpenAI's names are unmangled and its stop reason
\* follows the calls; Anthropic's blocks are passed on as they are.
CompleteContent ==
    WithText(reply.text, [k \in 1 .. reply.calls |->
        LET name == Mangle(CallNames[k])
        IN ToolUse(CallId(k), IF dialect = "openai" THEN Unmangle(name) ELSE name, reply.args[k])])

\* DirectHttpLlmClient::complete knows Anthropic's word for the token limit only.
CompleteStop == IF dialect = "openai" /\ reply.stop = "max_tokens" THEN "end_turn" ELSE reply.stop

CompleteAnswers ==
    /\ turn.pc = "completing" /\ reply.stop # NoStop /\ reply.end = "eof"
    /\ Answers(CompleteContent, CompleteStop)
    /\ UNCHANGED <<dialect, reply, net, sse, svc, frames, chunkQueue, chunksOut, sent>>

\* flush_pending!: one agent.output.chunk with the pending text.
Flushed(out, text, seq) == IF text = <<>> THEN out ELSE Append(out, [text |-> text, seq |-> seq, final |-> FALSE])
SeqAfter(text) == IF text = <<>> THEN turn.seq ELSE turn.seq + 1

\* The timer, which is polled only when no chunk is waiting.
FlushTick ==
    /\ Streams /\ turn.pending # <<>> /\ chunkQueue = <<>>
    /\ chunksOut' = Flushed(chunksOut, turn.pending, turn.seq)
    /\ turn' = [turn EXCEPT !.pending = <<>>, !.seq = @ + 1]
    /\ UNCHANGED <<dialect, reply, net, sse, svc, frames, chunkQueue, sent>>

TakesText(c) ==
    LET text == Append(turn.pending, c.piece)
        full == Len(text) >= FlushPieces
    IN /\ turn' = [turn EXCEPT !.text = Append(@, c.piece), !.pending = IF full THEN <<>> ELSE text,
                               !.seq = IF full THEN @ + 1 ELSE @]
       /\ chunksOut' = IF full THEN Flushed(chunksOut, text, turn.seq) ELSE chunksOut

TakesStart(c) ==
    /\ turn' = [turn EXCEPT !.calls = (c.id :> [name |-> c.name, args |-> <<>>]) @@ @,
                            !.pending = <<>>, !.seq = SeqAfter(turn.pending)]
    /\ chunksOut' = Flushed(chunksOut, turn.pending, turn.seq)

TakesArgs(c) ==
    /\ turn' = IF c.id \in DOMAIN turn.calls THEN [turn EXCEPT !.calls[c.id].args = Append(@, c.piece)] ELSE turn
    /\ UNCHANGED chunksOut

TakesOther(c) ==
    /\ turn' = [turn EXCEPT !.stop = IF c.c = "done" THEN c.stop ELSE @, !.pc = IF c.c = "err" THEN "failed" ELSE @]
    /\ UNCHANGED chunksOut

\* The channel is closed: the rest of the text, the final chunk, and the calls
\* in the order in which the map happens to hold them.
StreamEnded(order) ==
    /\ chunksOut' = Append(Flushed(chunksOut, turn.pending, turn.seq),
                           [text |-> <<>>, seq |-> SeqAfter(turn.pending), final |-> TRUE])
    /\ Answers(WithText(turn.text, [i \in 1 .. Len(order) |->
                   ToolUse(order[i], turn.calls[order[i]].name, turn.calls[order[i]].args)]), turn.stop)

Orders(ids) == {f \in [1 .. Cardinality(ids) -> ids] : \A i, j \in DOMAIN f : i # j => f[i] # f[j]}

TakesChunk(c) ==
    CASE c.c = "text"  -> TakesText(c)
      [] c.c = "start" -> TakesStart(c)
      [] c.c = "args"  -> TakesArgs(c)
      [] c.c = "final" -> \E order \in Orders(DOMAIN turn.calls) : StreamEnded(order)
      [] OTHER         -> TakesOther(c)

ExecTakes ==
    /\ Streams /\ chunkQueue # <<>>
    /\ TakesChunk(Head(chunkQueue))
    /\ chunkQueue' = Tail(chunkQueue)
    /\ UNCHANGED <<dialect, reply, net, sse, svc, frames, sent>>

\* A signal cancels the call: the stream is dropped, and with it the channel,
\* the connection and the HTTP body; what was published stays published.
TurnCancelled ==
    /\ turn.pc \in {"streaming", "completing"}
    /\ turn' = [turn EXCEPT !.pc = "cancelled"]
    /\ net' = <<>> /\ frames' = <<>> /\ chunkQueue' = <<>> /\ sse' = [sse EXCEPT !.buf = <<>>] /\ svc' = "done"
    /\ UNCHANGED <<dialect, reply, chunksOut, sent>>

-----------------------------------------------------------------------------
(* The next request *)

Results(content) ==
    LET uses == SelectSeq(content, LAMBDA b : b.t = "tool_use")
    IN [i \in DOMAIN uses |-> [t |-> "tool_result", id |-> uses[i].id]]

\* OpenAiAdapter::convert_messages on the assistant's message and the results.
ConvertMessages(content, results) ==
    LET uses == SelectSeq(content, LAMBDA b : b.t = "tool_use")
    IN <<[role |-> "assistant", text |-> TextOf(content),
          calls |-> [i \in DOMAIN uses |-> [id |-> uses[i].id, name |-> Mangle(uses[i].name)]]]>>
       \o [i \in DOMAIN results |-> [role |-> "tool", id |-> results[i].id]]

\* AnthropicAdapter::build_complete_request keeps the messages.
KeepMessages(content, results) ==
    <<[role |-> "assistant", content |-> content], [role |-> "user", content |-> results]>>

TranslateTools(names) == {Mangle(n) : n \in names}

ToolNames == {CallNames[k] : k \in DOMAIN CallNames}

\* Every call got one result, whatever became of it; the next request repeats
\* the answer and the results after the system prompt.
NextRequest ==
    /\ turn.pc = "answered" /\ turn.action.act = "tools"
    /\ turn' = [turn EXCEPT !.pc = "continued"]
    /\ sent' = LET c == turn.content r == Results(turn.content)
               IN <<[role |-> "system", tools |-> TranslateTools(ToolNames)]>> \o (IF dialect = "openai" THEN ConvertMessages(c, r) ELSE KeepMessages(c, r))
    /\ UNCHANGED <<dialect, reply, net, sse, svc, frames, chunkQueue, chunksOut>>

-----------------------------------------------------------------------------
LlmStreamInit ==
    /\ dialect \in {"openai", "anthropic"}
    /\ reply = [text |-> <<>>, calls |-> 0, args |-> [k \in DOMAIN CallNames |-> <<>>], stop |-> NoStop, end |-> "open",
                pieces |-> 0, block |-> "none", blocks |-> 0, indexOf |-> [k \in DOMAIN CallNames |-> 0]]
    /\ net = <<>> /\ sse = [buf |-> <<>>, event |-> NoStop, ids |-> [i \in Indices |-> NoId]]
    /\ svc = "open" /\ frames = <<>> /\ chunkQueue = <<>>
    /\ turn = [pc |-> "asked", text |-> <<>>, calls |-> <<>>, pending |-> <<>>, seq |-> 0, stop |-> "end_turn",
               content |-> <<>>, action |-> NoAction]
    /\ chunksOut = <<>> /\ sent = <<>>

LlmStreamNext ==
    \/ SaysText \/ StartsCall \/ KeepsAlive \/ \E k \in DOMAIN CallNames : SaysArgs(k)
    \/ \E stop \in {"end_turn", "tool_use", "max_tokens"} : Finishes(stop)
    \/ \E how \in {"eof", "drop"} : Hangs(how)
    \/ \E n \in 1 .. MaxBytes : BytesArrive(n)
    \/ DecodesLine \/ StreamOver \/ SvcCrashes \/ ReaderTakes
    \/ OpensStream \/ StreamRefused \/ CompleteFails \/ CompleteAnswers
    \/ FlushTick \/ ExecTakes \/ TurnCancelled \/ NextRequest

LlmStreamSpec == LlmStreamInit /\ [][LlmStreamNext]_llmStreamVars

-----------------------------------------------------------------------------
\* The variables have their types; the socket and the channel keep their
\* capacities.
LlmStreamTypeOK ==
    /\ dialect \in {"openai", "anthropic"} /\ svc \in {"open", "done", "crashed"}
    /\ Len(frames) <= SocketCapacity /\ Len(chunkQueue) <= ChunkCapacity
    /\ turn.pc \in {"asked", "streaming", "completing", "answered", "continued", "failed", "cancelled"}
    /\ turn.seq \in Nat /\ sse.buf \in Seq([part : {"head", "tail"}, of : {b.of : b \in {sse.buf[i] : i \in DOMAIN sse.buf}}])

TurnAnswered == turn.pc \in {"answered", "continued"}

\* What the executor does next is what the provider said: every call with its
\* own name and arguments and no other call, the whole text, the limit
\* recognised, however the reply was cut into events, bytes and frames and
\* with the argument pieces of parallel calls told in turns.  A reply that was
\* not streamed comes to the same, but for the OpenAI word for the token limit.
AnswerIsFaithful ==
    TurnAnswered /\ reply.stop # NoStop =>
        LET limit == reply.stop = "max_tokens" /\ (chunksOut # <<>> \/ dialect = "anthropic")
        IN turn.action = IF reply.stop = "tool_use" THEN [act |-> "tools", text |-> <<>>, calls |-> CallsSaid]
                         ELSE [act |-> IF limit THEN "summarise" ELSE "result", text |-> reply.text, calls |-> {}]

\* A broken connection to the provider, or a crash of llm.svc, is never taken
\* for the end of an answer.
BreaksAreErrors == TurnAnswered => reply.end # "drop" /\ svc # "crashed"

Published == [i \in DOMAIN chunksOut |-> chunksOut[i].text]
RECURSIVE Joined(_)
Joined(pieces) == IF pieces = <<>> THEN <<>> ELSE Head(pieces) \o Joined(Tail(pieces))

\* The published chunks are numbered without gaps and tell the accumulated
\* text once and in order; the final one comes with the answer, when all of
\* the text has been told, and never after a cancelled or failed call.
ChunksTellTheText ==
    /\ \A i \in DOMAIN chunksOut : chunksOut[i].seq = i - 1 /\ (chunksOut[i].final => i = Len(chunksOut))
    /\ Joined(Published) \o turn.pending = turn.text
    /\ chunksOut # <<>> /\ chunksOut[Len(chunksOut)].final => TurnAnswered

\* In the next request every repeated tool call is followed by its result and
\* no result is without its call; OpenAI sees no name with a slash, and the
\* wire names of the tools lead back to the tools.
ResultsFollowCalls ==
    sent # <<>> =>
      /\ {Unmangle(w) : w \in sent[1].tools} = ToolNames
      /\ IF dialect = "openai"
         THEN LET calls == sent[2].calls
              IN /\ Len(sent) = 2 + Len(calls)
                 /\ \A i \in DOMAIN calls : sent[2 + i] = [role |-> "tool", id |-> calls[i].id]
                 /\ \A i \in DOMAIN calls : "/" \notin {calls[i].name[j] : j \in DOMAIN calls[i].name}
         ELSE {b.id : b \in ToolUses(sent[2].content)} = {sent[3].content[i].id : i \in DOMAIN sent[3].content}

\* Together: a turn is faithful from the provider's wire to the next request.
TurnIsFaithful == AnswerIsFaithful /\ BreaksAreErrors /\ ChunksTellTheText /\ ResultsFollowCalls
=============================================================================
