---------------------------- MODULE ChannelProofs ---------------------------
(***************************************************************************)
(* What agents and daemons are told through the channels of Jobs, Pipes    *)
(* and Ipc, proved for any jobs, watchers, calls, capacities and numbers   *)
(* of messages.                                                            *)
(*                                                                         *)
(* SidesOK relates the two ends of a call on a socket: what a handler      *)
(* answered is the call's own, and one without an answer still runs, had   *)
(* nothing to answer or was killed with its server.  JobInv strengthens    *)
(* WatchersHearTheTruth with the truth of the events a watcher has not     *)
(* received yet: a reply repeats one of them.  PipeInv strengthens         *)
(* NothingLostOrReordered with the numbers messages have: a message that   *)
(* is being written has a number above those of all the messages of its    *)
(* end that the pipe has taken.                                            *)
(***************************************************************************)
EXTENDS Integers, Ipc, Jobs, Pipes, TLAPS

-----------------------------------------------------------------------------
(* Sequences *)

\* What is in a sequence is of its set.
LEMMA ElementOfSeq ==
    ASSUME NEW S, NEW q \in Seq(S), NEW n \in 1 .. Len(q)
    PROVE  q[n] \in S
OBVIOUS

\* The empty sequence, and the length of any other.
LEMMA EmptySeq ==
    ASSUME NEW S
    PROVE  /\ << >> \in Seq(S) /\ Len(<< >>) = 0
           /\ \A q \in Seq(S) : q # << >> => Len(q) \in Nat \ {0}
OBVIOUS

\* A sequence is a function on the numbers up to its length.
LEMMA LenProperties ==
    ASSUME NEW S, NEW q \in Seq(S)
    PROVE  Len(q) \in Nat /\ q \in [1 .. Len(q) -> S] /\ DOMAIN q = 1 .. Len(q)
OBVIOUS

\* A function on the numbers up to n is a sequence.
LEMMA FunctionIsSeq ==
    ASSUME NEW S, NEW n \in Nat, NEW f \in [1 .. n -> S]
    PROVE  f \in Seq(S) /\ Len(f) = n
OBVIOUS

\* Sequences with the same elements are equal.
LEMMA SeqEqual ==
    ASSUME NEW S, NEW p \in Seq(S), NEW q \in Seq(S), Len(p) = Len(q),
           \A i \in 1 .. Len(p) : p[i] = q[i]
    PROVE  p = q
OBVIOUS

\* A push at the end.
LEMMA AppendProperties ==
    ASSUME NEW S, NEW q \in Seq(S), NEW e \in S
    PROVE  /\ Append(q, e) \in Seq(S) /\ Append(q, e) # << >>
           /\ Len(Append(q, e)) = Len(q) + 1
           /\ \A i \in 1 .. Len(q) : Append(q, e)[i] = q[i]
           /\ Append(q, e)[Len(q) + 1] = e
OBVIOUS

\* A pop at the front.
LEMMA HeadTailProperties ==
    ASSUME NEW S, NEW q \in Seq(S), q # << >>
    PROVE  /\ Head(q) \in S /\ Head(q) = q[1]
           /\ Tail(q) \in Seq(S) /\ Len(Tail(q)) = Len(q) - 1
           /\ \A i \in 1 .. Len(Tail(q)) : Tail(q)[i] = q[i + 1]
OBVIOUS

\* One sequence after another.
LEMMA ConcatProperties ==
    ASSUME NEW S, NEW p \in Seq(S), NEW q \in Seq(S)
    PROVE  /\ p \o q \in Seq(S) /\ Len(p \o q) = Len(p) + Len(q)
           /\ \A i \in 1 .. Len(p) + Len(q) :
                 (p \o q)[i] = IF i <= Len(p) THEN p[i] ELSE q[i - Len(p)]
OBVIOUS

\* A part of a sequence.
LEMMA SubSeqProperties ==
    ASSUME NEW S, NEW q \in Seq(S), NEW m \in 1 .. Len(q) + 1, NEW n \in m - 1 .. Len(q)
    PROVE  /\ SubSeq(q, m, n) \in Seq(S) /\ Len(SubSeq(q, m, n)) = n - m + 1
           /\ \A i \in 1 .. n - m + 1 : SubSeq(q, m, n)[i] = q[m + i - 1]
OBVIOUS

-----------------------------------------------------------------------------
(* Ipc: a call gets its own answer                                         *)

Answers == IpcCalls \X {"ok", "error"}

IpcSides == [pc : {"idle", "waiting", "sent", "answered", "timeout", "failed"}, kind : MessageKinds,
             reply : Answers \cup {NoReply}]
IpcConns == [pc : {"none", "backlog", "reading", "handling", "replied", "closed"}, srv : IpcServers \cup {0},
             ran : {0, 1}, child : {"none", "running", "exited"}, reply : Answers \cup {NoReply}]
IpcStates == {"off", "serving", "draining", "ended", "killed"}

\* What is known of call c when the client's side is q and the server's is k:
\* a handler runs in between reading and replying and only once, what it
\* answered is the call's own, and one that did not answer either still runs,
\* or had nothing to answer, or was killed with its server.
SidesOK(c, q, k) ==
    /\ q.pc = "idle" => k = NoConnection
    /\ k.pc = "none" <=> k.srv = 0
    /\ k.pc \in {"none", "backlog", "reading"} => k.ran = 0
    /\ k.pc \in {"handling", "replied"} => k.ran = 1
    /\ k.pc = "handling" => k.reply = NoReply
    /\ k.pc = "replied" => k.reply # NoReply
    /\ k.reply # NoReply =>
          /\ k.ran = 1 /\ k.reply \in {c} \X {"ok", "error"}
          /\ q.kind = "exec" /\ k.reply[2] = "ok" => k.child = "exited"
    /\ k.child # "none" => q.kind = "exec"
    /\ q.pc = "answered" => k.ran = 1 /\ q.reply = k.reply /\ k.reply # NoReply
    /\ k.pc \in {"backlog", "reading", "handling"} => ipServer[k.srv].pc \in {"serving", "draining"}
    /\ k.ran = 1 /\ k.reply = NoReply /\ q.kind # "notification" =>
          k.pc = "handling" \/ (k.srv # 0 /\ ipServer[k.srv].pc = "killed")

IpcInv ==
    /\ ipSocket \in IpcServers \cup {0}
    /\ ipEvents \in 0 .. MaxIpcEvents
    /\ ipServer \in [IpcServers -> [pc : IpcStates, handle : BOOLEAN, stop : BOOLEAN]]
    /\ ipCall \in [IpcCalls -> IpcSides] /\ ipConn \in [IpcCalls -> IpcConns]
    /\ \A c \in IpcCalls : SidesOK(c, ipCall[c], ipConn[c])

LEMMA IpcInvGives == IpcInv => IpcTypeOK /\ IpcIsKept
<1> SUFFICES ASSUME IpcInv PROVE IpcTypeOK /\ IpcIsKept BY Zenon
<1>1. IpcTypeOK BY Zenon DEF IpcInv, IpcTypeOK, IpcSides, IpcConns, IpcStates
<1>2. AnswersAreOwn BY DEF IpcInv, AnswersAreOwn, SidesOK, IpcSides, IpcConns
<1>3. BegunIsAnswered BY Zenon, IpcAssumption DEF IpcInv, BegunIsAnswered, SidesOK, IpcSides, IpcConns
<1> QED BY Zenon, <1>1, <1>2, <1>3 DEF IpcIsKept

LEMMA IpcInitInv == IpcInit => IpcInv
<1> SUFFICES ASSUME IpcInit PROVE IpcInv BY Zenon
<1>1. IdleCall \in IpcSides BY Zenon DEF IdleCall, IpcSides, MessageKinds
<1>2. NoConnection \in IpcConns BY Zenon DEF NoConnection, IpcConns
<1>3. [pc |-> "off", handle |-> FALSE, stop |-> FALSE] \in [pc : IpcStates, handle : BOOLEAN, stop : BOOLEAN]
  BY Zenon DEF IpcStates
<1>4. \A c : SidesOK(c, IdleCall, NoConnection) BY DEF SidesOK, IdleCall, NoConnection
<1>5. ipServer \in [IpcServers -> [pc : IpcStates, handle : BOOLEAN, stop : BOOLEAN]]
  BY Zenon, <1>3 DEF IpcInit
<1> QED BY <1>1, <1>2, <1>4, <1>5, IpcAssumption DEF IpcInit, IpcInv

\* A step on call c.
LEMMA SidesMove ==
    ASSUME IpcInv, NEW c \in IpcCalls, NEW q \in IpcSides, NEW k \in IpcConns, SidesOK(c, q, k),
           ipCall' = [ipCall EXCEPT ![c] = q], ipConn' = [ipConn EXCEPT ![c] = k],
           UNCHANGED <<ipEvents, ipSocket, ipServer>>
    PROVE  IpcInv'
<1>1. ASSUME NEW d \in IpcCalls PROVE SidesOK(d, ipCall[d], ipConn[d])'
  <2>1. CASE d = c
    <3>1. ipCall'[d] = q /\ ipConn'[d] = k BY Zenon, <2>1 DEF IpcInv
    <3> QED BY <2>1, <3>1 DEF SidesOK
  <2>2. CASE d # c
    <3>1. ipCall'[d] = ipCall[d] /\ ipConn'[d] = ipConn[d] BY Zenon, <2>2 DEF IpcInv
    <3>2. SidesOK(d, ipCall[d], ipConn[d]) BY Zenon DEF IpcInv
    <3> QED BY <3>1, <3>2 DEF SidesOK
  <2> QED BY Zenon, <2>1, <2>2
<1>2. ipCall' \in [IpcCalls -> IpcSides] /\ ipConn' \in [IpcCalls -> IpcConns] BY Zenon DEF IpcInv
<1> QED BY Zenon, <1>1, <1>2 DEF IpcInv

\* A step of server s, which changes only its own state and, when it closes,
\* the connections in gone.
LEMMA ServerMoves ==
    ASSUME IpcInv, NEW s \in IpcServers, NEW p \in IpcStates,
           ipServer' \in [IpcServers -> [pc : IpcStates, handle : BOOLEAN, stop : BOOLEAN]],
           ipServer'[s].pc = p, \A r \in IpcServers \ {s} : ipServer'[r] = ipServer[r],
           \/ ipServer[s].pc \in {"serving", "draining"} /\ p \in {"serving", "draining"}
           \/ p = ipServer[s].pc
           \/ ipServer[s].pc = "off",
           UNCHANGED <<ipCall, ipConn>>, ipSocket' \in IpcServers \cup {0}, ipEvents' \in 0 .. MaxIpcEvents
    PROVE  IpcInv'
<1>1. ASSUME NEW d \in IpcCalls PROVE SidesOK(d, ipCall[d], ipConn[d])'
  <2>1. SidesOK(d, ipCall[d], ipConn[d]) /\ ipConn[d] \in IpcConns BY Zenon DEF IpcInv
  <2>2. CASE ipConn[d].srv = s BY <2>1, <2>2 DEF SidesOK, IpcConns
  <2>3. CASE ipConn[d].srv # s
    <3>1. ipConn[d].srv # 0 => ipServer'[ipConn[d].srv] = ipServer[ipConn[d].srv] BY Zenon, <2>1, <2>3 DEF IpcConns
    <3> QED BY <2>1, <3>1 DEF SidesOK
  <2> QED BY Zenon, <2>2, <2>3
<1> QED BY Zenon, <1>1 DEF IpcInv
\* A server closes: of its connections none is left in progress.
LEMMA ServerCloses ==
    ASSUME IpcInv, NEW s \in IpcServers, NEW gone, NEW how \in {"ended", "killed"},
           CloseServer(s, gone, how), gone \subseteq Backlog(s) \cup InFlight(s), Backlog(s) \subseteq gone,
           ipEvents' \in 0 .. MaxIpcEvents,
           how = "ended" => InFlight(s) = {}, how = "killed" => InFlight(s) \subseteq gone,
           ipServer[s].pc \in {"serving", "draining"}
    PROVE  IpcInv'
<1>1. /\ ipServer' = [ipServer EXCEPT ![s] = [pc |-> how, handle |-> FALSE, stop |-> FALSE]]
      /\ ipSocket' = ipSocket
  BY Zenon DEF CloseServer
<1>2. ipServer' \in [IpcServers -> [pc : IpcStates, handle : BOOLEAN, stop : BOOLEAN]]
  <2>1. [pc |-> how, handle |-> FALSE, stop |-> FALSE] \in [pc : IpcStates, handle : BOOLEAN, stop : BOOLEAN]
    BY Zenon DEF IpcStates
  <2> QED BY Zenon, <1>1, <2>1 DEF IpcInv
<1>3. ipServer'[s].pc = how /\ \A r \in IpcServers \ {s} : ipServer'[r] = ipServer[r] BY Zenon, <1>1 DEF IpcInv
<1>4. ASSUME NEW c \in IpcCalls
      PROVE  /\ ipCall'[c] \in IpcSides /\ ipConn'[c] \in IpcConns
             /\ SidesOK(c, ipCall[c], ipConn[c])'
  <2> DEFINE q == ipCall[c]
             k == ipConn[c]
  <2>1. q \in IpcSides /\ k \in IpcConns /\ SidesOK(c, q, k) BY Zenon DEF IpcInv
  <2>2. /\ ipConn'[c] = IF c \in gone THEN [k EXCEPT !.pc = "closed"] ELSE k
        /\ ipCall'[c] = IF c \in gone /\ q.pc = "waiting" THEN [q EXCEPT !.pc = "failed"] ELSE q
    BY Zenon DEF CloseServer
  <2>3. c \in gone => k.srv = s /\ k.pc \in {"backlog", "reading", "handling"} BY Zenon DEF Backlog, InFlight
  <2>4. c \notin gone /\ k.srv = s => k.pc \notin {"backlog", "reading", "handling"} BY Zenon DEF Backlog, InFlight
  <2>5. c \in gone /\ how = "ended" => k.pc = "backlog" BY Zenon DEF Backlog, InFlight
  <2> HIDE DEF q, k
  <2>6. CASE c \in gone
    <3>1. DEFINE k2 == [k EXCEPT !.pc = "closed"]
    <3>2. /\ k2 \in IpcConns /\ k2.pc = "closed" /\ k2.srv = s /\ k2.ran = k.ran /\ k2.child = k.child
          /\ k2.reply = k.reply
      BY Zenon, <2>1, <2>3, <2>6 DEF IpcConns
    <3>3. /\ ipCall'[c] \in IpcSides /\ ipCall'[c].kind = q.kind /\ q.pc # "idle"
          /\ ipCall'[c].pc # "idle" /\ (ipCall'[c].pc = "answered" => ipCall'[c] = q)
      BY <2>1, <2>2, <2>3, <2>6 DEF IpcSides, SidesOK, NoConnection
    <3> HIDE DEF k2
    <3>4. ipConn'[c] = k2 BY Zenon, <2>2, <2>6 DEF k2
    <3>5. k.ran = 1 => how = "killed" BY <2>1, <2>5, <2>6 DEF SidesOK
    <3>6. s # 0 BY Zenon, IpcAssumption
    <3>7. SidesOK(c, ipCall[c], ipConn[c])'
      BY <1>3, <2>1, <3>2, <3>3, <3>4, <3>5, <3>6 DEF SidesOK
    <3> QED BY Zenon, <3>2, <3>3, <3>4, <3>7
  <2>7. CASE c \notin gone
    <3>1. ipConn'[c] = k /\ ipCall'[c] = q BY Zenon, <2>2, <2>7
    <3>2. k.srv # s /\ k.srv # 0 => ipServer'[k.srv] = ipServer[k.srv] BY Zenon, <1>3, <2>1 DEF IpcConns
    <3>3. k.srv = s => k.pc \notin {"backlog", "reading", "handling"} /\ ipServer[s].pc # "killed" BY Zenon, <2>4, <2>7
    <3>4. SidesOK(c, ipCall[c], ipConn[c])' BY <1>3, <2>1, <3>1, <3>2, <3>3 DEF SidesOK
    <3> QED BY Zenon, <2>1, <3>1, <3>4
  <2> QED BY Zenon, <2>6, <2>7
<1>5. ipCall' \in [IpcCalls -> IpcSides] /\ ipConn' \in [IpcCalls -> IpcConns] BY Zenon, <1>4 DEF CloseServer
<1> QED BY Zenon, <1>1, <1>2, <1>4, <1>5 DEF IpcInv

LEMMA ServersKeep ==
    ASSUME IpcInv, NEW s \in IpcServers,
           \/ \E ok \in BOOLEAN : Bind(s, ok)
           \/ Cancel(s) \/ DropHandle(s) \/ SeesCancel(s) \/ Drain(s) \/ CrashServer(s)
    PROVE  IpcInv'
<1>0. /\ ipServer \in [IpcServers -> [pc : IpcStates, handle : BOOLEAN, stop : BOOLEAN]]
      /\ ipSocket \in IpcServers \cup {0} /\ ipEvents \in 0 .. MaxIpcEvents
  BY Zenon DEF IpcInv
<1>1. IpcEvent => ipEvents' \in 0 .. MaxIpcEvents BY <1>0, IpcAssumption DEF IpcEvent
<1>2. ASSUME NEW ok \in BOOLEAN, Bind(s, ok) PROVE IpcInv'
  <2>1. ipServer[s].pc = "off" /\ ipSocket' \in IpcServers \cup {0} /\ UNCHANGED <<ipCall, ipConn>>
    BY Zenon, <1>2 DEF Bind
  <2>2. \E e \in [pc : IpcStates, handle : BOOLEAN, stop : BOOLEAN] : ipServer' = [ipServer EXCEPT ![s] = e]
    <3>1. [pc |-> "serving", handle |-> TRUE, stop |-> FALSE] \in [pc : IpcStates, handle : BOOLEAN, stop : BOOLEAN]
      BY Zenon DEF IpcStates
    <3>2. [ipServer[s] EXCEPT !.pc = "ended"] \in [pc : IpcStates, handle : BOOLEAN, stop : BOOLEAN]
      BY Zenon, <1>0 DEF IpcStates
    <3> QED BY Zenon, <1>2, <3>1, <3>2 DEF Bind
  <2>3. PICK e \in [pc : IpcStates, handle : BOOLEAN, stop : BOOLEAN] : ipServer' = [ipServer EXCEPT ![s] = e]
    BY Zenon, <2>2
  <2>4. /\ ipServer' \in [IpcServers -> [pc : IpcStates, handle : BOOLEAN, stop : BOOLEAN]]
        /\ ipServer'[s].pc = e.pc /\ e.pc \in IpcStates
        /\ \A r \in IpcServers \ {s} : ipServer'[r] = ipServer[r]
    BY Zenon, <1>0, <2>3
  <2> QED BY Zenon, <1>1, <1>2, <2>1, <2>4, ServerMoves DEF Bind
<1>3. CASE Cancel(s) \/ DropHandle(s)
  <2>a. PICK b \in BOOLEAN : \/ ipServer' = [ipServer EXCEPT ![s].stop = b]
                            \/ ipServer' = [ipServer EXCEPT ![s].handle = b]
    BY Zenon, <1>3 DEF Cancel, DropHandle
  <2>1. /\ ipServer' \in [IpcServers -> [pc : IpcStates, handle : BOOLEAN, stop : BOOLEAN]]
        /\ ipServer'[s].pc = ipServer[s].pc
        /\ \A r \in IpcServers \ {s} : ipServer'[r] = ipServer[r]
    BY <1>0, <2>a
  <2>2. ipServer[s].pc \in IpcStates BY Zenon, <1>0
  <2> QED BY <1>0, <1>1, <1>3, <2>1, <2>2, ServerMoves DEF Cancel, DropHandle
<1>4. CASE SeesCancel(s)
  <2>1. /\ ipServer' \in [IpcServers -> [pc : IpcStates, handle : BOOLEAN, stop : BOOLEAN]]
        /\ ipServer'[s].pc = "draining"
        /\ \A r \in IpcServers \ {s} : ipServer'[r] = ipServer[r]
    BY <1>0, <1>4 DEF SeesCancel, IpcStates
  <2>2. "draining" \in IpcStates BY Zenon DEF IpcStates
  <2> QED BY Zenon, <1>0, <1>4, <2>1, <2>2, ServerMoves DEF SeesCancel
<1>5. CASE Drain(s) BY Zenon, <1>0, <1>5, ServerCloses DEF Drain
<1>6. CASE CrashServer(s) BY Zenon, <1>1, <1>6, ServerCloses DEF CrashServer
<1> QED BY Zenon, <1>2, <1>3, <1>4, <1>5, <1>6

\* The handler of c answers with r, or a notification with nothing.
LEMMA ReplyKeeps ==
    ASSUME IpcInv, NEW c \in IpcCalls, NEW r, NEW fits \in BOOLEAN, Reply(c, r, fits), ipConn[c].pc = "handling",
           \/ /\ r \in {c} \X {"ok", "error"}
              /\ ipCall[c].kind = "exec" /\ r[2] = "ok" => ipConn[c].child = "exited"
           \/ r = NoReply /\ ~fits /\ ipCall[c].kind = "notification"
    PROVE  IpcInv'
<1> DEFINE q == ipCall[c]
           k == ipConn[c]
           q2 == [q EXCEPT !.pc = IF @ = "waiting" /\ ~fits THEN "failed" ELSE @]
           k2 == [k EXCEPT !.pc = IF fits THEN "replied" ELSE "closed", !.reply = r]
<1>1. q \in IpcSides /\ k \in IpcConns /\ SidesOK(c, q, k) BY Zenon DEF IpcInv
<1>2. /\ ipCall' = [ipCall EXCEPT ![c] = q2] /\ ipConn' = [ipConn EXCEPT ![c] = k2]
      /\ UNCHANGED <<ipEvents, ipSocket, ipServer>>
  BY Zenon DEF Reply, IpcInv
<1>3. r \in Answers \cup {NoReply} BY Zenon DEF Answers
<1>4. /\ q2 \in IpcSides /\ q2.kind = q.kind /\ q.pc # "idle" /\ q.pc # "answered"
      /\ q2.pc # "idle" /\ q2.pc # "answered"
  BY <1>1, IpcAssumption DEF IpcSides, SidesOK, NoConnection
<1>5. /\ k2 \in IpcConns /\ k2.pc \in {"replied", "closed"} /\ k2.srv = k.srv /\ k2.ran = k.ran
      /\ k2.child = k.child /\ k2.reply = r /\ (k2.pc = "replied" => fits)
  BY Zenon, <1>1, <1>3 DEF IpcConns
<1>6. k.ran = 1 /\ k.srv # 0 BY Zenon, <1>1 DEF SidesOK
<1>7. r # NoReply \/ (~fits /\ q.kind = "notification") BY Zenon, IpcAssumption
<1> HIDE DEF q2, k2
<1>8. SidesOK(c, q2, k2) BY <1>1, <1>4, <1>5, <1>6, <1>7 DEF SidesOK
<1> QED BY Zenon, <1>2, <1>4, <1>5, <1>8, SidesMove
LEMMA CallsKeep ==
    ASSUME IpcInv, NEW c \in IpcCalls,
           \/ \E kind \in KindsOf[c] : DialCall(c, kind)
           \/ Accept(c) \/ ReadMessage(c) \/ ExecStarts(c) \/ ExecRefuses(c) \/ ChildExits(c) \/ ExecTimesOut(c)
           \/ Receive(c) \/ TimeOut(c)
           \/ \E fits \in BOOLEAN : ExecAnswers(c, fits) \/ Handle(c, fits)
    PROVE  IpcInv'
<1> DEFINE q == ipCall[c]
           k == ipConn[c]
<1>0. /\ q \in IpcSides /\ k \in IpcConns /\ SidesOK(c, q, k)
      /\ ipCall \in [IpcCalls -> IpcSides] /\ ipConn \in [IpcCalls -> IpcConns]
  BY Zenon DEF IpcInv
<1>a. ipCall = [ipCall EXCEPT ![c] = q] /\ ipConn = [ipConn EXCEPT ![c] = k] BY Zenon, <1>0
<1>1. ASSUME NEW kind \in KindsOf[c], DialCall(c, kind) PROVE IpcInv'
  <2> DEFINE live == ipSocket # 0 /\ ipServer[ipSocket].pc \in {"serving", "draining"}
             q2 == [pc |-> CASE ~live \/ ~Framed(kind) -> "failed"
                             [] kind = "notification" -> "sent"
                             [] OTHER -> "waiting", kind |-> kind, reply |-> NoReply]
             k2 == IF live THEN [k EXCEPT !.pc = "backlog", !.srv = ipSocket] ELSE k
  <2>1. kind \in MessageKinds BY Zenon, IpcAssumption
  <2>2. q2 \in IpcSides /\ q2.pc \in {"failed", "sent", "waiting"} BY Zenon, <2>1 DEF IpcSides
  <2>3. k = NoConnection BY Zenon, <1>0, <1>1 DEF DialCall, SidesOK
  <2>4. ipSocket \in IpcServers \cup {0} BY Zenon DEF IpcInv
  <2>5. /\ k2 \in IpcConns /\ k2.ran = 0 /\ k2.child = "none" /\ k2.reply = NoReply
        /\ IF live THEN k2.pc = "backlog" /\ k2.srv = ipSocket ELSE k2.pc = "none" /\ k2.srv = 0
    <3>1. k.ran = 0 /\ k.child = "none" /\ k.reply = NoReply /\ k.pc = "none" /\ k.srv = 0
      BY <2>3 DEF NoConnection
    <3>2. CASE live BY Zenon, <1>0, <2>4, <3>1, <3>2 DEF IpcConns
    <3>3. CASE ~live BY Zenon, <1>0, <3>1, <3>3
    <3> QED BY Zenon, <3>2, <3>3
  <2>6. /\ ipCall' = [ipCall EXCEPT ![c] = q2] /\ ipConn' = [ipConn EXCEPT ![c] = k2]
        /\ UNCHANGED <<ipEvents, ipSocket, ipServer>>
    BY Zenon, <1>0, <1>1, <1>a DEF DialCall
  <2> HIDE DEF q2, k2
  <2>7. SidesOK(c, q2, k2) BY <2>2, <2>5 DEF SidesOK
  <2> QED BY Zenon, <2>2, <2>5, <2>6, <2>7, SidesMove
<1>2. CASE Accept(c)
  <2> DEFINE k2 == [k EXCEPT !.pc = "reading"]
  <2>1. k2 \in IpcConns /\ SidesOK(c, q, k2) BY <1>0, <1>2 DEF IpcConns, SidesOK, Accept, NoConnection
  <2>2. ipConn' = [ipConn EXCEPT ![c] = k2] /\ ipCall' = [ipCall EXCEPT ![c] = q]
    BY Zenon, <1>0, <1>2, <1>a DEF Accept
  <2> HIDE DEF k2, q
  <2> QED BY Zenon, <1>0, <1>2, <2>1, <2>2, SidesMove DEF Accept
<1>3. CASE ReadMessage(c)
  <2>0. k.pc = "reading" /\ k.ran = 0 /\ q.pc # "idle" /\ k.srv # 0 /\ q.pc # "answered"
    BY <1>0, <1>3 DEF ReadMessage, SidesOK, NoConnection
  <2>1. CASE ~Framed(q.kind) \/ MessageOf(q.kind) = "none"
    <3> DEFINE k2 == [k EXCEPT !.pc = "closed"]
               q2 == [q EXCEPT !.pc = IF @ = "waiting" THEN "failed" ELSE @]
    <3>1. k2 \in IpcConns /\ q2 \in IpcSides BY Zenon, <1>0 DEF IpcConns, IpcSides
    <3>2. /\ k2.pc = "closed" /\ k2.srv = k.srv /\ k2.ran = 0 /\ k2.child = k.child /\ k2.reply = k.reply
          /\ q2.kind = q.kind /\ q2.pc # "idle" /\ q2.pc # "answered"
      BY Zenon, <1>0, <2>0 DEF IpcConns, IpcSides
    <3>3. ipConn' = [ipConn EXCEPT ![c] = k2] /\ ipCall' = [ipCall EXCEPT ![c] = q2]
      BY Zenon, <1>0, <1>3, <2>1 DEF ReadMessage
    <3> HIDE DEF k2, q2
    <3>4. SidesOK(c, q2, k2) BY <1>0, <2>0, <3>2 DEF SidesOK
    <3> QED BY Zenon, <1>3, <3>1, <3>3, <3>4, SidesMove DEF ReadMessage
  <2>2. CASE ~(~Framed(q.kind) \/ MessageOf(q.kind) = "none")
    <3> DEFINE k2 == [k EXCEPT !.pc = "handling", !.ran = @ + 1]
    <3>1. /\ k2 \in IpcConns /\ k2.pc = "handling" /\ k2.srv = k.srv /\ k2.ran = 1 /\ k2.child = k.child
          /\ k2.reply = k.reply
      <4>1. k.ran + 1 = 1 BY <2>0
      <4>2. k2 = [k EXCEPT !.pc = "handling", !.ran = 1] BY Zenon, <4>1
      <4> QED BY Zenon, <1>0, <4>2 DEF IpcConns
    <3>2. ipConn' = [ipConn EXCEPT ![c] = k2] /\ ipCall' = [ipCall EXCEPT ![c] = q]
      BY Zenon, <1>0, <1>3, <1>a, <2>2 DEF ReadMessage
    <3> HIDE DEF k2
    <3>3. SidesOK(c, q, k2) BY <1>0, <2>0, <3>1 DEF SidesOK
    <3> QED BY Zenon, <1>0, <1>3, <3>1, <3>2, <3>3, SidesMove DEF ReadMessage
  <2> QED BY Zenon, <2>1, <2>2
<1>4. CASE ExecStarts(c) \/ ChildExits(c)
  <2> DEFINE ch == IF ExecStarts(c) THEN "running" ELSE "exited"
             k2 == [k EXCEPT !.child = ch]
  <2>1. ipConn' = [ipConn EXCEPT ![c] = k2] /\ ipCall' = [ipCall EXCEPT ![c] = q]
    BY Zenon, <1>0, <1>4, <1>a DEF ExecStarts, ChildExits
  <2>2. /\ k2 \in IpcConns /\ k2.pc = k.pc /\ k2.srv = k.srv /\ k2.ran = k.ran /\ k2.reply = k.reply
        /\ k2.child \in {"running", "exited"} /\ (k.child = "exited" => k2.child = "exited")
    BY <1>0, <1>4 DEF IpcConns, ExecStarts, ChildExits
  <2>3. q.kind = "exec" /\ q.pc # "idle" BY <1>0, <1>4 DEF ExecStarts, ChildExits, SidesOK, NoConnection
  <2> HIDE DEF k2
  <2>4. SidesOK(c, q, k2) BY <1>0, <2>2, <2>3 DEF SidesOK
  <2> QED BY Zenon, <1>0, <1>4, <2>1, <2>2, <2>4, SidesMove DEF ExecStarts, ChildExits
<1>5. CASE ExecRefuses(c) \/ ExecTimesOut(c)
  <2>1. Reply(c, <<c, "error">>, TRUE) /\ k.pc = "handling" BY Zenon, <1>5 DEF ExecRefuses, ExecTimesOut
  <2>2. <<c, "error">> \in {c} \X {"ok", "error"} /\ <<c, "error">>[2] # "ok" BY Zenon
  <2> QED BY Zenon, <2>1, <2>2, ReplyKeeps
<1>6. ASSUME NEW fits \in BOOLEAN, ExecAnswers(c, fits) \/ Handle(c, fits) PROVE IpcInv'
  <2>1. <<c, "ok">> \in {c} \X {"ok", "error"} BY Zenon
  <2>2. CASE ExecAnswers(c, fits) BY Zenon, <2>1, <2>2, ReplyKeeps DEF ExecAnswers
  <2>3. CASE Handle(c, fits)
    <3>1. MessageOf(q.kind) = "notification" => q.kind = "notification" BY Zenon DEF MessageOf
    <3>2. CASE MessageOf(q.kind) = "notification" BY Zenon, <2>3, <3>1, <3>2, ReplyKeeps DEF Handle
    <3>3. CASE MessageOf(q.kind) # "notification" BY Zenon, <2>1, <2>3, <3>3, ReplyKeeps DEF Handle
    <3> QED BY Zenon, <3>2, <3>3
  <2> QED BY Zenon, <1>6, <2>2, <2>3
<1>7. CASE Receive(c)
  <2> DEFINE k2 == [k EXCEPT !.pc = "closed"]
             q2 == [q EXCEPT !.pc = "answered", !.reply = k.reply]
  <2>1. ipConn' = [ipConn EXCEPT ![c] = k2] /\ ipCall' = [ipCall EXCEPT ![c] = q2] BY Zenon, <1>0, <1>7 DEF Receive
  <2>2. /\ k2 \in IpcConns /\ q2 \in IpcSides /\ k2.pc = "closed" /\ k2.srv = k.srv /\ k2.ran = k.ran
        /\ k2.child = k.child /\ k2.reply = k.reply /\ q2.pc = "answered" /\ q2.kind = q.kind /\ q2.reply = k.reply
    BY Zenon, <1>0 DEF IpcConns, IpcSides
  <2>3. k.pc = "replied" BY Zenon, <1>7 DEF Receive
  <2> HIDE DEF k2, q2
  <2>4. SidesOK(c, q2, k2) BY <1>0, <2>2, <2>3 DEF SidesOK
  <2> QED BY Zenon, <1>7, <2>1, <2>2, <2>4, SidesMove DEF Receive
<1>8. CASE TimeOut(c)
  <2> DEFINE q2 == [q EXCEPT !.pc = "timeout"]
  <2>1. ipConn' = [ipConn EXCEPT ![c] = k] /\ ipCall' = [ipCall EXCEPT ![c] = q2] BY Zenon, <1>0, <1>8, <1>a DEF TimeOut
  <2>2. q2 \in IpcSides /\ q2.pc = "timeout" /\ q2.kind = q.kind BY Zenon, <1>0 DEF IpcSides
  <2> HIDE DEF q2
  <2>3. SidesOK(c, q2, k) BY Zenon, <1>0, <2>2 DEF SidesOK
  <2> QED BY ZenonT(30), <1>0, <1>8, <2>1, <2>2, <2>3, SidesMove DEF TimeOut
<1> QED BY Zenon, <1>1, <1>2, <1>3, <1>4, <1>5, <1>6, <1>7, <1>8

\* The transport brings each call its own answer, for any calls, servers and
\* numbers of binds, cancellations and crashes: its handler runs at most once,
\* a good answer of the exec service means that the child has exited, and a
\* server that was cancelled has answered what it had begun on (IpcServer::serve
\* and its JoinSet, IpcClient::call and its time-out).
THEOREM CallsGetTheirAnswers == IpcSpec => [](IpcTypeOK /\ IpcIsKept)
<1>1. IpcInv /\ [IpcNext]_ipcVars => IpcInv'
  <2> SUFFICES ASSUME IpcInv, [IpcNext]_ipcVars PROVE IpcInv' BY Zenon
  <2>1. CASE IpcNext BY Zenon, <2>1, ServersKeep, CallsKeep DEF IpcNext
  <2>2. CASE UNCHANGED ipcVars BY <2>2 DEF ipcVars, IpcInv, SidesOK
  <2> QED BY Zenon, <2>1, <2>2
<1> QED BY <1>1, IpcInitInv, IpcInvGives, PTL DEF IpcSpec

LEMMA ConcatFacts ==
    ASSUME NEW S, NEW a \in Seq(S), NEW b \in Seq(S)
    PROVE  /\ a \o b \in Seq(S) /\ Len(a \o b) = Len(a) + Len(b)
           /\ Len(a) \in Nat /\ Len(b) \in Nat
           /\ DOMAIN a = 1..Len(a) /\ DOMAIN b = 1..Len(b) /\ DOMAIN (a \o b) = 1..(Len(a) + Len(b))
           /\ \A i \in DOMAIN a : (a \o b)[i] = a[i]
           /\ \A i \in DOMAIN b : (a \o b)[Len(a) + i] = b[i]
<1> DEFINE q == a \o b
<1>1. /\ q \in Seq(S) /\ Len(q) = Len(a) + Len(b)
      /\ \A i \in 1..Len(q) : q[i] = IF i <= Len(a) THEN a[i] ELSE b[i - Len(a)]
  BY ConcatProperties
<1> HIDE DEF q
<1>2. /\ Len(a) \in Nat /\ Len(b) \in Nat
      /\ DOMAIN a = 1..Len(a) /\ DOMAIN b = 1..Len(b) /\ DOMAIN q = 1..(Len(a) + Len(b))
  BY Zenon, <1>1, LenProperties
<1>3. \A i \in DOMAIN a : q[i] = a[i] BY <1>1, <1>2
<1>4. ASSUME NEW i \in DOMAIN b PROVE q[Len(a) + i] = b[i]
  <2> DEFINE k == Len(a) + i
  <2>1. k \in 1..Len(q) /\ ~(k <= Len(a)) /\ k - Len(a) = i BY <1>1, <1>2
  <2> HIDE DEF k
  <2>2. q[k] = b[i] BY Zenon, <1>1, <2>1
  <2> QED BY Zenon, <2>2 DEF k
<1> QED BY Zenon, <1>1, <1>2, <1>3, <1>4 DEF q

-----------------------------------------------------------------------------
(* Jobs *)

Watches == [pc : {"off", "call", "look", "wait", "told"}, job : JobIds \cup {NoJob},
            queue : Seq(JobEvents), lagged : BOOLEAN, reply : JobReplies]

\* An event, or a reply, that says how a job ended agrees with its state.
Agrees(kind, s) ==
    /\ kind \in {"done", "complete"} => s = "done"
    /\ kind \in {"failed", "fail"} => s = "failed"
    /\ kind = "cancelled" => s = "cancelled"

\* What holds of each watch call: what it was told and what it still has to
\* receive is true, and while it waits for a job that has ended it has lagged or
\* there is an event of the job to receive.
WatchOK(r, states) ==
    /\ r \in Watches /\ Len(r.queue) <= JobEventCapacity
    /\ IF r.pc = "off" THEN r.reply = "none" ELSE r.job \in JobIds
    /\ Agrees(r.reply, states[r.job])
    /\ \A i \in DOMAIN r.queue : Agrees(r.queue[i].kind, states[r.queue[i].job])
    /\ r.pc = "wait" /\ IsTerminal(states[r.job]) =>
          r.lagged \/ \E i \in DOMAIN r.queue : r.queue[i].job = r.job

JobInv ==
    /\ jobState \in [JobIds -> JobStates] /\ reports \in 0..MaxReports
    /\ DOMAIN watch = Watchers /\ watch = [w \in Watchers |-> watch[w]]
    /\ \A w \in Watchers : WatchOK(watch[w], jobState)

LEMMA JobInvGives == JobInv => JobsTypeOK /\ WatchersHearTheTruth
<1> SUFFICES ASSUME JobInv PROVE JobsTypeOK /\ WatchersHearTheTruth BY Zenon
<1>1. JobsTypeOK BY Zenon DEF JobInv, WatchOK, JobsTypeOK, Watches
<1>2. NoEventMissed BY Zenon DEF JobInv, WatchOK, NoEventMissed
<1>3. ToldTheTruth BY DEF JobInv, WatchOK, Agrees, ToldTheTruth
<1> QED BY Zenon, <1>1, <1>2, <1>3 DEF WatchersHearTheTruth

LEMMA JobInitInv == JobsInit => JobInv
<1> SUFFICES ASSUME JobsInit PROVE JobInv BY Zenon
<1> USE JobsAssumption
<1>1. << >> \in Seq(JobEvents) /\ DOMAIN << >> = {} /\ Len(<< >>) = 0 BY EmptySeq
<1>2. Off \in Watches BY Zenon, <1>1 DEF Off, Watching, Watches, JobReplies
<1>3. Off.pc = "off" /\ Off.reply = "none" /\ Off.queue = << >> BY Zenon DEF Off, Watching
<1>4. Agrees("none", jobState[Off.job]) BY Zenon DEF Agrees
<1>5. WatchOK(Off, jobState) BY <1>1, <1>2, <1>3, <1>4 DEF WatchOK
<1> QED BY <1>5 DEF JobsInit, JobInv, JobStates

LEMMA KindFacts ==
    ASSUME NEW a \in JobEventKinds, NEW b \in JobEventKinds, NEW s, Agrees(a, s), Agrees(b, s)
    PROVE  /\ <<a>> \in Seq(JobEventKinds) /\ <<a>> # << >>
           /\ \A i \in DOMAIN <<a>> : Agrees(<<a>>[i], s)
           /\ <<a, b>> \in Seq(JobEventKinds) /\ <<a, b>> # << >>
           /\ \A i \in DOMAIN <<a, b>> : Agrees(<<a, b>>[i], s)
OBVIOUS

\* What a broadcast does to a receiver: it stays within its capacity, holds only
\* what it held and what was sent and, until it lags, all of it in order.
LEMMA HeardFacts ==
    ASSUME NEW r \in Watches, Len(r.queue) <= JobEventCapacity, NEW es \in Seq(JobEvents)
    PROVE  LET h == Heard(r, es) IN
           /\ h \in Watches /\ Len(h.queue) <= JobEventCapacity
           /\ h.pc = r.pc /\ h.job = r.job /\ h.reply = r.reply
           /\ \A i \in DOMAIN h.queue :
                 \/ \E k \in DOMAIN r.queue : h.queue[i] = r.queue[k]
                 \/ \E k \in DOMAIN es : h.queue[i] = es[k]
           /\ r.pc = "wait" /\ ~h.lagged =>
                 /\ ~r.lagged
                 /\ \A k \in DOMAIN r.queue : \E i \in DOMAIN h.queue : h.queue[i] = r.queue[k]
                 /\ \A k \in DOMAIN es : \E i \in DOMAIN h.queue : h.queue[i] = es[k]
<1> USE JobsAssumption
<1> DEFINE h == Heard(r, es)
           q == r.queue \o es
           t == SubSeq(q, Len(q) - JobEventCapacity + 1, Len(q))
           over == Len(q) > JobEventCapacity
           new == IF over THEN t ELSE q
<1>1. r.queue \in Seq(JobEvents) /\ r.lagged \in BOOLEAN BY Zenon DEF Watches
<1>2. /\ q \in Seq(JobEvents) /\ Len(q) = Len(r.queue) + Len(es)
      /\ \A i \in 1..Len(q) : q[i] = IF i <= Len(r.queue) THEN r.queue[i] ELSE es[i - Len(r.queue)]
  BY <1>1, ConcatProperties
<1>3. Len(r.queue) \in Nat /\ Len(es) \in Nat /\ DOMAIN r.queue = 1..Len(r.queue) /\ DOMAIN es = 1..Len(es)
      /\ DOMAIN q = 1..Len(q)
  BY Zenon, <1>1, <1>2, LenProperties
<1>4. \A i \in DOMAIN q : \/ \E k \in DOMAIN r.queue : q[i] = r.queue[k]
                          \/ \E k \in DOMAIN es : q[i] = es[k]
  <2> SUFFICES ASSUME NEW i \in DOMAIN q
               PROVE  \/ \E k \in DOMAIN r.queue : q[i] = r.queue[k]
                      \/ \E k \in DOMAIN es : q[i] = es[k]
    BY Zenon
  <2>1. i \in 1..Len(q) BY Zenon, <1>3
  <2>2. CASE i <= Len(r.queue)
    <3>1. i \in DOMAIN r.queue BY <1>3, <2>1, <2>2
    <3>2. q[i] = r.queue[i] BY Zenon, <1>2, <2>1, <2>2
    <3> QED BY Zenon, <3>1, <3>2
  <2>3. CASE ~(i <= Len(r.queue))
    <3>1. i - Len(r.queue) \in DOMAIN es BY <1>2, <1>3, <2>1, <2>3
    <3>2. q[i] = es[i - Len(r.queue)] BY Zenon, <1>2, <2>1, <2>3
    <3> QED BY Zenon, <3>1, <3>2
  <2> QED BY Zenon, <2>2, <2>3
<1>5. /\ \A k \in DOMAIN r.queue : \E i \in DOMAIN q : q[i] = r.queue[k]
      /\ \A k \in DOMAIN es : \E i \in DOMAIN q : q[i] = es[k]
  <2>1. \A k \in DOMAIN r.queue : k \in DOMAIN q /\ q[k] = r.queue[k] BY <1>2, <1>3
  <2>2. \A k \in DOMAIN es : Len(r.queue) + k \in DOMAIN q /\ q[Len(r.queue) + k] = es[k] BY <1>1, <1>3, ConcatFacts
  <2> QED BY Zenon, <2>1, <2>2
<1> HIDE DEF q
<1>6. Len(q) \in Nat BY <1>2, <1>3
<1>7. ASSUME over PROVE /\ t \in Seq(JobEvents) /\ Len(t) = JobEventCapacity
                        /\ \A i \in DOMAIN t : \E k \in DOMAIN q : t[i] = q[k]
  <2> DEFINE m == Len(q) - JobEventCapacity + 1
  <2>1. m \in 1..Len(q) + 1 /\ Len(q) \in m - 1..Len(q) BY <1>6, <1>7
  <2>2. /\ t \in Seq(JobEvents) /\ Len(t) = Len(q) - m + 1
        /\ \A i \in 1..Len(q) - m + 1 : t[i] = q[m + i - 1]
    BY <1>2, <2>1, SubSeqProperties
  <2>3. Len(t) = JobEventCapacity BY <1>6, <2>2
  <2>4. DOMAIN t = 1..JobEventCapacity BY Zenon, <2>2, <2>3, LenProperties
  <2>5. ASSUME NEW i \in DOMAIN t PROVE m + i - 1 \in DOMAIN q /\ t[i] = q[m + i - 1]
    BY <1>3, <1>6, <1>7, <2>2, <2>4
  <2> QED BY Zenon, <2>2, <2>3, <2>5
<1>8. /\ new \in Seq(JobEvents) /\ Len(new) <= JobEventCapacity
      /\ \A i \in DOMAIN new : \E k \in DOMAIN q : new[i] = q[k]
  BY <1>2, <1>6, <1>7
<1> HIDE DEF t
<1>9. CASE r.pc \notin {"look", "wait"}
  <2>1. h = r BY Zenon, <1>9 DEF Heard
  <2> QED BY Zenon, <1>9, <2>1
<1>10. CASE r.pc \in {"look", "wait"}
  <2> DEFINE u == [r EXCEPT !.queue = new]
             v == [u EXCEPT !.lagged = r.lagged \/ over]
  <2>1. h = v BY Zenon, <1>10 DEF Heard, q, t, Watches
  <2> HIDE DEF new, over
  <2>2. /\ u \in Watches /\ u.queue = new /\ u.pc = r.pc /\ u.job = r.job /\ u.reply = r.reply
    BY Zenon, <1>8 DEF Watches
  <2>3. (r.lagged \/ over) \in BOOLEAN BY Zenon DEF over
  <2> HIDE DEF u
  <2>4. /\ v \in Watches /\ v.queue = u.queue /\ v.pc = u.pc /\ v.job = u.job /\ v.reply = u.reply
        /\ v.lagged = (r.lagged \/ over)
    BY Zenon, <2>2, <2>3 DEF Watches
  <2> HIDE DEF v, h
  <2>5. h.queue = new /\ h.lagged = (r.lagged \/ over) BY Zenon, <2>1, <2>2, <2>4
  <2>6. h \in Watches /\ Len(h.queue) <= JobEventCapacity BY Zenon, <1>8, <2>1, <2>4, <2>5
  <2>7. h.pc = r.pc /\ h.job = r.job /\ h.reply = r.reply BY Zenon, <2>1, <2>2, <2>4
  <2>8. \A i \in DOMAIN h.queue :
           \/ \E k \in DOMAIN r.queue : h.queue[i] = r.queue[k]
           \/ \E k \in DOMAIN es : h.queue[i] = es[k]
    <3> SUFFICES ASSUME NEW i \in DOMAIN new
                 PROVE  \/ \E k \in DOMAIN r.queue : new[i] = r.queue[k]
                        \/ \E k \in DOMAIN es : new[i] = es[k]
      BY Zenon, <2>5
    <3>1. PICK k \in DOMAIN q : new[i] = q[k] BY Zenon, <1>8
    <3> QED BY Zenon, <1>4, <3>1
  <2>9. ASSUME ~h.lagged
        PROVE  /\ ~r.lagged
               /\ \A k \in DOMAIN r.queue : \E i \in DOMAIN h.queue : h.queue[i] = r.queue[k]
               /\ \A k \in DOMAIN es : \E i \in DOMAIN h.queue : h.queue[i] = es[k]
    <3>1. ~over /\ ~r.lagged BY Zenon, <2>5, <2>9
    <3>2. h.queue = q BY Zenon, <2>5, <3>1 DEF new
    <3> QED BY Zenon, <1>5, <3>1, <3>2
  <2> QED BY Zenon, <2>6, <2>7, <2>8, <2>9 DEF h
<1> QED BY Zenon, <1>9, <1>10

\* Once a job has ended its state is never changed: what agreed with it still does.
LEMMA EmitKeeps ==
    ASSUME JobInv, NEW j \in JobIds, NEW s \in JobStates, NEW kinds \in Seq(JobEventKinds),
           kinds # << >>, ~IsTerminal(jobState[j]), \A i \in DOMAIN kinds : Agrees(kinds[i], s),
           jobState' = [jobState EXCEPT ![j] = s], Emit(j, kinds), reports' \in 0..MaxReports
    PROVE  JobInv'
<1> DEFINE es == [i \in DOMAIN kinds |-> [job |-> j, kind |-> kinds[i]]]
<1>1. Len(kinds) \in Nat /\ DOMAIN kinds = 1..Len(kinds) /\ Len(kinds) # 0 BY Zenon, LenProperties, EmptySeq
<1>2. \A i \in DOMAIN kinds : kinds[i] \in JobEventKinds BY Zenon, <1>1, ElementOfSeq
<1>3. es \in [1..Len(kinds) -> JobEvents] BY Zenon, <1>1, <1>2 DEF JobEvents
<1>4. es \in Seq(JobEvents) /\ Len(es) = Len(kinds) /\ DOMAIN es = DOMAIN kinds
  BY Zenon, <1>1, <1>3, FunctionIsSeq
<1>5. \A i \in DOMAIN es : es[i].job = j /\ es[i].kind = kinds[i] BY Zenon, <1>4
<1>6. jobState' \in [JobIds -> JobStates] /\ jobState'[j] = s /\ \A k \in JobIds : k # j => jobState'[k] = jobState[k]
  BY Zenon DEF JobInv
<1>7. watch' = [w \in Watchers |-> Heard(watch[w], es)] BY Zenon DEF Emit
<1> HIDE DEF es
<1>8. \A k, kind : Agrees(kind, jobState[k]) /\ k \in JobIds => Agrees(kind, jobState'[k])
  BY Zenon, <1>6 DEF Agrees, IsTerminal
<1>9. ASSUME NEW w \in Watchers PROVE WatchOK(watch'[w], jobState')
  <2> DEFINE r == watch[w]
             h == Heard(r, es)
  <2>1. watch'[w] = h BY Zenon, <1>7
  <2>2. WatchOK(r, jobState) BY Zenon DEF JobInv
  <2> HIDE DEF r
  <2>3. r \in Watches /\ Len(r.queue) <= JobEventCapacity BY Zenon, <2>2 DEF WatchOK
  <2>4. /\ h \in Watches /\ Len(h.queue) <= JobEventCapacity
        /\ h.pc = r.pc /\ h.job = r.job /\ h.reply = r.reply
        /\ \A i \in DOMAIN h.queue :
              \/ \E k \in DOMAIN r.queue : h.queue[i] = r.queue[k]
              \/ \E k \in DOMAIN es : h.queue[i] = es[k]
        /\ r.pc = "wait" /\ ~h.lagged =>
              /\ ~r.lagged
              /\ \A k \in DOMAIN r.queue : \E i \in DOMAIN h.queue : h.queue[i] = r.queue[k]
              /\ \A k \in DOMAIN es : \E i \in DOMAIN h.queue : h.queue[i] = es[k]
    BY Zenon, <1>4, <2>3, HeardFacts
  <2> HIDE DEF h
  <2>5. r.queue \in Seq(JobEvents) BY Zenon, <2>3 DEF Watches
  <2>6. \A i \in DOMAIN r.queue : r.queue[i].job \in JobIds
    <3>1. \A i \in DOMAIN r.queue : r.queue[i] \in JobEvents BY Zenon, <2>5, LenProperties, ElementOfSeq
    <3> QED BY Zenon, <3>1 DEF JobEvents
  <2>7. \A i \in DOMAIN h.queue : Agrees(h.queue[i].kind, jobState'[h.queue[i].job])
    <3> SUFFICES ASSUME NEW i \in DOMAIN h.queue PROVE Agrees(h.queue[i].kind, jobState'[h.queue[i].job])
      BY Zenon
    <3>1. CASE \E k \in DOMAIN r.queue : h.queue[i] = r.queue[k]
      BY Zenon, <1>8, <2>2, <2>6, <3>1 DEF WatchOK
    <3>2. CASE \E k \in DOMAIN es : h.queue[i] = es[k]
      BY <1>4, <1>5, <1>6, <3>2
    <3> QED BY Zenon, <2>4, <3>1, <3>2
  <2>8. IF h.pc = "off" THEN h.reply = "none" ELSE h.job \in JobIds BY Zenon, <2>2, <2>4 DEF WatchOK
  <2>9. Agrees(h.reply, jobState'[h.job])
    <3>1. CASE r.pc = "off"
      <4>1. h.reply = "none" BY Zenon, <2>4, <2>8, <3>1
      <4> QED BY Zenon, <4>1 DEF Agrees
    <3>2. CASE r.pc # "off" BY Zenon, <1>8, <2>2, <2>4, <3>2 DEF WatchOK
    <3> QED BY Zenon, <3>1, <3>2
  <2>10. ASSUME h.pc = "wait", IsTerminal(jobState'[h.job]), ~h.lagged
         PROVE  \E i \in DOMAIN h.queue : h.queue[i].job = h.job
    <3>1. /\ ~r.lagged /\ r.pc = "wait"
          /\ \A k \in DOMAIN r.queue : \E i \in DOMAIN h.queue : h.queue[i] = r.queue[k]
          /\ \A k \in DOMAIN es : \E i \in DOMAIN h.queue : h.queue[i] = es[k]
      BY Zenon, <2>4, <2>10
    <3>5. CASE r.job = j
      <4>1. 1 \in DOMAIN es BY <1>1, <1>4
      <4> QED BY <1>5, <2>4, <3>1, <3>5, <4>1
    <3>6. CASE r.job # j
      <4>1. r.job \in JobIds BY Zenon, <2>2, <3>1 DEF WatchOK
      <4>2. IsTerminal(jobState[r.job]) BY Zenon, <1>6, <2>4, <2>10, <3>6, <4>1
      <4>3. PICK k \in DOMAIN r.queue : r.queue[k].job = r.job BY Zenon, <2>2, <3>1, <4>2 DEF WatchOK
      <4> QED BY <2>4, <3>1, <4>3
    <3> QED BY Zenon, <3>5, <3>6
  <2>11. WatchOK(h, jobState') BY Zenon, <2>4, <2>7, <2>8, <2>9, <2>10 DEF WatchOK
  <2> QED BY Zenon, <2>1, <2>11
<1>10. DOMAIN watch' = Watchers /\ watch' = [w \in Watchers |-> watch'[w]] BY Zenon, <1>7
<1> QED BY Zenon, <1>6, <1>9, <1>10 DEF JobInv

\* The job operations: each one that is accepted emits what it did.
LEMMA JobKeeps ==
    ASSUME JobInv, NEW j \in JobIds,
           \/ JobCreate(j) \/ JobStart(j) \/ StartJob(j) \/ JobReport(j)
           \/ JobComplete(j) \/ JobFail(j) \/ JobCancel(j)
    PROVE  JobInv'
<1>1. jobState \in [JobIds -> JobStates] /\ reports \in 0..MaxReports BY Zenon DEF JobInv
<1>2. CASE JobCreate(j)
  <2>1. jobState' = [jobState EXCEPT ![j] = "pending"] /\ UNCHANGED <<reports, watch>> /\ jobState[j] = "none"
    BY Zenon, <1>2 DEF JobCreate
  <2>2. /\ jobState' \in [JobIds -> JobStates] /\ jobState'[j] = "pending"
        /\ \A k \in JobIds : k # j => jobState'[k] = jobState[k]
    BY Zenon, <1>1, <2>1 DEF JobStates
  <2>3. \A k \in JobIds : /\ IsTerminal(jobState'[k]) => IsTerminal(jobState[k])
                         /\ \A kind : Agrees(kind, jobState[k]) => Agrees(kind, jobState'[k])
    BY Zenon, <2>1, <2>2 DEF IsTerminal, Agrees
  <2>4. ASSUME NEW w \in Watchers PROVE WatchOK(watch[w], jobState')
    <3> DEFINE r == watch[w]
    <3>1. WatchOK(r, jobState) BY Zenon DEF JobInv
    <3> HIDE DEF r
    <3>2. r.queue \in Seq(JobEvents) BY Zenon, <3>1 DEF WatchOK, Watches
    <3>3. \A i \in DOMAIN r.queue : r.queue[i] \in JobEvents BY Zenon, <3>2, LenProperties, ElementOfSeq
    <3>4. \A i \in DOMAIN r.queue : r.queue[i].job \in JobIds BY Zenon, <3>3 DEF JobEvents
    <3>5. Agrees(r.reply, jobState'[r.job])
      <4>1. CASE r.pc = "off" BY Zenon, <3>1, <4>1 DEF WatchOK, Agrees
      <4>2. CASE r.pc # "off" BY Zenon, <2>3, <3>1, <4>2 DEF WatchOK
      <4> QED BY Zenon, <4>1, <4>2
    <3>6. \A i \in DOMAIN r.queue : Agrees(r.queue[i].kind, jobState'[r.queue[i].job])
      BY Zenon, <2>3, <3>1, <3>4 DEF WatchOK
    <3>7. WatchOK(r, jobState') BY Zenon, <2>3, <3>1, <3>5, <3>6 DEF WatchOK
    <3> QED BY Zenon, <3>7 DEF r
  <2> QED BY Zenon, <1>1, <2>1, <2>2, <2>4 DEF JobInv
<1>0. {"running", "done", "failed", "cancelled"} \subseteq JobStates
      /\ JobEventKinds = {"running", "report", "done", "failed", "cancelled", "complete", "fail"}
  BY Zenon DEF JobStates, JobEventKinds
<1>3. CASE JobStart(j)
  <2>1. Agrees("running", "running") BY Zenon DEF Agrees
  <2>2. /\ ~IsTerminal(jobState[j]) /\ jobState' = [jobState EXCEPT ![j] = "running"] /\ reports' \in 0..MaxReports
        /\ Emit(j, <<"running">>)
    BY Zenon, <1>1, <1>3 DEF JobStart, IsTerminal
  <2> QED BY Zenon, <1>0, <2>1, <2>2, KindFacts, EmitKeeps
<1>4. CASE StartJob(j)
  <2>1. Agrees("running", "running") BY DEF Agrees
  <2>2. /\ ~IsTerminal(jobState[j]) /\ jobState' = [jobState EXCEPT ![j] = "running"] /\ reports' \in 0..MaxReports
        /\ Emit(j, <<"running">>)
    BY Zenon, <1>1, <1>4 DEF StartJob, IsTerminal
  <2> QED BY Zenon, <1>0, <2>1, <2>2, KindFacts, EmitKeeps
<1>5. CASE JobReport(j)
  <2>1. Agrees("report", "running") BY Zenon DEF Agrees
  <2>2. /\ ~IsTerminal(jobState[j]) /\ jobState' = [jobState EXCEPT ![j] = "running"] /\ reports' \in 0..MaxReports
        /\ Emit(j, <<"report">>)
    BY <1>1, <1>5, JobsAssumption DEF JobReport, IsTerminal
  <2> QED BY Zenon, <1>0, <2>1, <2>2, KindFacts, EmitKeeps
<1>6. CASE JobComplete(j)
  <2>1. Agrees("done", "done") /\ Agrees("complete", "done") BY Zenon DEF Agrees
  <2>2. /\ ~IsTerminal(jobState[j]) /\ jobState' = [jobState EXCEPT ![j] = "done"] /\ reports' \in 0..MaxReports
        /\ Emit(j, <<"done", "complete">>)
    BY Zenon, <1>1, <1>6 DEF JobComplete, IsTerminal
  <2> QED BY Zenon, <1>0, <2>1, <2>2, KindFacts, EmitKeeps
<1>7. CASE JobFail(j)
  <2>1. Agrees("failed", "failed") /\ Agrees("fail", "failed") BY Zenon DEF Agrees
  <2>2. /\ ~IsTerminal(jobState[j]) /\ jobState' = [jobState EXCEPT ![j] = "failed"] /\ reports' \in 0..MaxReports
        /\ Emit(j, <<"failed", "fail">>)
    BY Zenon, <1>1, <1>7 DEF JobFail, IsTerminal
  <2> QED BY Zenon, <1>0, <2>1, <2>2, KindFacts, EmitKeeps
<1>8. CASE JobCancel(j)
  <2>1. Agrees("cancelled", "cancelled") BY Zenon DEF Agrees
  <2>2. /\ ~IsTerminal(jobState[j]) /\ jobState' = [jobState EXCEPT ![j] = "cancelled"] /\ reports' \in 0..MaxReports
        /\ Emit(j, <<"cancelled">>)
    BY Zenon, <1>1, <1>8 DEF JobCancel, IsTerminal
  <2> QED BY Zenon, <1>0, <2>1, <2>2, KindFacts, EmitKeeps
<1> QED BY Zenon, <1>2, <1>3, <1>4, <1>5, <1>6, <1>7, <1>8

\* The calls of job/watch: only the caller's record changes.
LEMMA WatchKeeps ==
    ASSUME JobInv, NEW w \in Watchers,
           \/ \E j \in JobIds : WatchBegin(w, j)
           \/ WatchStep(w)
    PROVE  JobInv'
<1> DEFINE r == watch[w]
<1>1. UNCHANGED <<jobState, reports>>
  BY Zenon DEF WatchBegin, WatchStep, WatchSubscribe, WatchLook, WatchRecv, WatchTimeout
<1>2. WatchOK(r, jobState) BY Zenon DEF JobInv
<1>3. ASSUME NEW q, watch' = [watch EXCEPT ![w] = q], WatchOK(q, jobState) PROVE JobInv'
  <2>1. DOMAIN watch' = Watchers /\ watch' = [v \in Watchers |-> watch'[v]] BY Zenon, <1>3 DEF JobInv
  <2>2. watch'[w] = q /\ \A v \in Watchers : v # w => watch'[v] = watch[v] BY Zenon, <1>3 DEF JobInv
  <2>3. \A v \in Watchers : WatchOK(watch'[v], jobState) BY Zenon, <1>3, <2>2 DEF JobInv
  <2> QED BY Zenon, <1>1, <2>1, <2>3 DEF JobInv
<1>4. << >> \in Seq(JobEvents) /\ DOMAIN << >> = {} /\ Len(<< >>) = 0 /\ 0 <= JobEventCapacity
  BY EmptySeq, JobsAssumption
<1>5. r \in Watches /\ r.queue \in Seq(JobEvents) BY Zenon, <1>2 DEF WatchOK, Watches
<1>6. r.pc # "off" => r.job \in JobIds BY Zenon, <1>2 DEF WatchOK
\* A call that returns what agrees with the job.
<1>7. ASSUME r.pc # "off", NEW reply \in JobReplies, Agrees(reply, jobState[r.job])
      PROVE  WatchOK(Returned(w, reply), jobState)
  <2> DEFINE pc == IF reply \in {"complete", "fail"} THEN "told" ELSE "call"
             q == [pc |-> pc, job |-> r.job, queue |-> << >>, lagged |-> FALSE, reply |-> reply]
  <2>1. Returned(w, reply) = q BY Zenon DEF Returned, Watching
  <2>2. pc \in {"told", "call"} BY Zenon
  <2> HIDE DEF pc
  <2>3. q \in Watches BY Zenon, <1>4, <1>6, <1>7, <2>2 DEF Watches
  <2>4. q.pc = pc /\ q.job = r.job /\ q.queue = << >> /\ q.reply = reply BY Zenon
  <2> HIDE DEF q, r
  <2>5. WatchOK(q, jobState) BY Zenon, <1>4, <1>6, <1>7, <2>2, <2>3, <2>4 DEF WatchOK
  <2> QED BY Zenon, <2>1, <2>5
<1>8. ASSUME NEW j \in JobIds, WatchBegin(w, j) PROVE JobInv'
  <2> DEFINE q == [pc |-> "call", job |-> j, queue |-> << >>, lagged |-> FALSE, reply |-> "none"]
  <2>1. watch' = [watch EXCEPT ![w] = q] BY Zenon, <1>8 DEF WatchBegin, Watching
  <2>2. q \in Watches BY Zenon, <1>4 DEF Watches, JobReplies
  <2>3. q.pc = "call" /\ q.job = j /\ q.queue = << >> /\ q.reply = "none" BY Zenon
  <2> HIDE DEF q
  <2>4. WatchOK(q, jobState) BY Zenon, <1>4, <2>2, <2>3 DEF WatchOK, Agrees
  <2> QED BY Zenon, <1>3, <2>1, <2>4
<1>9. CASE WatchSubscribe(w)
  <2> DEFINE q == [pc |-> "look", job |-> r.job, queue |-> << >>, lagged |-> FALSE, reply |-> r.reply]
  <2>1. watch' = [watch EXCEPT ![w] = q] /\ r.pc = "call" BY Zenon, <1>9 DEF WatchSubscribe, Watching
  <2>2. q \in Watches BY Zenon, <1>4, <1>5 DEF Watches
  <2>3. q.pc = "look" /\ q.job = r.job /\ q.queue = << >> /\ q.reply = r.reply BY Zenon
  <2> HIDE DEF q, r
  <2>4. WatchOK(q, jobState) BY Zenon, <1>2, <1>4, <2>1, <2>2, <2>3 DEF WatchOK
  <2> QED BY Zenon, <1>3, <2>1, <2>4
<1>10. CASE WatchLook(w)
  <2> DEFINE s == jobState[r.job]
             q == [r EXCEPT !.pc = "wait"]
  <2>1. r.pc = "look" BY Zenon, <1>10 DEF WatchLook
  <2>2. s \in JobStates BY Zenon, <1>6, <2>1 DEF JobInv
  <2>3. CASE FinalReply(s) # "none"
    <3>1. watch' = [watch EXCEPT ![w] = Returned(w, FinalReply(s))] BY Zenon, <1>10, <2>3 DEF WatchLook
    <3>2. FinalReply(s) \in JobReplies /\ Agrees(FinalReply(s), s)
      <4> HIDE DEF s
      <4> QED BY Zenon, <2>2 DEF FinalReply, JobReplies, JobEventKinds, Agrees, JobStates
    <3> QED BY Zenon, <1>3, <1>7, <2>1, <3>1, <3>2
  <2>4. CASE FinalReply(s) = "none"
    <3>1. watch' = [watch EXCEPT ![w] = q] BY Zenon, <1>10, <2>4 DEF WatchLook
    <3>2. ~IsTerminal(s)
      <4> HIDE DEF s
      <4> QED BY Zenon, <2>4 DEF FinalReply, IsTerminal
    <3>3. q \in Watches /\ q.pc = "wait" /\ q.job = r.job /\ q.queue = r.queue /\ q.reply = r.reply
      BY Zenon, <1>5 DEF Watches
    <3> HIDE DEF q, r
    <3>4. WatchOK(q, jobState) BY Zenon, <1>2, <2>1, <3>2, <3>3 DEF WatchOK
    <3> QED BY Zenon, <1>3, <3>1, <3>4
  <2> QED BY Zenon, <2>3, <2>4
<1>11. CASE WatchRecv(w)
  <2>1. r.pc = "wait" /\ (r.lagged \/ r.queue # << >>) BY Zenon, <1>11 DEF WatchRecv
  <2>2. CASE r.lagged
    <3>1. watch' = [watch EXCEPT ![w] = Returned(w, "timeout")] BY Zenon, <1>11, <2>2 DEF WatchRecv
    <3>2. "timeout" \in JobReplies /\ Agrees("timeout", jobState[r.job]) BY Zenon DEF JobReplies, Agrees
    <3> QED BY Zenon, <1>3, <1>7, <2>1, <3>1, <3>2
  <2>3. CASE ~r.lagged
    <3> DEFINE e == Head(r.queue)
               t == Tail(r.queue)
    <3>1. /\ r.queue # << >> /\ e \in JobEvents /\ t \in Seq(JobEvents) /\ Len(t) = Len(r.queue) - 1
          /\ Len(r.queue) \in Nat /\ Len(r.queue) # 0
          /\ \A i \in 1..Len(t) : t[i] = r.queue[i + 1]
      BY Zenon, <1>5, <2>1, <2>3, HeadTailProperties, LenProperties, EmptySeq
    <3>2. DOMAIN t = 1..Len(t) /\ DOMAIN r.queue = 1..Len(r.queue) /\ e = r.queue[1]
      BY <1>5, <3>1, LenProperties
    <3>3. 1 \in DOMAIN r.queue BY <3>1, <3>2
    <3>4. Agrees(e.kind, jobState[e.job]) BY Zenon, <1>2, <3>2, <3>3 DEF WatchOK
    <3>5. CASE e.job = r.job
      <4>1. watch' = [watch EXCEPT ![w] = Returned(w, e.kind)] BY Zenon, <1>11, <2>3, <3>5 DEF WatchRecv
      <4>2. e.kind \in JobReplies BY Zenon, <3>1 DEF JobEvents, JobReplies
      <4> QED BY Zenon, <1>3, <1>7, <2>1, <3>4, <3>5, <4>1, <4>2
    <3>6. CASE e.job # r.job
      <4> DEFINE q == [r EXCEPT !.queue = t]
      <4>1. watch' = [watch EXCEPT ![w] = q] BY Zenon, <1>11, <2>3, <3>6 DEF WatchRecv
      <4>2. \A i \in DOMAIN t : i + 1 \in DOMAIN r.queue /\ t[i] = r.queue[i + 1] BY <3>1, <3>2
      <4>3. \A i \in DOMAIN r.queue : i # 1 => i - 1 \in DOMAIN t /\ t[i - 1] = r.queue[i]
        BY <3>1, <3>2
      <4>4. Len(t) <= JobEventCapacity BY <1>2, <3>1, JobsAssumption DEF WatchOK
      <4> HIDE DEF t
      <4>5. /\ q \in Watches /\ q.pc = "wait" /\ q.job = r.job /\ q.queue = t /\ q.reply = r.reply
            /\ q.lagged = r.lagged
        BY Zenon, <1>5, <2>1, <3>1 DEF Watches
      <4> HIDE DEF q, r, e
      <4>6. \A i \in DOMAIN t : Agrees(t[i].kind, jobState[t[i].job]) BY Zenon, <1>2, <4>2 DEF WatchOK
      <4>7. IsTerminal(jobState[r.job]) => \E i \in DOMAIN t : t[i].job = r.job
        <5> SUFFICES ASSUME IsTerminal(jobState[r.job]) PROVE \E i \in DOMAIN t : t[i].job = r.job BY Zenon
        <5>1. PICK i \in DOMAIN r.queue : r.queue[i].job = r.job BY Zenon, <1>2, <2>1, <2>3 DEF WatchOK
        <5>2. i # 1 BY Zenon, <3>2, <3>6, <5>1
        <5> QED BY Zenon, <4>3, <5>1, <5>2
      <4>8. WatchOK(q, jobState) BY Zenon, <1>2, <2>1, <4>4, <4>5, <4>6, <4>7 DEF WatchOK
      <4> QED BY Zenon, <1>3, <4>1, <4>8
    <3> QED BY Zenon, <3>5, <3>6
  <2> QED BY Zenon, <2>2, <2>3
<1>12. CASE WatchTimeout(w)
  <2>1. r.pc = "wait" /\ watch' = [watch EXCEPT ![w] = Returned(w, "timeout")] BY Zenon, <1>12 DEF WatchTimeout
  <2>2. "timeout" \in JobReplies /\ Agrees("timeout", jobState[r.job]) BY DEF JobReplies, Agrees
  <2> QED BY Zenon, <1>3, <1>7, <2>1, <2>2
<1> QED BY Zenon, <1>8, <1>9, <1>10, <1>11, <1>12 DEF WatchStep

LEMMA JobStepInv == JobInv /\ [JobsNext]_jobVars => JobInv'
<1> SUFFICES ASSUME JobInv, [JobsNext]_jobVars PROVE JobInv' BY Zenon
<1>1. CASE JobsNext BY Zenon, <1>1, JobKeeps, WatchKeeps DEF JobsNext
<1>2. CASE UNCHANGED jobVars BY Zenon, <1>2 DEF jobVars, JobInv
<1> QED BY Zenon, <1>1, <1>2

\* A job/watch call never waits for an event that has gone, and whatever an agent
\* was told about the end of its job stays true: for any jobs, watchers, channel
\* capacity and number of reports (JobRegistry, handle_job_watch).
THEOREM WatchersAreTold == JobsSpec => [](JobsTypeOK /\ WatchersHearTheTruth)
BY JobInvGives, JobInitInv, JobStepInv, PTL DEF JobsSpec

-----------------------------------------------------------------------------
(* Pipes *)

\* A message put at the end of the queue is the last one taken.
LEMMA PushTakes ==
    ASSUME NEW S, NEW a \in Seq(S), NEW b \in Seq(S), NEW m \in S
    PROVE  a \o Append(b, m) = Append(a \o b, m)
<1>1. ASSUME NEW c \in Seq(S), c = Append(b, m), NEW d \in Seq(S), d = a \o b, NEW r \in Seq(S), r = Append(d, m)
      PROVE  a \o c = r
  <2>1. Len(c) = Len(b) + 1 /\ (\A i \in 1..Len(b) : c[i] = b[i]) /\ c[Len(b) + 1] = m
    BY <1>1, AppendProperties
  <2>2. /\ Len(d) = Len(a) + Len(b) /\ Len(a) \in Nat /\ Len(b) \in Nat
        /\ DOMAIN a = 1..Len(a) /\ DOMAIN b = 1..Len(b)
        /\ \A i \in DOMAIN a : d[i] = a[i]
        /\ \A i \in DOMAIN b : d[Len(a) + i] = b[i]
    BY <1>1, ConcatFacts
  <2>3. /\ Len(r) = Len(d) + 1
        /\ \A i \in 1..Len(d) : r[i] = d[i]
        /\ r[Len(d) + 1] = m
    BY <1>1, AppendProperties
  <2>4. ASSUME NEW l \in Seq(S), l = a \o c PROVE l = r
    <3>1. /\ Len(l) = Len(a) + Len(c) /\ DOMAIN c = 1..Len(c)
          /\ \A i \in DOMAIN a : l[i] = a[i]
          /\ \A i \in DOMAIN c : l[Len(a) + i] = c[i]
      BY <2>4, ConcatFacts
    <3>2. Len(l) = Len(r) BY <2>1, <2>2, <2>3, <3>1
    <3>3. ASSUME NEW i \in 1..Len(l) PROVE l[i] = r[i]
      <4>1. CASE i <= Len(a)
        <5>1. i \in 1..Len(a) /\ i \in 1..Len(d) BY <2>2, <4>1
        <5> QED BY Zenon, <2>2, <2>3, <3>1, <5>1
      <4>2. CASE i > Len(a) /\ i <= Len(a) + Len(b)
        <5>0. i - Len(a) \in 1..Len(b) /\ i = Len(a) + (i - Len(a)) BY <2>2, <4>2
        <5>1. PICK k \in 1..Len(b) : i = Len(a) + k BY Zenon, <5>0
        <5>2. k \in 1..Len(c) /\ i \in 1..Len(d) BY <2>1, <2>2, <5>1
        <5>3. l[i] = c[k] BY Zenon, <3>1, <5>1, <5>2
        <5>4. r[i] = b[k] BY Zenon, <2>2, <2>3, <5>1, <5>2
        <5> QED BY Zenon, <2>1, <5>3, <5>4
      <4>3. CASE i = Len(a) + Len(b) + 1
        <5>1. PICK k \in 1..Len(c) : k = Len(b) + 1 BY <2>1, <2>2
        <5>2. i = Len(a) + k /\ i = Len(d) + 1 BY <2>2, <4>3, <5>1
        <5>3. l[i] = c[k] BY Zenon, <3>1, <5>1, <5>2
        <5> QED BY Zenon, <2>1, <2>3, <5>1, <5>2, <5>3
      <4>4. i \in Nat /\ i <= Len(a) + Len(b) + 1 BY <2>1, <2>2, <3>1
      <4> QED BY <2>2, <4>1, <4>2, <4>3, <4>4
    <3> QED BY Zenon, <1>1, <2>4, <3>2, <3>3, SeqEqual
  <2>5. a \o c \in Seq(S) BY Zenon, ConcatProperties
  <2> QED BY Zenon, <2>4, <2>5
<1>2. Append(b, m) \in Seq(S) /\ a \o b \in Seq(S) /\ Append(a \o b, m) \in Seq(S)
  BY Zenon, AppendProperties, ConcatProperties
<1> QED BY Zenon, <1>1, <1>2

\* Reading moves a message from the queue to the log: what was taken is the same.
LEMMA ReadTakes ==
    ASSUME NEW S, NEW a \in Seq(S), NEW b \in Seq(S), b # << >>
    PROVE  Append(a, Head(b)) \o Tail(b) = a \o b
<1>1. ASSUME NEW h \in S, h = Head(b), NEW t \in Seq(S), t = Tail(b), NEW c \in Seq(S), c = Append(a, h),
             NEW r \in Seq(S), r = a \o b
      PROVE  c \o t = r
  <2>1. /\ Len(t) = Len(b) - 1 /\ h = b[1] /\ Len(b) \in Nat /\ Len(b) # 0
        /\ \A i \in 1..Len(t) : t[i] = b[i + 1]
    BY Zenon, <1>1, HeadTailProperties, LenProperties, EmptySeq
  <2>2. /\ Len(r) = Len(a) + Len(b) /\ Len(a) \in Nat
        /\ DOMAIN a = 1..Len(a) /\ DOMAIN b = 1..Len(b)
        /\ \A i \in DOMAIN a : r[i] = a[i]
        /\ \A i \in DOMAIN b : r[Len(a) + i] = b[i]
    BY <1>1, ConcatFacts
  <2>3. Len(c) = Len(a) + 1 /\ (\A i \in 1..Len(a) : c[i] = a[i]) /\ c[Len(a) + 1] = h
    BY <1>1, AppendProperties
  <2>4. ASSUME NEW l \in Seq(S), l = c \o t PROVE l = r
    <3>1. /\ Len(l) = Len(c) + Len(t) /\ DOMAIN c = 1..Len(c) /\ DOMAIN t = 1..Len(t)
          /\ \A i \in DOMAIN c : l[i] = c[i]
          /\ \A i \in DOMAIN t : l[Len(c) + i] = t[i]
      BY <2>4, ConcatFacts
    <3>2. Len(l) = Len(r) BY <2>1, <2>2, <2>3, <3>1
    <3>3. ASSUME NEW i \in 1..Len(l) PROVE l[i] = r[i]
      <4>1. CASE i <= Len(a)
        <5>1. i \in 1..Len(a) /\ i \in 1..Len(c) BY <2>2, <2>3, <4>1
        <5> QED BY Zenon, <2>2, <2>3, <3>1, <5>1
      <4>2. CASE i = Len(a) + 1
        <5>1. l[i] = h BY <2>2, <2>3, <3>1, <4>2
        <5>2. 1 \in DOMAIN b BY <2>1, <2>2
        <5>3. r[i] = b[1] BY Zenon, <2>2, <4>2, <5>2
        <5> QED BY Zenon, <2>1, <5>1, <5>3
      <4>3. CASE i > Len(a) + 1
        <5>0. i - Len(c) \in 1..Len(t) /\ i = Len(c) + (i - Len(c)) BY <2>1, <2>2, <2>3, <3>1, <4>3
        <5>1. PICK k \in 1..Len(t) : i = Len(c) + k BY Zenon, <5>0
        <5>2. k + 1 \in DOMAIN b /\ i = Len(a) + (k + 1) BY <2>1, <2>2, <2>3, <5>1
        <5>3. l[i] = t[k] BY Zenon, <3>1, <5>1
        <5>4. r[i] = b[k + 1] BY Zenon, <2>2, <5>2
        <5> QED BY Zenon, <2>1, <5>3, <5>4
      <4> QED BY <2>2, <4>1, <4>2, <4>3
    <3> QED BY Zenon, <1>1, <2>4, <3>2, <3>3, SeqEqual
  <2>5. c \o t \in Seq(S) BY Zenon, <1>1, ConcatProperties
  <2> QED BY Zenon, <2>4, <2>5
<1>2. Head(b) \in S /\ Tail(b) \in Seq(S) BY Zenon, HeadTailProperties
<1>3. Append(a, Head(b)) \in Seq(S) /\ a \o b \in Seq(S) BY Zenon, <1>2, AppendProperties, ConcatProperties
<1> QED BY Zenon, <1>1, <1>2, <1>3

PipeRecords == [state : {"none", "listed", "removed"}, closed : BOOLEAN,
                dir : PipeDirections, policy : PipePolicies]

CallSteps == {"idle", "write", "push", "blocked", "read", "found", "close", "remove", "signal", "gone"}

Counts == [n : 0..MaxWrites, ok : SUBSET (1..MaxWrites)]

PipeType ==
    /\ pipe \in PipeRecords /\ chan \in Seq(PipeMsgs) /\ Len(chan) <= PipeCapacity
    /\ step \in [PipeCalls -> CallSteps] /\ written \in [Ends -> Counts] /\ readLog \in Seq(PipeMsgs)
    /\ sigpipes \in [Ends -> Nat]

\* e has numbered a message that the queue has not taken or refused yet.
Writing(e) == step[<<e, "tool">>] \in {"write", "push", "blocked"}

\* The numbers given out: a message being written has the last one, which
\* nothing taken or answered has.
NumberInv ==
    /\ \A i \in DOMAIN Taken : Taken[i].n <= written[Taken[i].from].n
    /\ \A e \in Ends : \A n \in written[e].ok : n <= written[e].n
    /\ \A e \in Ends : Writing(e) =>
          /\ written[e].n >= 1 /\ written[e].n \notin written[e].ok
          /\ \A i \in DOMAIN Taken : Taken[i].from = e => Taken[i].n # written[e].n

\* Before it is opened the pipe is unused.
UnusedInv ==
    pipe.state = "none" => /\ Taken = << >>
                           /\ \A e \in Ends : written[e].ok = {} /\ step[<<e, "tool">>] = "idle"

Gone(c) == IF step[c] = "gone" THEN 1 ELSE 0

\* A close that has signalled its partner is over.
SignalInv ==
    \A e \in Ends : sigpipes[e] <= Gone(<<Other(e), "tool">>) + Gone(<<Other(e), "exit">>)

PipeInv == PipeType /\ NumberInv /\ UnusedInv /\ SignalInv /\ NothingLostOrReordered

LEMMA PipeTypes == PipeInv => PipesTypeOK
<1> SUFFICES ASSUME PipeInv PROVE PipesTypeOK BY Zenon
<1>1. \A e \in Ends : sigpipes[e] \in 0..2
  <2> SUFFICES ASSUME NEW e \in Ends PROVE sigpipes[e] \in 0..2 BY Zenon
  <2>1. sigpipes[e] \in Nat /\ sigpipes[e] <= Gone(<<Other(e), "tool">>) + Gone(<<Other(e), "exit">>)
    BY Zenon DEF PipeInv, PipeType, SignalInv
  <2>2. \A c : Gone(c) \in {0, 1} BY Zenon DEF Gone
  <2> QED BY <2>1, <2>2
<1> QED BY Zenon, <1>1 DEF PipeInv, PipeType, PipesTypeOK, PipeRecords, CallSteps, Counts

LEMMA PipeInitInv == PipesInit => PipeInv
<1> SUFFICES ASSUME PipesInit PROVE PipeInv OBVIOUS
<1> USE PipesAssumption DEF PipesInit
<1>1. << >> \in Seq(PipeMsgs) /\ Len(<< >>) = 0 /\ DOMAIN << >> = {} BY EmptySeq
<1>2. Taken = << >>
  <2>1. << >> \o << >> = << >> OBVIOUS
  <2> QED BY Zenon, <2>1 DEF Taken
<1>3. PipeType
  <2>1. pipe \in PipeRecords BY Zenon DEF PipeRecords, PipeDirections, PipePolicies
  <2>2. step \in [PipeCalls -> CallSteps] BY Zenon DEF CallSteps
  <2>3. written \in [Ends -> Counts] BY DEF Counts
  <2> QED BY <1>1, <2>1, <2>2, <2>3 DEF PipeType
<1>4. \A e \in Ends : written[e].n = 0 /\ written[e].ok = {} /\ step[<<e, "tool">>] = "idle" /\ sigpipes[e] = 0
  BY Zenon DEF PipeCalls
<1>5. NumberInv BY Zenon, <1>1, <1>2, <1>4 DEF NumberInv, Writing
<1>6. UnusedInv BY Zenon, <1>2, <1>4 DEF UnusedInv
<1>7. SignalInv BY <1>4 DEF SignalInv, Gone
<1>8. NothingLostOrReordered BY Zenon, <1>1, <1>2, <1>4 DEF NothingLostOrReordered
<1> QED BY Zenon, <1>3, <1>5, <1>6, <1>7, <1>8 DEF PipeInv

LEMMA StepMoves ==
    ASSUME step \in [PipeCalls -> CallSteps], NEW c \in PipeCalls, NEW pc \in CallSteps, Goto(c, pc)
    PROVE  /\ step' \in [PipeCalls -> CallSteps] /\ step'[c] = pc
           /\ \A d \in PipeCalls : d # c => step'[d] = step[d]
BY Zenon DEF Goto

LEMMA CallFacts ==
    /\ \A e \in Ends : <<e, "tool">> \in PipeCalls /\ <<e, "exit">> \in PipeCalls
    /\ \A e, f \in Ends : <<e, "tool">> = <<f, "tool">> => e = f
    /\ \A e \in Ends : Other(e) \in Ends /\ Other(Other(e)) = e
    /\ \A c \in PipeCalls : c[1] \in Ends /\ (c = <<c[1], "tool">> \/ c = <<c[1], "exit">>)
BY DEF PipeCalls, Ends, Other

\* Who has gone stays so, and nobody is signalled twice for it.
LEMMA SignalKept ==
    ASSUME PipeInv, sigpipes' = sigpipes, \A c \in PipeCalls : step[c] = "gone" => step'[c] = "gone"
    PROVE  SignalInv'
<1> SUFFICES ASSUME NEW e \in Ends
             PROVE  sigpipes[e] <= Gone(<<Other(e), "tool">>)' + Gone(<<Other(e), "exit">>)'
  BY Zenon DEF SignalInv
<1>1. <<Other(e), "tool">> \in PipeCalls /\ <<Other(e), "exit">> \in PipeCalls BY Zenon, CallFacts
<1>2. \A c \in PipeCalls : Gone(c) <= Gone(c)' /\ Gone(c) \in {0, 1} /\ Gone(c)' \in {0, 1} BY DEF Gone
<1>3. sigpipes[e] \in Nat /\ sigpipes[e] <= Gone(<<Other(e), "tool">>) + Gone(<<Other(e), "exit">>)
  BY Zenon DEF PipeInv, PipeType, SignalInv
<1> QED BY <1>1, <1>2, <1>3

\* A step that numbers, takes and answers no message.
LEMMA QuietKeeps ==
    ASSUME PipeInv, Taken' = Taken, written' = written, pipe'.policy = pipe.policy,
           pipe'.state = "none" => pipe.state = "none" /\ \A e \in Ends : step'[<<e, "tool">>] = "idle",
           \A e \in Ends : Writing(e)' => Writing(e)
    PROVE  NumberInv' /\ UnusedInv' /\ NothingLostOrReordered'
<1>1. NumberInv' BY Zenon DEF PipeInv, NumberInv
<1>2. UnusedInv' BY Zenon DEF PipeInv, UnusedInv
<1>3. NothingLostOrReordered' BY DEF PipeInv, NothingLostOrReordered
<1> QED BY Zenon, <1>1, <1>2, <1>3

\* The message e is writing is answered Ok: it is taken or, under drop, lost.
LEMMA AnswerKeeps ==
    ASSUME PipeInv, NEW e \in Ends, Writing(e), ~Writing(e)', \A f \in Ends : f # e => (Writing(f)' => Writing(f)),
           pipe' = pipe, written' = [written EXCEPT ![e].ok = @ \cup {written[e].n}],
           \/ Taken' = Append(Taken, Message(e))
           \/ Taken' = Taken /\ pipe.policy = "drop"
    PROVE  written' \in [Ends -> Counts] /\ NumberInv' /\ UnusedInv' /\ NothingLostOrReordered'
<1> DEFINE m == Message(e)
           n == written[e].n
           T == Taken
           U == Taken'
<1>0. PipeType /\ NumberInv /\ UnusedInv /\ NothingLostOrReordered BY Zenon DEF PipeInv
<1>1. written \in [Ends -> Counts] /\ \A f \in Ends : written[f].n \in 0..MaxWrites /\ written[f].ok \subseteq 1..MaxWrites
  BY Zenon, <1>0 DEF PipeType, Counts
<1>2. n \in 1..MaxWrites /\ n \notin written[e].ok /\ \A i \in DOMAIN T : T[i].from = e => T[i].n # n
  BY <1>0, <1>1, PipesAssumption DEF NumberInv
<1>3. m \in PipeMsgs /\ m.from = e /\ m.n = n BY Zenon, <1>2 DEF PipeMsgs, Message
<1>4. /\ written' \in [Ends -> Counts]
      /\ written'[e].ok = written[e].ok \cup {n} /\ \A f \in Ends : written'[f].n = written[f].n
      /\ \A f \in Ends : f # e => written'[f].ok = written[f].ok
  BY Zenon, <1>1, <1>2 DEF Counts
<1>5. T \in Seq(PipeMsgs) BY Zenon, <1>0, ConcatProperties DEF PipeType, Taken
<1>6. Len(T) \in Nat /\ DOMAIN T = 1..Len(T) /\ \A i \in DOMAIN T : T[i] \in PipeMsgs
  BY Zenon, <1>5, LenProperties, ElementOfSeq
<1>7. \A i \in DOMAIN T : T[i].from \in Ends /\ T[i].n \in 1..MaxWrites /\ T[i] = [from |-> T[i].from, n |-> T[i].n]
  BY Zenon, <1>6 DEF PipeMsgs
<1>8. pipe.state # "none" BY Zenon, <1>0 DEF UnusedInv, Writing
<1>9. UnusedInv' BY Zenon, <1>8 DEF UnusedInv
\* What is taken afterwards is what was taken before and, perhaps, m after it.
<1>10. \A i \in DOMAIN U :
           \/ i \in DOMAIN T /\ U[i] = T[i]
           \/ i \notin DOMAIN T /\ U[i] = m /\ \A k \in DOMAIN T : k < i
  <2>1. CASE U = T BY Zenon, <2>1
  <2>2. CASE U = Append(T, m)
    <3>1. /\ U \in Seq(PipeMsgs) /\ Len(U) = Len(T) + 1 /\ U[Len(T) + 1] = m
          /\ \A i \in 1..Len(T) : U[i] = T[i]
      BY <1>3, <1>5, <2>2, AppendProperties
    <3>2. DOMAIN U = 1..(Len(T) + 1) BY Zenon, <3>1, LenProperties
    <3>3. \A i \in DOMAIN U : i \in DOMAIN T \/ (i = Len(T) + 1 /\ i \notin DOMAIN T) BY <1>6, <3>2
    <3>4. \A k \in DOMAIN T : k < Len(T) + 1 BY <1>6
    <3> QED BY Zenon, <1>6, <3>1, <3>3, <3>4
  <2> QED BY Zenon, <2>1, <2>2
<1>11. \A i \in DOMAIN T : i \in DOMAIN U /\ U[i] = T[i]
  <2>1. CASE U = T BY Zenon, <2>1
  <2>2. CASE U = Append(T, m)
    <3>1. /\ U \in Seq(PipeMsgs) /\ Len(U) = Len(T) + 1
          /\ \A i \in 1..Len(T) : U[i] = T[i]
      BY <1>3, <1>5, <2>2, AppendProperties
    <3>2. DOMAIN U = 1..(Len(T) + 1) BY Zenon, <3>1, LenProperties
    <3> QED BY <1>6, <3>1, <3>2
  <2> QED BY Zenon, <2>1, <2>2
<1>12. pipe.policy # "drop" => \E i \in DOMAIN U : U[i] = m
  <2> SUFFICES ASSUME U = Append(T, m) PROVE \E i \in DOMAIN U : U[i] = m BY Zenon
  <2>1. U \in Seq(PipeMsgs) /\ Len(U) = Len(T) + 1 /\ U[Len(T) + 1] = m BY <1>3, <1>5, AppendProperties
  <2>2. Len(T) + 1 \in DOMAIN U BY <1>6, <2>1, LenProperties
  <2> QED BY Zenon, <2>1, <2>2
<1> HIDE DEF m, n, T, U
<1>13. NumberInv'
  <2>1. \A i \in DOMAIN U : U[i].n <= written'[U[i].from].n
    <3> SUFFICES ASSUME NEW i \in DOMAIN U PROVE U[i].n <= written'[U[i].from].n BY Zenon
    <3>1. CASE i \in DOMAIN T /\ U[i] = T[i]
      <4>1. T[i].n <= written[T[i].from].n BY Zenon, <1>0, <3>1 DEF NumberInv, T
      <4> QED BY <1>4, <1>7, <3>1, <4>1
    <3>2. CASE U[i] = m
      <4>1. written'[e].n = n BY Zenon, <1>4 DEF n
      <4> QED BY <1>2, <1>3, <3>2, <4>1
    <3> QED BY Zenon, <1>10, <3>1, <3>2
  <2>2. ASSUME NEW f \in Ends, NEW k \in written'[f].ok PROVE k <= written'[f].n
    <3>1. k \in written[f].ok \/ (f = e /\ k = n) BY Zenon, <1>4, <2>2
    <3>2. CASE k \in written[f].ok BY Zenon, <1>0, <1>4, <3>2 DEF NumberInv
    <3>3. CASE f = e /\ k = n BY <1>2, <1>4, <3>3 DEF n
    <3> QED BY Zenon, <3>1, <3>2, <3>3
  <2>3. ASSUME NEW f \in Ends, Writing(f)'
        PROVE  /\ written'[f].n >= 1 /\ written'[f].n \notin written'[f].ok
               /\ \A i \in DOMAIN U : U[i].from = f => U[i].n # written'[f].n
    <3>1. f # e /\ Writing(f) BY Zenon, <2>3
    <3>2. /\ written[f].n >= 1 /\ written[f].n \notin written[f].ok
          /\ \A i \in DOMAIN T : T[i].from = f => T[i].n # written[f].n
      BY Zenon, <1>0, <3>1 DEF NumberInv, T
    <3>3. written'[f].n = written[f].n /\ written'[f].ok = written[f].ok BY Zenon, <1>4, <3>1
    <3> QED BY Zenon, <1>3, <1>10, <3>1, <3>2, <3>3
  <2> QED BY Zenon, <2>1, <2>2, <2>3 DEF NumberInv, U
<1>14. \A i, j \in DOMAIN U : i < j /\ U[i].from = U[j].from => U[i].n < U[j].n
  <2> SUFFICES ASSUME NEW i \in DOMAIN U, NEW j \in DOMAIN U, i < j, U[i].from = U[j].from PROVE U[i].n < U[j].n
    BY Zenon
  <2>1. CASE i \in DOMAIN T /\ j \in DOMAIN T
    <3>1. U[i] = T[i] /\ U[j] = T[j] BY Zenon, <1>11, <2>1
    <3> QED BY Zenon, <1>0, <2>1, <3>1 DEF NothingLostOrReordered, T
  <2>2. CASE i \in DOMAIN T /\ j \notin DOMAIN T
    <3>1. U[i] = T[i] /\ U[j] = m BY Zenon, <1>10, <2>2
    <3>2. T[i].from = e BY Zenon, <1>3, <3>1
    <3>3. T[i].n <= n BY Zenon, <1>0, <2>2, <3>2 DEF NumberInv, T, n
    <3>4. T[i].n # n BY Zenon, <1>2, <2>2, <3>2
    <3> QED BY <1>2, <1>3, <1>7, <2>2, <3>1, <3>3, <3>4
  <2>3. CASE i \notin DOMAIN T
    <3>1. j \notin DOMAIN T
      <4> SUFFICES ASSUME j \in DOMAIN T PROVE FALSE BY Zenon
      <4>1. j < i BY Zenon, <1>10, <2>3
      <4>2. i \in Int /\ j \in Int
        <5>1. U \in Seq(PipeMsgs) BY SMTT(30), <1>3, <1>5, AppendProperties DEF T, U, m
        <5>2. DOMAIN U = 1..Len(U) /\ Len(U) \in Nat BY Zenon, <5>1, LenProperties
        <5> QED BY <5>2
      <4> QED BY <4>1, <4>2
    <3>2. U \in Seq(PipeMsgs) /\ (U = T \/ Len(U) = Len(T) + 1) BY <1>3, <1>5, AppendProperties DEF T, U, m
    <3>3. DOMAIN U = 1..Len(U) BY Zenon, <3>2, LenProperties
    <3>4. Len(U) \in Nat BY Zenon, <3>2, LenProperties
    <3>5. i \in 1..Len(U) /\ j \in 1..Len(U) /\ i \notin 1..Len(T) /\ j \notin 1..Len(T)
      BY Zenon, <1>6, <2>3, <3>1, <3>3
    <3>6. U # T BY Zenon, <2>3
    <3>7. i = Len(T) + 1 /\ j = Len(T) + 1 BY <1>6, <3>2, <3>4, <3>5, <3>6
    <3> QED BY <1>6, <3>7
  <2> QED BY Zenon, <2>1, <2>2, <2>3
<1>15. ASSUME NEW f \in Ends,
              NEW K, K = {k \in 1..MaxWrites : \E i \in DOMAIN T : T[i] = [from |-> f, n |-> k]},
              NEW L, L = {k \in 1..MaxWrites : \E i \in DOMAIN U : U[i] = [from |-> f, n |-> k]}
       PROVE  IF pipe.policy = "drop" THEN L \subseteq written'[f].ok ELSE L = written'[f].ok
  <2>1. IF pipe.policy = "drop" THEN K \subseteq written[f].ok ELSE K = written[f].ok
    BY Zenon, <1>0, <1>15 DEF NothingLostOrReordered, T
  <2>2. K \subseteq L BY Zenon, <1>11, <1>15
  <2>3. \A k \in L : k \in K \/ (f = e /\ k = n)
    <3> SUFFICES ASSUME NEW k \in L PROVE k \in K \/ (f = e /\ k = n) BY Zenon
    <3>1. PICK i \in DOMAIN U : U[i] = [from |-> f, n |-> k] BY Zenon, <1>15
    <3>2. CASE i \in DOMAIN T /\ U[i] = T[i] BY Zenon, <1>15, <3>1, <3>2
    <3>3. CASE U[i] = m
      <4>1. m.from = f /\ m.n = k BY <3>1, <3>3
      <4> QED BY Zenon, <1>3, <4>1
    <3> QED BY Zenon, <1>10, <3>2, <3>3
  <2>4. written[f].ok \subseteq written'[f].ok /\ (f = e => n \in written'[f].ok)
        /\ \A k \in written'[f].ok : k \in written[f].ok \/ (f = e /\ k = n)
    BY Zenon, <1>4
  <2>5. pipe.policy # "drop" /\ f = e => n \in L
    <3>1. m = [from |-> e, n |-> n] BY Zenon DEF m, n, Message
    <3> QED BY Zenon, <1>2, <1>12, <1>15, <3>1
  <2>6. L \subseteq written'[f].ok BY Zenon, <2>1, <2>3, <2>4
  <2>7. pipe.policy # "drop" => written'[f].ok \subseteq L BY Zenon, <2>1, <2>2, <2>4, <2>5
  <2>8. pipe.policy # "drop" => L = written'[f].ok BY Zenon, <2>6, <2>7
  <2> QED BY Zenon, <2>6, <2>8
<1>16. NothingLostOrReordered'
  <2>1. pipe'.policy = pipe.policy BY Zenon
  <2> QED BY Zenon, <1>14, <1>15, <2>1 DEF NothingLostOrReordered, U, T
<1> QED BY Zenon, <1>4, <1>9, <1>13, <1>16

\* The calls that only move on, and the read.
LEMMA MovesKeep ==
    ASSUME PipeInv, NEW c \in PipeCalls, NEW pc \in CallSteps, Goto(c, pc), step[c] # "gone",
           UNCHANGED <<written, sigpipes>>,
           pipe' \in PipeRecords, pipe'.policy = pipe.policy,
           pipe'.state = "none" => pipe.state = "none",
           \A e \in Ends : c = <<e, "tool">> =>
               /\ pc = "idle" \/ pipe.state # "none"
               /\ pc \in {"write", "push", "blocked"} => Writing(e),
           chan' \in Seq(PipeMsgs), Len(chan') <= PipeCapacity, readLog' \in Seq(PipeMsgs), Taken' = Taken
    PROVE  PipeInv'
<1>1. PipeType /\ UnusedInv BY Zenon DEF PipeInv
<1>2. /\ step' \in [PipeCalls -> CallSteps] /\ step'[c] = pc
      /\ \A d \in PipeCalls : d # c => step'[d] = step[d]
  BY Zenon, <1>1, StepMoves DEF PipeType
<1>3. PipeType' BY Zenon, <1>1, <1>2 DEF PipeType
<1>4. SignalInv' BY Zenon, <1>2, SignalKept
<1>5. \A e \in Ends : Writing(e)' => Writing(e)
  <2> SUFFICES ASSUME NEW e \in Ends, Writing(e)' PROVE Writing(e) BY Zenon
  <2>1. <<e, "tool">> \in PipeCalls BY Zenon, CallFacts
  <2>2. CASE c = <<e, "tool">> BY Zenon, <1>2, <2>2 DEF Writing
  <2>3. CASE c # <<e, "tool">> BY Zenon, <1>2, <2>1, <2>3 DEF Writing
  <2> QED BY Zenon, <2>2, <2>3
<1>6. ASSUME pipe'.state = "none", NEW e \in Ends PROVE step'[<<e, "tool">>] = "idle"
  <2>1. <<e, "tool">> \in PipeCalls BY Zenon, CallFacts
  <2>2. pipe.state = "none" BY Zenon, <1>6
  <2>3. step[<<e, "tool">>] = "idle" BY Zenon, <1>1, <2>2 DEF UnusedInv
  <2>4. CASE c = <<e, "tool">> BY Zenon, <1>2, <2>2, <2>4
  <2>5. CASE c # <<e, "tool">> BY Zenon, <1>2, <2>1, <2>3, <2>5
  <2> QED BY Zenon, <2>4, <2>5
<1>7. NumberInv' /\ UnusedInv' /\ NothingLostOrReordered' BY Zenon, <1>5, <1>6, QuietKeeps
<1> QED BY Zenon, <1>3, <1>4, <1>7 DEF PipeInv

\* The calls of an end that leave the pipe, the queue and the messages alone.
LEMMA CallKeeps ==
    ASSUME PipeInv, NEW e \in Ends,
           \/ WriteCheck(e) \/ ReadLookup(e) \/ ReadTimeout(e)
           \/ CloseLookup(e) \/ EndExits(e) \/ ExitLookup(e)
    PROVE  PipeInv'
<1>1. PipeType /\ UnusedInv BY Zenon DEF PipeInv
<1>2. UNCHANGED <<pipe, chan, written, readLog, sigpipes>>
  BY Zenon DEF WriteCheck, ReadLookup, ReadTimeout, CloseLookup, EndExits, ExitLookup
<1>3. /\ pipe' \in PipeRecords /\ pipe' = pipe /\ chan' \in Seq(PipeMsgs) /\ Len(chan') <= PipeCapacity
      /\ readLog' \in Seq(PipeMsgs) /\ Taken' = Taken
  BY Zenon, <1>1, <1>2 DEF PipeType, Taken
<1>4. ASSUME NEW pc \in CallSteps, Goto(<<e, "exit">>, pc), step[<<e, "exit">>] # "gone" PROVE PipeInv'
  <2>1. <<e, "exit">> \in PipeCalls /\ \A f \in Ends : <<e, "exit">> # <<f, "tool">> BY Zenon, CallFacts
  <2> QED BY Zenon, <1>2, <1>3, <1>4, <2>1, MovesKeep
<1>5. ASSUME NEW pc \in CallSteps, Goto(<<e, "tool">>, pc), step[<<e, "tool">>] # "gone",
             pc = "idle" \/ pipe.state # "none", pc \in {"write", "push", "blocked"} => Writing(e)
      PROVE  PipeInv'
  <2>1. <<e, "tool">> \in PipeCalls /\ \A f \in Ends : <<e, "tool">> = <<f, "tool">> => f = e BY Zenon, CallFacts
  <2> QED BY Zenon, <1>2, <1>3, <1>5, <2>1, MovesKeep
<1>6. CASE WriteCheck(e)
  <2>1. PICK pc \in {"idle", "push"} : Goto(<<e, "tool">>, pc) BY Zenon, <1>6 DEF WriteCheck
  <2>2. step[<<e, "tool">>] = "write" BY Zenon, <1>6 DEF WriteCheck, StepAt
  <2>3. Writing(e) /\ pipe.state # "none" BY Zenon, <1>1, <2>2 DEF Writing, UnusedInv
  <2> QED BY Zenon, <1>5, <2>1, <2>2, <2>3 DEF CallSteps
<1>7. CASE ReadLookup(e)
  <2>1. Goto(<<e, "tool">>, "read") /\ step[<<e, "tool">>] = "idle" /\ pipe.state = "listed"
    BY Zenon, <1>7 DEF ReadLookup, MayCall, StepAt
  <2> QED BY Zenon, <1>5, <2>1 DEF CallSteps
<1>8. CASE ReadTimeout(e)
  <2>1. Goto(<<e, "tool">>, "idle") /\ step[<<e, "tool">>] = "read" BY Zenon, <1>8 DEF ReadTimeout, StepAt
  <2> QED BY Zenon, <1>5, <2>1 DEF CallSteps
<1>9. CASE CloseLookup(e)
  <2>1. Goto(<<e, "tool">>, "close") /\ step[<<e, "tool">>] = "idle" /\ pipe.state = "listed"
    BY Zenon, <1>9 DEF CloseLookup, MayCall, StepAt
  <2> QED BY Zenon, <1>5, <2>1 DEF CallSteps
<1>10. CASE EndExits(e)
  <2>1. PICK pc \in {"found", "gone"} : Goto(<<e, "exit">>, pc) BY Zenon, <1>10 DEF EndExits
  <2>2. step[<<e, "exit">>] = "idle" BY Zenon, <1>10 DEF EndExits, StepAt
  <2> QED BY Zenon, <1>4, <2>1, <2>2 DEF CallSteps
<1>11. CASE ExitLookup(e)
  <2>1. PICK pc \in {"close", "gone"} : Goto(<<e, "exit">>, pc) BY Zenon, <1>11 DEF ExitLookup
  <2>2. step[<<e, "exit">>] = "found" BY Zenon, <1>11 DEF ExitLookup, StepAt
  <2> QED BY Zenon, <1>4, <2>1, <2>2 DEF CallSteps
<1> QED BY Zenon, <1>6, <1>7, <1>8, <1>9, <1>10, <1>11

\* pipe/close: the flag, the map, the signal.
LEMMA CloseKeeps ==
    ASSUME PipeInv, NEW c \in PipeCalls, CloseStep(c)
    PROVE  PipeInv'
<1>1. PipeType /\ UnusedInv /\ SignalInv BY Zenon DEF PipeInv
<1>2. UNCHANGED <<chan, written, readLog>> BY Zenon DEF CloseStep, CloseFlag, CloseRemove, CloseSignal
<1>3. /\ chan' \in Seq(PipeMsgs) /\ Len(chan') <= PipeCapacity
      /\ readLog' \in Seq(PipeMsgs) /\ Taken' = Taken
  BY Zenon, <1>1, <1>2 DEF PipeType, Taken
<1>4. \A e \in Ends : c = <<e, "tool">> => step[c] = "idle" \/ pipe.state # "none"
  BY Zenon, <1>1 DEF UnusedInv
<1>5. CASE CloseFlag(c)
  <2>1. step[c] = "close" /\ pipe' = [pipe EXCEPT !.closed = TRUE] /\ Goto(c, "remove") /\ sigpipes' = sigpipes
    BY Zenon, <1>5 DEF CloseFlag, StepAt
  <2>2. pipe' \in PipeRecords /\ pipe'.policy = pipe.policy /\ pipe'.state = pipe.state
    BY Zenon, <1>1, <2>1 DEF PipeType, PipeRecords
  <2>3. "remove" \in CallSteps BY Zenon DEF CallSteps
  <2>4. \A e \in Ends : c = <<e, "tool">> => pipe.state # "none" BY Zenon, <1>4, <2>1
  <2>5. pipe'.state = "none" => pipe.state = "none" BY Zenon, <2>2
  <2> QED BY Zenon, <1>2, <1>3, <2>1, <2>2, <2>3, <2>4, <2>5, MovesKeep
<1>6. CASE CloseRemove(c)
  <2>1. step[c] = "remove" /\ pipe' = [pipe EXCEPT !.state = "removed"] /\ Goto(c, "signal") /\ sigpipes' = sigpipes
    BY Zenon, <1>6 DEF CloseRemove, StepAt
  <2>2. pipe' \in PipeRecords /\ pipe'.policy = pipe.policy /\ pipe'.state = "removed"
    BY Zenon, <1>1, <2>1 DEF PipeType, PipeRecords
  <2>3. "signal" \in CallSteps BY Zenon DEF CallSteps
  <2>4. \A e \in Ends : c = <<e, "tool">> => pipe.state # "none" BY Zenon, <1>4, <2>1
  <2>5. pipe'.state = "none" => pipe.state = "none" BY Zenon, <2>2
  <2> QED BY Zenon, <1>2, <1>3, <2>1, <2>2, <2>3, <2>4, <2>5, MovesKeep
<1>7. CASE CloseSignal(c)
  <2> DEFINE o == Other(c[1])
  <2>1. step[c] = "signal" /\ pipe' = pipe /\ Goto(c, "gone") /\ sigpipes' = [sigpipes EXCEPT ![o] = @ + 1]
    BY Zenon, <1>7 DEF CloseSignal, StepAt
  <2>2. "gone" \in CallSteps BY Zenon DEF CallSteps
  <2>3. /\ step' \in [PipeCalls -> CallSteps] /\ step'[c] = "gone"
        /\ \A d \in PipeCalls : d # c => step'[d] = step[d]
    BY Zenon, <1>1, <2>1, <2>2, StepMoves DEF PipeType
  <2>4. o \in Ends /\ Other(o) = c[1] /\ (c = <<c[1], "tool">> \/ c = <<c[1], "exit">>) BY Zenon, CallFacts
  <2> HIDE DEF o
  <2>5. /\ sigpipes' \in [Ends -> Nat] /\ sigpipes'[o] = sigpipes[o] + 1
        /\ \A e \in Ends : sigpipes[e] \in Nat /\ (e # o => sigpipes'[e] = sigpipes[e])
    BY <1>1, <2>1, <2>4 DEF PipeType
  <2>6. PipeType' BY Zenon, <1>1, <1>2, <2>1, <2>3, <2>5 DEF PipeType
  <2>7. ASSUME NEW e \in Ends
        PROVE  sigpipes'[e] <= Gone(<<Other(e), "tool">>)' + Gone(<<Other(e), "exit">>)'
    <3> DEFINE t == <<Other(e), "tool">>
               x == <<Other(e), "exit">>
    <3>1. t \in PipeCalls /\ x \in PipeCalls /\ t # x BY Zenon, CallFacts
    <3>2. sigpipes[e] <= Gone(t) + Gone(x) BY Zenon, <1>1 DEF SignalInv
    <3>3. \A d \in PipeCalls : /\ Gone(d) \in {0, 1} /\ Gone(d)' \in {0, 1}
                               /\ d # c => Gone(d)' = Gone(d)
      BY Zenon, <2>3 DEF Gone
    <3>4. Gone(c) = 0 /\ Gone(c)' = 1 BY Zenon, <2>1, <2>3 DEF Gone
    <3>5. e = o => c = t \/ c = x BY Zenon, <2>4
    <3> HIDE DEF t, x
    <3>6. sigpipes'[e] <= Gone(t)' + Gone(x)'
      <4>1. CASE c = t BY <2>5, <3>1, <3>2, <3>3, <3>4, <4>1
      <4>2. CASE c = x BY <2>5, <3>1, <3>2, <3>3, <3>4, <4>2
      <4>3. CASE c # t /\ c # x BY Zenon, <2>5, <3>1, <3>2, <3>3, <3>5, <4>3
      <4> QED BY Zenon, <4>1, <4>2, <4>3
    <3> QED BY Zenon, <3>6 DEF t, x
  <2>8. SignalInv' BY Zenon, <2>7 DEF SignalInv
  <2>9. \A e \in Ends : Writing(e)' => Writing(e)
    <3> SUFFICES ASSUME NEW e \in Ends, Writing(e)' PROVE Writing(e) BY Zenon
    <3>1. <<e, "tool">> \in PipeCalls BY Zenon, CallFacts
    <3> QED BY Zenon, <2>3, <3>1 DEF Writing
  <2>10. ASSUME pipe'.state = "none", NEW e \in Ends PROVE step'[<<e, "tool">>] = "idle"
    <3>1. <<e, "tool">> \in PipeCalls /\ step[<<e, "tool">>] = "idle" BY Zenon, <1>1, <2>1, <2>10, CallFacts DEF UnusedInv
    <3> QED BY Zenon, <2>1, <2>3, <3>1
  <2>11. NumberInv' /\ UnusedInv' /\ NothingLostOrReordered' BY Zenon, <1>2, <1>3, <2>1, <2>9, <2>10, QuietKeeps
  <2> QED BY Zenon, <2>6, <2>8, <2>11 DEF PipeInv
<1> QED BY Zenon, <1>5, <1>6, <1>7 DEF CloseStep

\* pipe/open, pipe/write and the receive of pipe/read.
LEMMA MessageKeeps ==
    ASSUME PipeInv,
           \/ \E cfg \in PipeConfigs : PipeOpen(cfg[1], cfg[2])
           \/ \E e \in Ends : WriteLookup(e) \/ WritePush(e) \/ WriteUnblocked(e) \/ ReadRecv(e)
    PROVE  PipeInv'
<1> USE PipesAssumption
<1>0. PipeType /\ NumberInv /\ UnusedInv /\ SignalInv /\ NothingLostOrReordered BY Zenon DEF PipeInv
<1>1. /\ chan \in Seq(PipeMsgs) /\ readLog \in Seq(PipeMsgs) /\ Len(chan) \in Nat /\ Len(chan) <= PipeCapacity
      /\ written \in [Ends -> Counts] /\ step \in [PipeCalls -> CallSteps]
  BY Zenon, <1>0, LenProperties DEF PipeType
<1>2. \A e \in Ends : <<e, "tool">> \in PipeCalls /\ \A f \in Ends : <<e, "tool">> = <<f, "tool">> => e = f
  BY Zenon, CallFacts
<1>3. ASSUME NEW cfg \in PipeConfigs, PipeOpen(cfg[1], cfg[2]) PROVE PipeInv'
  <2> DEFINE d == cfg[1]
             q == cfg[2]
  <2>1. d \in PipeDirections /\ q \in PipePolicies BY Zenon
  <2>2. /\ pipe.state = "none" /\ pipe' = [state |-> "listed", closed |-> FALSE, dir |-> d, policy |-> q]
        /\ UNCHANGED <<chan, step, written, readLog, sigpipes>>
    BY Zenon, <1>3 DEF PipeOpen
  <2> HIDE DEF d, q
  <2>3. pipe' \in PipeRecords /\ pipe'.state = "listed" BY Zenon, <2>1, <2>2 DEF PipeRecords
  <2>4. PipeType' BY Zenon, <1>0, <2>2, <2>3 DEF PipeType
  <2>5. Taken' = Taken /\ Taken = << >> /\ DOMAIN << >> = {}
    <3>1. Taken' = Taken BY Zenon, <2>2 DEF Taken
    <3>2. Taken = << >> BY Zenon, <1>0, <2>2 DEF UnusedInv
    <3>3. DOMAIN << >> = {} OBVIOUS
    <3> QED BY Zenon, <3>1, <3>2, <3>3
  <2>6. NumberInv' BY Zenon, <1>0, <2>2, <2>5 DEF NumberInv, Writing
  <2>7. UnusedInv' BY Zenon, <2>3 DEF UnusedInv
  <2>8. SignalInv' BY Zenon, <1>0, <2>2 DEF SignalInv, Gone
  <2>9. \A e \in Ends : written'[e].ok = {} BY Zenon, <1>0, <2>2 DEF UnusedInv
  <2>10. NothingLostOrReordered' BY Zenon, <2>5, <2>9 DEF NothingLostOrReordered
  <2> QED BY Zenon, <2>4, <2>6, <2>7, <2>8, <2>10 DEF PipeInv
<1>4. ASSUME NEW e \in Ends, WriteLookup(e) PROVE PipeInv'
  <2>1. /\ step[<<e, "tool">>] = "idle" /\ pipe.state = "listed" /\ Goto(<<e, "tool">>, "write")
        /\ written["source"].n + written["target"].n < MaxWrites
        /\ written' = [written EXCEPT ![e].n = @ + 1] /\ UNCHANGED <<pipe, chan, readLog, sigpipes>>
    BY Zenon, <1>4 DEF WriteLookup, MayCall, StepAt
  <2>2. "write" \in CallSteps BY Zenon DEF CallSteps
  <2>3. /\ step' \in [PipeCalls -> CallSteps] /\ step'[<<e, "tool">>] = "write"
        /\ \A d \in PipeCalls : d # <<e, "tool">> => step'[d] = step[d]
    BY Zenon, <1>1, <1>2, <2>1, <2>2, StepMoves
  <2>4. \A f \in Ends : written[f].n \in 0..MaxWrites /\ written[f].ok \subseteq 1..MaxWrites BY Zenon, <1>1 DEF Counts
  <2>5. written[e].n + 1 \in 1..MaxWrites BY <2>1, <2>4 DEF Ends
  <2>6. /\ written' \in [Ends -> Counts] /\ written'[e].n = written[e].n + 1 /\ written'[e].ok = written[e].ok
        /\ \A f \in Ends : f # e => written'[f] = written[f]
    <3> DEFINE r == [written[e] EXCEPT !.n = written[e].n + 1]
    <3>1. written' = [written EXCEPT ![e] = r] BY Zenon, <2>1
    <3>2. r \in Counts /\ r.n = written[e].n + 1 /\ r.ok = written[e].ok
      <4>1. written[e] \in Counts /\ written[e].n + 1 \in 0..MaxWrites BY <1>1, <2>5
      <4> QED BY Zenon, <4>1 DEF Counts
    <3> HIDE DEF r
    <3> QED BY Zenon, <1>1, <3>1, <3>2
  <2>7. Taken' = Taken BY Zenon, <2>1 DEF Taken
  <2>8. PipeType' BY Zenon, <1>0, <2>1, <2>3, <2>6 DEF PipeType
  <2>9. SignalInv' BY Zenon, <2>1, <2>3, SignalKept
  <2>10. UnusedInv' BY Zenon, <2>1 DEF UnusedInv
  <2>11. NothingLostOrReordered'
    <3>1. \A f \in Ends : written'[f].ok = written[f].ok BY Zenon, <2>6
    <3> QED BY <1>0, <2>1, <2>7, <3>1 DEF NothingLostOrReordered
  <2>12. NumberInv'
    <3> DEFINE T == Taken
    <3>1. T \in Seq(PipeMsgs) BY Zenon, <1>1, ConcatProperties DEF Taken
    <3>2. \A i \in DOMAIN T : T[i] \in PipeMsgs BY Zenon, <3>1, LenProperties, ElementOfSeq
    <3>3. \A i \in DOMAIN T : T[i].from \in Ends /\ T[i].n \in 1..MaxWrites BY Zenon, <3>2 DEF PipeMsgs
    <3>4. \A i \in DOMAIN T : T[i].n <= written[T[i].from].n BY Zenon, <1>0 DEF NumberInv
    <3>5. \A f \in Ends : \A n \in written[f].ok : n <= written[f].n BY Zenon, <1>0 DEF NumberInv
    <3>6. \A f \in Ends : f # e => (Writing(f)' <=> Writing(f)) BY Zenon, <1>2, <2>3 DEF Writing
    <3>7. T' = T BY Zenon, <2>7
    <3> HIDE DEF T
    <3>8. \A i \in DOMAIN T : T[i].n <= written'[T[i].from].n
      <4> SUFFICES ASSUME NEW i \in DOMAIN T PROVE T[i].n <= written'[T[i].from].n BY Zenon
      <4>1. CASE T[i].from = e BY <2>4, <2>6, <3>3, <3>4, <4>1
      <4>2. CASE T[i].from # e BY Zenon, <2>6, <3>3, <3>4, <4>2
      <4> QED BY Zenon, <4>1, <4>2
    <3>9. ASSUME NEW f \in Ends, NEW n \in written'[f].ok PROVE n <= written'[f].n
      <4>1. n \in written[f].ok /\ n \in 1..MaxWrites BY Zenon, <2>4, <2>6, <3>9
      <4>2. n <= written[f].n BY Zenon, <3>5, <4>1
      <4>3. CASE f = e BY <2>4, <2>6, <4>1, <4>2, <4>3
      <4>4. CASE f # e BY Zenon, <2>6, <4>2, <4>4
      <4> QED BY Zenon, <4>3, <4>4
    <3>10. ASSUME NEW f \in Ends, Writing(f)'
           PROVE  /\ written'[f].n >= 1 /\ written'[f].n \notin written'[f].ok
                  /\ \A i \in DOMAIN T : T[i].from = f => T[i].n # written'[f].n
      <4>1. CASE f = e
        <5>1. written'[e].n \notin written'[e].ok
          <6> SUFFICES ASSUME written'[e].n \in written[e].ok PROVE FALSE BY Zenon, <2>6
          <6>1. written[e].n + 1 <= written[e].n BY Zenon, <2>6, <3>5
          <6> QED BY <2>4, <6>1
        <5>2. ASSUME NEW i \in DOMAIN T, T[i].from = e PROVE T[i].n # written'[e].n
          <6>1. T[i].n <= written[e].n /\ T[i].n \in Nat /\ written[e].n \in Nat BY <2>4, <3>3, <3>4, <5>2
          <6> QED BY <2>6, <6>1
        <5> QED BY <2>4, <2>6, <4>1, <5>1, <5>2
      <4>2. CASE f # e
        <5>1. Writing(f) /\ written'[f] = written[f] BY Zenon, <2>6, <3>6, <3>10, <4>2
        <5> QED BY Zenon, <1>0, <5>1 DEF NumberInv, T
      <4> QED BY Zenon, <4>1, <4>2
    <3>11. Taken' = T BY Zenon, <2>7 DEF T
    <3> QED BY Zenon, <3>8, <3>9, <3>10, <3>11 DEF NumberInv
  <2> QED BY Zenon, <2>8, <2>9, <2>10, <2>11, <2>12 DEF PipeInv
\* A message answered Ok, taken or dropped.
<1>5. ASSUME NEW e \in Ends, Writing(e), Goto(<<e, "tool">>, "idle"), UNCHANGED <<pipe, readLog, sigpipes>>,
             written' = [written EXCEPT ![e].ok = @ \cup {written[e].n}],
             \/ Room /\ chan' = Append(chan, Message(e))
             \/ pipe.policy = "drop" /\ chan' = chan
      PROVE  PipeInv'
  <2>1. "idle" \in CallSteps BY Zenon DEF CallSteps
  <2>2. /\ step' \in [PipeCalls -> CallSteps] /\ step'[<<e, "tool">>] = "idle"
        /\ \A d \in PipeCalls : d # <<e, "tool">> => step'[d] = step[d]
    BY Zenon, <1>1, <1>2, <1>5, <2>1, StepMoves
  <2>3. ~Writing(e)' /\ \A f \in Ends : f # e => (Writing(f)' => Writing(f)) BY Zenon, <1>2, <2>2 DEF Writing
  <2>4. Message(e) \in PipeMsgs
    <3>1. written[e].n \in 0..MaxWrites /\ written[e].n >= 1 BY Zenon, <1>0, <1>1, <1>5 DEF NumberInv, Counts
    <3> QED BY <3>1 DEF Message, PipeMsgs
  <2>5. chan' \in Seq(PipeMsgs) /\ Len(chan') <= PipeCapacity
    <3>1. CASE Room /\ chan' = Append(chan, Message(e))
      <4>1. chan' \in Seq(PipeMsgs) /\ Len(chan') = Len(chan) + 1 BY Zenon, <1>1, <2>4, <3>1, AppendProperties
      <4> QED BY <1>1, <3>1, <4>1 DEF Room
    <3>2. CASE chan' = chan BY Zenon, <1>1, <3>2
    <3> QED BY Zenon, <1>5, <3>1, <3>2
  <2>6. \/ Taken' = Append(Taken, Message(e))
        \/ Taken' = Taken /\ pipe.policy = "drop"
    <3>1. CASE chan' = Append(chan, Message(e))
      <4>1. readLog \o chan' = Append(readLog \o chan, Message(e)) BY <1>1, <2>4, <3>1, PushTakes
      <4> QED BY Zenon, <1>5, <4>1 DEF Taken
    <3>2. CASE pipe.policy = "drop" /\ chan' = chan BY Zenon, <1>5, <3>2 DEF Taken
    <3> QED BY Zenon, <1>5, <3>1, <3>2
  <2>7. written' \in [Ends -> Counts] /\ NumberInv' /\ UnusedInv' /\ NothingLostOrReordered'
    BY Zenon, <1>5, <2>3, <2>6, AnswerKeeps
  <2>8. step[<<e, "tool">>] # "gone" BY Zenon, <1>5 DEF Writing
  <2>9. SignalInv' BY Zenon, <1>5, <2>2, <2>8, SignalKept
  <2>10. PipeType' BY Zenon, <1>0, <1>5, <2>2, <2>5, <2>7 DEF PipeType
  <2> QED BY Zenon, <2>7, <2>9, <2>10 DEF PipeInv
<1>6. ASSUME NEW e \in Ends, WritePush(e) PROVE PipeInv'
  <2>1. /\ step[<<e, "tool">>] = "push" /\ UNCHANGED <<pipe, readLog, sigpipes>>
        /\ chan' = IF Room THEN Append(chan, Message(e)) ELSE chan
    BY Zenon, <1>6 DEF WritePush, StepAt
  <2>2. Writing(e) BY Zenon, <2>1 DEF Writing
  <2>3. CASE WriteOk(e) /\ ~(~Room /\ pipe.policy = "block")
    <3>1. /\ Goto(<<e, "tool">>, "idle")
          /\ written' = [written EXCEPT ![e].ok = @ \cup {written[e].n}]
      BY Zenon, <1>6, <2>3 DEF WritePush
    <3>2. \/ Room /\ chan' = Append(chan, Message(e))
          \/ pipe.policy = "drop" /\ chan' = chan
      BY Zenon, <2>1, <2>3 DEF WriteOk
    <3> QED BY Zenon, <1>5, <2>1, <2>2, <3>1, <3>2
  <2>4. CASE ~WriteOk(e) \/ (~Room /\ pipe.policy = "block")
    <3>1. chan' = chan /\ written' = written /\ \E pc \in {"idle", "blocked"} : Goto(<<e, "tool">>, pc)
      BY Zenon, <1>6, <2>1, <2>4 DEF WritePush, WriteOk
    <3>2. PICK pc \in {"idle", "blocked"} : Goto(<<e, "tool">>, pc) BY Zenon, <3>1
    <3>3. pc \in CallSteps BY Zenon DEF CallSteps
    <3>4. pipe.state # "none" BY Zenon, <1>0, <2>1 DEF UnusedInv
    <3>5. \A f \in Ends : <<e, "tool">> = <<f, "tool">> =>
               /\ pc = "idle" \/ pipe.state # "none"
               /\ pc \in {"write", "push", "blocked"} => Writing(f)
      BY Zenon, <1>2, <2>2, <3>4
    <3>6. pipe' \in PipeRecords /\ Taken' = Taken BY Zenon, <1>0, <2>1, <3>1 DEF PipeType, Taken
    <3> QED BY Zenon, <1>1, <1>2, <2>1, <3>1, <3>2, <3>3, <3>5, <3>6, MovesKeep
  <2> QED BY Zenon, <2>3, <2>4
<1>7. ASSUME NEW e \in Ends, WriteUnblocked(e) PROVE PipeInv'
  <2>1. step[<<e, "tool">>] = "blocked" BY Zenon, <1>7 DEF WriteUnblocked, StepAt
  <2>2. Writing(e) BY Zenon, <2>1 DEF Writing
  <2> QED BY Zenon, <1>5, <1>7, <2>2 DEF WriteUnblocked
<1>8. ASSUME NEW e \in Ends, ReadRecv(e) PROVE PipeInv'
  <2>1. /\ step[<<e, "tool">>] = "read" /\ chan # << >> /\ chan' = Tail(chan)
        /\ readLog' = Append(readLog, Head(chan)) /\ Goto(<<e, "tool">>, "idle")
        /\ UNCHANGED <<pipe, written, sigpipes>>
    BY Zenon, <1>8 DEF ReadRecv, StepAt
  <2>2. Head(chan) \in PipeMsgs /\ Tail(chan) \in Seq(PipeMsgs) /\ Len(Tail(chan)) = Len(chan) - 1
    BY Zenon, <1>1, <2>1, HeadTailProperties
  <2>3. chan' \in Seq(PipeMsgs) /\ Len(chan') <= PipeCapacity BY <1>1, <2>1, <2>2
  <2>4. readLog' \in Seq(PipeMsgs) BY Zenon, <1>1, <2>1, <2>2, AppendProperties
  <2>5. Taken' = Taken
    <3>1. Append(readLog, Head(chan)) \o Tail(chan) = readLog \o chan BY Zenon, <1>1, <2>1, ReadTakes
    <3> QED BY Zenon, <2>1, <3>1 DEF Taken
  <2>6. pipe' \in PipeRecords /\ "idle" \in CallSteps BY Zenon, <1>0, <2>1 DEF PipeType, CallSteps
  <2>7. step[<<e, "tool">>] # "gone" /\ pipe'.policy = pipe.policy /\ (pipe'.state = "none" => pipe.state = "none")
    BY Zenon, <2>1
  <2> QED BY ZenonT(30), <1>2, <2>1, <2>3, <2>4, <2>5, <2>6, <2>7, MovesKeep
<1> QED BY Zenon, <1>3, <1>4, <1>6, <1>7, <1>8

LEMMA PipeStepInv == PipeInv /\ [PipesNext]_pipeVars => PipeInv'
<1> SUFFICES ASSUME PipeInv, [PipesNext]_pipeVars PROVE PipeInv' OBVIOUS
<1>1. CASE PipesNext BY Zenon, <1>1, MessageKeeps, CallKeeps, CloseKeeps DEF PipesNext
<1>2. CASE UNCHANGED pipeVars
  <2> USE <1>2 DEF pipeVars, PipeInv
  <2>1. Taken' = Taken BY Zenon DEF Taken
  <2>2. PipeType' /\ NumberInv' BY Zenon, <2>1 DEF PipeType, NumberInv, Writing
  <2>3. UnusedInv' /\ SignalInv' BY Zenon, <2>1 DEF UnusedInv, SignalInv, Gone
  <2>4. NothingLostOrReordered' BY Zenon, <2>1 DEF NothingLostOrReordered
  <2> QED BY Zenon, <2>2, <2>3, <2>4
<1> QED BY <1>1, <1>2

\* A pipe hands on what pipe/write answered Ok, all of it and in order, or under
\* the drop policy some of it in order; its queue keeps to its capacity and its
\* ends are signalled at most twice: for any capacity and number of writes, in
\* every direction and under every policy (Pipe, PipeManager).
THEOREM PipesAreFaithful == PipesSpec => [](PipesTypeOK /\ NothingLostOrReordered)
<1>1. PipeInv => PipesTypeOK /\ NothingLostOrReordered BY Zenon, PipeTypes DEF PipeInv
<1> QED BY <1>1, PipeInitInv, PipeStepInv, PTL DEF PipesSpec

=============================================================================
