----------------------------- MODULE UserProofs -----------------------------
(***************************************************************************)
(* Proofs about what people are asked, shown and told.  HumanInLoop:       *)
(* however resolve calls, the manager's timer and the waiting agents       *)
(* interleave, one client decides a request, and the file says what was    *)
(* announced.  Notices: what a terminal client saved once is in its file   *)
(* ever after.  ClientCore: the interface hears the current connection,    *)
(* and a command gets its own answer.  Tui: the dashboard's loop acts on   *)
(* what is on the screen.  The last three together are UsersSeeTheTruth.   *)
(***************************************************************************)
EXTENDS HumanInLoop, Clients, TLAPS

-----------------------------------------------------------------------------
(* Sequences *)

\* A push at the end.
LEMMA AppendProperties ==
    ASSUME NEW S, NEW q \in Seq(S), NEW e \in S
    PROVE  /\ Append(q, e) \in Seq(S) /\ Append(q, e) # << >>
           /\ Len(Append(q, e)) = Len(q) + 1
           /\ \A i \in 1 .. Len(q) : Append(q, e)[i] = q[i]
           /\ Append(q, e)[Len(q) + 1] = e
OBVIOUS

\* A pop at the front.
LEMMA HeadTailProperties ==
    ASSUME NEW S, NEW q \in Seq(S), q # << >>
    PROVE  /\ Head(q) \in S /\ Head(q) = q[1]
           /\ Tail(q) \in Seq(S) /\ Len(Tail(q)) = Len(q) - 1
           /\ \A i \in 1 .. Len(Tail(q)) : Tail(q)[i] = q[i + 1]
OBVIOUS

-----------------------------------------------------------------------------
(* HumanInLoop: who decides                                                *)

\* The client has consumed the approval token of a request.
Deciding(c) == answer[c].pc \in {"write", "remove", "announce", "ok"}

\* A request is asked about before it has a token or a timer, and its token
\* is used exactly by the one client that decides.
TokenInv ==
    /\ \A h \in HilIds : agent[h] = "idle" => hilFile[h] = "none"
    /\ \A h \in HilIds :
          agent[h] \in {"idle", "insert", "register"} => approval[h] = "none" /\ timer[h] = "off"
    /\ \A c \in Clients :
          answer[c].pc = "consume" \/ Deciding(c)
              => answer[c].hil \in HilIds /\ answer[c].decision \in Decisions
    /\ \A c \in Clients : Deciding(c) => approval[answer[c].hil] = "used"
    /\ \A c, d \in Clients : Deciding(c) /\ Deciding(d) /\ answer[c].hil = answer[d].hil => c = d

\* What is announced came from the timer or from the client that decided,
\* and that client's decision is announced when its call has returned.
AnnouncedInv ==
    /\ \A h \in HilIds : \A o \in announced[h] :
          \/ o[1] = "kernel"
          \/ \E c \in Clients : /\ answer[c].pc = "ok" /\ answer[c].hil = h
                                /\ o = <<c, answer[c].decision>>
    /\ \A c \in Clients :
          answer[c].pc = "ok" => <<c, answer[c].decision>> \in announced[answer[c].hil]

\* An outcome in the file was written by the timer, or by the client that
\* decided and has not yet announced it, or has.
FileInv ==
    \A h \in HilIds :
        /\ hilFile[h] = "timeout" => \/ timer[h] \in {"signal", "announce"}
                                     \/ timer[h] = "done" /\ <<"kernel", "timeout">> \in announced[h]
        /\ hilFile[h] \in Decisions =>
              \E c \in Clients : /\ answer[c].pc \in {"remove", "announce", "ok"}
                                 /\ answer[c].hil = h /\ answer[c].decision = hilFile[h]

HilInv == HilTypeOK /\ TokenInv /\ AnnouncedInv /\ FileInv

-----------------------------------------------------------------------------

LEMMA HilInitInv == HilInit => HilInv
<1> SUFFICES ASSUME HilInit PROVE HilInv BY Zenon
<1> USE DEF HilInit, Silent
<1>1. HilTypeOK BY DEF HilTypeOK
<1>2. TokenInv BY Zenon DEF TokenInv, Deciding
<1>3. AnnouncedInv BY Zenon DEF AnnouncedInv
<1>4. FileInv BY Zenon DEF FileInv, Decisions
<1> QED BY Zenon, <1>1, <1>2, <1>3, <1>4 DEF HilInv

\* The steps of the agent's call.
LEMMA AgentKeeps ==
    ASSUME HilInv, NEW h \in HilIds,
           \/ \E result \in {"granted", "refused"} : RequestSettled(h, result)
           \/ OpenWritesFile(h) \/ AgentStep(h)
    PROVE  HilInv'
<1> USE DEF HilInv
<1>1. ASSUME NEW result \in {"granted", "refused"}, RequestSettled(h, result) PROVE HilInv'
  <2> USE <1>1 DEF RequestSettled
  <2>1. HilTypeOK' BY Zenon DEF HilTypeOK
  <2>2. TokenInv' BY DEF TokenInv, Deciding, HilTypeOK
  <2>3. AnnouncedInv' BY DEF AnnouncedInv
  <2>4. FileInv' BY DEF FileInv
  <2> QED BY Zenon, <2>1, <2>2, <2>3, <2>4
<1>2. CASE OpenWritesFile(h)
  <2> USE <1>2 DEF OpenWritesFile
  <2>1. HilTypeOK' BY Zenon DEF HilTypeOK
  <2>2. TokenInv' BY DEF TokenInv, Deciding, HilTypeOK
  <2>3. AnnouncedInv' BY DEF AnnouncedInv
  <2>4. FileInv' BY DEF FileInv, HilTypeOK, Decisions
  <2> QED BY Zenon, <2>1, <2>2, <2>3, <2>4
<1>3. CASE OpenInserts(h)
  <2> USE <1>3 DEF OpenInserts
  <2>1. HilTypeOK' BY Zenon DEF HilTypeOK
  <2>2. TokenInv' BY DEF TokenInv, Deciding, HilTypeOK
  <2>3. AnnouncedInv' BY DEF AnnouncedInv
  <2>4. FileInv' BY DEF FileInv
  <2> QED BY Zenon, <2>1, <2>2, <2>3, <2>4
<1>4. CASE OpenRegisters(h)
  <2> USE <1>4 DEF OpenRegisters
  <2>1. HilTypeOK' BY Zenon DEF HilTypeOK
  <2>2. TokenInv' BY DEF TokenInv, Deciding, HilTypeOK
  <2>3. AnnouncedInv' BY DEF AnnouncedInv
  <2>4. FileInv' BY DEF FileInv, TokenInv, HilTypeOK
  <2> QED BY Zenon, <2>1, <2>2, <2>3, <2>4
<1>5. CASE Subscribe(h) \/ WaitTimesOut(h)
  <2> USE <1>5 DEF Subscribe, WaitTimesOut
  <2>1. HilTypeOK' BY ZenonT(30) DEF HilTypeOK
  <2>2. TokenInv' BY DEF TokenInv, Deciding, HilTypeOK
  <2>3. AnnouncedInv' BY DEF AnnouncedInv
  <2>4. FileInv' BY DEF FileInv
  <2> QED BY Zenon, <2>1, <2>2, <2>3, <2>4
<1>6. CASE WaitRecv(h)
  <2> USE <1>6 DEF WaitRecv
  <2>1. agent' \in [HilIds -> {"idle", "insert", "register", "subscribe", "wait",
                               "granted", "refused", "gaveUp"}]
    BY Zenon DEF HilTypeOK
  <2>2. Tail(bus[h]) \in Seq([hilId : HilIds \cup {"none"}, decision : Outcomes])
    <3>1. bus[h] \in Seq([hilId : HilIds \cup {"none"}, decision : Outcomes]) BY Zenon DEF HilTypeOK
    <3>2. bus[h] # << >> BY Zenon
    <3> QED BY ONLY <3>1, <3>2, HeadTailProperties
  <2>3. HilTypeOK' BY Zenon, <2>1, <2>2 DEF HilTypeOK
  <2>4. TokenInv' BY DEF TokenInv, Deciding, HilTypeOK
  <2>5. AnnouncedInv' BY DEF AnnouncedInv
  <2>6. FileInv' BY DEF FileInv
  <2> QED BY Zenon, <2>3, <2>4, <2>5, <2>6
<1> QED BY Zenon, <1>1, <1>2, <1>3, <1>4, <1>5, <1>6 DEF AgentStep

AnswerPcs == {"idle", "consume", "write", "remove", "announce", "ok", "used", "unknown", "unavailable"}

Answers == [pc : AnswerPcs, hil : HilIds \cup {"none"}, decision : Decisions \cup {"none"}]

\* A resolve call goes on: no other call moves, and it answers what it answered.
LEMMA AnswerMoves ==
    ASSUME HilTypeOK, NEW c \in Clients, NEW pc \in AnswerPcs,
           answer' = [answer EXCEPT ![c].pc = pc]
    PROVE  /\ answer' \in [Clients -> Answers]
           /\ answer'[c].pc = pc /\ answer'[c].hil = answer[c].hil
           /\ answer'[c].decision = answer[c].decision
           /\ \A d \in Clients \ {c} : answer'[d] = answer[d]
<1>1. answer \in [Clients -> Answers] BY Zenon DEF HilTypeOK, Answers, AnswerPcs
<1>2. [answer[c] EXCEPT !.pc = pc] \in Answers BY Zenon, <1>1 DEF Answers
<1> QED BY Zenon, <1>1, <1>2 DEF Answers

\* A client answers and its resolve call goes on.
LEMMA ClientKeeps ==
    ASSUME HilInv, NEW c \in Clients,
           \/ \E h \in HilIds, d \in Decisions : Answer(c, h, d)
           \/ ResolveStep(c)
    PROVE  HilInv'
<1> USE DEF HilInv
<1>1. ASSUME NEW h \in HilIds, NEW d \in Decisions, Answer(c, h, d) PROVE HilInv'
  <2> USE <1>1, HilAssumption DEF Answer, Silent
  <2>1. HilTypeOK' BY Zenon DEF HilTypeOK
  <2>2. TokenInv' BY DEF TokenInv, Deciding, HilTypeOK
  <2>3. AnnouncedInv' BY DEF AnnouncedInv, HilTypeOK
  <2>4. FileInv' BY Zenon DEF FileInv, HilTypeOK
  <2> QED BY Zenon, <2>1, <2>2, <2>3, <2>4
<1>2. CASE Consume(c)
  <2> DEFINE h == answer[c].hil
  <2>1. h \in HilIds /\ answer[c].pc = "consume" BY Zenon, <1>2 DEF Consume, TokenInv
  <2>2. UNCHANGED <<agent, hilFile, pending, timer, announced, bus>> BY Zenon, <1>2 DEF Consume
  <2>3. CASE /\ approval[h] = "fresh" /\ approval' = [approval EXCEPT ![h] = "used"]
             /\ answer' = [answer EXCEPT ![c].pc = "write"]
    <3>1. /\ answer' \in [Clients -> Answers]
          /\ answer'[c].pc = "write" /\ answer'[c].hil = h
          /\ answer'[c].decision = answer[c].decision
          /\ \A d \in Clients \ {c} : answer'[d] = answer[d]
      BY Zenon, <2>3, AnswerMoves DEF AnswerPcs
    <3>2. /\ approval' \in [HilIds -> {"none", "fresh", "used"}] /\ approval'[h] = "used"
          /\ \A g \in HilIds \ {h} : approval'[g] = approval[g]
      BY <2>1, <2>3 DEF HilTypeOK
    <3>3. approval[h] = "fresh" BY Zenon, <2>3
    <3> HIDE DEF h
    <3>4. HilTypeOK' BY Zenon, <2>2, <3>1, <3>2 DEF HilTypeOK, Answers, AnswerPcs
    <3>5. TokenInv' BY <2>1, <2>2, <3>1, <3>2, <3>3 DEF TokenInv, Deciding
    <3>6. AnnouncedInv' BY <2>1, <2>2, <3>1 DEF AnnouncedInv
    <3>7. FileInv' BY <2>1, <2>2, <3>1 DEF FileInv
    <3> QED BY Zenon, <3>4, <3>5, <3>6, <3>7
  <2>4. ASSUME approval' = approval,
               NEW pc \in {"used", "unknown"}, answer' = [answer EXCEPT ![c].pc = pc]
        PROVE  HilInv'
    <3>1. /\ answer' \in [Clients -> Answers]
          /\ answer'[c].pc = pc /\ answer'[c].hil = h
          /\ answer'[c].decision = answer[c].decision
          /\ \A d \in Clients \ {c} : answer'[d] = answer[d]
      BY Zenon, <2>4, AnswerMoves DEF AnswerPcs
    <3> HIDE DEF h
    <3>2. HilTypeOK' BY Zenon, <2>2, <2>4, <3>1 DEF HilTypeOK, Answers, AnswerPcs
    <3>3. TokenInv' BY <2>1, <2>2, <2>4, <3>1 DEF TokenInv, Deciding
    <3>4. AnnouncedInv' BY <2>1, <2>2, <3>1 DEF AnnouncedInv
    <3>5. FileInv' BY <2>1, <2>2, <3>1 DEF FileInv
    <3> QED BY Zenon, <3>2, <3>3, <3>4, <3>5
  <2> QED BY Zenon, <1>2, <2>3, <2>4 DEF Consume
<1>3. CASE ResolveWritesFile(c)
  <2> DEFINE h == answer[c].hil
  <2>1. /\ answer[c].pc = "write" /\ h \in HilIds /\ answer[c].decision \in Decisions
        /\ FileState(answer[c].decision) = answer[c].decision
    BY Zenon, <1>3 DEF ResolveWritesFile, TokenInv, Deciding, FileState, Decisions
  <2>2. UNCHANGED <<agent, pending, approval, timer, announced, bus>>
    BY Zenon, <1>3 DEF ResolveWritesFile
  <2>3. /\ answer' \in [Clients -> Answers]
        /\ answer'[c].pc = "remove" /\ answer'[c].hil = h
        /\ answer'[c].decision = answer[c].decision
        /\ \A d \in Clients \ {c} : answer'[d] = answer[d]
    BY Zenon, <1>3, AnswerMoves DEF ResolveWritesFile, AnswerPcs
  <2>4. /\ hilFile' \in [HilIds -> Outcomes \cup {"none", "pending"}]
        /\ hilFile'[h] = hilFile[h] \/ hilFile'[h] = answer[c].decision
        /\ \A g \in HilIds \ {h} : hilFile'[g] = hilFile[g]
    <3>1. answer[c].decision \in Outcomes BY Zenon, <2>1 DEF Outcomes
    <3>2. CASE h \in pending
      <4>1. hilFile' = [hilFile EXCEPT ![h] = answer[c].decision]
        BY Zenon, <1>3, <2>1, <3>2 DEF ResolveWritesFile
      <4> HIDE DEF h
      <4> QED BY <2>1, <3>1, <3>2, <4>1 DEF HilTypeOK
    <3>3. CASE h \notin pending
      <4>1. hilFile' = hilFile BY Zenon, <1>3, <3>3 DEF ResolveWritesFile
      <4> HIDE DEF h
      <4> QED BY Zenon, <4>1 DEF HilTypeOK
    <3> QED BY Zenon, <3>2, <3>3
  <2>5. agent[h] # "idle" BY Zenon, <2>1 DEF TokenInv, Deciding
  <2> HIDE DEF h
  <2>6. HilTypeOK' BY Zenon, <2>2, <2>3, <2>4 DEF HilTypeOK, Answers, AnswerPcs
  <2>7. TokenInv'
    <3>1. \A g \in HilIds : agent[g] = "idle" => hilFile'[g] = "none"
      BY <2>4, <2>5 DEF TokenInv
    <3>2. \A d \in Clients : /\ Deciding(d)' <=> Deciding(d)
                             /\ answer'[d].pc = "consume" <=> answer[d].pc = "consume"
                             /\ answer'[d].hil = answer[d].hil
                             /\ answer'[d].decision = answer[d].decision
      <4> SUFFICES ASSUME NEW d \in Clients
                   PROVE  /\ Deciding(d)' <=> Deciding(d)
                          /\ answer'[d].pc = "consume" <=> answer[d].pc = "consume"
                          /\ answer'[d].hil = answer[d].hil
                          /\ answer'[d].decision = answer[d].decision
        BY Zenon
      <4>1. CASE d = c BY Zenon, <2>1, <2>3, <4>1 DEF Deciding, h
      <4>2. CASE d # c
        <5>1. answer'[d] = answer[d] BY Zenon, <2>3, <4>2
        <5> QED BY Zenon, <5>1 DEF Deciding
      <4> QED BY Zenon, <4>1, <4>2
    <3> QED BY <2>2, <3>1, <3>2 DEF TokenInv
  <2>8. AnnouncedInv' BY <2>1, <2>2, <2>3 DEF AnnouncedInv
  <2>9. FileInv'
    <3> SUFFICES ASSUME NEW g \in HilIds
                 PROVE  /\ hilFile'[g] = "timeout" =>
                              \/ timer'[g] \in {"signal", "announce"}
                              \/ timer'[g] = "done" /\ <<"kernel", "timeout">> \in announced'[g]
                        /\ hilFile'[g] \in Decisions =>
                              \E d \in Clients : /\ answer'[d].pc \in {"remove", "announce", "ok"}
                                                 /\ answer'[d].hil = g
                                                 /\ answer'[d].decision = hilFile'[g]
      BY Zenon DEF FileInv
    <3>1. CASE hilFile'[g] = hilFile[g] BY <2>1, <2>2, <2>3, <3>1 DEF FileInv
    <3>2. CASE g = h /\ hilFile'[g] = answer[c].decision
      BY Zenon, <2>1, <2>3, <3>2 DEF Decisions
    <3> QED BY Zenon, <2>4, <3>1, <3>2
  <2> QED BY <2>6, <2>7, <2>8, <2>9
<1>4. CASE ResolveRemoves(c)
  <2> USE <1>4 DEF ResolveRemoves
  <2>1. HilTypeOK'
    <3>1. answer' \in [Clients -> Answers] BY Zenon, AnswerMoves DEF AnswerPcs
    <3>2. pending' \subseteq HilIds BY Zenon DEF HilTypeOK
    <3> QED BY Zenon, <3>1, <3>2 DEF HilTypeOK, Answers, AnswerPcs
  <2>2. TokenInv' BY DEF TokenInv, Deciding, HilTypeOK
  <2>3. AnnouncedInv' BY DEF AnnouncedInv, HilTypeOK
  <2>4. FileInv' BY DEF FileInv, HilTypeOK
  <2> QED BY Zenon, <2>1, <2>2, <2>3, <2>4
<1>5. CASE ResolveAnnounces(c)
  <2> USE <1>5 DEF ResolveAnnounces
  <2>1. answer[c].hil \in HilIds /\ answer[c].decision \in Decisions
    BY Zenon DEF TokenInv, Deciding
  <2>2. <<c, answer[c].decision>> \in (Clients \cup {"kernel"}) \X Outcomes
    BY Zenon, <2>1 DEF Outcomes
  <2>3. HilTypeOK'
    <3>1. announced' \in [HilIds -> SUBSET ((Clients \cup {"kernel"}) \X Outcomes)]
      BY Zenon, <2>1, <2>2 DEF HilTypeOK
    <3>2. answer' \in [Clients -> Answers] BY Zenon, AnswerMoves DEF AnswerPcs
    <3> QED BY Zenon, <3>1, <3>2 DEF HilTypeOK, Answers, AnswerPcs
  <2>4. TokenInv' BY DEF TokenInv, Deciding, HilTypeOK
  <2>5. AnnouncedInv' BY <2>1 DEF AnnouncedInv, HilTypeOK
  <2>6. FileInv' BY <2>1 DEF FileInv, HilTypeOK
  <2> QED BY Zenon, <2>3, <2>4, <2>5, <2>6
<1> QED BY Zenon, <1>1, <1>2, <1>3, <1>4, <1>5 DEF ResolveStep

\* The manager's timer.
LEMMA TimerKeeps ==
    ASSUME HilInv, NEW h \in HilIds, TimerStep(h)
    PROVE  HilInv'
<1> USE DEF HilInv
<1>1. CASE TimerFires(h)
  <2> USE <1>1 DEF TimerFires
  <2>1. HilTypeOK' BY ZenonT(30) DEF HilTypeOK, Outcomes
  <2>2. TokenInv' BY DEF TokenInv, Deciding, HilTypeOK
  <2>3. AnnouncedInv' BY DEF AnnouncedInv
  <2>4. FileInv'
    <3>1. CASE h \in pending
      <4>1. hilFile'[h] = "timeout" /\ timer'[h] = "signal" BY <3>1 DEF HilTypeOK
      <4>2. \A g \in HilIds \ {h} : hilFile'[g] = hilFile[g] /\ timer'[g] = timer[g]
        BY <3>1 DEF HilTypeOK
      <4> QED BY <4>1, <4>2 DEF FileInv, Decisions
    <3>2. CASE h \notin pending
      <4>1. timer'[h] = "done" /\ \A g \in HilIds \ {h} : timer'[g] = timer[g]
        BY <3>2 DEF HilTypeOK
      <4>2. hilFile[h] # "timeout" BY Zenon DEF FileInv
      <4>3. UNCHANGED <<hilFile, answer, announced>> BY Zenon, <3>2
      <4> QED BY <4>1, <4>2, <4>3 DEF FileInv
    <3> QED BY Zenon, <3>1, <3>2
  <2> QED BY Zenon, <2>1, <2>2, <2>3, <2>4
<1>2. CASE TimerSignals(h)
  <2> USE <1>2 DEF TimerSignals
  <2>1. [hilId |-> "none", decision |-> "timeout"] \in [hilId : HilIds \cup {"none"}, decision : Outcomes]
    BY Zenon DEF Outcomes
  <2>2. bus' \in [HilIds -> Seq([hilId : HilIds \cup {"none"}, decision : Outcomes])]
    <3>1. Append(bus[h], [hilId |-> "none", decision |-> "timeout"])
             \in Seq([hilId : HilIds \cup {"none"}, decision : Outcomes])
      <4>1. bus[h] \in Seq([hilId : HilIds \cup {"none"}, decision : Outcomes]) BY Zenon DEF HilTypeOK
      <4> QED BY ONLY <2>1, <4>1, AppendProperties
    <3> QED BY Zenon, <3>1 DEF HilTypeOK
  <2>3. HilTypeOK' BY Zenon, <2>2 DEF HilTypeOK
  <2>4. TokenInv' BY DEF TokenInv, Deciding, HilTypeOK
  <2>5. AnnouncedInv' BY ZenonT(30) DEF AnnouncedInv
  <2>6. FileInv' BY DEF FileInv, HilTypeOK
  <2> QED BY Zenon, <2>3, <2>4, <2>5, <2>6
<1>3. CASE TimerAnnounces(h)
  <2> USE <1>3 DEF TimerAnnounces
  <2>1. <<"kernel", "timeout">> \in (Clients \cup {"kernel"}) \X Outcomes BY Zenon DEF Outcomes
  <2>2. HilTypeOK' BY Zenon, <2>1 DEF HilTypeOK
  <2>3. TokenInv' BY DEF TokenInv, Deciding, HilTypeOK
  <2>4. AnnouncedInv' BY DEF AnnouncedInv, HilTypeOK
  <2>5. FileInv' BY DEF FileInv, HilTypeOK
  <2> QED BY Zenon, <2>2, <2>3, <2>4, <2>5
<1> QED BY Zenon, <1>1, <1>2, <1>3 DEF TimerStep

LEMMA HilStepInv == HilInv /\ [HilNext]_hilVars => HilInv'
<1> SUFFICES ASSUME HilInv, [HilNext]_hilVars PROVE HilInv' BY Zenon
<1>1. CASE HilNext BY Zenon, <1>1, AgentKeeps, ClientKeeps, TimerKeeps DEF HilNext
<1>2. CASE UNCHANGED hilVars
  <2> USE <1>2 DEF hilVars, HilInv
  <2>1. HilTypeOK' BY Zenon DEF HilTypeOK
  <2>2. TokenInv' BY DEF TokenInv, Deciding
  <2>3. AnnouncedInv' BY DEF AnnouncedInv
  <2>4. FileInv' BY DEF FileInv
  <2> QED BY Zenon, <2>1, <2>2, <2>3, <2>4
<1> QED BY Zenon, <1>1, <1>2

\* Every reachable state of a human-in-the-loop request satisfies the
\* inductive invariant, its types included (HilManager, ApprovalTokenStore).
THEOREM HilInvariant == HilSpec => []HilInv
BY HilInitInv, HilStepInv, PTL DEF HilSpec

\* The invariant leaves room for one announced decision only.
LEMMA OneDecision == HilInv => OneClientDecides
<1> SUFFICES ASSUME HilInv, NEW h \in HilIds, NEW o \in announced[h], NEW p \in announced[h],
                    o[1] # "kernel", p[1] # "kernel"
             PROVE  o = p
  BY Zenon DEF OneClientDecides
<1>1. PICK c \in Clients : answer[c].pc = "ok" /\ answer[c].hil = h /\ o = <<c, answer[c].decision>>
  BY Zenon DEF HilInv, AnnouncedInv
<1>2. PICK d \in Clients : answer[d].pc = "ok" /\ answer[d].hil = h /\ p = <<d, answer[d].decision>>
  BY Zenon DEF HilInv, AnnouncedInv
<1>3. c = d BY <1>1, <1>2 DEF HilInv, TokenInv, Deciding
<1> QED BY Zenon, <1>1, <1>2, <1>3

\* However the resolve calls of several clients and the timer overlap, at most
\* one client's decision is announced and the outcome in a request's file is one
\* that was announced: HilManager::resolve and timeout_hil with their approval
\* token, for any number of requests and clients.
THEOREM HilIsDecidedOnce == HilSpec => []HilDecidedOnce
<1>1. HilInv => FileWasAnnounced
  <2> SUFFICES ASSUME HilInv, NEW h \in HilIds, hilFile[h] \in Outcomes,
                      timer[h] \notin {"signal", "announce"},
                      \A c \in Clients : answer[c].hil = h
                          => answer[c].pc \notin {"write", "remove", "announce"}
               PROVE  \E o \in announced[h] : o[2] = hilFile[h]
    BY Zenon DEF FileWasAnnounced
  <2>1. CASE hilFile[h] = "timeout"
    <3>1. <<"kernel", "timeout">> \in announced[h] BY Zenon, <2>1 DEF HilInv, FileInv
    <3> QED BY Zenon, <2>1, <3>1
  <2>2. CASE hilFile[h] \in Decisions
    <3>1. PICK c \in Clients : /\ answer[c].pc \in {"remove", "announce", "ok"}
                               /\ answer[c].hil = h /\ answer[c].decision = hilFile[h]
      BY Zenon, <2>2 DEF HilInv, FileInv
    <3>2. <<c, hilFile[h]>> \in announced[h] BY Zenon, <3>1 DEF HilInv, AnnouncedInv
    <3> QED BY Zenon, <3>2
  <2> QED BY Zenon, <2>1, <2>2 DEF Outcomes
<1>2. HilInv => HilDecidedOnce BY Zenon, <1>1, OneDecision DEF HilDecidedOnce
<1> QED BY <1>2, HilInvariant, PTL

-----------------------------------------------------------------------------
(* The notices of a terminal client *)

\* New notices were added and open ones resolved, and nothing else.
Grew(old, new) ==
    \A n \in NoteIds : /\ old[n] # "none" => new[n] # "none"
                       /\ old[n] \in NoteOutcomes => new[n] = old[n]

\* The file, what a save carries and the memory follow one another.
NoticesInv ==
    /\ NoticesAreKept
    /\ noteFile.state = "absent" => kept = NoNotes
    /\ host.pc \notin {"ended", "load"} => Grew(kept, notes)
    /\ save.pc \in {"create", "write", "rename"} => Grew(kept, save.snap) /\ Grew(save.snap, notes)
    /\ save.pc = "rename" => noteTmp = [state |-> "whole", notes |-> save.snap]

LEMMA NoticesInitInv == NoticesInit => NoticesTypeOK /\ NoticesInv
<1> SUFFICES ASSUME NoticesInit PROVE NoticesTypeOK /\ NoticesInv BY Zenon
<1>1. NoNotes \in [NoteIds -> NoteStates] BY Zenon DEF NoNotes, NoteStates
<1>2. NoFile \in Files BY Zenon, <1>1 DEF NoFile, Files
<1>3. NoticesTypeOK
  BY <1>1, <1>2, NoticesAssumption DEF NoticesInit, NoticesTypeOK, Idle
<1>4. NoticesInv BY Zenon DEF NoticesInit, NoticesInv, NoticesAreKept, NoFile, Idle
<1> QED BY Zenon, <1>3, <1>4

\* An alert only adds a notice.
LEMMA AlertGrows ==
    ASSUME notes \in [NoteIds -> NoteStates], Alerted
    PROVE  notes' \in [NoteIds -> NoteStates] /\ Grew(notes, notes')
BY Zenon DEF Alerted, Grew, NoteStates, NoteOutcomes

\* Steps of the process: the files and the save stay, the memory grows.
LEMMA HostSteps ==
    ASSUME NoticesTypeOK, NoticesInv,
           \/ \E by \in {"key", "command"} : AsksToConnect(by)
           \/ EnsureProbes \/ EnsureWaits \/ Connects \/ MainAlert \/ DaemonSteps
           \/ UNCHANGED noticeVars
    PROVE  NoticesTypeOK' /\ NoticesInv'
<1> USE DEF NoticesTypeOK
<1>1. /\ UNCHANGED <<save, noteTmp, noteFile, kept>>
      /\ UNCHANGED notes \/ Alerted
      /\ host.pc \in {"ended", "load"} => UNCHANGED <<host, notes>>
  BY Zenon DEF AsksToConnect, EnsureProbes, EnsureWaits, EnsureFails, Connects, MainAlert, DaemonSteps,
         noticeVars
<1>2. notes' \in [NoteIds -> NoteStates] /\ Grew(notes, notes')
  <2>1. UNCHANGED notes => Grew(notes, notes') BY Zenon DEF Grew
  <2> QED BY Zenon, <1>1, <2>1, AlertGrows
<1>3. NoticesTypeOK'
  <2>1. /\ host' \in [pc : {"ended", "load", "idle", "probe", "wait", "connect", "connected"},
                      by : {"key", "command"}, probes : 0 .. MaxProbes, starts : 0 .. MaxStarts,
                      auto : BOOLEAN]
        /\ daemon' \in {"down", "starting", "up"}
        /\ host.pc = "connected" => host'.pc = "connected"
    <3>1. CASE \E by \in {"key", "command"} : AsksToConnect(by)
      <4>1. PICK by \in {"key", "command"} : AsksToConnect(by) BY Zenon, <3>1
      <4>2. 0 \in 0 .. MaxProbes BY NoticesAssumption
      <4> QED BY Zenon, <4>1, <4>2 DEF AsksToConnect
    <3>2. CASE EnsureProbes BY <3>2 DEF EnsureProbes, EnsureFails
    <3>3. CASE EnsureWaits BY <3>3, NoticesAssumption DEF EnsureWaits, EnsureFails
    <3>4. CASE Connects BY <3>4 DEF Connects
    <3>5. CASE MainAlert BY Zenon, <3>5 DEF MainAlert
    <3>6. CASE DaemonSteps BY Zenon, <3>6 DEF DaemonSteps
    <3>7. CASE UNCHANGED noticeVars BY Zenon, <3>7 DEF noticeVars
    <3> QED BY Zenon, <3>1, <3>2, <3>3, <3>4, <3>5, <3>6, <3>7
  <2> QED BY Zenon, <1>1, <1>2, <2>1
<1>4. NoticesInv'
  <2>1. Grew(kept, notes) => Grew(kept, notes') BY Zenon, <1>2 DEF Grew, NoteOutcomes
  <2>2. Grew(save.snap, notes) => Grew(save.snap, notes') BY Zenon, <1>2 DEF Grew, NoteOutcomes
  <2>3. host.pc \in {"ended", "load"} => host'.pc \in {"ended", "load"} BY Zenon, <1>1
  <2> QED BY Zenon, <1>1, <2>1, <2>2, <2>3 DEF NoticesInv, NoticesAreKept
<1> QED BY Zenon, <1>3, <1>4

\* A start, the load of the file, and an end at any step.
LEMMA ProcessLives ==
    ASSUME NoticesTypeOK, NoticesInv, TuiStarts \/ LoadsNotes \/ TuiEnds
    PROVE  NoticesTypeOK' /\ NoticesInv'
<1> USE DEF NoticesTypeOK
<1>a. NoNotes \in [NoteIds -> NoteStates] BY Zenon DEF NoNotes, NoteStates
<1>1. CASE TuiStarts
  <2>1. PICK auto \in BOOLEAN : host' = [host EXCEPT !.pc = "load", !.starts = @ + 1, !.auto = auto]
    BY Zenon, <1>1 DEF TuiStarts
  <2>2. save.pc = "none" /\ host'.pc = "load" BY Zenon, <1>1, <2>1 DEF TuiStarts
  <2>3. host' \in [pc : {"ended", "load", "idle", "probe", "wait", "connect", "connected"},
                   by : {"key", "command"}, probes : 0 .. MaxProbes, starts : 0 .. MaxStarts,
                   auto : BOOLEAN]
    <3>0. host.starts \in 0 .. MaxStarts /\ host.starts < MaxStarts BY Zenon, <1>1 DEF TuiStarts
    <3>1. host.starts + 1 \in 0 .. MaxStarts BY <3>0, NoticesAssumption
    <3> QED BY Zenon, <2>1, <3>1
  <2> QED BY Zenon, <1>1, <2>2, <2>3 DEF TuiStarts, NoticesInv, NoticesAreKept
<1>2. CASE LoadsNotes
  <2>1. notes' = kept
    BY Zenon, <1>2 DEF LoadsNotes, NoticesInv, NoticesAreKept, Files
  <2>2. Grew(kept, notes') BY Zenon, <2>1 DEF Grew
  <2>3. save.pc = "none" /\ host'.pc = "idle" BY Zenon, <1>2 DEF LoadsNotes
  <2>4. NoticesTypeOK' BY Zenon, <1>2, <2>1, <2>3 DEF LoadsNotes
  <2>5. NoticesInv' BY Zenon, <1>2, <2>2, <2>3 DEF LoadsNotes, NoticesInv, NoticesAreKept
  <2> QED BY Zenon, <2>4, <2>5
<1>3. CASE TuiEnds
  <2>1. host'.pc = "ended" /\ save'.pc = "none" BY Zenon, <1>3 DEF TuiEnds, Idle
  <2>2. NoticesTypeOK' BY Zenon, <1>3, <1>a, <2>1 DEF TuiEnds, Idle
  <2>3. NoticesInv' BY Zenon, <1>3, <2>1 DEF TuiEnds, NoticesInv, NoticesAreKept
  <2> QED BY <2>2, <2>3
<1> QED BY Zenon, <1>1, <1>2, <1>3

\* An event changes a notice, and the task saves all of them.
LEMMA SaveSteps ==
    ASSUME NoticesTypeOK, NoticesInv,
           \/ \E n \in NoteIds : EventAdds(n) \/ \E outcome \in NoteOutcomes : EventResolves(n, outcome)
           \/ SaveTakesAll \/ SaveCreates \/ SaveWrites \/ SaveRenames
    PROVE  NoticesTypeOK' /\ NoticesInv'
<1> USE DEF NoticesTypeOK
<1>a. NoNotes \in [NoteIds -> NoteStates] BY Zenon DEF NoNotes, NoteStates
<1>b. Idle \in [pc : {"none", "all", "create", "write", "rename"}, snap : [NoteIds -> NoteStates]]
      /\ Idle.pc = "none"
  BY Zenon, <1>a DEF Idle
<1>1. ASSUME NEW n \in NoteIds,
             EventAdds(n) \/ \E outcome \in NoteOutcomes : EventResolves(n, outcome)
      PROVE  NoticesTypeOK' /\ NoticesInv'
  <2>1. /\ host.pc = "connected" /\ save'.pc = "all" /\ save'.snap = save.snap
        /\ UNCHANGED <<host, daemon, noteTmp, noteFile, kept>>
    BY Zenon, <1>1 DEF EventAdds, EventResolves
  <2>2. notes' \in [NoteIds -> NoteStates] /\ Grew(notes, notes')
    BY <1>1 DEF EventAdds, EventResolves, Grew, NoteStates, NoteOutcomes
  <2>3. NoticesTypeOK' BY Zenon, <1>1, <2>1, <2>2 DEF EventAdds, EventResolves
  <2>4. Grew(kept, notes) => Grew(kept, notes') BY <2>2 DEF Grew, NoteOutcomes
  <2>5. NoticesInv' BY Zenon, <2>1, <2>4 DEF NoticesInv, NoticesAreKept
  <2> QED BY Zenon, <2>3, <2>5
<1>2. CASE SaveTakesAll
  <2>1. Grew(notes, notes) BY Zenon DEF Grew
  <2>2. Grew(kept, notes) BY Zenon, <1>2 DEF SaveTakesAll, NoticesInv
  <2>3. NoticesTypeOK' BY Zenon, <1>2 DEF SaveTakesAll
  <2>4. NoticesInv' BY Zenon, <1>2, <2>1, <2>2 DEF SaveTakesAll, NoticesInv, NoticesAreKept
  <2> QED BY Zenon, <2>3, <2>4
<1>3. CASE SaveCreates
  <2>1. [state |-> "partial", notes |-> NoNotes] \in Files BY Zenon, <1>a DEF Files
  <2>2. UNCHANGED save.snap \/ save' = Idle BY Zenon, <1>3 DEF SaveCreates
  <2>3. NoticesTypeOK' BY <1>3, <1>b, <2>1 DEF SaveCreates
  <2>4. NoticesInv' BY <1>3, <1>b DEF SaveCreates, NoticesInv, NoticesAreKept
  <2> QED BY <2>3, <2>4
<1>4. CASE SaveWrites
  <2>1. [state |-> "whole", notes |-> save.snap] \in Files BY Zenon DEF Files
  <2>3. NoticesTypeOK' BY <1>4, <1>b, <2>1 DEF SaveWrites
  <2>4. NoticesInv' BY Zenon, <1>4, <1>b DEF SaveWrites, NoticesInv, NoticesAreKept
  <2> QED BY <2>3, <2>4
<1>5. CASE SaveRenames
  <2>0. NoFile \in Files BY Zenon, <1>a DEF NoFile, Files
  <2>1. CASE UNCHANGED <<noteTmp, noteFile, kept>>
    BY Zenon, <1>5, <1>b, <2>1 DEF SaveRenames, NoticesInv, NoticesAreKept
  <2>2. CASE /\ noteFile' = noteTmp /\ noteTmp' = NoFile
             /\ kept' = [n \in NoteIds |-> Learnt(kept[n], save.snap[n])]
    <3>1. Grew(kept, save.snap) /\ Grew(save.snap, notes)
          /\ noteTmp = [state |-> "whole", notes |-> save.snap]
      BY Zenon, <1>5 DEF SaveRenames, NoticesInv
    <3>2. ASSUME NEW n \in NoteIds PROVE Learnt(kept[n], save.snap[n]) = save.snap[n]
      BY Zenon, <3>1 DEF Grew, Learnt
    <3>3. kept' = save.snap BY Zenon, <2>2, <3>2
    <3>4. NoticesTypeOK' BY Zenon, <1>5, <1>b, <2>0, <2>2, <3>3 DEF SaveRenames
    <3>5. NoticesInv'
      BY Zenon, <1>5, <1>b, <2>2, <3>1, <3>3 DEF SaveRenames, NoticesInv, NoticesAreKept
    <3> QED BY <3>4, <3>5
  <2> QED BY Zenon, <1>5, <2>1, <2>2 DEF SaveRenames
<1> QED BY Zenon, <1>1, <1>2, <1>3, <1>4, <1>5

\* The notices file is never seen half written, and what one completed save said
\* of a notice every later file says too, an outcome unchanged: through failed
\* saves, ends of the client at any step of save_json, and restarts.
THEOREM NoticesStay == NoticesSpec => []NoticesAreKept
<1>1. NoticesTypeOK /\ NoticesInv /\ [NoticesNext]_noticeVars => NoticesTypeOK' /\ NoticesInv'
  BY Zenon, HostSteps, ProcessLives, SaveSteps DEF NoticesNext
<1>2. NoticesInv => NoticesAreKept BY Zenon DEF NoticesInv
<1> QED BY <1>1, <1>2, NoticesInitInv, PTL DEF NoticesSpec

-----------------------------------------------------------------------------
(* ClientCore: the interface hears the current connection                  *)

Replies == [who : Invokers, verdict : {"ok", "expired"}]

\* The dispatcher in use is the one of the last socket, later sockets have no
\* bridge, and before the callback is set there is no bridge at all and the
\* flag is clear.
BridgeInv ==
    /\ dials \in 0 .. MaxDials /\ dial = dials
    /\ uiCallback \in BOOLEAN /\ bridgeFlag \in BOOLEAN
    /\ bridges \in [Dials -> 0 .. 1] /\ lagging \in [Dials -> BOOLEAN]
    /\ \A k \in Dials : k > dials => bridges[k] = 0
    /\ ~ uiCallback => ~ bridgeFlag /\ \A k \in Dials : bridges[k] = 0
    /\ UiHearsCurrent

\* A command is pending with no dispatcher later than the one it last used,
\* is in the map of that one while it is sent and waits, and has no reply
\* before it was sent; a retry goes to a later dispatcher.
InvokeInv ==
    /\ connStatus \in {"connected", "disconnected"} /\ (connStatus = "connected" => dial # 0)
    /\ sock \in [Dials -> {"none", "open", "lost"}]
    /\ reader \in [Dials -> BOOLEAN] /\ (\A k \in Dials : reader[k] => k <= dials)
    /\ waiting \in [Dials -> SUBSET Invokers]
    /\ inbound \in [Dials -> SUBSET Replies]
    /\ invoke \in [Invokers -> [pc : InvokePcs, on : 0 .. MaxDials, retried : BOOLEAN]]
    /\ \A i \in Invokers :
        /\ invoke[i].on <= dials
        /\ invoke[i].pc # "idle" => dial # 0
        /\ invoke[i].pc \in {"send", "wait"} => invoke[i].on # 0 /\ i \in waiting[invoke[i].on]
        /\ invoke[i].pc = "idle" => invoke[i].on = 0
        /\ invoke[i].pc = "ready" => invoke[i].on < dial
        /\ \A k \in Dials : i \in waiting[k] => k <= invoke[i].on
        /\ \A k \in Dials : \A r \in inbound[k] : r.who = i =>
              /\ k <= invoke[i].on
              /\ invoke[i].pc = "send" => k # invoke[i].on

ClientInv == BridgeInv /\ InvokeInv

LEMMA ClientInvTypes == ClientInv => ClientTypeOK /\ UiHearsCurrent
<1> SUFFICES ASSUME ClientInv PROVE ClientTypeOK /\ UiHearsCurrent BY Zenon
<1> USE ClientCoreAssumption
<1>1. \A i \in Reading : i \in waiting[invoke[i].on]
  BY Zenon DEF ClientInv, InvokeInv, Reading
<1>2. \A i \in Invokers : invoke[i].pc \in InvokePcs /\ invoke[i].on \in 0 .. dials
  BY DEF ClientInv, InvokeInv, BridgeInv
<1>3. UiHearsCurrent BY Zenon DEF ClientInv, BridgeInv
<1> QED BY <1>1, <1>2, <1>3 DEF ClientInv, InvokeInv, BridgeInv, ClientTypeOK, Dials

LEMMA ClientInitInv == ClientInit => ClientInv
<1> SUFFICES ASSUME ClientInit PROVE ClientInv BY Zenon
<1> USE ClientCoreAssumption
<1>0. UiHearsCurrent BY Zenon DEF ClientInit, UiHearsCurrent
<1>a. dials \in 0 .. MaxDials /\ dial = dials /\ bridges \in [Dials -> 0 .. 1]
      /\ lagging \in [Dials -> BOOLEAN] /\ \A k \in Dials : bridges[k] = 0
  BY DEF ClientInit
<1>b. uiCallback \in BOOLEAN /\ bridgeFlag \in BOOLEAN /\ ~ bridgeFlag BY Zenon DEF ClientInit
<1>1. BridgeInv BY Zenon, <1>0, <1>a, <1>b DEF BridgeInv
<1>2. InvokeInv BY DEF ClientInit, InvokeInv, InvokePcs, Dials, Replies
<1> QED BY Zenon, <1>1, <1>2 DEF ClientInv

\* A new connection: one more dispatcher, with a bridge if the callback is set.
LEMMA ConnectedKeeps ==
    ASSUME BridgeInv, Connected PROVE BridgeInv' /\ dials' = dials + 1 /\ dials + 1 \in Dials
<1> USE ClientCoreAssumption
<1>1. dials' = dials + 1 /\ dial' = dials + 1 /\ dials + 1 \in Dials /\ uiCallback' = uiCallback /\ lagging' = lagging
  BY DEF Connected, BridgeInv, Dials
<1>2. CASE uiCallback
  <2>1. bridgeFlag' = TRUE /\ bridges' = [bridges EXCEPT ![dials + 1] = @ + 1]
    BY Zenon, <1>2 DEF Connected, StartBridge
  <2>2. bridges[dials + 1] = 0 BY <1>1 DEF BridgeInv
  <2>3. bridges' \in [Dials -> 0 .. 1] /\ bridges'[dials + 1] = 1
        /\ \A k \in Dials \ {dials + 1} : bridges'[k] = bridges[k]
    BY <1>1, <2>1, <2>2 DEF BridgeInv
  <2> QED BY <1>1, <1>2, <2>1, <2>3 DEF BridgeInv, UiHearsCurrent, Dials
<1>3. CASE ~ uiCallback
  <2>1. bridgeFlag' = FALSE /\ bridges' = bridges BY Zenon, <1>3 DEF Connected
  <2>2. UiHearsCurrent' BY Zenon, <1>1, <1>3 DEF UiHearsCurrent
  <2>3. dials' \in 0 .. MaxDials /\ \A k \in Dials : bridges[k] = 0 BY <1>1, <1>3 DEF BridgeInv, Dials
  <2> QED BY Zenon, <1>1, <1>3, <2>1, <2>2, <2>3 DEF BridgeInv
<1> QED BY Zenon, <1>1, <1>2, <1>3 DEF BridgeInv

LEMMA BridgeStep == ASSUME ClientInv, [ClientNext]_clientVars PROVE BridgeInv'
<1> USE ClientCoreAssumption
<1>0. BridgeInv BY Zenon DEF ClientInv
<1>1. CASE Connected BY Zenon, <1>0, <1>1, ConnectedKeeps
<1>2. CASE UNCHANGED <<dial, dials, bridgeVars>>
  BY Zenon, <1>0, <1>2 DEF BridgeInv, UiHearsCurrent, bridgeVars
<1>3. CASE SetEmitCallback
  <2>1. uiCallback' = TRUE /\ UNCHANGED <<dial, dials, lagging>> /\ ~ uiCallback
    BY Zenon, <1>3 DEF SetEmitCallback, linkVars
  <2>2. CASE dial # 0
    <3>1. bridges' = [bridges EXCEPT ![dial] = @ + 1] /\ bridgeFlag' = TRUE
      BY Zenon, <1>0, <1>3, <2>1, <2>2 DEF SetEmitCallback, StartBridge, BridgeInv
    <3>2. dial \in Dials BY <1>0, <2>2 DEF BridgeInv, Dials
    <3>3. bridges' \in [Dials -> 0 .. 1] /\ bridges'[dial] = 1 /\ \A k \in Dials \ {dial} : bridges'[k] = bridges[k]
      BY <1>0, <2>1, <3>1, <3>2 DEF BridgeInv
    <3> QED BY <1>0, <2>1, <3>1, <3>2, <3>3 DEF BridgeInv, UiHearsCurrent, Dials
  <2>3. CASE dial = 0
    <3>1. bridges' = bridges /\ bridgeFlag' = bridgeFlag BY Zenon, <1>3, <2>3 DEF SetEmitCallback
    <3> QED BY Zenon, <1>0, <2>1, <2>3, <3>1 DEF BridgeInv, UiHearsCurrent
  <2> QED BY Zenon, <2>2, <2>3
<1>4. ASSUME NEW k \in Dials, BridgeEnds(k) \/ BridgeLags(k) PROVE BridgeInv'
  <2>1. /\ UNCHANGED <<dial, dials, uiCallback>> /\ bridgeFlag' = FALSE /\ bridges[k] > 0
        /\ bridges' = [bridges EXCEPT ![k] = @ - 1]
    BY Zenon, <1>4 DEF BridgeEnds, BridgeLags, linkVars
  <2>2. bridges[k] = 1 /\ bridges' \in [Dials -> 0 .. 1] /\ bridges'[k] = 0
        /\ \A j \in Dials \ {k} : bridges'[j] = bridges[j]
    BY <1>0, <2>1 DEF BridgeInv
  <2>3. /\ lagging' \in [Dials -> BOOLEAN] /\ (\A j \in Dials : lagging[j] => lagging'[j])
        /\ (dial = k => lagging'[k])
    BY Zenon, <1>0, <1>4 DEF BridgeEnds, BridgeLags, BridgeInv
  <2>4. UiHearsCurrent'
    <3> SUFFICES ASSUME uiCallback, dial # 0, ~ lagging'[dial] PROVE bridges'[dial] = 1
      BY Zenon, <2>1 DEF UiHearsCurrent
    <3>1. dial \in Dials BY <1>0 DEF BridgeInv, Dials
    <3>2. dial # k /\ ~ lagging[dial] BY Zenon, <2>3, <3>1
    <3> QED BY Zenon, <1>0, <2>2, <3>1, <3>2 DEF BridgeInv, UiHearsCurrent
  <2> QED BY Zenon, <1>0, <2>1, <2>2, <2>3, <2>4 DEF BridgeInv
<1>5. \/ Connected \/ UNCHANGED <<dial, dials, bridgeVars>> \/ SetEmitCallback
      \/ \E k \in Dials : BridgeEnds(k) \/ BridgeLags(k)
  BY ZenonT(30) DEF ClientNext, clientVars, Login, ConnectFailed, InvokeArrives, InvokeStep, CallRegisters, CallSends,
     CallTimesOut, Reconnects, ReconnectFails, SocketLost, ReaderEnds, GatewayReplies, ReaderReplies,
     linkVars, bridgeVars
<1> QED BY Zenon, <1>1, <1>2, <1>3, <1>4, <1>5

\* A command moves on, and nothing else of the calls changes but its pending
\* entry at the current dispatcher.
LEMMA InvokeStepKeeps == ASSUME ClientInv, [ClientNext]_clientVars PROVE InvokeInv'
<1> USE ClientCoreAssumption
<1>0. InvokeInv /\ BridgeInv BY Zenon DEF ClientInv
<1>a. dials \in 0 .. MaxDials /\ dial = dials BY Zenon, <1>0 DEF BridgeInv
<1>b. CASE UNCHANGED clientVars BY <1>0, <1>b DEF clientVars, InvokeInv
<1>1. CASE Login
  <2>0. UNCHANGED <<waiting, inbound, invoke>> BY Zenon, <1>1 DEF Login
  <2>1. CASE Connected
    <3>1. /\ dials' = dials + 1 /\ dial' = dials + 1 /\ dials + 1 \in Dials /\ connStatus' = "connected"
          /\ sock' = [sock EXCEPT ![dials + 1] = "open"]
          /\ reader' = [reader EXCEPT ![dials + 1] = TRUE]
      BY <1>a, <2>1 DEF Connected, Dials
    <3>2. sock' \in [Dials -> {"none", "open", "lost"}] /\ reader' \in [Dials -> BOOLEAN]
          /\ \A k \in Dials : reader'[k] => k <= dials'
      BY <1>0, <1>a, <3>1 DEF InvokeInv, Dials
    <3> QED BY <1>0, <1>a, <2>0, <3>1, <3>2 DEF InvokeInv, Dials
  <2>2. CASE ConnectFailed
    <3>1. connStatus' = "disconnected" /\ UNCHANGED <<dial, dials, sock, reader>> BY Zenon, <2>2 DEF ConnectFailed
    <3> QED BY <1>0, <2>0, <3>1 DEF InvokeInv
  <2> QED BY Zenon, <1>1, <2>1, <2>2 DEF Login
<1>2. CASE UNCHANGED <<dial, dials, connStatus, sock, reader, waiting, inbound, invoke>>
  BY <1>0, <1>2 DEF InvokeInv
<1>3. ASSUME NEW k \in Dials, SocketLost(k) PROVE InvokeInv'
  <2>1. /\ UNCHANGED <<dial, dials, connStatus, reader, waiting, inbound, invoke>>
        /\ sock' = [sock EXCEPT ![k] = "lost"]
    BY Zenon, <1>3 DEF SocketLost
  <2>2. sock' \in [Dials -> {"none", "open", "lost"}] BY Zenon, <1>0, <2>1 DEF InvokeInv
  <2> QED BY <1>0, <2>1, <2>2 DEF InvokeInv
<1>4. ASSUME NEW k \in Dials, ReaderEnds(k) PROVE InvokeInv'
  <2>1. /\ UNCHANGED <<dial, dials, connStatus, sock, waiting, invoke>>
        /\ reader' = [reader EXCEPT ![k] = FALSE] /\ inbound' = [inbound EXCEPT ![k] = {}]
    BY Zenon, <1>4 DEF ReaderEnds
  <2>2. reader' \in [Dials -> BOOLEAN] /\ \A j \in Dials : reader'[j] => reader[j]
    BY Zenon, <1>0, <2>1 DEF InvokeInv
  <2>3. inbound' \in [Dials -> SUBSET Replies] /\ \A j \in Dials : inbound'[j] \subseteq inbound[j]
    BY Zenon, <1>0, <2>1 DEF InvokeInv
  <2> QED BY <1>0, <2>1, <2>2, <2>3 DEF InvokeInv
<1>5. ASSUME NEW k \in Dials, NEW i \in Invokers, NEW v \in {"ok", "expired"}, GatewayReplies(k, i, v)
      PROVE  InvokeInv'
  <2>1. /\ UNCHANGED <<dial, dials, connStatus, sock, reader, waiting, invoke>>
        /\ i \in waiting[k] /\ invoke[i].pc # "send"
        /\ inbound' = [inbound EXCEPT ![k] = @ \cup {[who |-> i, verdict |-> v]}]
    BY Zenon, <1>5 DEF GatewayReplies, linkVars
  <2>2. [who |-> i, verdict |-> v] \in Replies BY Zenon DEF Replies
  <2>3. inbound' \in [Dials -> SUBSET Replies]
    BY Zenon, <1>0, <2>1, <2>2 DEF InvokeInv
  <2>4. \A j \in Dials : \A r \in inbound'[j] : r \in inbound[j] \/ (j = k /\ r.who = i)
    BY <1>0, <2>1 DEF InvokeInv
  <2> QED BY ZenonT(30), <1>0, <2>1, <2>3, <2>4 DEF InvokeInv
<1>6. ASSUME NEW k \in Dials, NEW r \in inbound[k], ReaderReplies(k, r) PROVE InvokeInv'
  <2>0. r \in Replies /\ r.who \in Invokers BY <1>0 DEF InvokeInv, Replies
  <2>1. /\ UNCHANGED <<dial, dials, connStatus, sock, reader>>
        /\ inbound' = [inbound EXCEPT ![k] = @ \ {r}]
        /\ waiting' = [waiting EXCEPT ![k] = @ \ {r.who}]
    BY Zenon, <1>6 DEF ReaderReplies, linkVars
  <2>2. inbound' \in [Dials -> SUBSET Replies] /\ \A j \in Dials : inbound'[j] \subseteq inbound[j]
    BY Zenon, <1>0, <2>1 DEF InvokeInv
  <2>3. /\ waiting' \in [Dials -> SUBSET Invokers]
        /\ \A j \in Dials : waiting'[j] \subseteq waiting[j]
        /\ \A j \in Dials : \A i \in waiting[j] : i \in waiting'[j] \/ (i = r.who /\ j = k)
    BY ZenonT(30), <1>0, <2>1 DEF InvokeInv
  <2>4. CASE invoke[r.who].pc = "wait" /\ invoke[r.who].on = k
    <3>1. PICK pc \in {"expired", "done"} : invoke' = [invoke EXCEPT ![r.who].pc = pc]
      BY Zenon, <1>6, <2>4 DEF ReaderReplies
    <3>2. /\ invoke' \in [Invokers -> [pc : InvokePcs, on : 0 .. MaxDials, retried : BOOLEAN]]
          /\ invoke'[r.who].pc = pc /\ invoke'[r.who].on = k
          /\ \A i \in Invokers \ {r.who} : invoke'[i] = invoke[i]
      BY <1>0, <2>0, <2>4, <3>1 DEF InvokeInv, InvokePcs
    <3> QED BY <1>0, <2>0, <2>1, <2>2, <2>3, <2>4, <3>2 DEF InvokeInv
  <2>5. CASE ~ (invoke[r.who].pc = "wait" /\ invoke[r.who].on = k)
    <3>1. invoke' = invoke BY Zenon, <1>6, <2>5 DEF ReaderReplies
    <3>2. ~ (invoke[r.who].pc = "send" /\ invoke[r.who].on = k) BY Zenon, <1>0, <2>0 DEF InvokeInv
    <3> QED BY <1>0, <2>0, <2>1, <2>2, <2>3, <2>5, <3>1, <3>2 DEF InvokeInv
  <2> QED BY Zenon, <2>4, <2>5
<1>7. ASSUME NEW i \in Invokers, InvokeArrives(i) \/ CallSends(i) \/ CallTimesOut(i) \/ ReconnectFails(i)
      PROVE  InvokeInv'
  <2>1. /\ UNCHANGED <<dial, dials, sock, reader, waiting, inbound>>
        /\ connStatus' \in {connStatus, "disconnected"}
        /\ \E pc \in {"ready", "wait", "done"} :
              /\ invoke' = [invoke EXCEPT ![i].pc = pc]
              /\ pc = "ready" => invoke[i].pc = "idle" /\ dial # 0
              /\ pc = "wait" => invoke[i].pc = "send"
              /\ pc = "done" => invoke[i].pc # "idle"
    BY Zenon, <1>7 DEF InvokeArrives, CallSends, CallTimesOut, ReconnectFails, ConnectFailed, linkVars
  <2>2. PICK pc \in {"ready", "wait", "done"} :
              /\ invoke' = [invoke EXCEPT ![i].pc = pc]
              /\ pc = "ready" => invoke[i].pc = "idle" /\ dial # 0
              /\ pc = "wait" => invoke[i].pc = "send"
              /\ pc = "done" => invoke[i].pc # "idle"
    BY Zenon, <2>1
  <2>3. /\ invoke' \in [Invokers -> [pc : InvokePcs, on : 0 .. MaxDials, retried : BOOLEAN]]
        /\ invoke'[i].pc = pc /\ invoke'[i].on = invoke[i].on
        /\ \A j \in Invokers \ {i} : invoke'[j] = invoke[j]
    BY <1>0, <2>2 DEF InvokeInv, InvokePcs
  <2>4. pc = "ready" => invoke[i].on < dial
    BY <1>0, <1>a, <2>2 DEF InvokeInv
  <2> QED BY <1>0, <1>a, <2>1, <2>2, <2>3, <2>4 DEF InvokeInv
<1>8. ASSUME NEW i \in Invokers, CallRegisters(i) PROVE InvokeInv'
  <2>1. /\ UNCHANGED <<dial, dials, connStatus, sock, reader, inbound>> /\ invoke[i].pc = "ready"
        /\ invoke' = [invoke EXCEPT ![i].pc = "send", ![i].on = dial]
        /\ waiting' = [waiting EXCEPT ![dial] = @ \cup {i}]
    BY Zenon, <1>8 DEF CallRegisters, linkVars
  <2>2. dial \in Dials /\ dial # 0 /\ invoke[i].on < dial
    BY <1>0, <1>a, <2>1 DEF InvokeInv, Dials
  <2>3. /\ invoke' \in [Invokers -> [pc : InvokePcs, on : 0 .. MaxDials, retried : BOOLEAN]]
        /\ invoke'[i].pc = "send" /\ invoke'[i].on = dial
        /\ \A j \in Invokers \ {i} : invoke'[j] = invoke[j]
    BY <1>0, <1>a, <2>1 DEF InvokeInv, InvokePcs
  <2>4. /\ waiting' \in [Dials -> SUBSET Invokers] /\ i \in waiting'[dial]
        /\ \A k \in Dials : waiting[k] \subseteq waiting'[k]
        /\ \A k \in Dials : \A j \in waiting'[k] : j \in waiting[k] \/ (j = i /\ k = dial)
    BY Zenon, <1>0, <2>1, <2>2 DEF InvokeInv
  <2>5. \A k \in Dials : k <= invoke[i].on => k <= dial /\ k # dial
    BY <1>0, <1>a, <2>2 DEF InvokeInv, Dials
  <2> QED BY <1>0, <1>a, <2>1, <2>2, <2>3, <2>4, <2>5 DEF InvokeInv, Dials
<1>9. ASSUME NEW i \in Invokers, Reconnects(i) PROVE InvokeInv'
  <2>1. /\ dials' = dials + 1 /\ dial' = dials + 1 /\ dials + 1 \in Dials /\ connStatus' = "connected"
        /\ sock' = [sock EXCEPT ![dials + 1] = "open"]
        /\ reader' = [reader EXCEPT ![dials + 1] = TRUE]
        /\ UNCHANGED <<waiting, inbound>> /\ invoke[i].pc = "expired"
        /\ invoke' = [invoke EXCEPT ![i].pc = "ready", ![i].retried = TRUE]
    BY <1>a, <1>9 DEF Reconnects, Connected, Dials
  <2>2. sock' \in [Dials -> {"none", "open", "lost"}] /\ reader' \in [Dials -> BOOLEAN]
        /\ \A k \in Dials : reader'[k] => k <= dials'
    BY <1>0, <1>a, <2>1 DEF InvokeInv, Dials
  <2>3. /\ invoke' \in [Invokers -> [pc : InvokePcs, on : 0 .. MaxDials, retried : BOOLEAN]]
        /\ invoke'[i].pc = "ready" /\ invoke'[i].on = invoke[i].on
        /\ \A j \in Invokers \ {i} : invoke'[j] = invoke[j]
    BY Zenon, <1>0, <2>1 DEF InvokeInv, InvokePcs
  <2> QED BY <1>0, <1>a, <2>1, <2>2, <2>3 DEF InvokeInv, Dials
<1> QED
  BY Zenon, <1>b, <1>1, <1>2, <1>3, <1>4, <1>5, <1>6, <1>7, <1>8, <1>9 DEF ClientNext, InvokeStep, SetEmitCallback, linkVars,
     BridgeEnds, BridgeLags

\* The interface hears the current connection exactly once, whatever the
\* bridges of earlier connections do to the flag (AppState::do_connect,
\* start_event_bridge), and a call that waits is in its dispatcher's map.
THEOREM InterfaceHears == ClientSpec => [](ClientTypeOK /\ UiHearsCurrent)
<1>1. ClientInv /\ [ClientNext]_clientVars => ClientInv'
  BY Zenon, BridgeStep, InvokeStepKeeps DEF ClientInv
<1> QED BY <1>1, ClientInitInv, ClientInvTypes, PTL DEF ClientSpec

-----------------------------------------------------------------------------
(* Tui: the screen and what the loop acts on                               *)

Installed == Action("installed")
Start == Action("start")
InstallEnds == {Launch(Installed), Send(Installed)}

LoopSteps == {"send", "apply", "call", "dial", "launch"} \X TuiActions
FeedSteps == ({"send"} \X ({Action("other")} \cup ({"hil"} \X (Hils \cup {NoHil}))))
             \cup (({"open"} \cup HilAnswers) \X ({"hil"} \X Hils))

\* What a handler still has to do: an install it announces it also runs or
\* ends, and it makes no call that could cut that off.  It applies and
\* launches only what FormKey and the two kinds of tasks need.
ScriptOK(s) ==
    /\ s \in Seq(LoopSteps)
    /\ \A i \in DOMAIN s : s[i] = Send(Start) => \E j \in DOMAIN s : j > i /\ s[j] \in InstallEnds
    /\ \A i, j \in DOMAIN s : s[i][1] \in {"call", "dial"} => s[j] \notin InstallEnds
    /\ \A i \in DOMAIN s : s[i][1] = "apply" => s[i][2] = Action("form")
    /\ \A i \in DOMAIN s : s[i][1] = "launch" => s[i][2] \in TaskActions

EndInScript == \E i \in DOMAIN loop.script : loop.script[i] \in InstallEnds

\* The end of an install is to come after position n of the queue.
EndsAfter(n) ==
    \/ tasks[Installed] > 0
    \/ \E j \in DOMAIN actions : j > n /\ actions[j] = Installed
    \/ EndInScript

Screens == [modal : Hils \cup {NoHil}, layers : SUBSET Layers, panel : {"idle", "progress", "settled"}]

ScreenInv ==
    /\ tui \in Screens /\ shown \in Screens
    /\ loop.pc \in {"drain", "poll", "run", "sync", "quit"}
    /\ loop = [pc |-> loop.pc, script |-> loop.script]
    /\ ScriptOK(loop.script) /\ (loop.pc # "run" => loop.script = << >>)
    /\ KeysMeetTheScreen

QueueInv ==
    /\ actions \in Seq(TuiActions) /\ Len(actions) <= ActionCapacity
    /\ tasks \in [TaskActions -> Nat]
    /\ tui.panel = "progress" => EndsAfter(0)
    /\ \A i \in DOMAIN actions : actions[i] = Start => EndsAfter(i)

FeedInv ==
    /\ feed \in Seq(FeedSteps)
    /\ store \in [Hils -> {"none", "open"} \cup HilAnswers]
    /\ tuiLink \in BOOLEAN /\ tuiEvents \in 0 .. MaxTuiEvents /\ keys \in 0 .. MaxKeys

TuiInv == ScreenInv /\ QueueInv /\ FeedInv

LEMMA TuiInvGives == TuiInv => TuiTypeOK /\ ScreenIsTrue
<1> SUFFICES ASSUME TuiInv PROVE TuiTypeOK /\ ScreenIsTrue OBVIOUS
<1>1. TuiTypeOK BY Zenon DEF TuiInv, ScreenInv, QueueInv, FeedInv, TuiTypeOK, Screens
<1>2. PanelFollowsInstalls
  BY Zenon DEF TuiInv, QueueInv, PanelFollowsInstalls, EndsAfter, EndInScript, InstallEnds, Installed
<1>3. KeysMeetTheScreen BY Zenon DEF TuiInv, ScreenInv
<1> QED BY Zenon, <1>1, <1>2, <1>3 DEF ScreenIsTrue

LEMMA KindsDiffer ==
    /\ Start # Installed /\ Start # Action("other") /\ Installed # Action("other")
    /\ Start \in TuiActions /\ Installed \in TuiActions /\ Action("other") \in TuiActions
    /\ TaskActions \subseteq TuiActions /\ Installed \in TaskActions
    /\ \A h : <<"hil", h>> # Start /\ <<"hil", h>> # Installed
BY Zenon DEF Start, Installed, Action, TuiActions, ActionKinds, TaskActions

LEMMA TailScript ==
    ASSUME NEW s, ScriptOK(s), s # << >>
    PROVE  /\ ScriptOK(Tail(s)) /\ Head(s) = s[1] /\ Head(s) \in LoopSteps
           /\ \A i \in DOMAIN Tail(s) : i + 1 \in DOMAIN s /\ Tail(s)[i] = s[i + 1]
           /\ \A i \in DOMAIN s : i = 1 \/ (i - 1 \in DOMAIN Tail(s) /\ s[i] = Tail(s)[i - 1])
<1>1. s \in Seq(LoopSteps) BY Zenon DEF ScriptOK
<1>2. Tail(s) \in Seq(LoopSteps) /\ Head(s) = s[1] /\ Head(s) \in LoopSteps BY <1>1
<1>3. \A i \in DOMAIN Tail(s) : i + 1 \in DOMAIN s /\ Tail(s)[i] = s[i + 1] BY <1>1
<1>4. \A i \in DOMAIN s : i = 1 \/ (i - 1 \in DOMAIN Tail(s) /\ s[i] = Tail(s)[i - 1]) BY <1>1
<1>5. \A i \in DOMAIN Tail(s) : Tail(s)[i] = Send(Start) =>
         \E j \in DOMAIN Tail(s) : j > i /\ Tail(s)[j] \in InstallEnds
  <2> SUFFICES ASSUME NEW i \in DOMAIN Tail(s), Tail(s)[i] = Send(Start)
               PROVE  \E j \in DOMAIN Tail(s) : j > i /\ Tail(s)[j] \in InstallEnds
    BY Zenon
  <2>0. i \in Nat /\ i >= 1 BY <1>2
  <2>1. PICK j \in DOMAIN s : j > i + 1 /\ s[j] \in InstallEnds BY Zenon, <1>3 DEF ScriptOK
  <2>2. j \in Nat /\ j - 1 \in DOMAIN Tail(s) /\ s[j] = Tail(s)[j - 1] /\ j - 1 > i BY <1>1, <1>4, <2>0, <2>1
  <2> QED BY Zenon, <2>1, <2>2
<1> QED BY <1>1, <1>2, <1>3, <1>4, <1>5 DEF ScriptOK

\* Steps without an install, and the scripts made of them.
PlainSteps == {e \in LoopSteps :
    /\ e # Send(Start) /\ e \notin InstallEnds
    /\ e[1] = "apply" => e[2] = Action("form")
    /\ e[1] = "launch" => e[2] \in TaskActions}

LEMMA PlainScript == ASSUME NEW s \in Seq(PlainSteps) PROVE ScriptOK(s)
<1>1. \A i \in DOMAIN s : s[i] \in PlainSteps OBVIOUS
<1>2. s \in Seq(LoopSteps)
  <2>1. PlainSteps \subseteq LoopSteps BY Zenon DEF PlainSteps
  <2> QED BY <2>1
<1> QED BY Zenon, <1>1, <1>2 DEF ScriptOK, PlainSteps

LEMMA EmptyScript == ScriptOK(<< >>)
<1>1. << >> \in Seq(PlainSteps) OBVIOUS
<1> QED BY Zenon, <1>1, PlainScript

\* The steps that handlers are made of.
LEMMA StepKinds ==
    /\ \A k \in ActionKinds : Send(Action(k)) \in LoopSteps
    /\ Call \in LoopSteps /\ Dial \in LoopSteps /\ Apply(Action("form")) \in LoopSteps
    /\ \A a \in TaskActions : Launch(a) \in LoopSteps
BY Zenon DEF Send, Call, Dial, Apply, Launch, LoopSteps, TuiActions, TaskActions, ActionKinds

LEMMA CommandScripts == ASSUME NEW cmd \in Commands PROVE ScriptOK(Script(cmd))
<1> USE StepKinds DEF ActionKinds
<1> DEFINE log == Send(Action("other"))
<1>0. /\ log \in PlainSteps /\ Call \in PlainSteps /\ Dial \in PlainSteps
      /\ Launch(Action("other")) \in PlainSteps
      /\ \A k \in {"help", "popup", "form"} : Send(Action(k)) \in PlainSteps
  BY Zenon DEF Send, Call, Dial, Launch, Action, Start, Installed, InstallEnds, TaskActions, PlainSteps
<1>a. log \in LoopSteps /\ log[1] = "send" /\ log # Send(Start) /\ log \notin InstallEnds
  BY Zenon DEF Send, Launch, Action, Start, Installed, InstallEnds
<1> HIDE DEF log
<1>1. <<log>> \in Seq(PlainSteps) /\ <<log, log>> \in Seq(PlainSteps) BY <1>0
<1>2. <<log, Dial, log>> \in Seq(PlainSteps) BY <1>0
<1>3. <<log, Call, log, log>> \in Seq(PlainSteps) /\ <<log, Call>> \in Seq(PlainSteps) BY <1>0
<1>4. <<log, log, Launch(Action("other"))>> \in Seq(PlainSteps) BY <1>0
<1>5. \A k \in {"help", "popup", "form"} : <<log, Send(Action(k))>> \in Seq(PlainSteps) BY <1>0
<1>6. ASSUME NEW e \in InstallEnds PROVE ScriptOK(<<log, Send(Start), e>>)
  <2> DEFINE s == <<log, Send(Start), e>>
  <2>1. e \in LoopSteps /\ e[1] \in {"send", "launch"} /\ e[2] = Installed /\ e # Send(Start)
    BY KindsDiffer DEF InstallEnds, Send, Launch, LoopSteps
  <2>2. Send(Start) \in LoopSteps /\ Send(Start)[1] = "send" BY Zenon, KindsDiffer DEF Send, LoopSteps
  <2>3. s \in Seq(LoopSteps) /\ DOMAIN s = 1 .. 3 /\ s[1] = log /\ s[2] = Send(Start) /\ s[3] = e
    BY <1>a, <2>1, <2>2
  <2> HIDE DEF s
  <2>4. \A i \in DOMAIN s : s[i][1] \in {"send", "launch"} /\ (s[i][1] = "launch" => s[i][2] = Installed)
    BY <1>a, <2>1, <2>2, <2>3
  <2>5. \A i \in DOMAIN s : s[i] = Send(Start) => i = 2 BY <1>a, <2>1, <2>3
  <2>6. \A i \in DOMAIN s : s[i] = Send(Start) => \E j \in DOMAIN s : j > i /\ s[j] \in InstallEnds
    BY <2>3, <2>5
  <2>7. ScriptOK(s) BY Zenon, <2>3, <2>4, <2>6, KindsDiffer DEF ScriptOK
  <2> QED BY Zenon, <2>7 DEF s
<1>7. Launch(Installed) \in InstallEnds /\ Send(Installed) \in InstallEnds BY Zenon DEF InstallEnds
<1> QED BY Zenon, <1>1, <1>2, <1>3, <1>4, <1>5, <1>6, <1>7, EmptyScript, PlainScript DEF Script, Commands, log, Start, Installed
LEMMA ReducedScreen ==
    ASSUME NEW t \in Screens, NEW a \in TuiActions
    PROVE  /\ Reduced(t, a) \in Screens
           /\ Reduced(t, a).panel = IF a = Start THEN "progress" ELSE IF a = Installed THEN "settled" ELSE t.panel
<1>1. CASE a \in {"hil"} \X (Hils \cup {NoHil})
  BY <1>1 DEF Reduced, Screens, Start, Installed, Action, Layers
<1>2. ASSUME NEW k \in ActionKinds, a = Action(k)
      PROVE  /\ Reduced(t, a) \in Screens
             /\ Reduced(t, a).panel = IF a = Start THEN "progress" ELSE IF a = Installed THEN "settled" ELSE t.panel
  <2>0. a[1] = k /\ (a = Start <=> k = "start") /\ (a = Installed <=> k = "installed")
    BY Zenon, <1>2 DEF Action, Start, Installed
  <2>1. CASE k = "other" BY Zenon, <2>0, <2>1 DEF Reduced, Layers
  <2>2. CASE k \in {"help", "popup", "form"}
    <3>1. Reduced(t, a) = [t EXCEPT !.layers = Toggle(@, k)] BY Zenon, <2>0, <2>2 DEF Reduced, Layers
    <3>2. Toggle(t.layers, k) \in SUBSET Layers BY Zenon, <2>2 DEF Toggle, Layers, Screens
    <3> QED BY Zenon, <2>0, <2>2, <3>1, <3>2 DEF Screens
  <2>3. CASE k \in {"start", "installed"} BY Zenon, <2>0, <2>3 DEF Reduced, Layers, Screens
  <2> QED BY Zenon, <1>2, <2>1, <2>2, <2>3 DEF ActionKinds
<1> QED BY Zenon, <1>1, <1>2 DEF TuiActions

\* A step that lets the end of every install come keeps the queue as it should be.
LEMMA QueueMoves ==
    ASSUME TuiInv, tui'.panel = tui.panel, tasks' \in [TaskActions -> Nat],
           \A n \in 0 .. Len(actions) : EndsAfter(n) => EndsAfter(n)',
           \/ actions' = actions
           \/ \E a \in TuiActions : HasRoomFor /\ actions' = Append(actions, a) /\ (a = Start => EndInScript')
    PROVE  QueueInv'
<1>0. actions \in Seq(TuiActions) /\ Len(actions) \in Nat /\ Len(actions) <= ActionCapacity
  BY DEF TuiInv, QueueInv
<1>1. CASE actions' = actions
  <2>1. \A i \in DOMAIN actions : i \in 0 .. Len(actions) BY <1>0
  <2> QED BY <1>0, <1>1, <2>1 DEF TuiInv, QueueInv
<1>2. CASE \E a \in TuiActions : HasRoomFor /\ actions' = Append(actions, a) /\ (a = Start => EndInScript')
  <2>1. PICK a \in TuiActions : HasRoomFor /\ actions' = Append(actions, a) /\ (a = Start => EndInScript')
    BY Zenon, <1>2
  <2>2. /\ actions' \in Seq(TuiActions) /\ Len(actions') = Len(actions) + 1
        /\ \A i \in DOMAIN actions' : (i \in DOMAIN actions /\ actions'[i] = actions[i] /\ i \in 0 .. Len(actions))
                                      \/ actions'[i] = a
    BY <1>0, <2>1
  <2>3. Len(actions') <= ActionCapacity BY <1>0, <2>1, <2>2, TuiAssumption DEF HasRoomFor
  <2>4. ASSUME NEW i \in DOMAIN actions', actions'[i] = Start PROVE EndsAfter(i)'
    <3>1. CASE i \in DOMAIN actions /\ actions'[i] = actions[i] /\ i \in 0 .. Len(actions)
      BY Zenon, <2>4, <3>1 DEF TuiInv, QueueInv
    <3>2. CASE actions'[i] = a BY Zenon, <2>1, <2>4, <3>2 DEF EndsAfter
    <3> QED BY Zenon, <2>2, <3>1, <3>2
  <2>5. tui'.panel = "progress" => EndsAfter(0)' BY <1>0 DEF TuiInv, QueueInv
  <2> QED BY Zenon, <2>2, <2>3, <2>4, <2>5 DEF QueueInv
<1> QED BY Zenon, <1>1, <1>2

\* Taking the front action out moves the rest one place forward.
LEMMA DrainsKeeps == TuiInv /\ Drains => TuiInv'
<1> SUFFICES ASSUME TuiInv, Drains PROVE TuiInv' BY Zenon
<1>0. actions \in Seq(TuiActions) /\ actions # << >> /\ Len(actions) <= ActionCapacity
  BY Zenon DEF TuiInv, QueueInv, Drains
<1>1. /\ actions' \in Seq(TuiActions) /\ Len(actions') <= ActionCapacity
      /\ Head(actions) \in TuiActions /\ Head(actions) = actions[1]
  BY <1>0, TuiAssumption DEF Drains
<1>2. /\ \A i \in DOMAIN actions' : i \in Nat /\ i + 1 \in DOMAIN actions /\ actions'[i] = actions[i + 1]
      /\ \A i \in DOMAIN actions : i \in Nat /\ (i = 1 \/ (i - 1 \in DOMAIN actions' /\ actions[i] = actions'[i - 1]))
  BY <1>0 DEF Drains
<1>3. ASSUME NEW n \in Nat, EndsAfter(n + 1) PROVE EndsAfter(n)'
  <2>1. tasks' = tasks /\ EndInScript' = EndInScript BY Zenon DEF Drains, EndInScript
  <2>2. CASE \E j \in DOMAIN actions : j > n + 1 /\ actions[j] = Installed
    <3>1. PICK j \in DOMAIN actions : j > n + 1 /\ actions[j] = Installed BY Zenon, <2>2
    <3>2. j - 1 \in DOMAIN actions' /\ actions'[j - 1] = Installed /\ j - 1 > n BY <1>2, <3>1
    <3> QED BY Zenon, <3>2 DEF EndsAfter
  <2> QED BY Zenon, <1>3, <2>1, <2>2 DEF EndsAfter
<1>4. tui \in Screens /\ tui' = Reduced(tui, Head(actions)) BY Zenon DEF TuiInv, ScreenInv, Drains
<1>5. /\ tui' \in Screens
      /\ tui'.panel = IF Head(actions) = Start THEN "progress"
                      ELSE IF Head(actions) = Installed THEN "settled" ELSE tui.panel
  BY Zenon, <1>1, <1>4, ReducedScreen
<1>6. tui'.panel = "progress" => EndsAfter(0)'
  <2> SUFFICES ASSUME tui'.panel = "progress" PROVE EndsAfter(0)' BY Zenon
  <2>1. CASE Head(actions) = Start
    <3>1. EndsAfter(0 + 1) BY <1>0, <1>1, <2>1 DEF TuiInv, QueueInv
    <3> QED BY Zenon, <1>3, <3>1
  <2>2. CASE Head(actions) # Start
    <3>1. actions[1] # Installed /\ EndsAfter(0) BY Zenon, <1>1, <1>5, <2>2 DEF TuiInv, QueueInv
    <3>2. \A j \in DOMAIN actions : j > 0 /\ actions[j] = Installed => j > 0 + 1 BY <1>2, <3>1
    <3>3. EndsAfter(0 + 1) BY Zenon, <3>1, <3>2 DEF EndsAfter
    <3> QED BY <1>3, <3>3
  <2> QED BY Zenon, <2>1, <2>2
<1>7. \A i \in DOMAIN actions' : actions'[i] = Start => EndsAfter(i)'
  BY Zenon, <1>2, <1>3 DEF TuiInv, QueueInv
<1>8. QueueInv' BY Zenon, <1>1, <1>6, <1>7 DEF TuiInv, QueueInv, Drains
<1>9. ScreenInv' BY Zenon, <1>5 DEF TuiInv, ScreenInv, Drains, KeysMeetTheScreen
<1>10. FeedInv' BY Zenon DEF TuiInv, FeedInv, Drains
<1> QED BY Zenon, <1>8, <1>9, <1>10 DEF TuiInv
\* A step of the script done: what is left of it, and of the ends it holds.
LEMMA StepDoneScript ==
    ASSUME TuiInv, loop.pc = "run", loop.script # << >>, StepDone
    PROVE  /\ loop' = [pc |-> "run", script |-> Tail(loop.script)]
           /\ ScriptOK(loop'.script) /\ loop'.pc = "run" /\ loop'.script = Tail(loop.script)
           /\ Head(loop.script) \in LoopSteps
           /\ EndInScript => Head(loop.script) \in InstallEnds \/ EndInScript'
           /\ Head(loop.script) = Send(Start) => EndInScript'
<1> DEFINE s == loop.script
<1>1. ScriptOK(s) /\ loop = [pc |-> loop.pc, script |-> s] BY Zenon DEF TuiInv, ScreenInv
<1>2. /\ loop' = [pc |-> "run", script |-> Tail(s)] /\ loop'.pc = "run" /\ loop'.script = Tail(s)
  BY Zenon, <1>1 DEF StepDone
<1> HIDE DEF s
<1>3. /\ ScriptOK(Tail(s)) /\ Head(s) = s[1] /\ Head(s) \in LoopSteps
      /\ \A i \in DOMAIN s : i = 1 \/ (i - 1 \in DOMAIN Tail(s) /\ s[i] = Tail(s)[i - 1])
  BY Zenon, <1>1, TailScript DEF s
<1>4. EndInScript => Head(s) \in InstallEnds \/ EndInScript'
  BY Zenon, <1>2, <1>3 DEF EndInScript, s
<1>5. Head(s) = Send(Start) => EndInScript'
  <2> SUFFICES ASSUME Head(s) = Send(Start) PROVE EndInScript' BY Zenon
  <2>1. s \in Seq(LoopSteps) /\ s # << >> BY Zenon, <1>1 DEF ScriptOK, s
  <2>2. 1 \in DOMAIN s BY <2>1
  <2>3. PICK j \in DOMAIN s : j > 1 /\ s[j] \in InstallEnds BY Zenon, <1>1, <1>3, <2>2 DEF ScriptOK
  <2>4. j # 1 BY <2>1, <2>3
  <2>5. j - 1 \in DOMAIN Tail(s) /\ Tail(s)[j - 1] \in InstallEnds BY Zenon, <1>3, <2>3, <2>4
  <2> QED BY Zenon, <1>2, <2>5 DEF EndInScript
<1> QED BY Zenon, <1>2, <1>3, <1>4, <1>5 DEF s

LEMMA LoopSendsKeeps == TuiInv /\ LoopSends => TuiInv'
<1> SUFFICES ASSUME TuiInv, LoopSends PROVE TuiInv' OBVIOUS
<1> DEFINE e == Head(loop.script)
<1>0. loop.pc = "run" /\ loop.script # << >> /\ StepDone /\ e[1] = "send" BY Zenon DEF LoopSends, NextStepIs
<1>1. /\ loop' = [pc |-> "run", script |-> Tail(loop.script)]
      /\ ScriptOK(loop'.script) /\ loop'.pc = "run" /\ loop'.script = Tail(loop.script)
      /\ e \in LoopSteps
      /\ EndInScript => e \in InstallEnds \/ EndInScript'
      /\ e = Send(Start) => EndInScript'
  BY Zenon, <1>0, StepDoneScript
<1> HIDE DEF e
<1>2. e[2] \in TuiActions /\ e = Send(e[2]) BY <1>0, <1>1 DEF LoopSteps, Send
<1>3. HasRoomFor /\ actions' = Append(actions, e[2]) /\ tasks' = tasks BY Zenon DEF LoopSends, e
<1>4. actions \in Seq(TuiActions) BY Zenon DEF TuiInv, QueueInv
<1>5. /\ \A j \in DOMAIN actions : j \in DOMAIN actions' /\ actions'[j] = actions[j]
      /\ Len(actions) + 1 \in DOMAIN actions' /\ actions'[Len(actions) + 1] = e[2]
  BY <1>2, <1>3, <1>4
<1>6. e \in InstallEnds => e[2] = Installed BY <1>0 DEF InstallEnds, Launch, Send
<1>7. ASSUME NEW n \in 0 .. Len(actions), EndsAfter(n) PROVE EndsAfter(n)'
  <2>1. Len(actions) + 1 > n BY <1>4
  <2>2. CASE e \in InstallEnds BY Zenon, <1>5, <1>6, <2>1, <2>2 DEF EndsAfter
  <2>3. CASE EndInScript /\ e \notin InstallEnds BY Zenon, <1>1, <2>3 DEF EndsAfter
  <2>4. CASE ~EndInScript BY Zenon, <1>3, <1>5, <1>7, <2>4 DEF EndsAfter
  <2> QED BY Zenon, <2>2, <2>3, <2>4
<1>8. e[2] = Start => EndInScript' BY Zenon, <1>1, <1>2
<1>9. QueueInv' BY Zenon, <1>2, <1>3, <1>7, <1>8, QueueMoves DEF LoopSends, TuiInv, QueueInv
<1>10. ScreenInv' BY Zenon, <1>1 DEF TuiInv, ScreenInv, LoopSends, KeysMeetTheScreen
<1>11. FeedInv' BY Zenon DEF TuiInv, FeedInv, LoopSends
<1> QED BY <1>9, <1>10, <1>11 DEF TuiInv

LEMMA LoopAppliesKeeps == TuiInv /\ LoopApplies => TuiInv'
<1> SUFFICES ASSUME TuiInv, LoopApplies PROVE TuiInv' OBVIOUS
<1> DEFINE e == Head(loop.script)
<1>0. loop.pc = "run" /\ loop.script # << >> /\ StepDone /\ e[1] = "apply" BY Zenon DEF LoopApplies, NextStepIs
<1>1. /\ loop' = [pc |-> "run", script |-> Tail(loop.script)]
      /\ ScriptOK(loop'.script) /\ loop'.pc = "run" /\ loop'.script = Tail(loop.script)
      /\ EndInScript => e \in InstallEnds \/ EndInScript'
  BY Zenon, <1>0, StepDoneScript
<1>2. e[2] = Action("form")
  <2>1. ScriptOK(loop.script) BY Zenon DEF TuiInv, ScreenInv
  <2>2. 1 \in DOMAIN loop.script /\ e = loop.script[1] BY <1>0, <2>1 DEF ScriptOK
  <2> QED BY Zenon, <1>0, <2>1, <2>2 DEF ScriptOK
<1> HIDE DEF e
<1>3. e[2] \in TuiActions /\ e[2] # Start /\ e[2] # Installed
  BY <1>2 DEF TuiActions, ActionKinds, Action, Start, Installed
<1>4. tui' = Reduced(tui, e[2]) /\ tui \in Screens BY Zenon DEF LoopApplies, e, TuiInv, ScreenInv
<1>5. tui' \in Screens /\ tui'.panel = tui.panel BY Zenon, <1>3, <1>4, ReducedScreen
<1>6. e \notin InstallEnds BY <1>0 DEF InstallEnds, Launch, Send
<1>7. \A n \in 0 .. Len(actions) : EndsAfter(n) => EndsAfter(n)' BY Zenon, <1>1, <1>6 DEF EndsAfter, LoopApplies
<1>8. QueueInv' BY Zenon, <1>5, <1>7, QueueMoves DEF LoopApplies, TuiInv, QueueInv
<1>9. ScreenInv' BY Zenon, <1>1, <1>5 DEF TuiInv, ScreenInv, LoopApplies, KeysMeetTheScreen
<1>10. FeedInv' BY Zenon DEF TuiInv, FeedInv, LoopApplies
<1> QED BY <1>8, <1>9, <1>10 DEF TuiInv

LEMMA LoopCallsKeeps == TuiInv /\ (LoopCalls \/ LoopDials) => TuiInv'
<1> SUFFICES ASSUME TuiInv, LoopCalls \/ LoopDials PROVE TuiInv' BY Zenon
<1> DEFINE e == Head(loop.script)
<1>0. /\ loop.pc = "run" /\ loop.script # << >> /\ e[1] \in {"call", "dial"}
      /\ StepDone \/ loop' = [loop EXCEPT !.script = << >>]
      /\ UNCHANGED <<tui, shown, actions, feed, store, tasks, tuiEvents, keys>>
      /\ tuiLink' \in BOOLEAN
  BY Zenon DEF LoopCalls, LoopDials, NextStepIs, TuiInv, FeedInv
<1>1. ~EndInScript
  <2>1. ScriptOK(loop.script) BY Zenon DEF TuiInv, ScreenInv
  <2>2. 1 \in DOMAIN loop.script /\ e = loop.script[1] BY <1>0, <2>1 DEF ScriptOK
  <2> QED BY Zenon, <1>0, <2>1, <2>2 DEF ScriptOK, EndInScript
<1>2. ScriptOK(loop'.script) /\ loop'.pc = "run" /\ loop' = [pc |-> "run", script |-> loop'.script]
  <2>1. CASE StepDone BY Zenon, <1>0, <2>1, StepDoneScript
  <2>2. CASE loop' = [loop EXCEPT !.script = << >>]
    BY Zenon, <1>0, <2>2, EmptyScript DEF TuiInv, ScreenInv
  <2> QED BY Zenon, <1>0, <2>1, <2>2
<1>3. \A n \in 0 .. Len(actions) : EndsAfter(n) => EndsAfter(n)' BY Zenon, <1>0, <1>1 DEF EndsAfter
<1>4. QueueInv' BY Zenon, <1>0, <1>3, QueueMoves DEF TuiInv, QueueInv
<1>5. ScreenInv' BY Zenon, <1>0, <1>2 DEF TuiInv, ScreenInv, KeysMeetTheScreen
<1>6. FeedInv' BY Zenon, <1>0 DEF TuiInv, FeedInv
<1> QED BY Zenon, <1>4, <1>5, <1>6 DEF TuiInv

LEMMA LoopLaunchesKeeps == TuiInv /\ LoopLaunches => TuiInv'
<1> SUFFICES ASSUME TuiInv, LoopLaunches PROVE TuiInv' OBVIOUS
<1> DEFINE e == Head(loop.script)
<1>0. loop.pc = "run" /\ loop.script # << >> /\ StepDone /\ e[1] = "launch" BY Zenon DEF LoopLaunches, NextStepIs
<1>1. /\ loop' = [pc |-> "run", script |-> Tail(loop.script)]
      /\ ScriptOK(loop'.script) /\ loop'.pc = "run" /\ loop'.script = Tail(loop.script)
      /\ EndInScript => e \in InstallEnds \/ EndInScript'
  BY Zenon, <1>0, StepDoneScript
<1>2. e[2] \in TaskActions
  <2>1. ScriptOK(loop.script) BY DEF TuiInv, ScreenInv
  <2>2. 1 \in DOMAIN loop.script /\ e = loop.script[1] BY <1>0, <2>1 DEF ScriptOK
  <2> QED BY Zenon, <1>0, <2>1, <2>2 DEF ScriptOK
<1>3. tasks' = [tasks EXCEPT ![e[2]] = @ + 1] /\ tasks \in [TaskActions -> Nat]
  BY Zenon DEF LoopLaunches, TuiInv, QueueInv
<1> HIDE DEF e
<1>4. tasks' \in [TaskActions -> Nat] /\ (tasks[Installed] > 0 \/ e[2] = Installed => tasks'[Installed] > 0)
  BY <1>2, <1>3, KindsDiffer
<1>5. e \in InstallEnds => e[2] = Installed BY DEF InstallEnds, Launch, Send
<1>6. \A n \in 0 .. Len(actions) : EndsAfter(n) => EndsAfter(n)'
  BY Zenon, <1>1, <1>4, <1>5 DEF EndsAfter, LoopLaunches
<1>7. QueueInv' BY Zenon, <1>4, <1>6, QueueMoves DEF LoopLaunches
<1>8. ScreenInv' BY Zenon, <1>1 DEF TuiInv, ScreenInv, LoopLaunches, KeysMeetTheScreen
<1>9. FeedInv' BY Zenon DEF TuiInv, FeedInv, LoopLaunches
<1> QED BY <1>7, <1>8, <1>9 DEF TuiInv

\* The steps of the loop that only move it on.
LEMMA LoopMovesKeeps == TuiInv /\ (Draws \/ NoKey \/ QuitKey \/ LoopHandled \/ Syncs) => TuiInv'
<1> SUFFICES ASSUME TuiInv, Draws \/ NoKey \/ QuitKey \/ LoopHandled \/ Syncs PROVE TuiInv' BY Zenon
<1>0. /\ loop = [pc |-> loop.pc, script |-> loop.script] /\ loop.script = << >>
      /\ \E p \in {"drain", "poll", "sync", "quit"} :
            loop' = [loop EXCEPT !.pc = p] /\ (p = "poll" => shown' = tui /\ Draws)
      /\ UNCHANGED <<tui, actions, feed, store, tuiLink, tasks, tuiEvents, keys>>
      /\ shown' \in {shown, tui}
  BY Zenon DEF Draws, NoKey, QuitKey, LoopHandled, Syncs, TuiInv, ScreenInv
<1>1. PICK p \in {"drain", "poll", "sync", "quit"} :
            loop' = [loop EXCEPT !.pc = p] /\ (p = "poll" => shown' = tui)
  BY Zenon, <1>0
<1>2. loop' = [pc |-> p, script |-> << >>] /\ loop'.pc = p /\ loop'.script = << >> BY Zenon, <1>0, <1>1
<1>3. ScreenInv' BY Zenon, <1>0, <1>1, <1>2, EmptyScript DEF TuiInv, ScreenInv, KeysMeetTheScreen
<1>4. \A n \in 0 .. Len(actions) : EndsAfter(n) => EndsAfter(n)' BY Zenon, <1>0, <1>2 DEF EndsAfter, EndInScript
<1>5. QueueInv' BY Zenon, <1>0, <1>4, QueueMoves DEF TuiInv, QueueInv
<1>6. FeedInv' BY Zenon, <1>0 DEF TuiInv, FeedInv
<1> QED BY Zenon, <1>3, <1>5, <1>6 DEF TuiInv
\* A key is handled on the screen that is shown, and its handler starts.
LEMMA PressedKeeps ==
    ASSUME TuiInv, loop.pc = "poll", NEW t \in Screens, t.panel = tui.panel, NEW s, ScriptOK(s), Pressed(t, s)
    PROVE  TuiInv'
<1>1. loop' = [pc |-> "run", script |-> s] /\ loop'.pc = "run" /\ loop'.script = s /\ tui' = t
  BY Zenon DEF Pressed
<1>2. ScreenInv' BY Zenon, <1>1 DEF TuiInv, ScreenInv, Pressed, KeysMeetTheScreen
<1>3. ~EndInScript BY DEF TuiInv, ScreenInv, EndInScript
<1>4. \A n \in 0 .. Len(actions) : EndsAfter(n) => EndsAfter(n)' BY Zenon, <1>3 DEF EndsAfter, Pressed
<1>5. QueueInv' BY Zenon, <1>1, <1>4, QueueMoves DEF Pressed, TuiInv, QueueInv
<1>6. keys' \in 0 .. MaxKeys BY TuiAssumption DEF Pressed, TuiInv, FeedInv
<1>7. FeedInv' BY Zenon, <1>6 DEF TuiInv, FeedInv, Pressed
<1> QED BY Zenon, <1>2, <1>5, <1>7 DEF TuiInv

\* The scripts of the keys that are no commands.
LEMMA KeyScripts ==
    /\ ScriptOK(<<Call>>) /\ ScriptOK(<<Call, Apply(Action("form"))>>)
    /\ ScriptOK(<<Dial, Launch(Action("other"))>>)
<1>1. /\ Call \in PlainSteps /\ Dial \in PlainSteps
      /\ Apply(Action("form")) \in PlainSteps /\ Launch(Action("other")) \in PlainSteps
  BY Zenon, StepKinds
     DEF Send, Call, Dial, Launch, Apply, Action, Start, Installed, InstallEnds, TaskActions, PlainSteps
<1>2. <<Call>> \in Seq(PlainSteps) BY <1>1
<1>3. <<Call, Apply(Action("form"))>> \in Seq(PlainSteps) BY <1>1
<1>4. <<Dial, Launch(Action("other"))>> \in Seq(PlainSteps) BY <1>1
<1> QED BY Zenon, <1>2, <1>3, <1>4, PlainScript

LEMMA KeysKeep == TuiInv /\ KeyStep => TuiInv'
<1> SUFFICES ASSUME TuiInv, KeyStep PROVE TuiInv' OBVIOUS
<1>0. tui \in Screens BY Zenon DEF TuiInv, ScreenInv
<1>1. ASSUME NEW L, L \subseteq Layers
      PROVE  [tui EXCEPT !.layers = L] \in Screens /\ [tui EXCEPT !.layers = L].panel = tui.panel
  BY Zenon, <1>0, <1>1 DEF Screens
<1>2. [tui EXCEPT !.modal = NoHil] \in Screens /\ [tui EXCEPT !.modal = NoHil].panel = tui.panel
  BY Zenon, <1>0 DEF Screens
<1>3. tui.layers \subseteq Layers BY Zenon, <1>0 DEF Screens
<1>4. ASSUME NEW l, Closes(l), loop.pc = "poll" PROVE TuiInv'
  <2>1. tui.layers \ {l} \subseteq Layers BY Zenon, <1>3
  <2>2. Pressed([tui EXCEPT !.layers = tui.layers \ {l}], << >>) BY Zenon, <1>4 DEF Closes
  <2> QED BY Zenon, <1>1, <1>4, <2>1, <2>2, EmptyScript, PressedKeeps
<1>5. CASE HilKey
  <2>1. CASE Pressed(tui, IF tuiLink THEN <<Call>> ELSE << >>)
    BY Zenon, <1>0, <1>5, <2>1, EmptyScript, KeyScripts, PressedKeeps DEF HilKey
  <2>2. CASE Pressed([tui EXCEPT !.modal = NoHil], << >>)
    BY Zenon, <1>2, <1>5, <2>2, EmptyScript, PressedKeeps DEF HilKey
  <2> QED BY Zenon, <1>5, <2>1, <2>2 DEF HilKey
<1>6. CASE FormKey
  <2>1. CASE Pressed(tui, IF tuiLink THEN <<Call, Apply(Action("form"))>> ELSE << >>)
    BY Zenon, <1>0, <1>6, <2>1, EmptyScript, KeyScripts, PressedKeeps DEF FormKey
  <2> QED BY Zenon, <1>4, <1>6, <2>1 DEF FormKey
<1>7. CASE OverlayKey BY Zenon, <1>4, <1>7 DEF OverlayKey
<1>8. CASE CommandKey
  <2>1. ASSUME NEW cmd \in Commands, Pressed([tui EXCEPT !.layers = @ \ {"command"}], Script(cmd))
        PROVE  TuiInv'
    <3>1. tui.layers \ {"command"} \subseteq Layers BY Zenon, <1>3
    <3>2. ScriptOK(Script(cmd)) BY Zenon, CommandScripts
    <3>3. Pressed([tui EXCEPT !.layers = tui.layers \ {"command"}], Script(cmd)) BY Zenon, <2>1
    <3>4. loop.pc = "poll" BY Zenon, <1>8 DEF CommandKey
    <3> HIDE DEF Script
    <3> QED BY Zenon, <1>1, <3>1, <3>2, <3>3, <3>4, PressedKeeps
  <2> QED BY Zenon, <1>4, <1>8, <2>1 DEF CommandKey
<1>9. CASE NormalKey
  <2>1. ASSUME NEW l \in {"command", "form", "popup"}, Pressed([tui EXCEPT !.layers = @ \cup {l}], << >>)
        PROVE  TuiInv'
    <3>1. tui.layers \cup {l} \subseteq Layers BY Zenon, <1>3 DEF Layers
    <3>2. Pressed([tui EXCEPT !.layers = tui.layers \cup {l}], << >>) BY Zenon, <2>1
    <3> QED BY Zenon, <1>1, <1>9, <3>1, <3>2, EmptyScript, PressedKeeps DEF NormalKey
  <2>2. CASE Pressed(tui, <<Call>>) BY Zenon, <1>0, <1>9, <2>2, KeyScripts, PressedKeeps DEF NormalKey
  <2>3. CASE Pressed(tui, <<Dial, Launch(Action("other"))>>)
    BY Zenon, <1>0, <1>9, <2>3, KeyScripts, PressedKeeps DEF NormalKey
  <2> QED BY Zenon, <1>9, <2>1, <2>2, <2>3 DEF NormalKey
<1>10. CASE QuitKey BY Zenon, <1>10, LoopMovesKeeps
<1> QED BY Zenon, <1>5, <1>6, <1>7, <1>8, <1>9, <1>10 DEF KeyStep

-----------------------------------------------------------------------------
(* The event task and the install tasks *)

LEMMA ReceivesKeeps ==
    ASSUME TuiInv, NEW s \in Seq(FeedSteps), Receives(s)
    PROVE  TuiInv'
<1>1. Send(Action("other")) \in FeedSteps BY Zenon DEF Send, FeedSteps
<1>2. <<Send(Action("other"))>> \o s \in Seq(FeedSteps) BY <1>1
<1>3. tuiEvents' \in 0 .. MaxTuiEvents BY TuiAssumption DEF Receives, TuiInv, FeedInv
<1>4. FeedInv' BY Zenon, <1>2, <1>3 DEF TuiInv, FeedInv, Receives
<1>5. \A n \in 0 .. Len(actions) : EndsAfter(n) => EndsAfter(n)' BY Zenon DEF EndsAfter, EndInScript, Receives
<1>6. QueueInv' BY Zenon, <1>5, QueueMoves DEF Receives, TuiInv, QueueInv
<1>7. ScreenInv' BY Zenon DEF TuiInv, ScreenInv, Receives, KeysMeetTheScreen
<1> QED BY Zenon, <1>4, <1>6, <1>7 DEF TuiInv

LEMMA EventsKeep ==
    TuiInv /\ (ReceivesNotice \/ ReceivesOutput \/ ReceivesHilRequest \/ ReceivesHilResolved) => TuiInv'
<1> SUFFICES ASSUME TuiInv, ReceivesNotice \/ ReceivesOutput \/ ReceivesHilRequest \/ ReceivesHilResolved
             PROVE  TuiInv'
  BY Zenon
<1>1. Send(Action("other")) \in FeedSteps BY Zenon DEF Send, FeedSteps
<1>2. CASE ReceivesNotice
  <2>1. << >> \in Seq(FeedSteps) /\ <<Send(Action("other"))>> \in Seq(FeedSteps) BY <1>1
  <2> QED BY Zenon, <1>2, <2>1, ReceivesKeeps DEF ReceivesNotice
<1>3. CASE ReceivesOutput
  <2>1. <<Send(Action("other")), Send(Action("other"))>> \in Seq(FeedSteps) BY <1>1
  <2> QED BY Zenon, <1>3, <2>1, ReceivesKeeps DEF ReceivesOutput
<1>4. CASE ReceivesHilRequest
  <2>1. PICK h \in Hils : Receives(<<<<"open", <<"hil", h>>>>, Send(<<"hil", h>>)>>)
    BY Zenon, <1>4 DEF ReceivesHilRequest
  <2>2. <<"open", <<"hil", h>>>> \in FeedSteps /\ Send(<<"hil", h>>) \in FeedSteps BY Zenon DEF FeedSteps, Send
  <2>3. <<<<"open", <<"hil", h>>>>, Send(<<"hil", h>>)>> \in Seq(FeedSteps) BY <2>2
  <2> QED BY Zenon, <2>1, <2>3, ReceivesKeeps
<1>5. CASE ReceivesHilResolved
  <2>1. PICK h \in Hils, o \in HilAnswers : Receives(<<<<o, <<"hil", h>>>>, Send(<<"hil", NoHil>>)>>)
    BY Zenon, <1>5 DEF ReceivesHilResolved
  <2>2. <<o, <<"hil", h>>>> \in FeedSteps /\ Send(<<"hil", NoHil>>) \in FeedSteps BY Zenon DEF FeedSteps, Send
  <2>3. <<<<o, <<"hil", h>>>>, Send(<<"hil", NoHil>>)>> \in Seq(FeedSteps) BY <2>2
  <2> QED BY Zenon, <2>1, <2>3, ReceivesKeeps
<1> QED BY Zenon, <1>2, <1>3, <1>4, <1>5

LEMMA FeedKeeps == TuiInv /\ FeedStep => TuiInv'
<1> SUFFICES ASSUME TuiInv, FeedStep PROVE TuiInv' OBVIOUS
<1> DEFINE e == Head(feed)
<1>0. feed \in Seq(FeedSteps) /\ feed # << >> /\ feed' = Tail(feed)
  BY Zenon DEF TuiInv, FeedInv, FeedStep, FeedSends, FeedNotes
<1>1. feed' \in Seq(FeedSteps) /\ e \in FeedSteps BY <1>0
<1>2. UNCHANGED <<tui, shown, loop, tuiLink, tasks, tuiEvents, keys>> BY Zenon DEF FeedStep, FeedSends, FeedNotes
<1>3. ScreenInv' BY Zenon, <1>2 DEF TuiInv, ScreenInv, KeysMeetTheScreen
<1>4. CASE FeedSends
  <2>1. e[1] = "send" /\ HasRoomFor /\ actions' = Append(actions, e[2]) /\ store' = store
    BY Zenon, <1>4 DEF FeedSends
  <2> HIDE DEF e
  <2>2. e[2] \in TuiActions /\ e[2] # Start
    <3>1. e[2] = Action("other") \/ e[2] \in {"hil"} \X (Hils \cup {NoHil})
      BY Zenon, <1>1, <2>1 DEF FeedSteps, HilAnswers
    <3> QED BY <3>1, KindsDiffer DEF TuiActions
  <2>3. actions \in Seq(TuiActions) BY DEF TuiInv, QueueInv
  <2>4. \A j \in DOMAIN actions : j \in DOMAIN actions' /\ actions'[j] = actions[j] BY <2>1, <2>2, <2>3
  <2>5. \A n \in 0 .. Len(actions) : EndsAfter(n) => EndsAfter(n)'
    BY Zenon, <1>2, <2>4 DEF EndsAfter, EndInScript
  <2>6. QueueInv' BY Zenon, <1>2, <2>1, <2>2, <2>5, QueueMoves DEF TuiInv, QueueInv
  <2>7. FeedInv' BY Zenon, <1>1, <1>2, <2>1 DEF TuiInv, FeedInv
  <2> QED BY Zenon, <1>3, <2>6, <2>7 DEF TuiInv
<1>5. CASE FeedNotes
  <2>1. e[1] # "send" /\ store' = [store EXCEPT ![e[2][2]] = OutcomeNoted(@, e[1])] /\ actions' = actions
    BY Zenon, <1>5 DEF FeedNotes
  <2> HIDE DEF e
  <2>2. e[1] \in {"open"} \cup HilAnswers BY Zenon, <1>1, <2>1 DEF FeedSteps
  <2>3. store' \in [Hils -> {"none", "open"} \cup HilAnswers]
    BY Zenon, <2>1, <2>2 DEF TuiInv, FeedInv, OutcomeNoted
  <2>4. FeedInv' BY Zenon, <1>1, <1>2, <2>3 DEF TuiInv, FeedInv
  <2>5. \A n \in 0 .. Len(actions) : EndsAfter(n) => EndsAfter(n)'
    BY Zenon, <1>2, <2>1 DEF EndsAfter, EndInScript
  <2>6. QueueInv' BY Zenon, <1>2, <2>1, <2>5, QueueMoves DEF TuiInv, QueueInv
  <2> QED BY Zenon, <1>3, <2>4, <2>6 DEF TuiInv
<1> QED BY Zenon, <1>4, <1>5 DEF FeedStep

\* An install that ends puts its last action into the queue.
LEMMA TaskEndsKeeps == ASSUME TuiInv, NEW a \in TaskActions, TaskEnds(a) PROVE TuiInv'
<1>1. /\ tasks \in [TaskActions -> Nat] /\ actions \in Seq(TuiActions)
      /\ tasks[a] > 0 /\ tasks' = [tasks EXCEPT ![a] = @ - 1]
  BY Zenon DEF TuiInv, QueueInv, TaskEnds
<1>2. tasks' \in [TaskActions -> Nat] /\ (a # Installed => tasks'[Installed] = tasks[Installed])
  BY <1>1, KindsDiffer
<1>3. a \in TuiActions /\ a # Start BY Zenon, KindsDiffer DEF TaskActions, Start, Installed, Action
<1>4. UNCHANGED <<tui, shown, loop, feed, store, tuiLink, tuiEvents, keys>> BY Zenon DEF TaskEnds
<1>5. CASE HasRoomFor /\ actions' = Append(actions, a)
  <2>1. /\ \A j \in DOMAIN actions : j \in DOMAIN actions' /\ actions'[j] = actions[j]
        /\ Len(actions) + 1 \in DOMAIN actions' /\ actions'[Len(actions) + 1] = a
    BY <1>1, <1>3, <1>5
  <2>2. ASSUME NEW n \in 0 .. Len(actions), EndsAfter(n) PROVE EndsAfter(n)'
    <3>1. Len(actions) + 1 > n BY <1>1
    <3>2. CASE a = Installed BY Zenon, <2>1, <3>1, <3>2 DEF EndsAfter
    <3>3. CASE a # Installed BY Zenon, <1>2, <1>4, <2>1, <2>2, <3>3 DEF EndsAfter, EndInScript
    <3> QED BY Zenon, <3>2, <3>3
  <2> QED BY Zenon, <1>2, <1>3, <1>4, <1>5, <2>2, QueueMoves
          DEF TuiInv, ScreenInv, FeedInv, KeysMeetTheScreen
<1>6. CASE a # Installed /\ actions' = actions
  <2>1. \A n \in 0 .. Len(actions) : EndsAfter(n) => EndsAfter(n)'
    BY Zenon, <1>2, <1>4, <1>6 DEF EndsAfter, EndInScript
  <2> QED BY Zenon, <1>2, <1>4, <1>6, <2>1, QueueMoves DEF TuiInv, ScreenInv, FeedInv, KeysMeetTheScreen
<1> QED BY Zenon, <1>5, <1>6 DEF TaskEnds, Installed

LEMMA TuiInitInv == TuiInit => TuiInv
<1> SUFFICES ASSUME TuiInit PROVE TuiInv OBVIOUS
<1> USE TuiAssumption DEF TuiInit
<1>1. tui \in Screens /\ shown \in Screens BY Zenon DEF Screens
<1>2. ScreenInv BY Zenon, <1>1, EmptyScript DEF ScreenInv, KeysMeetTheScreen
<1>3. QueueInv BY DEF QueueInv
<1>4. feed \in Seq(FeedSteps) /\ tuiEvents \in 0 .. MaxTuiEvents /\ keys \in 0 .. MaxKeys OBVIOUS
<1>5. tuiLink \in BOOLEAN BY Zenon
<1>6. store \in [Hils -> {"none", "open"} \cup HilAnswers] BY Zenon
<1>7. FeedInv BY Zenon, <1>4, <1>5, <1>6 DEF FeedInv
<1> QED BY Zenon, <1>2, <1>3, <1>7 DEF TuiInv

\* What the dashboard shows is what its loop acts on, whatever the number of
\* keys, events and approvals: a key is handled by the layer it was pressed
\* on, and a panel that shows progress has an install behind it (run_app,
\* dispatch_parsed_command and the install task of tui/app.rs).
THEOREM ScreenTells == TuiSpec => [](TuiTypeOK /\ ScreenIsTrue)
<1>1. TuiInv /\ [TuiNext]_tuiVars => TuiInv'
  <2> SUFFICES ASSUME TuiInv, [TuiNext]_tuiVars PROVE TuiInv' BY Zenon
  <2>1. CASE LoopStep
    BY Zenon, <2>1, DrainsKeeps, LoopSendsKeeps, LoopAppliesKeeps, LoopCallsKeeps, LoopLaunchesKeeps, LoopMovesKeeps
       DEF LoopStep
  <2>2. CASE UNCHANGED tuiVars
    BY <2>2 DEF tuiVars, TuiInv, ScreenInv, QueueInv, FeedInv, KeysMeetTheScreen, EndsAfter, EndInScript
  <2> QED BY Zenon, <2>1, <2>2, KeysKeep, FeedKeeps, EventsKeep, TaskEndsKeeps DEF TuiNext
<1> QED BY <1>1, TuiInitInv, TuiInvGives, PTL DEF TuiSpec

\* In whatever way the client core, the dashboard and the notices of a user run
\* side by side, what the user is shown is so: UsersSeeTheTruth of the runs, for
\* any number of connections, keys, events, notices and restarts.
THEOREM UsersAreShownTheTruth == ClientSpec /\ TuiSpec /\ NoticesSpec => []UsersSeeTheTruth
<1>1. UiHearsCurrent /\ ScreenIsTrue /\ NoticesAreKept => UsersSeeTheTruth BY Zenon DEF UsersSeeTheTruth
<1> QED BY <1>1, InterfaceHears, ScreenTells, NoticesStay, PTL

=============================================================================
