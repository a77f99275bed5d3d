----------------------------- MODULE TurnProofs -----------------------------
(***************************************************************************)
(* Proofs about what the turns of agents rely on.  LlmService, for any     *)
(* providers and finite number of requests: LlmInv strengthens             *)
(* ProvidersAreUsedWell with what a request in progress has seen, that     *)
(* while it is routed every routable provider is in usable.  ToolDispatch, *)
(* for any tools, calls, removers and limits: calls are counted, and a     *)
(* removed tool is not called.                                             *)
(***************************************************************************)
EXTENDS ToolDispatch, LlmService, FiniteSetTheorems, TLAPS

-----------------------------------------------------------------------------
(* LlmService: routing and usage                                           *)

LlmReqs == [pc : {"idle", "resolve", "fallback", "send", "sent", "record", "stream", "done"}, kind : Kinds,
            name : Providers \cup {NoProvider}, provider : Providers \cup {NoProvider},
            chunks : 0 .. MaxChunks, outcome : {"none", "ok", "error", "gone"}]

Statuses == {"available", "degraded", "unavailable"}

\* What holds of one request, with the providers u it has seen usable and the
\* status map st: while it is routed u has every routable provider, the provider
\* it was given is one of u, and only a finished request has an outcome.
ReqOK(q, u, st) ==
    /\ q \in LlmReqs /\ u \subseteq Providers
    /\ q.pc \in {"resolve", "fallback"} => {p \in Providers : st[p] # "unavailable"} \subseteq u
    /\ q.pc \in {"idle", "resolve", "fallback"} => q.provider = NoProvider
    /\ q.pc = "resolve" => q.name \in Providers
    /\ q.pc = "fallback" => TextFallback \in Providers
    /\ q.pc \in {"send", "sent", "record", "stream"} => q.provider \in Providers
    /\ q.pc \in {"sent", "record", "stream"} => HasClient(q)
    /\ q.pc = "record" => q.kind # "stream"
    /\ q.pc = "stream" => q.kind = "stream"
    /\ q.pc # "done" => q.outcome = "none"
    /\ q.provider # NoProvider => q.provider \in u

LoopType ==
    /\ pstatus \in [Providers -> Statuses]
    /\ endpoint \in [Providers -> {"ok", "error", "down"}] /\ outages \in 0 .. MaxOutages
    /\ probe \in [Providers -> {"sleep", "ok", "error", "down"}]
    /\ oauth \in [Renewing -> [pc : {"sleep", "granted", "refused"}, token : {"fresh", "due"}]]

RequestType ==
    /\ llmReq \in [Requests -> LlmReqs]
    /\ usage \in [Providers -> Nat] /\ usable \in [Requests -> SUBSET Providers]

CountsFor(q, p) == q.provider = p /\ q.outcome = "ok" /\ q.kind # "stream"

Answers(p) == {r \in Requests : CountsFor(llmReq[r], p)}

LlmInv ==
    /\ LoopType /\ RequestType
    /\ \A r \in Requests : ReqOK(llmReq[r], usable[r], pstatus)
    /\ \A p \in Providers : usage[p] = Cardinality(Answers(p))

LEMMA LlmInvGives == LlmInv => LlmTypeOK /\ ProvidersAreUsedWell
<1> SUFFICES ASSUME LlmInv PROVE LlmTypeOK /\ ProvidersAreUsedWell BY Zenon
<1>1. LlmTypeOK
  <2>1. \A r \in Requests : llmReq[r].pc \in {"sent", "record", "stream"} => HasClient(llmReq[r])
    BY Zenon DEF LlmInv, ReqOK
  <2> QED BY Zenon, <2>1 DEF LlmInv, LoopType, RequestType, LlmTypeOK, LlmReqs, Statuses
<1>2. NotToUnavailable BY Zenon DEF LlmInv, ReqOK, NotToUnavailable
<1>3. UsageIsAnswers
  <2>1. \A p : Answers(p) = {r \in Requests :
            llmReq[r].provider = p /\ llmReq[r].outcome = "ok" /\ llmReq[r].kind # "stream"}
    BY Zenon DEF Answers, CountsFor
  <2> QED BY Zenon, <2>1 DEF LlmInv, UsageIsAnswers
<1> QED BY Zenon, <1>1, <1>2, <1>3 DEF ProvidersAreUsedWell

LEMMA LlmInitInv == LlmInit => LlmInv
<1> SUFFICES ASSUME LlmInit PROVE LlmInv BY Zenon
<1> USE LlmAssumption DEF LlmInit
<1>1. LoopType BY DEF LoopType, Statuses
<1>2. NoRequest \in LlmReqs BY DEF NoRequest, LlmReqs, Kinds
<1>3. NoRequest.pc = "idle" /\ NoRequest.provider = NoProvider /\ NoRequest.outcome = "none" BY Zenon DEF NoRequest
<1>4. RequestType BY Zenon, <1>2 DEF RequestType
<1>5. ReqOK(NoRequest, {}, pstatus) BY Zenon, <1>2, <1>3 DEF ReqOK
<1>6. ASSUME NEW p \in Providers PROVE usage[p] = Cardinality(Answers(p))
  <2>1. Answers(p) = {} BY Zenon, <1>3 DEF Answers, CountsFor
  <2> QED BY Zenon, <2>1, FS_EmptySet
<1> QED BY Zenon, <1>1, <1>4, <1>5, <1>6 DEF LlmInv

\* A step of one request that is not counted, before or after.
LEMMA RequestMoves ==
    ASSUME LlmInv, NEW r \in Requests, NEW q, NEW u, ReqOK(q, u, pstatus),
           llmReq' = [llmReq EXCEPT ![r] = q], usable' = [usable EXCEPT ![r] = u],
           UNCHANGED <<loopVars, usage>>,
           q.outcome = "ok" => q.kind = "stream", llmReq[r].pc # "done"
    PROVE  LlmInv'
<1>1. LoopType' BY Zenon DEF LlmInv, LoopType, loopVars
<1>2. q \in LlmReqs /\ u \subseteq Providers BY Zenon DEF ReqOK
<1>3. RequestType' BY Zenon, <1>2 DEF LlmInv, RequestType
<1>4. /\ llmReq'[r] = q /\ usable'[r] = u
      /\ \A s \in Requests : s # r => llmReq'[s] = llmReq[s] /\ usable'[s] = usable[s]
  BY Zenon DEF LlmInv, RequestType
<1>5. \A s \in Requests : ReqOK(llmReq'[s], usable'[s], pstatus') BY Zenon, <1>4 DEF LlmInv, loopVars
<1>6. ASSUME NEW p \in Providers PROVE usage'[p] = Cardinality(Answers(p)')
  <2>1. ~CountsFor(llmReq[r], p) /\ ~CountsFor(q, p) BY Zenon DEF CountsFor, LlmInv, ReqOK
  <2>2. Answers(p)' = Answers(p) BY <1>4, <2>1 DEF Answers
  <2> QED BY Zenon, <2>2 DEF LlmInv
<1> QED BY Zenon, <1>1, <1>3, <1>5, <1>6 DEF LlmInv

\* The loops: a status may change, and every request being routed notes it.
LEMMA LoopKeeps ==
    ASSUME LlmInv, LoopType', UNCHANGED <<llmReq, usage>>,
           \/ UNCHANGED <<pstatus, usable>>
           \/ usable' = Noted(pstatus')
    PROVE  LlmInv'
<1>1. \A r \in Requests : usable[r] \subseteq usable'[r] /\ usable'[r] \subseteq Providers
  BY DEF Noted, LlmInv, RequestType
<1>2. usable' \in [Requests -> SUBSET Providers] BY DEF Noted, LlmInv, RequestType
<1>3. RequestType' BY Zenon, <1>2 DEF LlmInv, RequestType
<1>4. ASSUME NEW r \in Requests PROVE ReqOK(llmReq[r], usable'[r], pstatus')
  <2> DEFINE q == llmReq[r]
  <2>1. ReqOK(q, usable[r], pstatus) BY Zenon DEF LlmInv
  <2>2. q.pc \in {"resolve", "fallback"} => {p \in Providers : pstatus'[p] # "unavailable"} \subseteq usable'[r]
    <3>1. CASE UNCHANGED <<pstatus, usable>> BY Zenon, <2>1, <3>1 DEF ReqOK
    <3>2. CASE usable' = Noted(pstatus') BY Zenon, <3>2 DEF Noted
    <3> QED BY Zenon, <3>1, <3>2
  <2> HIDE DEF q
  <2>3. ReqOK(q, usable'[r], pstatus') BY Zenon, <1>1, <2>1, <2>2 DEF ReqOK
  <2> QED BY Zenon, <2>3 DEF q
<1>5. \A p \in Providers : usage'[p] = Cardinality(Answers(p)') BY Zenon DEF LlmInv, Answers
<1> QED BY Zenon, <1>3, <1>4, <1>5 DEF LlmInv

LEMMA LoopSteps ==
    ASSUME LlmInv,
           \/ \E p \in Providers :
                 (\E e \in {"ok", "error", "down"} : EndpointChanges(p, e)) \/ HealthStep(p)
           \/ \E p \in Renewing : RenewStep(p) \/ TokenAges(p)
    PROVE  LlmInv'
<1> USE LlmAssumption
<1>0. LoopType BY Zenon DEF LlmInv
<1>1. ASSUME NEW p \in Providers, NEW e \in {"ok", "error", "down"}, EndpointChanges(p, e) PROVE LlmInv'
  <2>1. LoopType' BY <1>0, <1>1 DEF EndpointChanges, LoopType
  <2> QED BY Zenon, <1>1, <2>1, LoopKeeps DEF EndpointChanges
<1>2. ASSUME NEW p \in Providers, HealthAsks(p) PROVE LlmInv'
  <2>1. LoopType' BY Zenon, <1>0, <1>2 DEF HealthAsks, LoopType
  <2> QED BY Zenon, <1>2, <2>1, LoopKeeps DEF HealthAsks
<1>3. ASSUME NEW p \in Providers, HealthUpdates(p) PROVE LlmInv'
  <2>1. StatusOf(probe[p]) \in Statuses BY Zenon, <1>3 DEF HealthUpdates, StatusOf, Statuses
  <2>2. LoopType' BY Zenon, <1>0, <1>3, <2>1 DEF HealthUpdates, LoopType
  <2> QED BY Zenon, <1>3, <2>2, LoopKeeps DEF HealthUpdates
<1>4. ASSUME NEW p \in Renewing, TokenAges(p) PROVE LlmInv'
  <2>1. LoopType' BY <1>0, <1>4 DEF TokenAges, LoopType
  <2> QED BY Zenon, <1>4, <2>1, LoopKeeps DEF TokenAges
<1>5. ASSUME NEW p \in Renewing, RenewAsks(p) PROVE LlmInv'
  <2>1. PICK pc \in {"granted", "refused"} : oauth' = [oauth EXCEPT ![p].pc = pc] BY Zenon, <1>5 DEF RenewAsks
  <2>2. LoopType' BY <1>0, <1>5, <2>1 DEF RenewAsks, LoopType
  <2> QED BY Zenon, <1>5, <2>2, LoopKeeps DEF RenewAsks
<1>6. ASSUME NEW p \in Renewing, RenewStores(p) PROVE LlmInv'
  <2>1. LoopType' BY Zenon, <1>0, <1>6 DEF RenewStores, LoopType
  <2> QED BY Zenon, <1>6, <2>1, LoopKeeps DEF RenewStores
<1>7. ASSUME NEW p \in Renewing, RenewDegrades(p) PROVE LlmInv'
  <2>1. p \in Providers BY Zenon
  <2>2. LoopType' BY <1>0, <1>7, <2>1 DEF RenewDegrades, LoopType, Statuses
  <2> QED BY Zenon, <1>7, <2>2, LoopKeeps DEF RenewDegrades
<1> QED BY <1>1, <1>2, <1>3, <1>4, <1>5, <1>6, <1>7 DEF HealthStep, RenewStep

ReqPcs == {"idle", "resolve", "fallback", "send", "sent", "record", "stream", "done"}

\* A request with several of its fields changed.
AnsweredReq(q, o) == [[q EXCEPT !.pc = "done"] EXCEPT !.outcome = o]

GivenReq(q, p) == [[q EXCEPT !.pc = "send"] EXCEPT !.provider = p]

NamedReq(q, kind, p) == [[[q EXCEPT !.pc = "resolve"] EXCEPT !.kind = kind] EXCEPT !.name = p]

LEMMA ReqPc ==
    ASSUME NEW q \in LlmReqs, NEW pc \in ReqPcs, NEW a, a = [q EXCEPT !.pc = pc]
    PROVE  /\ a \in LlmReqs /\ a.pc = pc /\ a.kind = q.kind /\ a.name = q.name
           /\ a.provider = q.provider /\ a.outcome = q.outcome
BY Zenon DEF LlmReqs, ReqPcs

LEMMA ReqAnswer ==
    ASSUME NEW q \in LlmReqs, NEW o \in {"ok", "error", "gone"}, NEW a, a = AnsweredReq(q, o)
    PROVE  a \in LlmReqs /\ a.pc = "done" /\ a.kind = q.kind /\ a.provider = q.provider /\ a.outcome = o
<1> DEFINE u == [q EXCEPT !.pc = "done"]
<1>1. u \in LlmReqs /\ u.pc = "done" /\ u.kind = q.kind /\ u.provider = q.provider BY ReqPc DEF ReqPcs
<1>2. a = [u EXCEPT !.outcome = o] BY Zenon DEF AnsweredReq
<1> HIDE DEF u
<1> QED BY <1>1, <1>2 DEF LlmReqs

LEMMA ReqGiven ==
    ASSUME NEW q \in LlmReqs, NEW p \in Providers, NEW a, a = GivenReq(q, p)
    PROVE  a \in LlmReqs /\ a.pc = "send" /\ a.kind = q.kind /\ a.provider = p /\ a.outcome = q.outcome
<1> DEFINE u == [q EXCEPT !.pc = "send"]
<1>1. u \in LlmReqs /\ u.pc = "send" /\ u.kind = q.kind /\ u.outcome = q.outcome BY ReqPc DEF ReqPcs
<1>2. a = [u EXCEPT !.provider = p] BY Zenon DEF GivenReq
<1> HIDE DEF u
<1> QED BY <1>1, <1>2 DEF LlmReqs

LEMMA ReqNamed ==
    ASSUME NEW q \in LlmReqs, NEW kind \in Kinds, NEW p \in Providers, NEW a, a = NamedReq(q, kind, p)
    PROVE  /\ a \in LlmReqs /\ a.pc = "resolve" /\ a.kind = kind /\ a.name = p
           /\ a.provider = q.provider /\ a.outcome = q.outcome
<1> DEFINE u == [q EXCEPT !.pc = "resolve"]
           v == [u EXCEPT !.kind = kind]
<1>1. u \in LlmReqs /\ u.pc = "resolve" /\ u.provider = q.provider /\ u.outcome = q.outcome BY ReqPc DEF ReqPcs
<1>2. a = [v EXCEPT !.name = p] BY Zenon DEF NamedReq
<1> HIDE DEF u
<1>3. v \in LlmReqs /\ v.pc = u.pc /\ v.kind = kind /\ v.provider = u.provider /\ v.outcome = u.outcome
  BY Zenon, <1>1 DEF LlmReqs
<1> HIDE DEF v
<1>4. /\ a \in LlmReqs /\ a.pc = v.pc /\ a.kind = v.kind /\ a.name = p
      /\ a.provider = v.provider /\ a.outcome = v.outcome
  BY <1>2, <1>3 DEF LlmReqs
<1> QED BY Zenon, <1>1, <1>3, <1>4

\* A request that is answered with o and is not counted.
LEMMA AnsweredKeeps ==
    ASSUME LlmInv, NEW r \in Requests, NEW o \in {"ok", "error", "gone"}, Answered(r, o),
           UNCHANGED <<loopVars, usage, usable>>,
           llmReq[r].pc \notin {"idle", "done"}, o = "ok" => llmReq[r].kind = "stream"
    PROVE  LlmInv'
<1> DEFINE q0 == llmReq[r]
           q == AnsweredReq(q0, o)
<1>1. ReqOK(q0, usable[r], pstatus) /\ q0 \in LlmReqs BY Zenon DEF LlmInv, ReqOK
<1>2. llmReq' = [llmReq EXCEPT ![r] = q] BY Zenon DEF Answered, LlmInv, RequestType, AnsweredReq
<1> HIDE DEF q0
<1>3. q \in LlmReqs /\ q.pc = "done" /\ q.provider = q0.provider /\ q.kind = q0.kind /\ q.outcome = o
  BY <1>1, ReqAnswer
<1> HIDE DEF q
<1>5. ReqOK(q, usable[r], pstatus) BY Zenon, <1>1, <1>3 DEF ReqOK
<1>6. usable' = [usable EXCEPT ![r] = usable[r]] BY Zenon DEF LlmInv, RequestType
<1> QED BY Zenon, <1>2, <1>3, <1>5, <1>6, RequestMoves DEF q0

\* The steps of a request that are not answers.
LEMMA RequestSteps ==
    ASSUME LlmInv, NEW r \in Requests,
           \/ \E kind \in Kinds, explicit \in Providers \cup {NoProvider} : ReqArrives(r, kind, explicit)
           \/ ResolvePrimary(r) \/ ResolveFallback(r) \/ SendsRequest(r)
           \/ ProviderFails(r) \/ ProviderAnswers(r) \/ StreamForwards(r)
           \/ \E outcome \in {"ok", "error", "gone"} : StreamEnds(r, outcome)
    PROVE  LlmInv'
<1> USE LlmAssumption
<1> DEFINE q0 == llmReq[r]
           u0 == usable[r]
<1>1. ReqOK(q0, u0, pstatus) /\ q0 \in LlmReqs /\ u0 \subseteq Providers /\ llmReq \in [Requests -> LlmReqs]
  BY Zenon DEF LlmInv, RequestType, ReqOK
<1>2. usable = [usable EXCEPT ![r] = u0] BY Zenon DEF LlmInv, RequestType
\* Moving on to pc, with the provider as it is.
<1>3. ASSUME NEW pc \in {"fallback", "sent", "record", "stream"}, NEW q, q = [q0 EXCEPT !.pc = pc],
             llmReq' = [llmReq EXCEPT ![r] = q], UNCHANGED <<loopVars, usage, usable>>, q0.pc # "done",
             pc = "fallback" => q0.pc = "resolve" /\ TextFallback \in Providers,
             pc = "sent" => q0.pc = "send" /\ HasClient(q0),
             pc \in {"record", "stream"} => q0.pc = "sent" /\ (pc = "stream" <=> q0.kind = "stream")
      PROVE  LlmInv'
  <2> HIDE DEF q0, u0
  <2>1. q \in LlmReqs /\ q.pc = pc /\ q.kind = q0.kind /\ q.provider = q0.provider /\ q.outcome = q0.outcome
    BY <1>1, <1>3, ReqPc DEF ReqPcs
  <2>2. HasClient(q) <=> HasClient(q0) BY Zenon, <2>1 DEF HasClient
  <2>3. q0.outcome = "none" BY Zenon, <1>1, <1>3 DEF ReqOK
  <2>4. ReqOK(q, u0, pstatus)
    <3>1. CASE pc = "fallback" BY Zenon, <1>1, <1>3, <2>1, <2>3, <3>1 DEF ReqOK
    <3>2. CASE pc = "sent" BY Zenon, <1>1, <1>3, <2>1, <2>2, <2>3, <3>2 DEF ReqOK
    <3>3. CASE pc \in {"record", "stream"} BY <1>1, <1>3, <2>1, <2>2, <2>3, <3>3 DEF ReqOK
    <3> QED BY Zenon, <3>1, <3>2, <3>3
  <2> QED BY Zenon, <1>2, <1>3, <2>1, <2>3, <2>4, RequestMoves DEF q0
\* The request is given p, which is routable.
<1>4. ASSUME NEW p \in Providers, NEW q, q = GivenReq(q0, p),
             llmReq' = [llmReq EXCEPT ![r] = q], UNCHANGED <<loopVars, usage, usable>>,
             q0.pc \in {"resolve", "fallback"}, Routable(p)
      PROVE  LlmInv'
  <2>1. q \in LlmReqs /\ q.pc = "send" /\ q.kind = q0.kind /\ q.provider = p /\ q.outcome = q0.outcome
    <3>1. q = GivenReq(q0, p) BY Zenon, <1>4
    <3>2. q0 \in LlmReqs /\ p \in Providers BY Zenon, <1>1, <1>4
    <3> HIDE DEF q0
    <3>3. GivenReq(q0, p) \in LlmReqs BY ONLY <3>2, ReqGiven
    <3>4. /\ GivenReq(q0, p).pc = "send" /\ GivenReq(q0, p).kind = q0.kind
          /\ GivenReq(q0, p).provider = p /\ GivenReq(q0, p).outcome = q0.outcome
      BY ONLY <3>2, ReqGiven
    <3> QED BY ONLY <3>1, <3>3, <3>4
  <2> HIDE DEF q0, u0
  <2>2. q0.outcome = "none" /\ p \in u0 BY Zenon, <1>1, <1>4 DEF ReqOK, Routable
  <2>3. ReqOK(q, u0, pstatus) BY Zenon, <1>1, <2>1, <2>2 DEF ReqOK
  <2> QED BY Zenon, <1>2, <1>4, <2>1, <2>2, <2>3, RequestMoves DEF q0
<1>5. ASSUME NEW kind \in Kinds, NEW explicit \in Providers \cup {NoProvider}, ReqArrives(r, kind, explicit)
      PROVE  LlmInv'
  <2> DEFINE n == IF explicit # NoProvider THEN explicit ELSE DefaultOf[ModalityOf(kind)]
             u == {p \in Providers : Routable(p)}
             q == NamedReq(q0, kind, n)
  <2>1. n \in Providers BY Zenon DEF ModalityOf
  <2>2. /\ llmReq' = [llmReq EXCEPT ![r] = q] /\ usable' = [usable EXCEPT ![r] = u]
        /\ UNCHANGED <<loopVars, usage>> /\ q0.pc = "idle"
    BY Zenon, <1>1, <1>5 DEF ReqArrives, NamedReq
  <2> HIDE DEF n, q0
  <2>3. /\ q \in LlmReqs /\ q.pc = "resolve" /\ q.kind = kind /\ q.name = n
        /\ q.provider = q0.provider /\ q.outcome = q0.outcome
    BY <1>1, <2>1, ReqNamed
  <2> HIDE DEF q
  <2>4. q0.outcome = "none" /\ q0.provider = NoProvider BY Zenon, <1>1, <2>2 DEF ReqOK
  <2>5. ReqOK(q, u, pstatus) BY Zenon, <2>1, <2>3, <2>4 DEF ReqOK, Routable
  <2> HIDE DEF u
  <2> QED BY Zenon, <2>2, <2>3, <2>4, <2>5, RequestMoves DEF q0
<1>6. CASE ResolvePrimary(r)
  <2>1. q0.pc = "resolve" /\ UNCHANGED <<loopVars, usage, usable>> BY Zenon, <1>6 DEF ResolvePrimary
  <2>2. q0.name \in Providers BY Zenon, <1>1, <2>1 DEF ReqOK
  <2>3. \/ Answered(r, "error")
        \/ Routable(q0.name) /\ llmReq' = [llmReq EXCEPT ![r].pc = "send", ![r].provider = q0.name]
        \/ TextFallback # NoProvider /\ llmReq' = [llmReq EXCEPT ![r].pc = "fallback"]
    BY Zenon, <1>6 DEF ResolvePrimary
  <2>4. CASE Answered(r, "error") BY Zenon, <2>1, <2>4, AnsweredKeeps
  <2>5. CASE Routable(q0.name) /\ llmReq' = [llmReq EXCEPT ![r].pc = "send", ![r].provider = q0.name]
    <3>1. llmReq' = [llmReq EXCEPT ![r] = GivenReq(q0, q0.name)]
      BY Zenon, <1>1, <2>5 DEF GivenReq
    <3> QED BY Zenon, <1>4, <2>1, <2>2, <2>5, <3>1
  <2>6. CASE TextFallback # NoProvider /\ llmReq' = [llmReq EXCEPT ![r].pc = "fallback"]
    <3>1. llmReq' = [llmReq EXCEPT ![r] = [q0 EXCEPT !.pc = "fallback"]] BY Zenon, <1>1, <2>6
    <3> QED BY Zenon, <1>3, <2>1, <2>6, <3>1
  <2> QED BY Zenon, <2>3, <2>4, <2>5, <2>6
<1>7. CASE ResolveFallback(r)
  <2>1. q0.pc = "fallback" /\ UNCHANGED <<loopVars, usage, usable>> BY Zenon, <1>7 DEF ResolveFallback
  <2>2. TextFallback \in Providers BY Zenon, <1>1, <2>1 DEF ReqOK
  <2>3. CASE Routable(TextFallback)
    <3>1. llmReq' = [llmReq EXCEPT ![r] = GivenReq(q0, TextFallback)]
      BY Zenon, <1>1, <1>7, <2>3 DEF ResolveFallback, GivenReq
    <3> QED BY Zenon, <1>4, <2>1, <2>2, <2>3, <3>1
  <2>4. CASE ~Routable(TextFallback)
    <3>1. Answered(r, "error") BY Zenon, <1>7, <2>4 DEF ResolveFallback
    <3> QED BY Zenon, <2>1, <3>1, AnsweredKeeps
  <2> QED BY Zenon, <2>3, <2>4
<1>8. CASE SendsRequest(r)
  <2>1. q0.pc = "send" /\ UNCHANGED <<loopVars, usage, usable>> BY Zenon, <1>8 DEF SendsRequest
  <2>2. CASE HasClient(q0)
    <3>1. llmReq' = [llmReq EXCEPT ![r] = [q0 EXCEPT !.pc = "sent"]] BY Zenon, <1>1, <1>8, <2>2 DEF SendsRequest
    <3> QED BY Zenon, <1>3, <2>1, <2>2, <3>1
  <2>3. CASE ~HasClient(q0)
    <3>1. Answered(r, "error") BY Zenon, <1>8, <2>3 DEF SendsRequest
    <3> QED BY Zenon, <2>1, <3>1, AnsweredKeeps
  <2> QED BY Zenon, <2>2, <2>3
<1>9. CASE ProviderFails(r)
  BY Zenon, <1>9, AnsweredKeeps DEF ProviderFails
<1>10. CASE ProviderAnswers(r)
  <2>1. q0.pc = "sent" /\ UNCHANGED <<loopVars, usage, usable>> BY Zenon, <1>10 DEF ProviderAnswers
  <2>2. CASE q0.kind = "stream"
    <3>1. llmReq' = [llmReq EXCEPT ![r] = [q0 EXCEPT !.pc = "stream"]] BY Zenon, <1>1, <1>10, <2>2 DEF ProviderAnswers
    <3> QED BY Zenon, <1>3, <2>1, <2>2, <3>1
  <2>3. CASE q0.kind # "stream"
    <3>1. llmReq' = [llmReq EXCEPT ![r] = [q0 EXCEPT !.pc = "record"]] BY Zenon, <1>1, <1>10, <2>3 DEF ProviderAnswers
    <3> QED BY Zenon, <1>3, <2>1, <2>3, <3>1
  <2> QED BY Zenon, <2>2, <2>3
<1>11. CASE StreamForwards(r)
  <2> DEFINE q == [q0 EXCEPT !.chunks = q0.chunks + 1]
  <2>1. /\ q0.pc = "stream" /\ q0.chunks < MaxChunks /\ UNCHANGED <<loopVars, usage, usable>>
        /\ llmReq' = [llmReq EXCEPT ![r] = q]
    BY Zenon, <1>1, <1>11 DEF StreamForwards
  <2> HIDE DEF q0, u0
  <2>2. q0.chunks + 1 \in 0 .. MaxChunks BY <1>1, <2>1 DEF LlmReqs
  <2>3. q \in LlmReqs /\ q.pc = q0.pc /\ q.kind = q0.kind /\ q.provider = q0.provider /\ q.outcome = q0.outcome
    BY Zenon, <1>1, <2>2 DEF LlmReqs
  <2> HIDE DEF q
  <2>4. HasClient(q) <=> HasClient(q0) BY Zenon, <2>3 DEF HasClient
  <2>5. q0.outcome = "none" BY Zenon, <1>1, <2>1 DEF ReqOK
  <2>6. ReqOK(q, u0, pstatus) BY Zenon, <1>1, <2>1, <2>3, <2>4 DEF ReqOK
  <2> QED BY Zenon, <1>2, <2>1, <2>3, <2>5, <2>6, RequestMoves DEF q0
<1>12. ASSUME NEW o \in {"ok", "error", "gone"}, StreamEnds(r, o) PROVE LlmInv'
  <2>1. q0.pc = "stream" /\ Answered(r, o) /\ UNCHANGED <<loopVars, usage, usable>> BY Zenon, <1>12 DEF StreamEnds
  <2>2. q0.kind = "stream" BY Zenon, <1>1, <2>1 DEF ReqOK
  <2> QED BY Zenon, <2>1, <2>2, AnsweredKeeps
<1> QED BY Zenon, <1>5, <1>6, <1>7, <1>8, <1>9, <1>10, <1>11, <1>12

\* The one step that counts: one more answer, and one more in the usage.
LEMMA RecordKeeps ==
    ASSUME LlmInv, NEW r \in Requests, RecordsUsage(r)
    PROVE  LlmInv'
<1> USE LlmAssumption
<1> DEFINE q0 == llmReq[r]
           q == AnsweredReq(q0, "ok")
           p0 == q0.provider
<1>1. ReqOK(q0, usable[r], pstatus) /\ q0 \in LlmReqs /\ llmReq \in [Requests -> LlmReqs]
  BY Zenon DEF LlmInv, RequestType, ReqOK
<1>2. /\ q0.pc = "record" /\ llmReq' = [llmReq EXCEPT ![r] = q]
      /\ usage' = [usage EXCEPT ![p0] = @ + 1] /\ UNCHANGED <<loopVars, usable>>
  BY Zenon, <1>1 DEF RecordsUsage, Answered, AnsweredReq
<1> HIDE DEF q0
<1>3. q \in LlmReqs /\ q.pc = "done" /\ q.provider = q0.provider /\ q.kind = q0.kind /\ q.outcome = "ok"
  BY Zenon, <1>1, ReqAnswer
<1> HIDE DEF q
<1>4. p0 \in Providers /\ q0.kind # "stream" /\ q0.outcome = "none" BY Zenon, <1>1, <1>2 DEF ReqOK
<1>5. ReqOK(q, usable[r], pstatus) BY Zenon, <1>1, <1>2, <1>3 DEF ReqOK
<1>6. /\ llmReq' \in [Requests -> LlmReqs] /\ llmReq'[r] = q
      /\ \A s \in Requests : s # r => llmReq'[s] = llmReq[s]
  BY Zenon, <1>1, <1>2, <1>3
<1>7. LoopType' BY Zenon, <1>2 DEF LlmInv, LoopType, loopVars
<1>8. RequestType' BY <1>2, <1>4, <1>6 DEF LlmInv, RequestType
<1>9. \A s \in Requests : ReqOK(llmReq'[s], usable'[s], pstatus') BY Zenon, <1>2, <1>5, <1>6 DEF LlmInv, loopVars
<1>10. ASSUME NEW p \in Providers PROVE usage'[p] = Cardinality(Answers(p)')
  <2>1. usage[p] \in Nat /\ usage[p] = Cardinality(Answers(p)) BY Zenon DEF LlmInv, RequestType
  <2>2. CASE p = p0
    <3>1. r \notin Answers(p) BY Zenon, <1>4 DEF Answers, CountsFor, q0
    <3>2. CountsFor(q, p) BY Zenon, <1>3, <1>4, <2>2 DEF CountsFor
    <3>3. Answers(p)' = Answers(p) \cup {r} BY Zenon, <1>6, <3>2 DEF Answers
    <3>4. IsFiniteSet(Answers(p))
      <4>1. Answers(p) \subseteq Requests BY Zenon DEF Answers
      <4> QED BY Zenon, <4>1, FS_Subset
    <3>5. Cardinality(Answers(p)') = Cardinality(Answers(p)) + 1 BY Zenon, <3>1, <3>3, <3>4, FS_AddElement
    <3>6. usage'[p] = usage[p] + 1 BY Zenon, <1>2, <1>4, <2>2 DEF LlmInv, RequestType
    <3> QED BY Zenon, <2>1, <3>5, <3>6
  <2>3. CASE p # p0
    <3>1. ~CountsFor(llmReq[r], p) /\ ~CountsFor(q, p) BY Zenon, <1>3, <1>4, <2>3 DEF CountsFor, q0
    <3>2. Answers(p)' = Answers(p) BY Zenon, <1>6, <3>1 DEF Answers
    <3>3. usage'[p] = usage[p] BY Zenon, <1>2, <2>3 DEF LlmInv, RequestType
    <3> QED BY Zenon, <2>1, <3>2, <3>3
  <2> QED BY Zenon, <2>2, <2>3
<1> QED BY Zenon, <1>7, <1>8, <1>9, <1>10 DEF LlmInv

LEMMA LlmStepInv == LlmInv /\ [LlmNext]_llmVars => LlmInv'
<1> SUFFICES ASSUME LlmInv, [LlmNext]_llmVars PROVE LlmInv' BY Zenon
<1>1. CASE LlmNext
  <2>1. CASE \/ \E p \in Providers :
                  (\E e \in {"ok", "error", "down"} : EndpointChanges(p, e)) \/ HealthStep(p)
             \/ \E p \in Renewing : RenewStep(p) \/ TokenAges(p)
    BY Zenon, <2>1, LoopSteps
  <2>2. ASSUME NEW r \in Requests,
               \/ \E kind \in Kinds, explicit \in Providers \cup {NoProvider} : ReqArrives(r, kind, explicit)
               \/ ResolvePrimary(r) \/ ResolveFallback(r) \/ SendsRequest(r)
               \/ ProviderFails(r) \/ ProviderAnswers(r) \/ StreamForwards(r)
               \/ \E outcome \in {"ok", "error", "gone"} : StreamEnds(r, outcome)
        PROVE  LlmInv'
    BY Zenon, <2>2, RequestSteps
  <2>3. ASSUME NEW r \in Requests, RecordsUsage(r) PROVE LlmInv' BY Zenon, <2>3, RecordKeeps
  <2> QED BY Zenon, <1>1, <2>1, <2>2, <2>3 DEF LlmNext
<1>2. CASE UNCHANGED llmVars
  BY <1>2 DEF llmVars, LlmInv, LoopType, RequestType, Answers
<1> QED BY Zenon, <1>1, <1>2

\* No request goes to a provider that was Unavailable throughout its routing, and
\* a provider's usage is the number of its answered unary requests: for any
\* providers, routes, clients and finite number of requests, while the health and
\* renewal loops change the statuses (RoutingEngine::resolve, UsageTracker).
THEOREM RoutingAndUsage == LlmSpec => [](LlmTypeOK /\ ProvidersAreUsedWell)
BY LlmInvGives, LlmInitInv, LlmStepInv, PTL DEF LlmSpec

-----------------------------------------------------------------------------
(* ToolDispatch: counted calls                                             *)

\* Calls at given control points: a step of one call adds it, takes it away, or
\* leaves the set as it is.
LEMMA HoldingChanges ==
    ASSUME NEW c \in Calls, NEW S, NEW p,
           call'[c].pc = p, \A d \in Calls \ {c} : call'[d] = call[d]
    PROVE  /\ Cardinality(Holding(S)) \in Nat
           /\ (call[c].pc \in S <=> p \in S) => Holding(S)' = Holding(S)
           /\ call[c].pc \notin S /\ p \in S =>
                Cardinality(Holding(S)') = Cardinality(Holding(S)) + 1
           /\ call[c].pc \in S /\ p \notin S =>
                /\ Cardinality(Holding(S)') = Cardinality(Holding(S)) - 1
                /\ Cardinality(Holding(S)) > 0
<1>1. IsFiniteSet(Holding(S))
  BY Zenon, FS_Subset, DispatchAssumption DEF Holding
<1>2. Cardinality(Holding(S)) \in Nat BY Zenon, <1>1, FS_CardinalityType
<1>3. ASSUME call[c].pc \in S <=> p \in S PROVE Holding(S)' = Holding(S)
  BY <1>3 DEF Holding
<1>4. ASSUME call[c].pc \notin S, p \in S
      PROVE  Cardinality(Holding(S)') = Cardinality(Holding(S)) + 1
  <2>1. Holding(S)' = Holding(S) \cup {c} /\ c \notin Holding(S) BY <1>4 DEF Holding
  <2> QED BY Zenon, <2>1, <1>1, FS_AddElement
<1>5. ASSUME call[c].pc \in S, p \notin S
      PROVE  /\ Cardinality(Holding(S)') = Cardinality(Holding(S)) - 1
             /\ Cardinality(Holding(S)) > 0
  <2>1. Holding(S)' = Holding(S) \ {c} /\ c \in Holding(S) BY <1>5 DEF Holding
  <2>2. Cardinality(Holding(S)') = Cardinality(Holding(S)) - 1
    BY Zenon, <2>1, <1>1, FS_RemoveElement
  <2>3. IsFiniteSet(Holding(S)') BY Zenon, <2>1, <1>1, FS_Subset
  <2>4. Cardinality(Holding(S)') \in Nat BY Zenon, <2>3, FS_CardinalityType
  <2> QED BY <1>2, <2>2, <2>4
<1> QED BY Zenon, <1>2, <1>3, <1>4, <1>5

\* Calls that are counted hold a permit, so the counter stays below the limit.
LEMMA CountFollows ==
    ASSUME permits' \in Nat,
           permits' + Cardinality(Holding(Slotted)') = MaxSlots,
           active' = Cardinality(Holding(Counted)')
    PROVE  SlotsConserved' /\ active' \in Nat
<1>1. IsFiniteSet(Holding(Slotted)') BY Zenon, FS_Subset, DispatchAssumption DEF Holding
<1>2. Holding(Counted)' \subseteq Holding(Slotted)' BY Zenon DEF Holding, Slotted
<1>3. /\ Cardinality(Holding(Counted)') <= Cardinality(Holding(Slotted)')
      /\ IsFiniteSet(Holding(Counted)')
  BY Zenon, <1>1, <1>2, FS_Subset
<1>4. Cardinality(Holding(Counted)') \in Nat /\ Cardinality(Holding(Slotted)') \in Nat
  BY Zenon, <1>1, <1>3, FS_CardinalityType
<1>5. active' <= MaxSlots BY <1>3, <1>4, DispatchAssumption
<1> QED BY Zenon, <1>4, <1>5 DEF SlotsConserved

-----------------------------------------------------------------------------
(* Types and slots *)

\* One call moves: the others stay as they are.
OnlyMoves(c, p) == call'[c].pc = p /\ \A d \in Calls \ {c} : call'[d] = call[d]

LEMMA GotoMoves ==
    ASSUME CallType, NEW c \in Calls, NEW p \in CallPc \ {"granted"}, Goto(c, p)
    PROVE  CallType' /\ OnlyMoves(c, p)
BY DEF CallType, Goto, OnlyMoves

LEMMA NoCallMoves ==
    ASSUME CallType, NEW c \in Calls, call' = [call EXCEPT ![c] = NoCall]
    PROVE  CallType' /\ OnlyMoves(c, "idle")
BY Zenon DEF CallType, NoCall, OnlyMoves, CallPc

\* The steps of dispatch outside the limiter do not touch slots.
LEMMA OutsideLimiter ==
    ASSUME SlotsConserved, NEW c \in Calls, NEW p, OnlyMoves(c, p),
           call[c].pc \in Slotted <=> p \in Slotted,
           call[c].pc \in Counted <=> p \in Counted, UNCHANGED limitVars
    PROVE  SlotsConserved'
<1>1. Holding(Slotted)' = Holding(Slotted) /\ Holding(Counted)' = Holding(Counted)
  BY Zenon, HoldingChanges DEF OnlyMoves
<1> QED BY Zenon, <1>1 DEF SlotsConserved, limitVars

\* What a step of dispatch does to the control point of its call, the permits and
\* the counter.
SlotEffect(c) ==
    \/ /\ \E p \in CallPc : /\ OnlyMoves(c, p)
                            /\ call[c].pc \in Slotted <=> p \in Slotted
                            /\ call[c].pc \in Counted <=> p \in Counted
       /\ UNCHANGED limitVars
    \/ /\ call[c].pc = "guarded" /\ OnlyMoves(c, "slot") /\ permits > 0
       /\ permits' = permits - 1 /\ active' = active
    \/ /\ call[c].pc = "slot" /\ OnlyMoves(c, "counted")
       /\ permits' = permits /\ active' = active + 1
    \/ /\ call[c].pc = "done" /\ OnlyMoves(c, "uncounted")
       /\ permits' = permits /\ active' = active - 1
    \/ /\ call[c].pc = "uncounted" /\ OnlyMoves(c, "slotless")
       /\ permits' = permits + 1 /\ active' = active

LEMMA CallMoves ==
    ASSUME CallType, RegType, NEW c \in Calls,
           CallStep(c) \/ \E t \in Tools : Lookup(c, t)
    PROVE  CallType' /\ SlotEffect(c)
<1> USE DEF At, limitVars, SlotEffect
<1>p. CallPc = {"idle", "granted", "fetched", "guarded", "slotless", "slot", "uncounted",
                "counted", "forward", "done"}
  BY Zenon DEF CallPc, Guarded, Slotted, Counted
<1>1. CASE \E t \in Tools : Lookup(c, t)
  <2>1. CallType' /\ OnlyMoves(c, "granted") /\ call[c].pc = "idle"
    BY <1>1, <1>p DEF Lookup, CallType, OnlyMoves
  <2> QED BY Zenon, <1>1, <1>p, <2>1 DEF Lookup, Slotted, Counted
<1>2. CASE ReadGuard(c)
  <2>1. CASE records[call[c].tool] = NoRecord
    <3>1. call' = [call EXCEPT ![c] = NoCall] /\ call[c].pc = "granted" /\ UNCHANGED limitVars
      BY Zenon, <1>2, <2>1 DEF ReadGuard
    <3> QED BY Zenon, <1>p, <3>1, NoCallMoves DEF Slotted, Counted
  <2>2. CASE records[call[c].tool] # NoRecord
    <3>1. call' = [call EXCEPT ![c] = [@ EXCEPT !.pc = "fetched",
                                                !.sem = records[call[c].tool].sem]]
      BY Zenon, <1>2, <2>2 DEF ReadGuard
    <3>2. records[call[c].tool].sem \in Nat BY Zenon, <1>2 DEF ReadGuard, CallType, RegType
    <3>3. CallType' /\ OnlyMoves(c, "fetched") BY ZenonT(30), <1>p, <3>1, <3>2 DEF CallType, OnlyMoves
    <3> QED BY Zenon, <1>2, <1>p, <3>3 DEF ReadGuard, Slotted, Counted
  <2> QED BY Zenon, <2>1, <2>2
<1>3. CASE TakeGuard(c)
  BY Zenon, <1>3, <1>p, GotoMoves DEF TakeGuard, Slotted, Counted
<1>4. CASE TakeSlot(c)
  BY Zenon, <1>4, <1>p, GotoMoves DEF TakeSlot, SlotFree, Slotted, Counted
<1>5. CASE CountSlot(c)
  BY Zenon, <1>5, <1>p, GotoMoves DEF CountSlot
<1>6. CASE Resolve(c)
  BY Zenon, <1>6, <1>p, GotoMoves DEF Resolve, Slotted, Counted
<1>7. CASE Reply(c)
  BY Zenon, <1>7, <1>p, GotoMoves DEF Reply, Slotted, Counted
<1>8. CASE DropCount(c)
  BY Zenon, <1>8, <1>p, GotoMoves DEF DropCount
<1>9. CASE DropSlot(c)
  BY Zenon, <1>9, <1>p, GotoMoves DEF DropSlot
<1>10. CASE DropGuard(c)
  BY Zenon, <1>10, <1>p, NoCallMoves DEF DropGuard, Slotted, Counted
<1> QED BY <1>1, <1>2, <1>3, <1>4, <1>5, <1>6, <1>7, <1>8, <1>9, <1>10 DEF CallStep

LEMMA CallPreserves ==
    ASSUME TypeOK, SlotsConserved, NEW c \in Calls,
           CallStep(c) \/ \E t \in Tools : Lookup(c, t)
    PROVE  CallType' /\ permits' \in Nat /\ active' \in Nat /\ SlotsConserved'
<1> USE DEF Slotted, Counted
<1>0. CallType /\ RegType /\ permits \in Nat /\ active \in Nat BY Zenon DEF TypeOK
<1>1. CallType' BY Zenon, <1>0, CallMoves
<1>2. ASSUME NEW p \in CallPc, OnlyMoves(c, p), UNCHANGED limitVars,
             call[c].pc \in Slotted <=> p \in Slotted,
             call[c].pc \in Counted <=> p \in Counted
      PROVE  permits' \in Nat /\ active' \in Nat /\ SlotsConserved'
  BY Zenon, <1>0, <1>2, OutsideLimiter DEF limitVars
<1>3. ASSUME call[c].pc = "guarded", OnlyMoves(c, "slot"), permits > 0,
             permits' = permits - 1, active' = active
      PROVE  permits' \in Nat /\ active' \in Nat /\ SlotsConserved'
  <2>1. permits' \in Nat BY <1>0, <1>3
  <2>2. /\ Cardinality(Holding(Slotted)') = Cardinality(Holding(Slotted)) + 1
        /\ Cardinality(Holding(Slotted)) \in Nat
        /\ Holding(Counted)' = Holding(Counted)
    BY <1>3, HoldingChanges DEF OnlyMoves
  <2> QED BY <1>0, <1>3, <2>1, <2>2, CountFollows, DispatchAssumption DEF SlotsConserved
<1>4. ASSUME call[c].pc = "slot", OnlyMoves(c, "counted"), permits' = permits,
             active' = active + 1
      PROVE  permits' \in Nat /\ active' \in Nat /\ SlotsConserved'
  <2>2. /\ Cardinality(Holding(Counted)') = Cardinality(Holding(Counted)) + 1
        /\ Holding(Slotted)' = Holding(Slotted)
    BY Zenon, <1>4, HoldingChanges DEF OnlyMoves
  <2> QED BY Zenon, <1>0, <1>4, <2>2, CountFollows DEF SlotsConserved
<1>5. ASSUME call[c].pc = "done", OnlyMoves(c, "uncounted"), permits' = permits,
             active' = active - 1
      PROVE  permits' \in Nat /\ active' \in Nat /\ SlotsConserved'
  <2>2. /\ Cardinality(Holding(Counted)') = Cardinality(Holding(Counted)) - 1
        /\ Holding(Slotted)' = Holding(Slotted)
    BY Zenon, <1>5, HoldingChanges DEF OnlyMoves
  <2> QED BY Zenon, <1>0, <1>5, <2>2, CountFollows DEF SlotsConserved
<1>6. ASSUME call[c].pc = "uncounted", OnlyMoves(c, "slotless"), permits' = permits + 1,
             active' = active
      PROVE  permits' \in Nat /\ active' \in Nat /\ SlotsConserved'
  <2>2. /\ Cardinality(Holding(Slotted)') = Cardinality(Holding(Slotted)) - 1
        /\ Cardinality(Holding(Slotted)) \in Nat
        /\ Holding(Counted)' = Holding(Counted)
    BY Zenon, <1>6, HoldingChanges DEF OnlyMoves
  <2> QED BY <1>0, <1>6, <2>2, CountFollows, DispatchAssumption DEF SlotsConserved
<1> HIDE DEF Slotted, Counted
<1>7. SlotEffect(c) BY Zenon, <1>0, CallMoves
<1> QED BY Zenon, <1>1, <1>2, <1>3, <1>4, <1>5, <1>6, <1>7 DEF SlotEffect

-----------------------------------------------------------------------------
\* Changes of the registry keep its type.
LEMMA AnnounceType ==
    ASSUME RegType, NEW op \in {"added", "removed"}, NEW names \in SUBSET Tools,
           Announce(op, names)
    PROVE  /\ events' \in Seq(Event)
           /\ bridge' \in {"up", "lagging", "ended"}
<1>1. [op |-> op, tools |-> names] \in Event BY Zenon DEF Event
<1>2. Append(events, [op |-> op, tools |-> names]) \in Seq(Event)
  BY <1>1 DEF RegType
<1>3. << >> \in Seq(Event) OBVIOUS
<1>4. events \in Seq(Event) /\ bridge \in {"up", "lagging", "ended"} BY Zenon DEF RegType
<1> QED BY Zenon, <1>2, <1>3, <1>4 DEF Announce

LEMMA RegistryPreserves ==
    ASSUME TypeOK,
           \/ BridgeReceives \/ BridgeEnds \/ \E names \in Names : Add(names)
    PROVE  RegType'
<1> USE DEF TypeOK
<1>1. CASE BridgeReceives
  <2>1. Head(events) \in Event /\ Tail(events) \in Seq(Event)
    BY <1>1 DEF BridgeReceives, RegType
  <2>2. announced' \subseteq Tools BY Zenon, <1>1, <2>1 DEF BridgeReceives, RegType, Event
  <2> QED BY Zenon, <1>1, <2>1, <2>2 DEF BridgeReceives, RegType
<1>2. CASE BridgeEnds BY Zenon, <1>2 DEF BridgeEnds, RegType
<1>3. ASSUME NEW names \in Names, Add(names) PROVE RegType'
  <2>1. names \in SUBSET Tools BY Zenon DEF Names
  <2>2. PICK new \in [names -> sems + 1 .. sems'] :
          records' = [t \in Tools |-> IF t \in names
                                      THEN [state |-> "Available", sem |-> new[t]]
                                      ELSE records[t]]
    BY Zenon, <1>3 DEF Add
  <2>3. sems' \in Nat
    <3>1. Cardinality(names) \in Nat
      BY Zenon, <2>1, FS_Subset, FS_CardinalityType, DispatchAssumption
    <3> QED BY <1>3, <3>1 DEF Add, RegType
  <2>4. \A t \in names : new[t] \in Nat BY <2>2, <2>3 DEF RegType
  <2>5. records' \in [Tools -> [state : States \cup {"None"}, sem : Nat]]
    BY Zenon, <2>2, <2>4 DEF RegType, States, Usable
  <2> QED BY Zenon, <1>3, <2>1, <2>3, <2>5, AnnounceType DEF Add, RegType
<1> QED BY Zenon, <1>1, <1>2, <1>3

LEMMA RemovalPreserves ==
    ASSUME TypeOK, NEW r \in Removers,
           \/ RemoveStep(r)
           \/ \E names \in Names, d \in Drains : RemoveBegins(r, names, d)
    PROVE  RegType' /\ RemoveType' /\ UNCHANGED <<call, limitVars>>
<1> USE DEF TypeOK
<1>1. ASSUME NEW names \in Names, NEW d \in Drains, RemoveBegins(r, names, d)
      PROVE  RegType' /\ RemoveType' /\ UNCHANGED <<call, limitVars>>
  <2>1. names \in SUBSET Tools BY Zenon DEF Names
  <2>a. d \in BOOLEAN BY Zenon, DispatchAssumption
  <2>b. records' \in [Tools -> [state : States \cup {"None"}, sem : Nat]]
    <3>1. CASE d
      <4> DEFINE R == [state : States \cup {"None"}, sem : Nat]
      <4>1. records \in [Tools -> R] BY Zenon DEF RegType
      <4>2. \A x \in R : [x EXCEPT !.state = "Unavailable"] \in R BY Zenon DEF States
      <4>3. records' = [t \in Tools |-> IF t \in names /\ records[t] # NoRecord
                                        THEN [records[t] EXCEPT !.state = "Unavailable"]
                                        ELSE records[t]]
        BY Zenon, <1>1, <3>1 DEF RemoveBegins
      <4> HIDE DEF R
      <4>4. records' \in [Tools -> R] BY Zenon, <4>1, <4>2, <4>3
      <4> QED BY Zenon, <4>4 DEF R
    <3>2. CASE ~d BY Zenon, <1>1, <3>2 DEF RemoveBegins, RegType
    <3> QED BY Zenon, <2>a, <3>1, <3>2
  <2>2. RegType' BY Zenon, <1>1, <2>b DEF RemoveBegins, RegType
  <2>3. owed' \in [Removers -> SUBSET Calls] BY <1>1 DEF RemoveBegins, RemoveType, Holding
  <2>4. RemoveType' BY Zenon, <1>1, <2>1, <2>3 DEF RemoveBegins, RemoveType
  <2> QED BY Zenon, <1>1, <2>2, <2>4 DEF RemoveBegins
<1>2. ASSUME NEW t \in remove[r].left, RemoveReads(r, t)
      PROVE  RegType' /\ RemoveType' /\ UNCHANGED <<call, limitVars>>
  <2>1. t \in Tools BY Zenon DEF RemoveType
  <2>2. records[t].sem \in Nat BY Zenon, <2>1 DEF RegType
  <2>3. RemoveType' BY <1>2, <2>2 DEF RemoveReads, RemoveType
  <2> QED BY Zenon, <1>2, <2>3 DEF RemoveReads, RegType, regVars
<1>3. CASE RemoveDrained(r)
  BY ZenonT(30), <1>3 DEF RemoveDrained, RegType, regVars, RemoveType
<1>4. CASE RemoveEnds(r)
  <2>1. Removed(remove[r].names) \in SUBSET Tools BY Zenon DEF Removed, Present
  <2>2. /\ events' \in Seq(Event)
        /\ bridge' \in {"up", "lagging", "ended"}
    <3>1. CASE Removed(remove[r].names) # {}
      BY Zenon, <1>4, <2>1, <3>1, AnnounceType DEF RemoveEnds
    <3>2. CASE Removed(remove[r].names) = {} BY Zenon, <1>4, <3>2 DEF RemoveEnds, RegType
    <3> QED BY Zenon, <3>1, <3>2
  <2>3. records' \in [Tools -> [state : States \cup {"None"}, sem : Nat]]
    BY Zenon, <1>4 DEF RemoveEnds, RegType, NoRecord
  <2>4. RegType' BY Zenon, <1>4, <2>2, <2>3 DEF RemoveEnds, RegType
  <2>5. RemoveType' BY Zenon, <1>4 DEF RemoveEnds, RemoveType, NoRemoval
  <2> QED BY Zenon, <1>4, <2>4, <2>5 DEF RemoveEnds
<1> QED BY Zenon, <1>1, <1>2, <1>3, <1>4 DEF RemoveStep

\* The registry, the removals and the calls each leave the others' variables alone.
LEMMA Frames ==
    /\ BridgeReceives \/ BridgeEnds \/ (\E names \in Names : Add(names))
          => UNCHANGED <<call, limitVars, remove, owed>>
    /\ \A c \in Calls : CallStep(c) \/ (\E t \in Tools : Lookup(c, t))
          => UNCHANGED <<regVars, remove>>
<1>1. BridgeReceives \/ BridgeEnds \/ (\E names \in Names : Add(names))
        => UNCHANGED <<call, limitVars, remove, owed>>
  BY Zenon DEF BridgeReceives, BridgeEnds, Add
<1>2. ASSUME NEW c \in Calls, CallStep(c) \/ (\E t \in Tools : Lookup(c, t))
      PROVE  UNCHANGED <<regVars, remove>>
  BY Zenon, <1>2 DEF CallStep, Lookup, ReadGuard, TakeGuard, TakeSlot, CountSlot, Resolve, Reply,
              DropCount, DropSlot, DropGuard
<1> QED BY Zenon, <1>1, <1>2

LEMMA OwedType ==
    ASSUME RemoveType, NEW c \in Calls,
           CallStep(c) \/ \E t \in Tools : Lookup(c, t)
    PROVE  owed' \in [Removers -> SUBSET Calls]
<1>1. CASE DropGuard(c) BY Zenon, <1>1 DEF DropGuard, RemoveType
<1>2. CASE ~DropGuard(c)
  <2>1. UNCHANGED owed
    BY Zenon, <1>2 DEF CallStep, Lookup, ReadGuard, TakeGuard, TakeSlot, CountSlot, Resolve, Reply,
                DropCount, DropSlot
  <2> QED BY Zenon, <2>1 DEF RemoveType
<1> QED BY Zenon, <1>1, <1>2

\* Types and slots together: that the counter does not go below zero is a
\* consequence of the conservation of slots.
LEMMA StepPreserves == TypeOK /\ SlotsConserved /\ [Next]_vars => (TypeOK /\ SlotsConserved)'
<1> SUFFICES ASSUME TypeOK, SlotsConserved, [Next]_vars
             PROVE  TypeOK' /\ SlotsConserved'
  BY Zenon
<1>a. UNCHANGED <<call, limitVars>> =>
        SlotsConserved' /\ CallType' /\ permits' \in Nat /\ active' \in Nat
  BY Zenon DEF TypeOK, SlotsConserved, Holding, CallType, limitVars
<1>b. UNCHANGED regVars => RegType' BY Zenon DEF TypeOK, RegType, regVars
<1>c. UNCHANGED <<remove, owed>> => RemoveType' BY Zenon DEF TypeOK, RemoveType
<1>1. CASE BridgeReceives \/ BridgeEnds \/ \E names \in Names : Add(names)
  BY Zenon, <1>1, <1>a, <1>c, RegistryPreserves, Frames DEF TypeOK
<1>2. ASSUME NEW r \in Removers,
             \/ RemoveStep(r)
             \/ \E names \in Names, d \in Drains : RemoveBegins(r, names, d)
      PROVE  TypeOK' /\ SlotsConserved'
  BY Zenon, <1>2, <1>a, RemovalPreserves DEF TypeOK
<1>3. ASSUME NEW c \in Calls, CallStep(c) \/ \E t \in Tools : Lookup(c, t)
      PROVE  TypeOK' /\ SlotsConserved'
  <2>1. CallType' /\ permits' \in Nat /\ active' \in Nat /\ SlotsConserved'
    BY Zenon, <1>3, CallPreserves
  <2>2. RegType' BY Zenon, <1>3, <1>b, Frames
  <2>3. RemoveType' BY Zenon, <1>3, OwedType, Frames DEF TypeOK, RemoveType
  <2> QED BY Zenon, <2>1, <2>2, <2>3 DEF TypeOK
<1>4. CASE UNCHANGED vars BY Zenon, <1>4, <1>a, <1>b, <1>c DEF vars, TypeOK
<1> QED BY Zenon, <1>1, <1>2, <1>3, <1>4 DEF Next

LEMMA InitHolds == Init => TypeOK /\ SlotsConserved
<1> SUFFICES ASSUME Init PROVE TypeOK /\ SlotsConserved BY Zenon
<1>1. RegType BY DEF Init, RegType, NoRecord
<1>2. CallType BY Zenon DEF Init, CallType, NoCall, CallPc
<1>3. RemoveType BY Zenon DEF Init, RemoveType, NoRemoval
<1>4. Holding(Slotted) = {} /\ Holding(Counted) = {}
  BY Zenon DEF Init, Holding, NoCall, Slotted, Counted
<1>5. Cardinality({}) = 0 BY Zenon, FS_EmptySet
<1>6. SlotsConserved BY <1>4, <1>5, DispatchAssumption DEF Init, SlotsConserved
<1> QED BY Zenon, <1>1, <1>2, <1>3, <1>6, DispatchAssumption DEF TypeOK, Init

\* The registry, the calls in dispatch, the limiter and the removals are well typed
\* in every reachable state; the counter of the limiter does not wrap below zero.
THEOREM DispatchTypeCorrect == Spec => []TypeOK
BY InitHolds, StepPreserves, PTL DEF Spec

\* On every path through dispatch, error replies and time-outs included, slots are
\* neither lost nor invented, and the counter never passes the limit.
THEOREM SlotsAreConserved == Spec => []SlotsConserved
BY InitHolds, StepPreserves, PTL DEF Spec

-----------------------------------------------------------------------------
(* Drain *)

\* Calls that a removal owes a wait still hold their guard, and if their semaphore
\* is among those waited for, it is the one being polled.
DrainInv ==
    \A r \in Removers : \A c \in owed[r] :
        /\ call[c].pc \in Guarded
        /\ call[c].sem \in remove[r].waited =>
              remove[r].pc = "poll" /\ call[c].sem = remove[r].sem

LEMMA DrainCall ==
    ASSUME TypeOK, DrainInv, NEW c \in Calls,
           CallStep(c) \/ \E t \in Tools : Lookup(c, t)
    PROVE  DrainInv'
<1> USE DEF DrainInv, TypeOK, At, Goto
<1>1. CASE DropGuard(c)
  <2> SUFFICES ASSUME NEW r \in Removers, NEW d \in owed'[r]
               PROVE  d \in owed[r] /\ call'[d] = call[d] /\ remove' = remove
    OBVIOUS
  <2>1. d \in owed[r] /\ d # c /\ d \in Calls BY Zenon, <1>1 DEF DropGuard, RemoveType
  <2> QED BY Zenon, <1>1, <2>1 DEF DropGuard, CallType
<1>2. CASE ~DropGuard(c)
  <2>1. UNCHANGED <<owed, remove>>
    BY Zenon, <1>2 DEF CallStep, Lookup, ReadGuard, TakeGuard, TakeSlot, CountSlot, Resolve, Reply,
                DropCount, DropSlot
  <2>2. /\ \A d \in Calls \ {c} : call'[d] = call[d]
        /\ call[c].pc \in Guarded => call'[c].pc \in Guarded /\ call'[c].sem = call[c].sem
    BY <1>2 DEF CallType, CallStep, Lookup, ReadGuard, TakeGuard, TakeSlot, CountSlot,
                Resolve, Reply, DropCount, DropSlot, Guarded, Slotted, Counted
  <2> QED BY <2>1, <2>2 DEF RemoveType
<1> QED BY Zenon, <1>1, <1>2

LEMMA DrainRemoval ==
    ASSUME TypeOK, DrainInv, NEW r \in Removers,
           \/ RemoveStep(r)
           \/ \E names \in Names, d \in Drains : RemoveBegins(r, names, d)
    PROVE  DrainInv'
<1> USE DEF DrainInv
<1>1. ASSUME NEW names \in Names, NEW d \in Drains, RemoveBegins(r, names, d)
      PROVE  DrainInv'
  <2>1. remove'[r].waited = {} /\ \A q \in Removers \ {r} : remove'[q] = remove[q]
    BY Zenon, <1>1 DEF RemoveBegins, TypeOK, RemoveType
  <2>2. /\ \A q \in Removers \ {r} : owed'[q] = owed[q]
        /\ \A c \in owed'[r] : call[c].pc \in Guarded
    <3>1. CASE d BY <1>1, <3>1 DEF RemoveBegins, TypeOK, RemoveType, Holding
    <3>2. CASE ~d BY Zenon, <1>1, <3>2 DEF RemoveBegins
    <3>3. d \in BOOLEAN BY Zenon, DispatchAssumption
    <3> QED BY Zenon, <3>1, <3>2, <3>3
  <2> QED BY <1>1, <2>1, <2>2 DEF RemoveBegins
<1>2. ASSUME NEW t \in remove[r].left, RemoveReads(r, t) PROVE DrainInv'
  <2>1. /\ \A q \in Removers \ {r} : remove'[q] = remove[q]
        /\ remove[r].pc = "drain"
        /\ UNCHANGED <<owed, call>>
        /\ \/ remove'[r].waited = remove[r].waited
           \/ /\ remove'[r].pc = "poll"
              /\ remove'[r].waited = remove[r].waited \cup {remove'[r].sem}
    BY Zenon, <1>2 DEF RemoveReads, TypeOK, RemoveType
  <2> QED BY <2>1
<1>3. CASE RemoveDrained(r)
  <2>1. /\ \A q \in Removers \ {r} : remove'[q] = remove[q]
        /\ remove'[r].waited = remove[r].waited
        /\ UNCHANGED <<owed, call>>
    BY <1>3 DEF RemoveDrained, TypeOK, RemoveType
  <2>2. \A c \in owed[r] : call[c].sem # remove[r].sem
    BY Zenon, <1>3 DEF RemoveDrained, AllPermitsBack, Holding, TypeOK, RemoveType
  <2> QED BY <2>1, <2>2
<1>4. CASE RemoveEnds(r)
  BY <1>4 DEF RemoveEnds, TypeOK, RemoveType
<1> QED BY Zenon, <1>1, <1>2, <1>3, <1>4 DEF RemoveStep

\* A removal with drain deletes its records only after every call that held one of
\* their guards when they were marked has given it back.
THEOREM DrainIsComplete == Spec => []DrainWaits
<1>1. Init => DrainInv BY Zenon DEF Init, DrainInv
<1>2. TypeOK /\ DrainInv /\ [Next]_vars => DrainInv'
  <2> SUFFICES ASSUME TypeOK, DrainInv, [Next]_vars PROVE DrainInv' BY Zenon
  <2>1. UNCHANGED <<call, remove, owed>> => DrainInv' BY DEF DrainInv
  <2>2. CASE BridgeReceives \/ BridgeEnds \/ \E names \in Names : Add(names)
    BY Zenon, <2>1, <2>2, Frames
  <2>3. CASE UNCHANGED vars BY Zenon, <2>1, <2>3 DEF vars
  <2> QED BY Zenon, <2>2, <2>3, DrainCall, DrainRemoval DEF Next
<1>3. DrainInv => DrainWaits BY Zenon DEF DrainInv, DrainWaits
<1> QED BY <1>1, <1>2, <1>3, DispatchTypeCorrect, PTL DEF Spec

-----------------------------------------------------------------------------
(* Change events *)

\* What a subscriber that has published `ann` and has the events q before it will
\* say of tool t is `here`: by the last event about t, or else by what it said.
Tells(q, ann, t, here) ==
    /\ (\A i \in 1..Len(q) : t \notin q[i].tools) => (t \in ann <=> here)
    /\ \A i \in 1..Len(q) :
          t \in q[i].tools /\ (\A j \in 1..Len(q) : j > i => t \notin q[j].tools)
              => (q[i].op = "added" <=> here)
BridgeInv == bridge = "up" => \A t \in Tools : Tells(events, announced, t, t \in Present)

\* The event of a change decides what is said of the tools it names, and nothing
\* about the others.
LEMMA AppendTells ==
    ASSUME NEW q \in Seq(Event), NEW e \in Event, NEW ann, NEW t, NEW was, NEW here \in BOOLEAN,
           Tells(q, ann, t, was),
           t \in e.tools => (here <=> e.op = "added"),
           t \notin e.tools => here = was
    PROVE  Tells(Append(q, e), ann, t, here)
<1> DEFINE r == Append(q, e)
<1>1. /\ Len(q) \in Nat /\ Len(r) = Len(q) + 1 /\ r[Len(q) + 1] = e
      /\ \A i \in 1..Len(q) : r[i] = q[i]
  OBVIOUS
<1> HIDE DEF r
<1>2. Len(q) + 1 \in 1..Len(r) BY <1>1
<1>3. CASE t \in e.tools
  <2>1. ~(\A i \in 1..Len(r) : t \notin r[i].tools) BY Zenon, <1>1, <1>2, <1>3
  <2>2. ASSUME NEW i \in 1..Len(r), \A j \in 1..Len(r) : j > i => t \notin r[j].tools
        PROVE  r[i] = e
    <3>1. ~(Len(q) + 1 > i) BY Zenon, <1>1, <1>2, <1>3, <2>2
    <3>2. i = Len(q) + 1 BY <1>1, <3>1
    <3> QED BY Zenon, <1>1, <3>2
  <2> QED BY Zenon, <1>3, <2>1, <2>2 DEF Tells, r
<1>4. CASE t \notin e.tools
  <2>1. (\A i \in 1..Len(r) : t \notin r[i].tools) => (\A i \in 1..Len(q) : t \notin q[i].tools)
    BY <1>1
  <2>2. ASSUME NEW i \in 1..Len(r), t \in r[i].tools,
               \A j \in 1..Len(r) : j > i => t \notin r[j].tools
        PROVE  /\ i \in 1..Len(q) /\ r[i] = q[i]
               /\ \A j \in 1..Len(q) : j > i => t \notin q[j].tools
    BY <1>1, <1>4, <2>2
  <2> QED BY <1>4, <2>1, <2>2 DEF Tells, r
<1> QED BY Zenon, <1>3, <1>4

\* Publishing the first event leaves what will be said unchanged.
LEMMA PublishTells ==
    ASSUME NEW q \in Seq(Event), q # << >>, NEW ann, NEW t, NEW here, Tells(q, ann, t, here)
    PROVE  Tells(Tail(q), IF Head(q).op = "added" THEN ann \cup Head(q).tools
                                                  ELSE ann \ Head(q).tools, t, here)
<1> DEFINE r == Tail(q)
           said == IF Head(q).op = "added" THEN ann \cup Head(q).tools ELSE ann \ Head(q).tools
<1>1. /\ Len(q) \in Nat /\ Len(q) >= 1 /\ Len(r) = Len(q) - 1 /\ Head(q) = q[1]
      /\ \A i \in 1..Len(r) : r[i] = q[i + 1]
  OBVIOUS
<1> HIDE DEF r
<1>2. 1 \in 1..Len(q) BY <1>1
<1>3. ASSUME \A i \in 1..Len(r) : t \notin r[i].tools PROVE t \in said <=> here
  <2>1. ASSUME NEW j \in 1..Len(q), j > 1 PROVE t \notin q[j].tools
    <3>1. j - 1 \in 1..Len(r) /\ q[j] = r[j - 1] BY <1>1, <2>1
    <3> QED BY Zenon, <1>3, <3>1
  <2>2. CASE t \in q[1].tools
    <3>1. q[1].op = "added" <=> here BY Zenon, <1>2, <2>1, <2>2 DEF Tells
    <3> QED BY Zenon, <1>1, <2>2, <3>1
  <2>3. CASE t \notin q[1].tools
    <3>1. \A i \in 1..Len(q) : t \notin q[i].tools BY <1>1, <2>1, <2>3
    <3>2. t \in ann <=> here BY Zenon, <3>1 DEF Tells
    <3> QED BY Zenon, <1>1, <2>3, <3>2
  <2> QED BY Zenon, <2>2, <2>3
<1>4. ASSUME NEW i \in 1..Len(r), t \in r[i].tools,
             \A j \in 1..Len(r) : j > i => t \notin r[j].tools
      PROVE  r[i].op = "added" <=> here
  <2>1. i + 1 \in 1..Len(q) /\ r[i] = q[i + 1] BY <1>1
  <2>2. ASSUME NEW j \in 1..Len(q), j > i + 1 PROVE t \notin q[j].tools
    <3>1. j - 1 \in 1..Len(r) /\ j - 1 > i /\ q[j] = r[j - 1] BY <1>1, <2>2
    <3> QED BY Zenon, <1>4, <3>1
  <2> QED BY Zenon, <1>4, <2>1, <2>2 DEF Tells
<1> HIDE DEF said
<1> QED BY Zenon, <1>3, <1>4 DEF Tells, r, said

\* A change of the registry and its announcement, made under one lock, agree.
LEMMA AnnounceTells ==
    ASSUME TypeOK, BridgeInv, NEW op \in {"added", "removed"}, NEW names \in SUBSET Tools,
           Announce(op, names), UNCHANGED announced,
           \A t \in Tools : /\ t \in names => (t \in Present' <=> op = "added")
                            /\ t \notin names => (t \in Present' <=> t \in Present)
    PROVE  BridgeInv'
<1> SUFFICES ASSUME bridge' = "up", NEW t \in Tools
             PROVE  Tells(events', announced', t, t \in Present')
  BY Zenon DEF BridgeInv
<1> DEFINE e == [op |-> op, tools |-> names]
<1>1. bridge = "up" /\ events' = Append(events, e) BY Zenon DEF Announce
<1>2. e \in Event /\ e.op = op /\ e.tools = names BY Zenon DEF Event
<1>3. Tells(events, announced, t, t \in Present) BY Zenon, <1>1 DEF BridgeInv
<1>4. events \in Seq(Event) BY Zenon DEF TypeOK, RegType
<1> DEFINE was == t \in Present
           here == t \in Present'
<1>5. (t \in e.tools => (here <=> e.op = "added")) /\ (t \notin e.tools => here = was)
  BY <1>2
<1>6. here \in BOOLEAN OBVIOUS
<1> HIDE DEF e, was, here
<1>7. Tells(events, announced, t, was) BY Zenon, <1>3 DEF was
<1>8. Tells(Append(events, e), announced, t, here)
  BY Zenon, <1>2, <1>4, <1>5, <1>6, <1>7, AppendTells
<1> QED BY Zenon, <1>1, <1>8 DEF here

\* The changes of the registry.
LEMMA RegistryTells ==
    ASSUME TypeOK, BridgeInv,
           \/ \E names \in Names : Add(names)
           \/ \E r \in Removers, names \in Names, d \in Drains : RemoveBegins(r, names, d)
           \/ \E r \in Removers : RemoveEnds(r)
    PROVE  BridgeInv'
<1>a. records \in [Tools -> [state : States \cup {"None"}, sem : Nat]] BY Zenon DEF TypeOK, RegType
<1>1. ASSUME NEW names \in Names, Add(names) PROVE BridgeInv'
  <2>1. names \in SUBSET Tools BY Zenon DEF Names
  <2>2. \A t \in Tools : t \in names => records'[t].state = "Available" BY <1>1, <2>1 DEF Add
  <2>3. \A t \in Tools : t \notin names => records'[t] = records[t] BY Zenon, <1>1 DEF Add
  <2>4. \A t \in Tools : t \in names => t \in Present' BY <2>2 DEF Present, NoRecord
  <2>5. \A t \in Tools : t \notin names => (t \in Present' <=> t \in Present)
    BY Zenon, <2>3 DEF Present
  <2>6. Announce("added", names) /\ UNCHANGED announced BY Zenon, <1>1 DEF Add
  <2> QED BY <2>1, <2>4, <2>5, <2>6, AnnounceTells
<1>2. ASSUME NEW r \in Removers, NEW names \in Names, NEW d \in Drains, RemoveBegins(r, names, d)
      PROVE  BridgeInv'
  <2>1. ASSUME NEW t \in Tools PROVE t \in Present' <=> t \in Present
    <3>1. \/ records'[t] = records[t]
          \/ records[t] # NoRecord /\ records'[t] = [records[t] EXCEPT !.state = "Unavailable"]
      BY Zenon, <1>2, <1>a DEF RemoveBegins
    <3> QED BY <1>a, <3>1 DEF Present, NoRecord
  <2>2. Present' = Present BY Zenon, <2>1 DEF Present
  <2> QED BY Zenon, <1>2, <2>2 DEF RemoveBegins, BridgeInv
<1>3. ASSUME NEW r \in Removers, RemoveEnds(r) PROVE BridgeInv'
  <2> DEFINE names == Removed(remove[r].names)
  <2>1. names \in SUBSET Tools BY Zenon DEF Removed, Present
  <2>2. \A t \in Tools : t \in names => t \notin Present'
    BY Zenon, <1>3 DEF RemoveEnds, Removed, Present
  <2>3. \A t \in Tools : t \notin names => (t \in Present' <=> t \in Present)
    BY Zenon, <1>3 DEF RemoveEnds, Removed, Present
  <2>4. CASE names # {}
    <3>1. Announce("removed", names) /\ UNCHANGED announced BY Zenon, <1>3, <2>4 DEF RemoveEnds
    <3> HIDE DEF names
    <3> QED BY <2>1, <2>2, <2>3, <3>1, AnnounceTells
  <2>5. CASE names = {}
    <3>1. Present' = Present BY Zenon, <2>3, <2>5 DEF Present
    <3> QED BY Zenon, <1>3, <2>5, <3>1 DEF RemoveEnds, BridgeInv
  <2> QED BY Zenon, <2>4, <2>5
<1> QED BY Zenon, <1>1, <1>2, <1>3

\* Once the ATP bridge has caught up, what it has published is what the registry
\* holds, in whatever order tools were added, replaced and removed: add and the
\* last phase of remove send their event under the registry lock.
THEOREM BridgeAgrees == Spec => []AnnouncedAgrees
<1>1. Init => BridgeInv BY DEF Init, BridgeInv, Tells, Present
<1>2. TypeOK /\ BridgeInv /\ [Next]_vars => BridgeInv'
  <2> SUFFICES ASSUME TypeOK, BridgeInv, [Next]_vars PROVE BridgeInv' OBVIOUS
  <2>1. CASE BridgeReceives
    <3>1. events \in Seq(Event) /\ Present' = Present
      BY Zenon, <2>1 DEF BridgeReceives, TypeOK, RegType, Present
    <3>2. ASSUME NEW t \in Tools PROVE Tells(events', announced', t, t \in Present)
      <4>1. Tells(events, announced, t, t \in Present) BY Zenon, <2>1 DEF BridgeReceives, BridgeInv
      <4>2. Tells(Tail(events), IF Head(events).op = "added"
                                THEN announced \cup Head(events).tools
                                ELSE announced \ Head(events).tools, t, t \in Present)
        BY Zenon, <2>1, <3>1, <4>1, PublishTells DEF BridgeReceives
      <4> QED BY Zenon, <2>1, <4>2 DEF BridgeReceives
    <3> QED BY Zenon, <3>1, <3>2 DEF BridgeInv
  <2>2. CASE BridgeEnds BY Zenon, <2>2 DEF BridgeEnds, BridgeInv
  <2>3. CASE UNCHANGED regVars BY Zenon, <2>3 DEF regVars, BridgeInv, Present
  <2>4. ASSUME NEW r \in Removers, RemoveStep(r) PROVE BridgeInv'
    BY Zenon, <2>3, <2>4, RegistryTells DEF RemoveStep, RemoveDrained, RemoveReads
  <2>5. CASE UNCHANGED vars BY Zenon, <2>3, <2>5 DEF vars
  <2>6. ASSUME NEW c \in Calls, CallStep(c) \/ \E t \in Tools : Lookup(c, t) PROVE BridgeInv'
    BY Zenon, <2>3, <2>6, Frames
  <2> QED BY Zenon, <2>1, <2>2, <2>4, <2>5, <2>6, RegistryTells DEF Next
<1>3. TypeOK /\ BridgeInv => AnnouncedAgrees
  <2> SUFFICES ASSUME TypeOK, BridgeInv, bridge = "up", events = << >>
               PROVE  announced = Present
    BY Zenon DEF AnnouncedAgrees
  <2>1. \A t \in Tools : t \in announced <=> t \in Present BY DEF BridgeInv, Tells
  <2> QED BY Zenon, <2>1 DEF TypeOK, RegType, Present
<1> QED BY <1>1, <1>2, <1>3, DispatchTypeCorrect, PTL DEF Spec

=============================================================================
