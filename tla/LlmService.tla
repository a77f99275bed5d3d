----------------------------- MODULE LlmService -----------------------------
(***************************************************************************)
(* The LLM service (llm_svc/): requests are routed to a provider by name,  *)
(* modality and health, sent over HTTP, parsed and counted; a streamed     *)
(* completion is forwarded chunk by chunk on the open connection.  One     *)
(* health loop and one OAuth2 renewal loop per provider change the status  *)
(* and the token behind the requests' back.  The four non-text handlers    *)
(* have the same control flow and are the kind "media".                    *)
(***************************************************************************)
EXTENDS Naturals, FiniteSets

CONSTANTS
    Providers,    \* the configured providers
    Supports,     \* provider -> modalities, of {"text", "media"}
    DefaultOf,    \* modality -> provider
    TextFallback, \* RoutingEngine.fallback_text: a provider or NoProvider
    ClientsFor,    \* pairs of a provider and a modality it has a client or adapter for
    NoProvider,   \* no provider
    Renewing,     \* the providers whose credentials are OAuth2 tokens
    Requests,     \* requests of the executors
    MaxOutages,   \* bound: changes in the behaviour of the providers' servers
    MaxChunks     \* bound: chunks of a streamed answer

ASSUME LlmAssumption ==
    /\ NoProvider \notin Providers /\ TextFallback \in Providers \cup {NoProvider}
    /\ DefaultOf \in [{"text", "media"} -> Providers]
    /\ ClientsFor \subseteq Providers \X {"text", "media"} /\ Renewing \subseteq Providers
    /\ MaxChunks \in Nat /\ MaxOutages \in Nat /\ IsFiniteSet(Requests)

VARIABLES
    pstatus,   \* RoutingEngine.status
    endpoint,  \* what the provider's servers do: "ok", "error", "down"
    probe,     \* the health loop of each provider
    outages,   \* changes of endpoint so far
    oauth,     \* the renewal loop of each provider and the age of its token
    llmReq,    \* the requests
    usage,     \* UsageTracker: answered requests of each provider
    usable     \* history: providers seen not Unavailable since the request came

llmVars == <<pstatus, endpoint, outages, probe, oauth, llmReq, usage, usable>>
loopVars == <<pstatus, endpoint, outages, probe, oauth>>

Kinds == {"complete", "stream", "media"}

ModalityOf(kind) == IF kind = "media" THEN "media" ELSE "text"

NoRequest == [pc |-> "idle", kind |-> "complete", name |-> NoProvider, provider |-> NoProvider,
              chunks |-> 0, outcome |-> "none"]

Routable(p) == pstatus[p] # "unavailable"

\* Every open request remembers which providers it could have been given.
Noted(st) == [r \in Requests |-> IF llmReq[r].pc \in {"resolve", "fallback"}
                                 THEN usable[r] \cup {p \in Providers : st[p] # "unavailable"} ELSE usable[r]]

-----------------------------------------------------------------------------
(* The loops *)

\* The servers of a provider change their behaviour.
EndpointChanges(p, e) ==
    /\ endpoint[p] # e /\ outages < MaxOutages
    /\ outages' = outages + 1
    /\ endpoint' = [endpoint EXCEPT ![p] = e]
    /\ UNCHANGED <<pstatus, probe, oauth, llmReq, usage, usable>>

HealthAsks(p) ==
    /\ probe[p] = "sleep"
    /\ probe' = [probe EXCEPT ![p] = endpoint[p]]
    /\ UNCHANGED <<pstatus, endpoint, outages, oauth, llmReq, usage, usable>>

StatusOf(answer) ==
    CASE answer = "ok"    -> "available"
      [] answer = "error" -> "degraded"
      [] answer = "down"  -> "unavailable"

\* update_status with what the check found, after the check.
HealthUpdates(p) ==
    /\ probe[p] \in {"ok", "error", "down"}
    /\ pstatus' = [pstatus EXCEPT ![p] = StatusOf(probe[p])]
    /\ probe' = [probe EXCEPT ![p] = "sleep"]
    /\ usable' = Noted(pstatus')
    /\ UNCHANGED <<endpoint, outages, oauth, llmReq, usage>>

TokenAges(p) ==
    /\ oauth[p].token = "fresh"
    /\ oauth' = [oauth EXCEPT ![p].token = "due"]
    /\ UNCHANGED <<pstatus, endpoint, outages, probe, llmReq, usage, usable>>

\* The sleep until refresh_at is over: the token endpoint is asked.
RenewAsks(p) ==
    /\ oauth[p].pc = "sleep" /\ oauth[p].token = "due"
    /\ oauth' = [oauth EXCEPT ![p].pc = IF endpoint[p] = "ok" THEN "granted" ELSE "refused"]
    /\ UNCHANGED <<pstatus, endpoint, outages, probe, llmReq, usage, usable>>

RenewStores(p) ==
    /\ oauth[p].pc = "granted"
    /\ oauth' = [oauth EXCEPT ![p] = [pc |-> "sleep", token |-> "fresh"]]
    /\ UNCHANGED <<pstatus, endpoint, outages, probe, llmReq, usage, usable>>

\* on_degraded, then another try after 60 s.
RenewDegrades(p) ==
    /\ oauth[p].pc = "refused"
    /\ pstatus' = [pstatus EXCEPT ![p] = "degraded"]
    /\ oauth' = [oauth EXCEPT ![p].pc = "sleep"]
    /\ usable' = Noted(pstatus')
    /\ UNCHANGED <<endpoint, outages, probe, llmReq, usage>>

-----------------------------------------------------------------------------
(* Requests *)

ReqArrives(r, kind, explicit) ==
    /\ llmReq[r].pc = "idle"
    /\ llmReq' = [llmReq EXCEPT ![r].pc = "resolve", ![r].kind = kind,
                                ![r].name = IF explicit # NoProvider THEN explicit
                                            ELSE DefaultOf[ModalityOf(kind)]]
    /\ usable' = [usable EXCEPT ![r] = {p \in Providers : Routable(p)}]
    /\ UNCHANGED <<loopVars, usage>>

Answered(r, outcome) == llmReq' = [llmReq EXCEPT ![r].pc = "done", ![r].outcome = outcome]

\* resolve, up to its first look at the status map.
ResolvePrimary(r) ==
    LET q == llmReq[r]
        m == ModalityOf(q.kind)
    IN  /\ q.pc = "resolve"
        /\ IF m \notin Supports[q.name] THEN Answered(r, "error")
           ELSE IF Routable(q.name) THEN llmReq' = [llmReq EXCEPT ![r].pc = "send", ![r].provider = q.name]
           ELSE IF m = "text" /\ TextFallback # NoProvider THEN llmReq' = [llmReq EXCEPT ![r].pc = "fallback"]
           ELSE Answered(r, "error")
        /\ UNCHANGED <<loopVars, usage, usable>>

\* Faulty variant: the fallback is taken without a look at its status.
ResolveFallbackBlind(r) ==
    /\ llmReq[r].pc = "fallback"
    /\ llmReq' = [llmReq EXCEPT ![r].pc = "send", ![r].provider = TextFallback]
    /\ UNCHANGED <<loopVars, usage, usable>>

\* The second look, under another hold of the status lock.
ResolveFallback(r) ==
    /\ llmReq[r].pc = "fallback"
    /\ IF Routable(TextFallback)
       THEN llmReq' = [llmReq EXCEPT ![r].pc = "send", ![r].provider = TextFallback]
       ELSE Answered(r, "error")
    /\ UNCHANGED <<loopVars, usage, usable>>

HasClient(q) == <<q.provider, ModalityOf(q.kind)>> \in ClientsFor

\* The client or adapter is looked up and the request built and sent.
SendsRequest(r) ==
    /\ llmReq[r].pc = "send"
    /\ IF HasClient(llmReq[r])
       THEN llmReq' = [llmReq EXCEPT ![r].pc = "sent"]
       ELSE Answered(r, "error")
    /\ UNCHANGED <<loopVars, usage, usable>>

\* An HTTP, provider or parse error is passed on; nothing is counted.
ProviderFails(r) ==
    /\ llmReq[r].pc = "sent"
    /\ Answered(r, "error")
    /\ UNCHANGED <<loopVars, usage, usable>>

ProviderAnswers(r) ==
    /\ llmReq[r].pc = "sent" /\ endpoint[llmReq[r].provider] = "ok"
    /\ llmReq' = [llmReq EXCEPT ![r].pc = IF llmReq[r].kind = "stream" THEN "stream" ELSE "record"]
    /\ UNCHANGED <<loopVars, usage, usable>>

\* record_text, record_image, ... and the reply.
RecordsUsage(r) ==
    /\ llmReq[r].pc = "record"
    /\ usage' = [usage EXCEPT ![llmReq[r].provider] = @ + 1]
    /\ Answered(r, "ok")
    /\ UNCHANGED <<loopVars, usable>>

\* handle_stream_complete: a notification per chunk, then one final reply.
StreamForwards(r) ==
    /\ llmReq[r].pc = "stream" /\ llmReq[r].chunks < MaxChunks
    /\ llmReq' = [llmReq EXCEPT ![r].chunks = @ + 1]
    /\ UNCHANGED <<loopVars, usage, usable>>

\* The stream ends, breaks off with an error, or the reader has gone.
StreamEnds(r, outcome) ==
    /\ llmReq[r].pc = "stream"
    /\ Answered(r, outcome)
    /\ UNCHANGED <<loopVars, usage, usable>>

-----------------------------------------------------------------------------

LlmInit ==
    /\ pstatus = [p \in Providers |-> "available"]
    /\ endpoint = [p \in Providers |-> "ok"]
    /\ probe = [p \in Providers |-> "sleep"]
    /\ outages = 0
    /\ oauth = [p \in Renewing |-> [pc |-> "sleep", token |-> "fresh"]]
    /\ llmReq = [r \in Requests |-> NoRequest]
    /\ usage = [p \in Providers |-> 0]
    /\ usable = [r \in Requests |-> {}]

HealthStep(p) == HealthAsks(p) \/ HealthUpdates(p)

RenewStep(p) == RenewAsks(p) \/ RenewStores(p) \/ RenewDegrades(p)

LlmNext ==
    \/ \E p \in Providers :
        \/ \E e \in {"ok", "error", "down"} : EndpointChanges(p, e)
        \/ HealthStep(p)
    \/ \E p \in Renewing : RenewStep(p) \/ TokenAges(p)
    \/ \E r \in Requests :
        \/ \E kind \in Kinds, explicit \in Providers \cup {NoProvider} : ReqArrives(r, kind, explicit)
        \/ ResolvePrimary(r) \/ ResolveFallback(r) \/ SendsRequest(r)
        \/ ProviderFails(r) \/ ProviderAnswers(r) \/ RecordsUsage(r)
        \/ StreamForwards(r)
        \/ \E outcome \in {"ok", "error", "gone"} : StreamEnds(r, outcome)

LlmFairness ==
    /\ \A p \in Providers : WF_llmVars(HealthStep(p))
    /\ \A p \in Renewing : WF_llmVars(RenewStep(p))

LlmSpec == LlmInit /\ [][LlmNext]_llmVars /\ LlmFairness

-----------------------------------------------------------------------------
(* Properties *)

\* Types; and a request that was sent has a provider with a client.
LlmTypeOK ==
    /\ pstatus \in [Providers -> {"available", "degraded", "unavailable"}]
    /\ endpoint \in [Providers -> {"ok", "error", "down"}] /\ outages \in 0 .. MaxOutages
    /\ probe \in [Providers -> {"sleep", "ok", "error", "down"}]
    /\ oauth \in [Renewing -> [pc : {"sleep", "granted", "refused"}, token : {"fresh", "due"}]]
    /\ llmReq \in [Requests ->
          [pc : {"idle", "resolve", "fallback", "send", "sent", "record", "stream", "done"}, kind : Kinds,
           name : Providers \cup {NoProvider}, provider : Providers \cup {NoProvider},
           chunks : 0 .. MaxChunks, outcome : {"none", "ok", "error", "gone"}]]
    /\ usage \in [Providers -> Nat] /\ usable \in [Requests -> SUBSET Providers]
    /\ \A r \in Requests : llmReq[r].pc \in {"sent", "record", "stream"} => HasClient(llmReq[r])

\* A request is never sent to a provider that was Unavailable all the time it
\* was being routed: both looks of resolve count, the fallback's too.
NotToUnavailable ==
    \A r \in Requests : llmReq[r].provider # NoProvider => llmReq[r].provider \in usable[r]

\* The usage of a provider is the number of its unary requests that were
\* answered: failed ones and streams are not counted (usage.rs, service.rs).
UsageIsAnswers ==
    \A p \in Providers :
        usage[p] = Cardinality({r \in Requests :
            llmReq[r].provider = p /\ llmReq[r].outcome = "ok" /\ llmReq[r].kind # "stream"})

\* A provider whose servers are well for good is routed to again: the health
\* loop goes on after every answer.
HealthRecovers ==
    \A p \in Providers : <>[](endpoint[p] = "ok") => <>[](pstatus[p] # "unavailable")

\* And its token is renewed again, however often renewal failed before.
TokenIsRenewed ==
    \A p \in Renewing : <>[](endpoint[p] = "ok") => []<>(oauth[p].token = "fresh")

\* Together: requests go to, and are counted for, a provider that may be used.
ProvidersAreUsedWell == NotToUnavailable /\ UsageIsAnswers
=============================================================================
