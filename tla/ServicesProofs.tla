--------------------------- MODULE ServicesProofs ---------------------------
(***************************************************************************)
(* Proofs about the services and what agents are offered, for any units,   *)
(* jobs, servers and tools.                                                *)
(*                                                                         *)
(* Services: a service never runs twice, although the watchdog decides on  *)
(* a restart, waits, issues the token and starts the binary in separate    *)
(* steps.  Cron: a run of a job is alerted at most once, at its end.       *)
(* McpBridge: McpInv strengthens ToolsFollowServers with what the health   *)
(* monitor remembers: nothing reconnects a degraded server, and the only   *)
(* noticed failure whose tools are still registered is the one being       *)
(* handled.  AgentTools: an agent is granted, offered and sent what its    *)
(* manifest asked for or a person approved, and nothing else.              *)
(***************************************************************************)
EXTENDS Services, Cron, McpBridge, AgentTools, TLAPS

-----------------------------------------------------------------------------
(* Sequences *)

\* What is in a sequence is of its set.
LEMMA ElementOfSeq ==
    ASSUME NEW S, NEW q \in Seq(S), NEW n \in 1 .. Len(q)
    PROVE  q[n] \in S
OBVIOUS

\* The empty sequence, and the length of any other.
LEMMA EmptySeq ==
    ASSUME NEW S
    PROVE  /\ << >> \in Seq(S) /\ Len(<< >>) = 0
           /\ \A q \in Seq(S) : q # << >> => Len(q) \in Nat \ {0}
OBVIOUS

\* A sequence is a function on the numbers up to its length.
LEMMA LenProperties ==
    ASSUME NEW S, NEW q \in Seq(S)
    PROVE  Len(q) \in Nat /\ q \in [1 .. Len(q) -> S] /\ DOMAIN q = 1 .. Len(q)
OBVIOUS

\* A function on the numbers up to n is a sequence.
LEMMA FunctionIsSeq ==
    ASSUME NEW S, NEW n \in Nat, NEW f \in [1 .. n -> S]
    PROVE  f \in Seq(S) /\ Len(f) = n
OBVIOUS

\* Sequences with the same elements are equal.
LEMMA SeqEqual ==
    ASSUME NEW S, NEW p \in Seq(S), NEW q \in Seq(S), Len(p) = Len(q),
           \A i \in 1 .. Len(p) : p[i] = q[i]
    PROVE  p = q
OBVIOUS

\* A push at the end.
LEMMA AppendProperties ==
    ASSUME NEW S, NEW q \in Seq(S), NEW e \in S
    PROVE  /\ Append(q, e) \in Seq(S) /\ Append(q, e) # << >>
           /\ Len(Append(q, e)) = Len(q) + 1
           /\ \A i \in 1 .. Len(q) : Append(q, e)[i] = q[i]
           /\ Append(q, e)[Len(q) + 1] = e
OBVIOUS

\* A pop at the front.
LEMMA HeadTailProperties ==
    ASSUME NEW S, NEW q \in Seq(S), q # << >>
    PROVE  /\ Head(q) \in S /\ Head(q) = q[1]
           /\ Tail(q) \in Seq(S) /\ Len(Tail(q)) = Len(q) - 1
           /\ \A i \in 1 .. Len(Tail(q)) : Tail(q)[i] = q[i + 1]
OBVIOUS

\* One sequence after another.
LEMMA ConcatProperties ==
    ASSUME NEW S, NEW p \in Seq(S), NEW q \in Seq(S)
    PROVE  /\ p \o q \in Seq(S) /\ Len(p \o q) = Len(p) + Len(q)
           /\ \A i \in 1 .. Len(p) + Len(q) :
                 (p \o q)[i] = IF i <= Len(p) THEN p[i] ELSE q[i - Len(p)]
OBVIOUS

\* Nothing after a sequence.
LEMMA ConcatEmptySeq ==
    ASSUME NEW S, NEW q \in Seq(S)
    PROVE  << >> \o q = q /\ q \o << >> = q
OBVIOUS

\* A part of a sequence.
LEMMA SubSeqProperties ==
    ASSUME NEW S, NEW q \in Seq(S), NEW m \in 1 .. Len(q) + 1, NEW n \in m - 1 .. Len(q)
    PROVE  /\ SubSeq(q, m, n) \in Seq(S) /\ Len(SubSeq(q, m, n)) = n - m + 1
           /\ \A i \in 1 .. n - m + 1 : SubSeq(q, m, n)[i] = q[m + i - 1]
OBVIOUS

-----------------------------------------------------------------------------
(* The watchdog                                                            *)

\* PIDs are issued in order, and only an issued one has a process or a
\* validated registration.
IssuedInv ==
    /\ NextSvcPid \in 1..MaxSvcPids + 1
    /\ \A k \in SvcPids : tokenOwner[k] # NoUnit <=> k < NextSvcPid
    /\ \A k \in SvcPids :
          svcProc[k] # "none" \/ regCall[k] \notin {"none", "sent"} => tokenOwner[k] # NoUnit
    /\ \A u \in Units : svcRecord[u] = NoService => \A k \in SvcPids : tokenOwner[k] # u

\* Between the decision to restart a unit and the start of its new process
\* none of it runs, and from then on the new one is the manager's record.
DogInv ==
    /\ dog.pc \in {"delay", "spawn"} =>
          \A k \in SvcPids : tokenOwner[k] = dog.unit => svcProc[k] # "running"
    /\ dog.pc \in {"spawn", "store"} =>
          /\ dog.pid \in SvcPids /\ tokenOwner[dog.pid] = dog.unit
          /\ svcRecord[dog.unit].pid = dog.pid
    /\ \A k \in SvcPids :
          svcProc[k] = "running" =>
              watched[tokenOwner[k]] = k \/ (dog.pc = "store" /\ dog.pid = k)

\* Every restart has used a PID of its own, the one under way included.
RestartInv ==
    \A u \in Units :
        restarts[u] + (IF dog.pc \in {"spawn", "store"} /\ dog.unit = u THEN 1 ELSE 0) < NextSvcPid

SvcInv == ServicesTypeOK /\ IssuedInv /\ DogInv /\ RestartInv /\ OneProcessPerService

-----------------------------------------------------------------------------

\* Only one number can be the counter, and it moves by one with every token.
LEMMA IssueMoves ==
    ASSUME SvcInv, NEW u \in Units, NEW k \in SvcPids, k = NextSvcPid,
           tokenOwner' = [tokenOwner EXCEPT ![k] = u]
    PROVE  NextSvcPid' = NextSvcPid + 1
<1> DEFINE Below(n) == \A l \in SvcPids : l < n <=> tokenOwner'[l] # NoUnit
<1>1. u # NoUnit /\ MaxSvcPids \in Nat BY Zenon, ServicesAssumption DEF NoUnit
<1>2. k + 1 \in 1 .. MaxSvcPids + 1 BY <1>1 DEF SvcPids
<1>3. \A l \in SvcPids : tokenOwner'[l] = IF l = k THEN u ELSE tokenOwner[l] BY Zenon DEF SvcInv, ServicesTypeOK
<1>4. Below(k + 1) BY <1>1, <1>3 DEF SvcInv, IssuedInv, SvcPids
<1>5. ASSUME NEW n \in 1 .. MaxSvcPids + 1, Below(n) PROVE n = k + 1
  <2>1. ~(n < k + 1)
    <3>1. n < k + 1 => n \in SvcPids BY <1>1 DEF SvcPids
    <3> QED BY <1>4, <1>5, <3>1
  <2>2. ~(k + 1 < n)
    <3>1. ASSUME k + 1 < n PROVE FALSE
      <4>1. k + 1 \in SvcPids /\ ~(k + 1 < k + 1) BY <1>1, <1>2, <3>1 DEF SvcPids
      <4>2. tokenOwner'[k + 1] # NoUnit BY Zenon, <1>5, <3>1, <4>1
      <4>3. tokenOwner'[k + 1] = NoUnit BY Zenon, <1>4, <4>1
      <4> QED BY Zenon, <4>2, <4>3
    <3> QED BY Zenon, <3>1
  <2> QED BY <1>1, <2>1, <2>2 DEF SvcPids
<1>6. NextSvcPid' = CHOOSE n \in 1 .. MaxSvcPids + 1 : Below(n) BY Zenon DEF NextSvcPid
<1> HIDE DEF Below
<1>7. NextSvcPid' \in 1 .. MaxSvcPids + 1 /\ Below(NextSvcPid') BY Zenon, <1>2, <1>4, <1>6
<1> QED BY Zenon, <1>5, <1>7

LEMMA IssueKeeps ==
    ASSUME tokenOwner' = tokenOwner
    PROVE  NextSvcPid' = NextSvcPid
BY Zenon DEF NextSvcPid

Records == [pid : 0..MaxSvcPids, endpoint : 0..MaxSvcPids]

Dogs == [pc : {"boot", "sleep", "next", "delay", "spawn", "store"}, todo : SUBSET Units,
         unit : Units \cup {NoUnit}, pid : 0..MaxSvcPids]

LEMMA DogTypes ==
    ASSUME SvcInv
    PROVE  /\ dog \in Dogs /\ DogAsleep \in Dogs
           /\ \A w \in SUBSET Units : [DogAsleep EXCEPT !.pc = "next", !.todo = w] \in Dogs
           /\ DogNext \in Dogs /\ DogNext.pc = "next" /\ DogNext.unit = NoUnit
<1>1. dog \in Dogs BY Zenon DEF SvcInv, ServicesTypeOK, Dogs
<1>2. 0 \in 0..MaxSvcPids BY ServicesAssumption
<1>3. DogAsleep \in Dogs BY Zenon, <1>2 DEF DogAsleep, Dogs
<1>4. \A w \in SUBSET Units : [DogAsleep EXCEPT !.pc = "next", !.todo = w] \in Dogs
  BY Zenon, <1>2 DEF DogAsleep, Dogs
<1>5. DogNext \in Dogs /\ DogNext.pc = "next" /\ DogNext.unit = NoUnit
  BY Zenon, <1>1, <1>2 DEF DogNext, Dogs
<1> QED BY Zenon, <1>1, <1>3, <1>4, <1>5

\* spawn_and_get_token: the PID is new, the record is the unit's, and nothing
\* else changes hands.
LEMMA IssueFacts ==
    ASSUME SvcInv, NEW u \in Units, NEW k \in SvcPids, Issue(u, k)
    PROVE  /\ NextSvcPid' = NextSvcPid + 1 /\ k = NextSvcPid
           /\ tokenOwner[k] = NoUnit /\ svcProc[k] = "none"
           /\ svcRecord' \in [Units -> Records]
           /\ svcRecord'[u].pid = k /\ svcRecord'[u] # NoService
           /\ \A v \in Units \ {u} : svcRecord'[v] = svcRecord[v]
           /\ tokenOwner' \in [SvcPids -> Units \cup {NoUnit}] /\ tokenOwner'[k] = u
           /\ \A l \in SvcPids \ {k} : tokenOwner'[l] = tokenOwner[l]
<1>1. k = NextSvcPid /\ NextSvcPid' = NextSvcPid + 1 BY Zenon, IssueMoves DEF Issue
<1>2. tokenOwner[k] = NoUnit BY <1>1 DEF SvcInv, IssuedInv, SvcPids
<1>3. svcProc[k] = "none" BY Zenon, <1>2 DEF SvcInv, IssuedInv
<1>4. k \in 0..MaxSvcPids /\ k # 0 BY ServicesAssumption DEF SvcPids
<1>5. [pid |-> k, endpoint |-> 0] \in Records BY <1>4, ServicesAssumption DEF Records
<1>6. svcRecord \in [Units -> Records] BY Zenon DEF SvcInv, ServicesTypeOK, Records
<1>7. svcRecord' = [svcRecord EXCEPT ![u] = [pid |-> k, endpoint |-> 0]] BY Zenon DEF Issue
<1>8. /\ svcRecord' \in [Units -> Records] /\ svcRecord'[u].pid = k
      /\ \A v \in Units \ {u} : svcRecord'[v] = svcRecord[v]
  BY Zenon, <1>5, <1>6, <1>7
<1>9. svcRecord'[u] # NoService BY <1>4, <1>8 DEF NoService
<1>10. /\ tokenOwner' \in [SvcPids -> Units \cup {NoUnit}] /\ tokenOwner'[k] = u
       /\ \A l \in SvcPids \ {k} : tokenOwner'[l] = tokenOwner[l]
  BY Zenon DEF Issue, SvcInv, ServicesTypeOK
<1> QED BY Zenon, <1>1, <1>2, <1>3, <1>8, <1>9, <1>10

LEMMA SvcInitInv == ServicesInit => SvcInv
<1> SUFFICES ASSUME ServicesInit PROVE SvcInv BY Zenon
<1> USE ServicesAssumption DEF ServicesInit, DogAsleep, NoService, NoUnit
<1>1. ServicesTypeOK BY DEF ServicesTypeOK
<1>2. NextSvcPid = 1
  <2> DEFINE Below(n) == \A l \in SvcPids : l < n <=> tokenOwner[l] # NoUnit
  <2>0. \A l \in SvcPids : tokenOwner[l] = NoUnit BY Zenon
  <2>1. \A n \in 1 .. MaxSvcPids + 1 : Below(n) <=> n = 1
    <3> SUFFICES ASSUME NEW n \in 1 .. MaxSvcPids + 1 PROVE Below(n) <=> n = 1 BY Zenon
    <3>1. n = 1 => \A l \in SvcPids : ~(l < n) BY DEF SvcPids
    <3>2. n # 1 => 1 \in SvcPids /\ 1 < n BY DEF SvcPids
    <3> QED BY Zenon, <2>0, <3>1, <3>2
  <2>2. NextSvcPid = CHOOSE n \in 1 .. MaxSvcPids + 1 : Below(n) BY Zenon DEF NextSvcPid
  <2> HIDE DEF Below
  <2>3. 1 \in 1 .. MaxSvcPids + 1 OBVIOUS
  <2> QED BY Zenon, <2>1, <2>2, <2>3
<1>3. IssuedInv BY <1>2 DEF IssuedInv, SvcPids
<1>4. DogInv BY Zenon DEF DogInv
<1>5. RestartInv BY <1>2 DEF RestartInv
<1>6. OneProcessPerService BY Zenon DEF OneProcessPerService
<1> QED BY Zenon, <1>1, <1>3, <1>4, <1>5, <1>6 DEF SvcInv

\* The manager starts the discovered units.
LEMMA BootKeeps ==
    ASSUME SvcInv, NEW u \in Units, BootStarts(u)
    PROVE  SvcInv'
<1> USE ServicesAssumption DEF SvcInv
<1>1. PICK k \in SvcPids :
         /\ Issue(u, k)
         /\ \/ /\ svcProc' = [svcProc EXCEPT ![k] = "running"]
               /\ watched' = [watched EXCEPT ![u] = k]
               /\ UNCHANGED spawnFails
            \/ /\ spawnFails < MaxSpawnFails /\ spawnFails' = spawnFails + 1
               /\ UNCHANGED <<svcProc, watched>>
  BY Zenon DEF BootStarts
<1>2. /\ dog.pc = "boot" /\ svcRecord[u] = NoService
      /\ UNCHANGED <<regCall, svcTools, restarts, dog>>
  BY Zenon DEF BootStarts
<1>3. /\ NextSvcPid' = NextSvcPid + 1 /\ k = NextSvcPid
      /\ tokenOwner[k] = NoUnit /\ svcProc[k] = "none"
      /\ svcRecord' \in [Units -> Records]
      /\ svcRecord'[u].pid = k /\ svcRecord'[u] # NoService
      /\ \A v \in Units \ {u} : svcRecord'[v] = svcRecord[v]
      /\ tokenOwner' \in [SvcPids -> Units \cup {NoUnit}] /\ tokenOwner'[k] = u
      /\ \A l \in SvcPids \ {k} : tokenOwner'[l] = tokenOwner[l]
  BY ZenonT(30), <1>1, IssueFacts
<1>4. \A l \in SvcPids : tokenOwner[l] # u BY Zenon, <1>2 DEF IssuedInv
<1>5. /\ \A l \in SvcPids \ {k} : svcProc'[l] = svcProc[l]
      /\ svcProc'[k] = "running" => watched'[u] = k
      /\ svcProc' \in [SvcPids -> {"none", "running", "exited"}]
      /\ \A v \in Units \ {u} : watched'[v] = watched[v]
      /\ watched' \in [Units -> 0..MaxSvcPids]
      /\ spawnFails' \in 0..MaxSpawnFails
  <2>1. k \in 0..MaxSvcPids BY DEF SvcPids
  <2>2. CASE /\ svcProc' = [svcProc EXCEPT ![k] = "running"]
             /\ watched' = [watched EXCEPT ![u] = k]
             /\ UNCHANGED spawnFails
    BY <2>1, <2>2 DEF ServicesTypeOK
  <2>3. CASE /\ spawnFails < MaxSpawnFails /\ spawnFails' = spawnFails + 1
             /\ UNCHANGED <<svcProc, watched>>
    BY <1>3, <2>3 DEF ServicesTypeOK
  <2> QED BY Zenon, <1>1, <2>2, <2>3
<1>6. ServicesTypeOK' BY Zenon, <1>2, <1>3, <1>5 DEF ServicesTypeOK, Records
<1>7. IssuedInv'
  <2>1. NextSvcPid' \in 1..MaxSvcPids + 1 BY <1>3 DEF IssuedInv, SvcPids
  <2>2. u # NoUnit BY Zenon DEF NoUnit
  <2>3. \A l \in SvcPids : tokenOwner'[l] # NoUnit <=> l < NextSvcPid'
    BY <1>3, <2>2 DEF IssuedInv, SvcPids
  <2> QED BY <1>2, <1>3, <1>5, <2>1, <2>2, <2>3 DEF IssuedInv
<1>8. DogInv'
  <2> SUFFICES ASSUME NEW l \in SvcPids, svcProc'[l] = "running"
               PROVE  watched'[tokenOwner'[l]] = l
    BY Zenon, <1>2 DEF DogInv
  <2>1. CASE l = k BY Zenon, <1>3, <1>5, <2>1
  <2>2. CASE l # k
    <3>1. svcProc[l] = "running" /\ tokenOwner'[l] = tokenOwner[l] BY Zenon, <1>3, <1>5, <2>2
    <3>2. tokenOwner[l] \in Units \ {u} BY Zenon, <1>4, <3>1 DEF IssuedInv, ServicesTypeOK
    <3> QED BY ZenonT(30), <1>2, <1>5, <3>1, <3>2 DEF DogInv
  <2> QED BY Zenon, <2>1, <2>2
<1>9. RestartInv' BY <1>2, <1>3 DEF RestartInv, IssuedInv, ServicesTypeOK
<1>10. OneProcessPerService'
  <2> SUFFICES ASSUME NEW l \in SvcPids, svcProc'[l] = "running"
               PROVE  svcRecord'[tokenOwner'[l]].pid = l
    BY Zenon DEF OneProcessPerService
  <2>1. CASE l = k BY Zenon, <1>3, <2>1
  <2>2. CASE l # k
    <3>1. svcProc[l] = "running" /\ tokenOwner'[l] = tokenOwner[l] BY Zenon, <1>3, <1>5, <2>2
    <3>2. tokenOwner[l] \in Units \ {u} BY <1>4, <3>1 DEF IssuedInv, ServicesTypeOK
    <3> QED BY <1>3, <3>1, <3>2 DEF OneProcessPerService
  <2> QED BY Zenon, <2>1, <2>2
<1> QED BY Zenon, <1>6, <1>7, <1>8, <1>9, <1>10

\* What a service process does, and the kernel's handlers for its requests.
LEMMA ProcessKeeps ==
    ASSUME SvcInv, NEW k \in SvcPids,
           \/ ProcessExits(k) \/ RegisterSent(k) \/ RegisterValidates(k) \/ RegisterRecords(k)
           \/ RegisterScans(k) \/ RegisterScanFails(k) \/ ToolAdd(k) \/ ToolRemove(k)
    PROVE  SvcInv'
<1> USE DEF SvcInv
<1>1. CASE RegisterRecords(k)
  <2>1. NextSvcPid' = NextSvcPid BY Zenon, <1>1, IssueKeeps DEF RegisterRecords
  <2>2. tokenOwner[k] \in Units BY Zenon, <1>1 DEF RegisterRecords, IssuedInv, ServicesTypeOK
  <2>3. k # 0 BY DEF SvcPids
  <2> USE <1>1, <2>1, <2>2 DEF RegisterRecords
  <2>4. ServicesTypeOK'
    <3>1. svcRecord' \in [Units -> Records]
      <4>1. svcRecord \in [Units -> Records] BY Zenon DEF ServicesTypeOK, Records
      <4>2. [svcRecord[tokenOwner[k]] EXCEPT !.endpoint = k] \in Records
        BY <4>1 DEF Records, SvcPids
      <4> QED BY Zenon, <4>1, <4>2
    <3>2. regCall' \in [SvcPids -> {"none", "sent", "valid", "recorded", "done", "failed"}]
      BY Zenon DEF ServicesTypeOK
    <3> QED BY Zenon, <3>1, <3>2 DEF ServicesTypeOK, Records
  <2>5. IssuedInv' BY <2>3 DEF IssuedInv, ServicesTypeOK, NoService
  <2>6. DogInv' BY DEF DogInv, ServicesTypeOK
  <2>7. RestartInv' BY Zenon DEF RestartInv
  <2>8. OneProcessPerService' BY DEF OneProcessPerService, ServicesTypeOK
  <2> QED BY Zenon, <2>4, <2>5, <2>6, <2>7, <2>8
<1>2. CASE ProcessExits(k)
  <2>1. NextSvcPid' = NextSvcPid BY Zenon, <1>2, IssueKeeps DEF ProcessExits
  <2> USE <1>2, <2>1 DEF ProcessExits
  <2>2. ServicesTypeOK' BY Zenon DEF ServicesTypeOK
  <2>3. IssuedInv' BY DEF IssuedInv, ServicesTypeOK
  <2>4. DogInv' BY DEF DogInv, ServicesTypeOK
  <2>5. RestartInv' BY Zenon DEF RestartInv
  <2>6. OneProcessPerService' BY DEF OneProcessPerService, ServicesTypeOK
  <2> QED BY Zenon, <2>2, <2>3, <2>4, <2>5, <2>6
<1>3. CASE RegisterSent(k) \/ RegisterValidates(k) \/ RegisterScans(k) \/ RegisterScanFails(k)
           \/ ToolAdd(k) \/ ToolRemove(k)
  <2>1. /\ UNCHANGED <<svcRecord, tokenOwner, svcProc, watched, restarts, dog, spawnFails>>
        /\ \/ regCall' = regCall
           \/ regCall[k] = "none" /\ regCall' = [regCall EXCEPT ![k] = "sent"]
           \/ /\ tokenOwner[k] # NoUnit
              /\ \E v \in {"valid", "done", "failed"} : regCall' = [regCall EXCEPT ![k] = v]
        /\ \/ svcTools' = svcTools
           \/ tokenOwner[k] # NoUnit /\ svcTools' \subseteq svcTools \cup {tokenOwner[k]}
    BY Zenon, <1>3 DEF RegisterSent, RegisterValidates, RegisterScans, RegisterScanFails, ToolAdd,
                ToolRemove, IssuedInv
  <2>2. NextSvcPid' = NextSvcPid BY Zenon, <2>1, IssueKeeps
  <2> USE <2>1, <2>2
  <2>3. ServicesTypeOK' BY DEF ServicesTypeOK
  <2>4. IssuedInv' BY DEF IssuedInv, ServicesTypeOK
  <2>5. DogInv' BY Zenon DEF DogInv
  <2>6. RestartInv' BY Zenon DEF RestartInv
  <2>7. OneProcessPerService' BY Zenon DEF OneProcessPerService
  <2> QED BY Zenon, <2>3, <2>4, <2>5, <2>6, <2>7
<1> QED BY Zenon, <1>1, <1>2, <1>3

\* The watchdog's round.
LEMMA DogKeeps ==
    ASSUME SvcInv, DogStarts \/ DogStep
    PROVE  SvcInv'
<1> USE DEF SvcInv
<1>1. CASE DogStarts \/ DogWakes \/ DogSleeps
  <2>1. UNCHANGED <<svcRecord, tokenOwner, svcProc, regCall, svcTools, watched, restarts, spawnFails>>
    BY Zenon, <1>1 DEF DogStarts, DogWakes, DogSleeps
  <2>2. dog.pc \in {"boot", "sleep", "next"} BY Zenon, <1>1 DEF DogStarts, DogWakes, DogSleeps
  <2>3. dog' \in Dogs /\ dog'.pc \in {"sleep", "next"} /\ dog'.unit = NoUnit
    <3>1. CASE DogStarts \/ DogSleeps
      <4>1. dog' = DogAsleep BY Zenon, <3>1 DEF DogStarts, DogSleeps
      <4>2. DogAsleep.pc = "sleep" /\ DogAsleep.unit = NoUnit BY Zenon DEF DogAsleep
      <4> QED BY Zenon, <4>1, <4>2, DogTypes
    <3>2. CASE DogWakes
      <4>1. dog' = [DogAsleep EXCEPT !.pc = "next", !.todo = {u \in Units : watched[u] # 0}]
        BY Zenon, <3>2 DEF DogWakes
      <4>2. dog' \in Dogs BY Zenon, <4>1, DogTypes
      <4>3. dog'.pc = "next" /\ dog'.unit = NoUnit BY Zenon, <4>1 DEF DogAsleep
      <4> QED BY Zenon, <4>2, <4>3
    <3> QED BY Zenon, <1>1, <3>1, <3>2
  <2>4. NextSvcPid' = NextSvcPid BY Zenon, <2>1, IssueKeeps
  <2>5. ServicesTypeOK' BY Zenon, <2>1, <2>3 DEF ServicesTypeOK, Dogs
  <2>6. IssuedInv' BY Zenon, <2>1, <2>4 DEF IssuedInv
  <2>7. DogInv' BY Zenon, <2>1, <2>2, <2>3 DEF DogInv
  <2>8. RestartInv' BY Zenon, <2>1, <2>2, <2>3, <2>4 DEF RestartInv
  <2>9. OneProcessPerService' BY Zenon, <2>1 DEF OneProcessPerService
  <2> QED BY Zenon, <2>5, <2>6, <2>7, <2>8, <2>9
<1>2. ASSUME NEW u \in Units, DogLooks(u) PROVE SvcInv'
  <2>1. NextSvcPid' = NextSvcPid BY Zenon, <1>2, IssueKeeps DEF DogLooks
  <2> USE <1>2, <2>1, ServicesAssumption DEF DogLooks
  <2>2. ServicesTypeOK' BY Zenon DEF ServicesTypeOK, NoUnit
  <2>3. IssuedInv' BY Zenon DEF IssuedInv
  <2>4. DogInv' BY DEF DogInv, ServicesTypeOK, ShouldRestart
  <2>5. RestartInv' BY Zenon DEF RestartInv, ServicesTypeOK
  <2>6. OneProcessPerService' BY Zenon DEF OneProcessPerService
  <2> QED BY Zenon, <2>2, <2>3, <2>4, <2>5, <2>6
<1>3. CASE DogIssues
  <2> DEFINE u == dog.unit
  <2>1. u \in Units BY Zenon, <1>3 DEF DogIssues, ServicesTypeOK
  <2>2. PICK k \in SvcPids : Issue(u, k) /\ dog' = [dog EXCEPT !.pc = "spawn", !.pid = k]
    BY Zenon, <1>3 DEF DogIssues
  <2>3. dog.pc = "delay" /\ UNCHANGED <<svcProc, regCall, svcTools, watched, restarts, spawnFails>>
    BY Zenon, <1>3 DEF DogIssues
  <2>4. /\ NextSvcPid' = NextSvcPid + 1 /\ k = NextSvcPid
        /\ tokenOwner[k] = NoUnit /\ svcProc[k] = "none"
        /\ svcRecord' \in [Units -> Records]
        /\ svcRecord'[u].pid = k /\ svcRecord'[u] # NoService
        /\ \A v \in Units \ {u} : svcRecord'[v] = svcRecord[v]
        /\ tokenOwner' \in [SvcPids -> Units \cup {NoUnit}] /\ tokenOwner'[k] = u
        /\ \A l \in SvcPids \ {k} : tokenOwner'[l] = tokenOwner[l]
    BY <2>1, <2>2, IssueFacts
  <2>5. dog' \in Dogs /\ dog'.pc = "spawn" /\ dog'.unit = u /\ dog'.pid = k
    <3>1. k \in 0..MaxSvcPids BY DEF SvcPids
    <3>2. dog \in Dogs BY Zenon DEF ServicesTypeOK, Dogs
    <3> QED BY Zenon, <2>2, <3>1, <3>2 DEF Dogs
  <2>6. u # NoUnit BY Zenon, <2>1, ServicesAssumption DEF NoUnit
  <2>7. \A l \in SvcPids : tokenOwner'[l] = u => svcProc[l] # "running"
    BY Zenon, <2>3, <2>4 DEF DogInv
  <2> HIDE DEF u
  <2>8. ServicesTypeOK' BY Zenon, <2>3, <2>4, <2>5, <2>6 DEF ServicesTypeOK, Records, Dogs
  <2>9. IssuedInv'
    <3>1. NextSvcPid' \in 1..MaxSvcPids + 1 BY <2>4, ServicesAssumption DEF IssuedInv, SvcPids
    <3>2. \A l \in SvcPids : tokenOwner'[l] # NoUnit <=> l < NextSvcPid'
      BY <2>4, <2>6 DEF IssuedInv, SvcPids
    <3> QED BY <2>3, <2>4, <2>6, <3>1, <3>2 DEF IssuedInv
  <2>10. DogInv'
    <3>1. ASSUME NEW l \in SvcPids, svcProc[l] = "running"
          PROVE  watched[tokenOwner'[l]] = l
      <4>1. l # k BY Zenon, <2>4, <3>1
      <4> QED BY Zenon, <2>3, <2>4, <3>1, <4>1 DEF DogInv
    <3> QED BY Zenon, <2>3, <2>4, <2>5, <2>7, <3>1 DEF DogInv
  <2>11. RestartInv' BY <2>3, <2>4, <2>5 DEF RestartInv, IssuedInv, ServicesTypeOK
  <2>12. OneProcessPerService'
    <3> SUFFICES ASSUME NEW l \in SvcPids, svcProc[l] = "running"
                 PROVE  svcRecord'[tokenOwner'[l]].pid = l
      BY Zenon, <2>3 DEF OneProcessPerService
    <3>1. tokenOwner'[l] = tokenOwner[l] /\ tokenOwner[l] # NoUnit BY Zenon, <2>4 DEF IssuedInv
    <3>2. tokenOwner[l] \in Units \ {u} BY Zenon, <2>7, <3>1 DEF ServicesTypeOK
    <3> QED BY Zenon, <2>4, <3>1, <3>2 DEF OneProcessPerService
  <2> QED BY Zenon, <2>8, <2>9, <2>10, <2>11, <2>12
<1>4. CASE DogSpawns
  <2>1. NextSvcPid' = NextSvcPid BY Zenon, <1>4, IssueKeeps DEF DogSpawns
  <2> USE <1>4, <2>1 DEF DogSpawns
  <2>2. ServicesTypeOK'
    <3>1. dog' \in Dogs /\ dog'.pc = "store" /\ dog'.unit = dog.unit BY Zenon DEF ServicesTypeOK, Dogs
    <3>2. svcProc' \in [SvcPids -> {"none", "running", "exited"}] BY Zenon DEF ServicesTypeOK
    <3> QED BY Zenon, <3>1, <3>2 DEF ServicesTypeOK, Dogs
  <2>3. IssuedInv' BY DEF IssuedInv, DogInv, ServicesTypeOK
  <2>4. DogInv' BY Zenon DEF DogInv, ServicesTypeOK
  <2>5. RestartInv' BY Zenon DEF RestartInv, ServicesTypeOK
  <2>6. OneProcessPerService' BY Zenon DEF OneProcessPerService, DogInv, ServicesTypeOK
  <2> QED BY Zenon, <2>2, <2>3, <2>4, <2>5, <2>6
<1>5. CASE DogSpawnFails
  <2>1. NextSvcPid' = NextSvcPid BY Zenon, <1>5, IssueKeeps DEF DogSpawnFails
  <2>2. /\ dog.pc = "spawn" /\ spawnFails' \in 0..MaxSpawnFails
        /\ UNCHANGED <<svcRecord, tokenOwner, svcProc, regCall, svcTools, watched, restarts>>
    BY <1>5, ServicesAssumption DEF DogSpawnFails, ServicesTypeOK
  <2>3. dog' \in Dogs /\ dog'.pc = "next" /\ dog'.unit = NoUnit
    BY Zenon, <1>5, DogTypes DEF DogSpawnFails
  <2>4. ServicesTypeOK' BY Zenon, <2>2, <2>3 DEF ServicesTypeOK, Dogs
  <2>5. IssuedInv' BY Zenon, <2>1, <2>2 DEF IssuedInv
  <2>6. DogInv' BY Zenon, <2>2, <2>3 DEF DogInv
  <2>7. RestartInv' BY <2>1, <2>2, <2>3 DEF RestartInv, IssuedInv, ServicesTypeOK
  <2>8. OneProcessPerService' BY Zenon, <2>2 DEF OneProcessPerService
  <2> QED BY <2>4, <2>5, <2>6, <2>7, <2>8
<1>6. CASE DogStores
  <2>1. NextSvcPid' = NextSvcPid BY Zenon, <1>6, IssueKeeps DEF DogStores
  <2>2. dog.unit \in Units BY Zenon, <1>6 DEF DogStores, ServicesTypeOK
  <2>3. /\ dog.pc = "store" /\ UNCHANGED <<svcRecord, tokenOwner, svcProc, regCall, svcTools, spawnFails>>
        /\ watched' = [watched EXCEPT ![dog.unit] = dog.pid]
        /\ restarts' = [restarts EXCEPT ![dog.unit] = restarts[dog.unit] + 1]
    BY Zenon, <1>6 DEF DogStores
  <2>4. dog' \in Dogs /\ dog'.pc = "next" /\ dog'.unit = NoUnit
    BY Zenon, <1>6, DogTypes DEF DogStores
  <2>5. dog.pid \in SvcPids /\ tokenOwner[dog.pid] = dog.unit /\ svcRecord[dog.unit].pid = dog.pid
    BY Zenon, <2>3 DEF DogInv
  <2>6. ServicesTypeOK'
    <3>1. restarts[dog.unit] + 1 \in 0..MaxSvcPids
      BY <2>2, <2>3, ServicesAssumption DEF RestartInv, IssuedInv, ServicesTypeOK
    <3>2. restarts' \in [Units -> 0..MaxSvcPids] BY Zenon, <2>2, <2>3, <3>1 DEF ServicesTypeOK
    <3>3. watched' \in [Units -> 0..MaxSvcPids] BY Zenon, <2>2, <2>3 DEF ServicesTypeOK
    <3> QED BY Zenon, <2>3, <2>4, <3>2, <3>3 DEF ServicesTypeOK, Dogs
  <2>7. IssuedInv' BY Zenon, <2>1, <2>3 DEF IssuedInv
  <2>8. DogInv'
    <3> SUFFICES ASSUME NEW l \in SvcPids, svcProc[l] = "running"
                 PROVE  watched'[tokenOwner[l]] = l
      BY Zenon, <2>3, <2>4 DEF DogInv
    <3>1. tokenOwner[l] \in Units BY Zenon DEF IssuedInv, ServicesTypeOK
    <3>2. CASE tokenOwner[l] = dog.unit
      BY Zenon, <2>2, <2>3, <2>5, <3>2 DEF OneProcessPerService, ServicesTypeOK
    <3>3. CASE tokenOwner[l] # dog.unit
      BY Zenon, <2>3, <2>5, <3>1, <3>3 DEF DogInv, ServicesTypeOK
    <3> QED BY Zenon, <3>2, <3>3
  <2>9. RestartInv' BY <2>1, <2>2, <2>3, <2>4 DEF RestartInv, IssuedInv, ServicesTypeOK
  <2>10. OneProcessPerService' BY Zenon, <2>3 DEF OneProcessPerService
  <2> QED BY <2>6, <2>7, <2>8, <2>9, <2>10
<1> QED BY Zenon, <1>1, <1>2, <1>3, <1>4, <1>5, <1>6 DEF DogStep

LEMMA SvcStepInv == SvcInv /\ [ServicesNext]_svcVars => SvcInv'
<1> SUFFICES ASSUME SvcInv, [ServicesNext]_svcVars PROVE SvcInv' BY Zenon
<1>1. CASE ServicesNext BY Zenon, <1>1, BootKeeps, ProcessKeeps, DogKeeps DEF ServicesNext
<1>2. CASE UNCHANGED svcVars
  <2>1. NextSvcPid' = NextSvcPid BY Zenon, <1>2, IssueKeeps DEF svcVars
  <2> QED BY Zenon, <1>2, <2>1 DEF svcVars, SvcInv, ServicesTypeOK, IssuedInv, DogInv, RestartInv,
                            OneProcessPerService
<1> QED BY Zenon, <1>1, <1>2

\* A service never runs twice, and its one process holds the token of the
\* manager's record: for any units, policies and number of restarts
\* (ServiceManager, ServiceWatchdog::check_and_restart).
THEOREM OneProcess == ServicesSpec => [](ServicesTypeOK /\ OneProcessPerService)
<1>1. SvcInv => ServicesTypeOK /\ OneProcessPerService BY Zenon DEF SvcInv
<1> QED BY <1>1, SvcInitInv, SvcStepInv, PTL DEF ServicesSpec

-----------------------------------------------------------------------------
(* run_job: retries and alerts                                             *)

CronRuns == [pc : {"idle", "spawn", "wait", "stop", "failed", "backoff", "done"},
             attempt : Nat, agents : 0 .. 1, failed : BOOLEAN, alerts : Nat]

\* What holds of a run of a job: it has an agent while it waits for one, it
\* counts its attempts from one up to its policy's number, and it fails and
\* alerts only where it ends.
RunOK(j, r) ==
    /\ r \in CronRuns
    /\ r.agents = IF r.pc \in {"wait", "stop"} THEN 1 ELSE 0
    /\ r.pc # "idle" => r.attempt \in 1 .. Attempts(j)
    /\ r.pc = "backoff" => r.attempt < Attempts(j)
    /\ r.failed => r.pc = "done" /\ r.attempt = Attempts(j)
    /\ r.alerts = IF r.failed /\ OnFailure[j] # "ignore" THEN 1 ELSE 0

CronInv ==
    /\ cronNow \in 0 .. MaxCronTime
    /\ cronTick \in [pc : {"sleep", "due"}, last : 0 .. MaxCronTime, time : 0 .. MaxCronTime,
                     lastRun : [CronJobs -> 0 .. MaxCronTime]]
    /\ cronRun \in [CronJobs -> CronRuns]
    /\ \A j \in CronJobs : RunOK(j, cronRun[j])

LEMMA AttemptsPositive == \A j \in CronJobs : Attempts(j) \in Nat /\ Attempts(j) >= 1
BY CronAssumption DEF Attempts

LEMMA FreshRuns == \A j \in CronJobs : RunOK(j, RunStarted) /\ RunOK(j, NotRun)
<1>1. RunStarted \in CronRuns /\ NotRun \in CronRuns BY DEF RunStarted, NotRun, CronRuns
<1> QED BY <1>1, AttemptsPositive DEF RunOK, RunStarted, NotRun

LEMMA CronInitInv == CronInit => CronInv
<1> SUFFICES ASSUME CronInit PROVE CronInv BY Zenon
<1>1. \A j \in CronJobs : RunOK(j, cronRun[j]) BY Zenon, FreshRuns DEF CronInit
<1>2. cronRun \in [CronJobs -> CronRuns] BY Zenon, <1>1 DEF CronInit, RunOK
<1> QED BY <1>1, <1>2, CronAssumption DEF CronInit, CronInv

\* One run moves to a state that is in order, and the others stay.
LEMMA RunMoves ==
    ASSUME CronInv, NEW j \in CronJobs, NEW r, RunOK(j, r),
           cronRun' = [cronRun EXCEPT ![j] = r], UNCHANGED <<cronNow, cronTick>>
    PROVE  CronInv'
<1>1. cronRun' \in [CronJobs -> CronRuns] BY Zenon DEF CronInv, RunOK
<1>2. \A i \in CronJobs : RunOK(i, cronRun'[i]) BY Zenon DEF CronInv
<1> QED BY Zenon, <1>1, <1>2 DEF CronInv

LEMMA RunStepKeeps ==
    ASSUME CronInv, NEW j \in CronJobs, RunJobCalled(j) \/ RunStep(j)
    PROVE  CronInv'
<1> DEFINE r == cronRun[j]
<1>1. r \in CronRuns /\ RunOK(j, r) BY Zenon DEF CronInv
<1>2. cronRun \in [CronJobs -> CronRuns] BY Zenon DEF CronInv
<1>3. Attempts(j) \in Nat /\ Attempts(j) >= 1 BY Zenon, AttemptsPositive
<1>4. CASE RunJobCalled(j) BY Zenon, <1>4, FreshRuns, RunMoves DEF RunJobCalled
<1>5. CASE SpawnsAgent(j)
  <2> DEFINE q == [pc |-> "wait", attempt |-> r.attempt, agents |-> 1, failed |-> FALSE, alerts |-> 0]
  <2>1. r.agents = 0 /\ r.failed = FALSE /\ r.alerts = 0 /\ r.attempt \in 1 .. Attempts(j) BY Zenon, <1>1, <1>5 DEF SpawnsAgent, RunOK, CronRuns
  <2>2. cronRun' = [cronRun EXCEPT ![j] = q] BY <1>1, <1>2, <1>5, <2>1 DEF SpawnsAgent, CronRuns
  <2>3. q \in CronRuns BY <1>1, <2>1 DEF CronRuns
  <2>4. RunOK(j, q) BY Zenon, <1>1, <1>3, <2>1, <2>3 DEF RunOK
  <2> QED BY Zenon, <1>5, <2>2, <2>4, RunMoves DEF SpawnsAgent
<1>6. CASE SpawnRefused(j)
  <2> DEFINE q == [r EXCEPT !.pc = "failed"]
  <2>1. cronRun' = [cronRun EXCEPT ![j] = q] BY Zenon, <1>2, <1>6 DEF SpawnRefused
  <2>2. RunOK(j, q) BY Zenon, <1>1, <1>6 DEF SpawnRefused, RunOK, CronRuns
  <2> QED BY Zenon, <1>6, <2>1, <2>2, RunMoves DEF SpawnRefused
<1>7. ASSUME NEW ok \in BOOLEAN, AgentExits(j, ok) PROVE CronInv'
  <2> DEFINE q == [pc |-> IF ok THEN "done" ELSE "failed", attempt |-> r.attempt, agents |-> 0, failed |-> FALSE, alerts |-> 0]
  <2>1. r.agents = 1 /\ r.failed = FALSE /\ r.alerts = 0 /\ r.attempt \in 1 .. Attempts(j) BY Zenon, <1>1, <1>7 DEF AgentExits, RunOK, CronRuns
  <2>2. cronRun' = [cronRun EXCEPT ![j] = q] BY <1>1, <1>2, <1>7, <2>1 DEF AgentExits, CronRuns
  <2>3. q \in CronRuns BY <1>1, <2>1 DEF CronRuns
  <2>4. RunOK(j, q) BY Zenon, <1>1, <1>3, <2>1, <2>3 DEF RunOK
  <2> QED BY Zenon, <1>7, <2>2, <2>4, RunMoves DEF AgentExits
<1>8. CASE AgentTimesOut(j)
  <2> DEFINE q == [r EXCEPT !.pc = "stop"]
  <2>1. cronRun' = [cronRun EXCEPT ![j] = q] BY Zenon, <1>2, <1>8 DEF AgentTimesOut
  <2>2. RunOK(j, q) BY Zenon, <1>1, <1>8 DEF AgentTimesOut, RunOK, CronRuns
  <2> QED BY Zenon, <1>8, <2>1, <2>2, RunMoves DEF AgentTimesOut
<1>9. CASE StopsAgent(j)
  <2> DEFINE q == [pc |-> "failed", attempt |-> r.attempt, agents |-> 0, failed |-> FALSE, alerts |-> 0]
  <2>1. r.agents = 1 /\ r.failed = FALSE /\ r.alerts = 0 /\ r.attempt \in 1 .. Attempts(j) BY Zenon, <1>1, <1>9 DEF StopsAgent, RunOK, CronRuns
  <2>2. cronRun' = [cronRun EXCEPT ![j] = q] BY <1>1, <1>2, <1>9, <2>1 DEF StopsAgent, CronRuns
  <2>3. q \in CronRuns BY <1>1, <2>1 DEF CronRuns
  <2>4. RunOK(j, q) BY Zenon, <1>1, <1>3, <2>1, <2>3 DEF RunOK
  <2> QED BY Zenon, <1>9, <2>2, <2>4, RunMoves DEF StopsAgent
<1>10. CASE AttemptFailed(j)
  <2>1. CASE OnFailure[j] = "retry" /\ r.attempt < Attempts(j)
    <3> DEFINE q == [r EXCEPT !.pc = "backoff"]
    <3>1. cronRun' = [cronRun EXCEPT ![j] = q] BY Zenon, <1>2, <1>10, <2>1 DEF AttemptFailed
    <3>2. RunOK(j, q) BY Zenon, <1>1, <1>10, <2>1 DEF AttemptFailed, RunOK, CronRuns
    <3> QED BY Zenon, <1>10, <3>1, <3>2, RunMoves DEF AttemptFailed
  <2>2. CASE ~(OnFailure[j] = "retry" /\ r.attempt < Attempts(j))
    <3> DEFINE n == IF OnFailure[j] = "ignore" THEN r.alerts ELSE r.alerts + 1
               q == [r EXCEPT !.pc = "done", !.failed = TRUE, !.alerts = n]
    <3>1. cronRun' = [cronRun EXCEPT ![j] = q] BY Zenon, <1>2, <1>10, <2>2 DEF AttemptFailed
    <3>2. r.attempt = Attempts(j) /\ r.failed = FALSE /\ r.alerts = 0 /\ r.agents = 0
      BY <1>1, <1>3, <1>10, <2>2 DEF AttemptFailed, RunOK, CronRuns, Attempts
    <3>3. n = (IF OnFailure[j] # "ignore" THEN 1 ELSE 0) BY <3>2
    <3>4. n \in Nat BY <3>3
    <3> HIDE DEF n
    <3>5. /\ q \in CronRuns /\ q.pc = "done" /\ q.attempt = r.attempt /\ q.agents = 0
          /\ q.failed = TRUE /\ q.alerts = n
      BY Zenon, <1>1, <3>2, <3>4 DEF CronRuns
    <3> HIDE DEF q
    <3>6. RunOK(j, q) BY <1>1, <1>3, <3>2, <3>3, <3>5 DEF RunOK, CronRuns
    <3> QED BY Zenon, <1>10, <3>1, <3>6, RunMoves DEF AttemptFailed
  <2> QED BY Zenon, <2>1, <2>2
<1>11. CASE BackoffEnds(j)
  <2> DEFINE q == [pc |-> "spawn", attempt |-> r.attempt + 1, agents |-> 0, failed |-> FALSE, alerts |-> 0]
  <2>1. r.agents = 0 /\ r.attempt < Attempts(j) /\ r.failed = FALSE /\ r.alerts = 0 /\ r.attempt \in 1 .. Attempts(j) BY Zenon, <1>1, <1>11 DEF BackoffEnds, RunOK, CronRuns
  <2>2. cronRun' = [cronRun EXCEPT ![j] = q] BY <1>1, <1>2, <1>11, <2>1 DEF BackoffEnds, CronRuns
  <2>3. q \in CronRuns BY <1>1, <2>1 DEF CronRuns
  <2>4. RunOK(j, q) BY <1>1, <1>3, <2>1, <2>3 DEF RunOK
  <2> QED BY Zenon, <1>11, <2>2, <2>4, RunMoves DEF BackoffEnds
<1> QED BY Zenon, <1>4, <1>5, <1>6, <1>7, <1>8, <1>9, <1>10, <1>11 DEF RunStep

LEMMA CronStepInv == CronInv /\ [CronNext]_cronVars => CronInv'
<1> SUFFICES ASSUME CronInv, [CronNext]_cronVars PROVE CronInv' BY Zenon
<1>1. CASE CronTimePasses BY <1>1, CronAssumption DEF CronTimePasses, CronInv
<1>2. CASE TickWakes
  <2>1. cronTick' \in [pc : {"sleep", "due"}, last : 0 .. MaxCronTime, time : 0 .. MaxCronTime,
                       lastRun : [CronJobs -> 0 .. MaxCronTime]]
    BY Zenon, <1>2 DEF TickWakes, CronInv
  <2> QED BY Zenon, <1>2, <2>1 DEF TickWakes, CronInv
<1>3. CASE TickFires
  <2>1. \A j \in CronJobs : cronRun'[j] \in {RunStarted, cronRun[j]} BY Zenon, <1>3 DEF TickFires
  <2>2. \A j \in CronJobs : RunOK(j, cronRun'[j]) BY Zenon, <2>1, FreshRuns DEF CronInv
  <2>3. cronRun' \in [CronJobs -> CronRuns] BY Zenon, <1>3, <2>2 DEF TickFires, RunOK
  <2>4. [j \in CronJobs |-> IF j \in DueJobs THEN cronTick.time ELSE cronTick.lastRun[j]]
           \in [CronJobs -> 0 .. MaxCronTime]
    BY Zenon DEF CronInv
  <2>5. cronTick' \in [pc : {"sleep", "due"}, last : 0 .. MaxCronTime, time : 0 .. MaxCronTime,
                       lastRun : [CronJobs -> 0 .. MaxCronTime]]
    BY Zenon, <1>3, <2>4 DEF TickFires, CronInv
  <2>6. cronNow' = cronNow BY Zenon, <1>3 DEF TickFires
  <2> QED BY Zenon, <2>2, <2>3, <2>5, <2>6 DEF CronInv
<1>4. CASE UNCHANGED cronVars BY Zenon, <1>4 DEF cronVars, CronInv
<1> QED BY Zenon, <1>1, <1>2, <1>3, <1>4, RunStepKeeps DEF CronNext

\* A run of a cron job that has ended was alerted exactly once if it failed
\* and its job does not ignore failures, never otherwise, and it failed only
\* after all the attempts of its policy: for any jobs and policies
\* (CronRunner::run_job).
THEOREM AlertedOnce == CronSpec => [](CronTypeOK /\ AlertedOnceAtTheEnd)
<1>1. CronInv => CronTypeOK BY Zenon DEF CronInv, CronTypeOK, CronRuns, RunOK
<1>2. CronInv => AlertedOnceAtTheEnd BY Zenon DEF CronInv, AlertedOnceAtTheEnd, RunOK
<1> QED BY <1>1, <1>2, CronInitInv, CronStepInv, PTL DEF CronSpec

-----------------------------------------------------------------------------
(* McpBridge: the registry follows the servers                             *)

MonRecs == [pc : {"sleep", "next", "look", "asked", "down", "recovered", "done"}, todo : SUBSET Servers,
            srv : Servers \cup {Nobody}, healthy : BOOLEAN, degraded : BOOLEAN]

ToolNames == Servers \X ToolsOf \cup {MetaTools}

McpType ==
    /\ bridge \in {"starting", "failed", "up", "stopping", "cleaned", "stopped"} /\ toStart \subseteq Servers
    /\ conn \in [Servers -> {"absent", "connected", "degraded"}]
    /\ cached \in [Servers -> SUBSET ToolsOf] /\ offered \in [Servers -> SUBSET ToolsOf]
    /\ alive \in [Servers -> BOOLEAN]
    /\ registered \subseteq ToolNames /\ startNames \subseteq ToolNames
    /\ writer \in ToolCalls \cup {Monitor, Nobody} /\ mon \in MonRecs
    /\ toolCall \in [ToolCalls -> [pc : {"none", "found", "sent", "ok", "error"}, srv : Servers \cup {Nobody}]]
    /\ refusals \in 0 .. MaxRefusals /\ changes \in 0 .. MaxChanges /\ noticed \subseteq Servers

\* Who holds the lock is waiting for a server.
LockInv ==
    writer # Nobody => \/ writer = Monitor /\ mon.pc = "asked"
                       \/ writer \in ToolCalls /\ toolCall[writer].pc = "sent"

\* What the monitor remembers of a server still holds: nothing reconnects a
\* degraded server while it works, so it never sees one recover.
MonInv ==
    /\ bridge \in {"starting", "failed"} => mon.pc = "sleep" /\ noticed = {}
    /\ mon.pc # "recovered"
    /\ mon.pc \in {"look", "asked", "down"} => mon.srv \in Servers
    /\ mon.pc = "asked" /\ mon.degraded => conn[mon.srv] = "degraded"
    /\ mon.pc \in {"look", "asked"} /\ conn[mon.srv] = "connected" => mon.healthy
    /\ \A s \in noticed : conn[s] = "degraded"

\* Shutdown knows every name in the registry.
NamesInv ==
    refusals = 0 => /\ bridge \in {"starting", "up", "stopping"} => registered \subseteq startNames
                    /\ bridge \in {"cleaned", "stopped"} => registered = {}

\* The one server with a noticed failure and tools is the one being removed.
RemovedInv ==
    bridge = "up" /\ refusals = 0 =>
        \A s \in noticed : \/ registered \cap Named(s, cached[s]) = {}
                           \/ mon.pc = "down" /\ mon.srv = s

McpInv == McpType /\ LockInv /\ MonInv /\ NamesInv /\ RemovedInv

LEMMA McpInvGives == McpInv => McpTypeOK /\ ToolsFollowServers
<1> SUFFICES ASSUME McpInv PROVE McpTypeOK /\ ToolsFollowServers BY Zenon
<1>1. McpTypeOK
  <2>1. {registered, startNames} \subseteq SUBSET ToolNames BY Zenon DEF McpInv, McpType
  <2> QED BY Zenon, <2>1 DEF McpInv, McpType, LockInv, McpTypeOK, ToolNames, MonRecs
<1>2. NothingLeftBehind BY Zenon DEF McpInv, NamesInv, NothingLeftBehind
<1>3. DownServersLoseTools BY Zenon DEF McpInv, RemovedInv, DownServersLoseTools
<1> QED BY Zenon, <1>1, <1>2, <1>3 DEF ToolsFollowServers

LEMMA MonAsleepFacts == MonAsleep \in MonRecs /\ MonAsleep.pc = "sleep"
BY Zenon DEF MonAsleep, MonRecs

LEMMA McpInitInv == McpInit => McpInv
<1> SUFFICES ASSUME McpInit PROVE McpInv BY Zenon
<1> USE McpAssumption, MonAsleepFacts
<1>1. McpType BY DEF McpInit, McpType
<1>2. LockInv BY Zenon DEF McpInit, LockInv
<1>3. MonInv BY Zenon DEF McpInit, MonInv
<1>4. NamesInv BY Zenon DEF McpInit, NamesInv
<1>5. RemovedInv BY Zenon DEF McpInit, RemovedInv
<1> QED BY Zenon, <1>1, <1>2, <1>3, <1>4, <1>5 DEF McpInv

\* The monitor's record as its steps change it.
LEMMA MonPc ==
    ASSUME NEW m \in MonRecs, NEW pc \in {"sleep", "next", "look", "asked", "down", "recovered", "done"},
           NEW k, k = [m EXCEPT !.pc = pc]
    PROVE  k \in MonRecs /\ k.pc = pc /\ k.srv = m.srv /\ k.healthy = m.healthy /\ k.degraded = m.degraded
BY Zenon DEF MonRecs

LEMMA MonTickFacts ==
    ASSUME NEW ss \in SUBSET Servers, NEW k, k = [MonAsleep EXCEPT !.pc = "next", !.todo = ss]
    PROVE  k \in MonRecs /\ k.pc = "next"
<1>1. k = [pc |-> "next", todo |-> ss, srv |-> Nobody, healthy |-> FALSE, degraded |-> FALSE]
  BY Zenon DEF MonAsleep
<1>2. [pc |-> "next", todo |-> ss, srv |-> Nobody, healthy |-> FALSE, degraded |-> FALSE] \in MonRecs
  BY Zenon DEF MonRecs
<1>3. k.pc = "next" BY Zenon, <1>1
<1> QED BY Zenon, <1>1, <1>2, <1>3

LookingAt(m, s, h) == [m EXCEPT !.pc = "look", !.srv = s, !.healthy = h]

Asking(m, d) == [m EXCEPT !.pc = "asked", !.degraded = d]

LEMMA MonLookFacts ==
    ASSUME NEW m \in MonRecs, NEW s \in Servers, NEW h \in BOOLEAN, NEW k, k = LookingAt(m, s, h)
    PROVE  k \in MonRecs /\ k.pc = "look" /\ k.srv = s /\ k.healthy = h
<1> DEFINE a == [m EXCEPT !.pc = "look"]
           b == [a EXCEPT !.srv = s]
<1>1. k = [b EXCEPT !.healthy = h] BY Zenon DEF LookingAt
<1>2. a \in MonRecs /\ a.pc = "look" BY Zenon DEF MonRecs
<1> HIDE DEF a
<1>3. b \in MonRecs /\ b.pc = "look" /\ b.srv = s BY Zenon, <1>2 DEF MonRecs
<1> HIDE DEF b
<1> QED BY Zenon, <1>1, <1>3 DEF MonRecs

LEMMA MonAsksFacts ==
    ASSUME NEW m \in MonRecs, NEW d \in BOOLEAN, NEW k, k = Asking(m, d)
    PROVE  k \in MonRecs /\ k.pc = "asked" /\ k.srv = m.srv /\ k.healthy = m.healthy /\ k.degraded = d
<1> DEFINE a == [m EXCEPT !.pc = "asked"]
<1>1. k = [a EXCEPT !.degraded = d] BY Zenon DEF Asking
<1>2. a \in MonRecs /\ a.pc = "asked" /\ a.srv = m.srv /\ a.healthy = m.healthy BY Zenon DEF MonRecs
<1> HIDE DEF a
<1> QED BY Zenon, <1>1, <1>2 DEF MonRecs

LEMMA MonNextFacts ==
    ASSUME mon \in MonRecs
    PROVE  MonNext \in MonRecs /\ MonNext.pc = "next"
<1> DEFINE a == [mon EXCEPT !.pc = "next"]
           ss == mon.todo \ {mon.srv}
           b == [a EXCEPT !.todo = ss]
<1>1. MonNext = [b EXCEPT !.srv = Nobody] BY Zenon DEF MonNext, MonRecs
<1>2. a \in MonRecs /\ a.pc = "next" /\ ss \subseteq Servers BY Zenon DEF MonRecs
<1> HIDE DEF a, ss
<1>3. b \in MonRecs /\ b.pc = "next" BY Zenon, <1>2 DEF MonRecs
<1> HIDE DEF b
<1> QED BY Zenon, <1>1, <1>3 DEF MonRecs

\* The steps of start().
LEMMA McpStartKeeps ==
    ASSUME McpInv, (\E s \in Servers : StartServer(s)) \/ StartServes \/ StartFails
    PROVE  McpInv'
<1> USE McpAssumption
<1>0. McpType /\ LockInv /\ MonInv /\ NamesInv BY Zenon DEF McpInv
<1>1. bridge = "starting" /\ mon.pc = "sleep" /\ noticed = {}
  BY Zenon, <1>0 DEF StartServer, StartServes, StartFails, MonInv
<1>2. /\ UNCHANGED <<writer, mon, toolCall, noticed, alive, offered, changes>>
      /\ bridge' \in {"starting", "up", "failed"} /\ toStart' \subseteq Servers
      /\ refusals' = refusals \/ (refusals < MaxRefusals /\ refusals' = refusals + 1)
  BY Zenon, <1>0, <1>1 DEF StartServer, StartServes, StartFails, world, Accepts, Refuses, McpType
<1>3. refusals' \in 0 .. MaxRefusals /\ (refusals' = 0 => refusals = 0) BY <1>0, <1>2 DEF McpType
<1>4. ASSUME NEW s \in Servers, StartServer(s) PROVE McpInv'
  <2>1. Named(s, offered[s]) \subseteq ToolNames BY Zenon, <1>0 DEF McpType, Named, ToolNames
  <2>2. bridge' = "starting" BY Zenon, <1>1, <1>4 DEF StartServer
  <2>3. /\ conn' \in [Servers -> {"absent", "connected", "degraded"}] /\ cached' \in [Servers -> SUBSET ToolsOf]
        /\ registered' \subseteq ToolNames /\ startNames' \subseteq ToolNames
        /\ registered \subseteq startNames => registered' \subseteq startNames'
    BY <1>0, <1>4, <2>1 DEF StartServer, McpType
  <2>4. McpType' BY Zenon, <1>0, <1>2, <1>3, <2>2, <2>3 DEF McpType
  <2>5. LockInv' BY Zenon, <1>0, <1>2 DEF LockInv
  <2>6. MonInv' BY Zenon, <1>1, <1>2, <2>2 DEF MonInv
  <2>7. NamesInv' BY Zenon, <1>0, <1>1, <1>3, <2>2, <2>3 DEF NamesInv
  <2>8. RemovedInv' BY Zenon, <2>2 DEF RemovedInv
  <2> QED BY Zenon, <2>4, <2>5, <2>6, <2>7, <2>8 DEF McpInv
<1>5. CASE StartServes \/ StartFails
  <2>1. {MetaTools} \subseteq ToolNames BY Zenon DEF ToolNames
  <2>2. /\ UNCHANGED <<conn, cached>> /\ registered' \subseteq ToolNames /\ startNames' \subseteq ToolNames
        /\ bridge' \in {"up", "failed"}
        /\ registered \subseteq startNames /\ bridge' = "up" => registered' \subseteq startNames'
    BY Zenon, <1>0, <1>5, <2>1 DEF StartServes, StartFails, McpType
  <2>3. McpType' BY Zenon, <1>0, <1>2, <1>3, <2>2 DEF McpType
  <2>4. LockInv' BY Zenon, <1>0, <1>2 DEF LockInv
  <2>5. MonInv' BY Zenon, <1>1, <1>2 DEF MonInv
  <2>6. NamesInv' BY Zenon, <1>0, <1>1, <1>3, <2>2 DEF NamesInv
  <2>7. RemovedInv' BY Zenon, <1>1, <1>2 DEF RemovedInv
  <2> QED BY Zenon, <2>3, <2>4, <2>5, <2>6, <2>7 DEF McpInv
<1> QED BY Zenon, <1>4, <1>5

\* The steps of the monitor that touch neither registry nor connections.
LEMMA MonMoves ==
    ASSUME McpInv, MonitorRuns, mon' \in MonRecs, mon'.pc \in {"sleep", "next", "look", "asked"}, mon.pc # "down",
           UNCHANGED <<bridge, toStart, conn, cached, world, registered, startNames, toolCall, refusals, noticed>>,
           writer' \in ToolCalls \cup {Monitor, Nobody}, LockInv',
           mon'.pc \in {"look", "asked"} => mon'.srv \in Servers,
           mon'.pc = "asked" /\ mon'.degraded => conn[mon'.srv] = "degraded",
           mon'.pc \in {"look", "asked"} /\ conn[mon'.srv] = "connected" => mon'.healthy
    PROVE  McpInv'
<1>1. McpType' BY Zenon DEF McpInv, McpType, world
<1>2. MonInv' BY Zenon DEF McpInv, MonInv, MonitorRuns
<1>3. NamesInv' BY Zenon DEF McpInv, NamesInv
<1>4. RemovedInv' BY Zenon DEF McpInv, RemovedInv
<1> QED BY Zenon, <1>1, <1>2, <1>3, <1>4 DEF McpInv

LEMMA McpMonKeeps ==
    ASSUME McpInv, MonTick \/ MonAsks \/ MonGoesOn \/ (\E s \in Servers : MonLook(s))
    PROVE  McpInv'
<1>0. mon \in MonRecs /\ LockInv /\ MonInv BY Zenon DEF McpInv, McpType
<1>1. CASE MonTick
  <2> DEFINE ss == {s \in Servers : conn[s] # "absent"}
  <2>1. mon' = [MonAsleep EXCEPT !.pc = "next", !.todo = ss] /\ ss \in SUBSET Servers BY Zenon, <1>1 DEF MonTick
  <2> HIDE DEF ss
  <2>2. mon' \in MonRecs /\ mon'.pc = "next" BY Zenon, <2>1, MonTickFacts
  <2>3. LockInv' BY Zenon, <1>1 DEF MonTick, LockInv
  <2> QED BY Zenon, <1>1, <2>2, <2>3, MonMoves DEF MonTick, McpInv, McpType
<1>2. ASSUME NEW s \in Servers, MonLook(s) PROVE McpInv'
  <2> DEFINE h == (conn[s] = "connected")
  <2>1. mon' = LookingAt(mon, s, h) /\ h \in BOOLEAN BY Zenon, <1>2 DEF MonLook, LookingAt
  <2>2. mon' \in MonRecs /\ mon'.pc = "look" /\ mon'.srv = s /\ mon'.healthy = h
    <3> HIDE DEF h
    <3>1. mon \in MonRecs BY Zenon, <1>0
    <3>2. s \in Servers BY Zenon, <1>2
    <3> QED BY ONLY <2>1, <3>1, <3>2, MonLookFacts
  <2>3. LockInv' BY Zenon, <1>2 DEF MonLook, LockInv
  <2> QED BY Zenon, <1>2, <2>2, <2>3, MonMoves DEF MonLook, McpInv, McpType
<1>3. CASE MonAsks
  <2> DEFINE d == (conn[mon.srv] = "degraded")
  <2>1. mon' = Asking(mon, d) /\ d \in BOOLEAN BY Zenon, <1>3 DEF MonAsks, Asking
  <2>2. /\ mon' \in MonRecs /\ mon'.pc = "asked" /\ mon'.srv = mon.srv
        /\ mon'.healthy = mon.healthy /\ mon'.degraded = d
    <3> HIDE DEF d
    <3>1. mon \in MonRecs BY Zenon, <1>0
    <3> QED BY ONLY <2>1, <3>1, MonAsksFacts, Zenon
  <2>3. LockInv' BY Zenon, <1>3, <2>2 DEF MonAsks, LockInv
  <2> QED BY Zenon, <1>0, <1>3, <2>2, <2>3, MonMoves DEF MonAsks, MonInv
<1>4. CASE MonGoesOn
  <2>1. mon' \in MonRecs /\ mon'.pc \in {"next", "sleep"}
    BY Zenon, <1>0, <1>4, MonNextFacts, MonAsleepFacts DEF MonGoesOn
  <2>2. mon.pc \in {"done", "next"} BY Zenon, <1>4 DEF MonGoesOn
  <2>3. LockInv' BY Zenon, <1>0, <1>4, <2>2 DEF MonGoesOn, LockInv
  <2> QED BY Zenon, <1>4, <2>1, <2>2, <2>3, MonMoves DEF MonGoesOn, McpInv, McpType
<1> QED BY Zenon, <1>1, <1>2, <1>3, <1>4

\* discover_tools has answered.
LEMMA McpHearsKeeps ==
    ASSUME McpInv, MonHears
    PROVE  McpInv'
<1>0. McpType /\ MonInv /\ NamesInv /\ RemovedInv BY Zenon DEF McpInv
<1>1. /\ mon.pc = "asked" /\ mon.srv \in Servers /\ bridge \in {"up", "stopping", "cleaned"} /\ writer' = Nobody
      /\ UNCHANGED <<bridge, toStart, world, registered, startNames, toolCall, refusals>>
  BY Zenon, <1>0 DEF MonHears, MonitorRuns, MonInv
<1> DEFINE sv == mon.srv
<1>2. PICK pc \in {"recovered", "down", "done"} : mon' = [mon EXCEPT !.pc = pc]
  BY Zenon DEF MonHears
<1>3. mon' \in MonRecs /\ mon'.pc = pc /\ mon'.srv = sv BY <1>0, <1>2, MonPc DEF McpType
<1>4. \/ /\ conn[sv] = "connected" /\ cached' = [cached EXCEPT ![sv] = offered[sv]] /\ UNCHANGED <<conn, noticed>>
         /\ mon' = [mon EXCEPT !.pc = IF mon.degraded THEN "recovered" ELSE "done"]
      \/ /\ conn[sv] = "connected" /\ conn' = [conn EXCEPT ![sv] = "degraded"] /\ noticed' = noticed \cup {sv}
         /\ UNCHANGED cached /\ mon' = [mon EXCEPT !.pc = IF mon.healthy THEN "down" ELSE "done"]
      \/ /\ conn[sv] # "connected" /\ UNCHANGED <<conn, cached, noticed>>
         /\ mon' = [mon EXCEPT !.pc = IF mon.healthy THEN "down" ELSE "done"]
  BY Zenon DEF MonHears
<1> HIDE DEF sv
<1>5. /\ \A s \in noticed : conn[s] = "degraded" /\ (bridge = "up" /\ refusals = 0 =>
                                                   registered \cap Named(s, cached[s]) = {})
      /\ conn[sv] = "connected" => ~mon.degraded /\ mon.healthy /\ sv \notin noticed
  BY Zenon, <1>0, <1>1 DEF MonInv, RemovedInv, sv
<1>6. LockInv' BY Zenon, <1>1 DEF LockInv
<1>7. NamesInv' BY Zenon, <1>0, <1>1 DEF NamesInv
<1>8. CASE /\ conn[sv] = "connected" /\ cached' = [cached EXCEPT ![sv] = offered[sv]] /\ UNCHANGED <<conn, noticed>>
           /\ mon' = [mon EXCEPT !.pc = IF mon.degraded THEN "recovered" ELSE "done"]
  <2>1. mon' = [mon EXCEPT !.pc = "done"] BY Zenon, <1>5, <1>8
  <2>2. mon'.pc = "done" BY <1>0, <2>1, MonPc DEF McpType
  <2>3. McpType' BY Zenon, <1>0, <1>1, <1>3, <1>8 DEF McpType, world, sv
  <2>4. MonInv' BY Zenon, <1>0, <1>1, <1>8, <2>2 DEF MonInv
  <2>5. RemovedInv' BY Zenon, <1>0, <1>1, <1>5, <1>8 DEF RemovedInv, McpType
  <2> QED BY Zenon, <1>6, <1>7, <2>3, <2>4, <2>5 DEF McpInv
<1>9. CASE /\ conn[sv] = "connected" /\ conn' = [conn EXCEPT ![sv] = "degraded"] /\ noticed' = noticed \cup {sv}
           /\ UNCHANGED cached /\ mon' = [mon EXCEPT !.pc = IF mon.healthy THEN "down" ELSE "done"]
  <2>1. mon' = [mon EXCEPT !.pc = "down"] BY Zenon, <1>5, <1>9
  <2>2. mon'.pc = "down" BY <1>0, <2>1, MonPc DEF McpType
  <2>3. McpType' BY Zenon, <1>0, <1>1, <1>3, <1>9 DEF McpType, world, sv
  <2>4. MonInv'
    <3>1. conn'[sv] = "degraded" /\ \A s \in Servers : s # sv => conn'[s] = conn[s]
      BY Zenon, <1>0, <1>1, <1>9 DEF McpType, sv
    <3> QED BY <1>0, <1>1, <1>3, <1>5, <1>9, <2>2, <3>1 DEF MonInv, McpType, sv
  <2>5. RemovedInv' BY Zenon, <1>1, <1>3, <1>5, <1>9, <2>2 DEF RemovedInv
  <2> QED BY <1>6, <1>7, <2>3, <2>4, <2>5 DEF McpInv
<1>10. CASE /\ conn[sv] # "connected" /\ UNCHANGED <<conn, cached, noticed>>
            /\ mon' = [mon EXCEPT !.pc = IF mon.healthy THEN "down" ELSE "done"]
  <2>1. PICK p2 \in {"down", "done"} : mon' = [mon EXCEPT !.pc = p2] BY Zenon, <1>10
  <2>2. mon'.pc \in {"down", "done"} BY <1>0, <2>1, MonPc DEF McpType
  <2>3. McpType' BY Zenon, <1>0, <1>1, <1>3, <1>10 DEF McpType, world
  <2>4. MonInv' BY Zenon, <1>0, <1>1, <1>3, <1>10, <2>2 DEF MonInv, sv
  <2>5. RemovedInv' BY Zenon, <1>1, <1>5, <1>10 DEF RemovedInv
  <2> QED BY Zenon, <1>6, <1>7, <2>3, <2>4, <2>5 DEF McpInv
<1> QED BY Zenon, <1>4, <1>8, <1>9, <1>10

\* ipc.tool-remove of a server that went down.
LEMMA McpActsKeeps ==
    ASSUME McpInv, MonActs
    PROVE  McpInv'
<1> USE McpAssumption
<1>0. McpType /\ MonInv /\ NamesInv /\ RemovedInv BY Zenon DEF McpInv
<1>1. /\ mon.pc = "down" /\ mon.srv \in Servers /\ bridge \in {"up", "stopping", "cleaned"}
      /\ mon' = MonNext /\ writer = Nobody
      /\ UNCHANGED <<bridge, toStart, conn, cached, world, startNames, writer, toolCall, noticed>>
  BY Zenon, <1>0 DEF MonActs, MonitorRuns, MonInv
<1> DEFINE gone == Named(mon.srv, cached[mon.srv])
<1>2. \/ refusals' = refusals /\ registered' = registered \ gone
      \/ refusals < MaxRefusals /\ refusals' = refusals + 1 /\ registered' = registered
  BY Zenon, <1>1 DEF MonActs, Accepts, Refuses
<1>3. mon' \in MonRecs /\ mon'.pc = "next" BY Zenon, <1>0, <1>1, MonNextFacts DEF McpType
<1> HIDE DEF gone
<1>4. /\ refusals' \in 0 .. MaxRefusals /\ registered' \subseteq registered
      /\ refusals' = 0 => refusals = 0 /\ registered' = registered \ gone
  BY <1>0, <1>2 DEF McpType
<1>5. McpType' BY Zenon, <1>0, <1>1, <1>3, <1>4 DEF McpType, world
<1>6. LockInv' BY Zenon, <1>1 DEF LockInv
<1>7. MonInv' BY Zenon, <1>0, <1>1, <1>3 DEF MonInv
<1>8. NamesInv' BY Zenon, <1>0, <1>1, <1>4 DEF NamesInv
<1>9. RemovedInv'
  <2> SUFFICES ASSUME bridge = "up", refusals' = 0, NEW s \in noticed
               PROVE  registered' \cap Named(s, cached[s]) = {}
    BY Zenon, <1>1 DEF RemovedInv
  <2>1. CASE s = mon.srv BY Zenon, <1>4, <2>1 DEF gone
  <2>2. CASE s # mon.srv
    <3>1. registered \cap Named(s, cached[s]) = {} BY Zenon, <1>0, <1>4, <2>2 DEF RemovedInv
    <3> QED BY Zenon, <1>4, <3>1
  <2> QED BY Zenon, <2>1, <2>2
<1> QED BY Zenon, <1>5, <1>6, <1>7, <1>8, <1>9 DEF McpInv

\* Tool calls: a connection may become degraded.
LEMMA McpCallKeeps ==
    ASSUME McpInv, NEW c \in ToolCalls,
           (\E s \in Servers : CallArrives(c, s)) \/ CallForwards(c) \/ CallReturns(c)
    PROVE  McpInv'
<1>0. McpType /\ MonInv /\ NamesInv /\ RemovedInv /\ LockInv BY Zenon DEF McpInv
<1>1. UNCHANGED <<bridge, toStart, cached, world, registered, startNames, mon, refusals, noticed>>
  BY Zenon DEF CallArrives, CallForwards, CallReturns
<1>2. /\ conn' \in [Servers -> {"absent", "connected", "degraded"}]
      /\ \A s \in Servers : conn'[s] = conn[s] \/ conn'[s] = "degraded"
  BY Zenon, <1>0 DEF CallArrives, CallForwards, CallReturns, McpType
<1>3. /\ toolCall' \in [ToolCalls -> [pc : {"none", "found", "sent", "ok", "error"}, srv : Servers \cup {Nobody}]]
      /\ writer' \in ToolCalls \cup {Monitor, Nobody}
  BY <1>0 DEF CallArrives, CallForwards, CallReturns, McpType
<1>4. McpType' BY Zenon, <1>0, <1>1, <1>2, <1>3 DEF McpType, world
<1>5. LockInv'
  <2>1. CASE \E s \in Servers : CallArrives(c, s) BY Zenon, <2>1 DEF CallArrives, LockInv
  <2>2. CASE CallForwards(c) BY <1>0, <2>2 DEF CallForwards, LockInv, McpType
  <2>3. CASE CallReturns(c) BY Zenon, <2>3 DEF CallReturns, LockInv
  <2> QED BY Zenon, <2>1, <2>2, <2>3
<1>6. MonInv' BY Zenon, <1>0, <1>1, <1>2 DEF MonInv, McpType
<1>7. NamesInv' BY Zenon, <1>0, <1>1 DEF NamesInv
<1>8. RemovedInv' BY Zenon, <1>0, <1>1 DEF RemovedInv
<1> QED BY Zenon, <1>4, <1>5, <1>6, <1>7, <1>8 DEF McpInv

LEMMA McpShutdownKeeps ==
    ASSUME McpInv, ShutdownBegins \/ ShutdownRemoves \/ ShutdownAborts
    PROVE  McpInv'
<1> USE McpAssumption
<1>0. McpType /\ MonInv /\ NamesInv /\ RemovedInv /\ LockInv BY Zenon DEF McpInv
<1>1. /\ UNCHANGED <<toStart, conn, cached, world, startNames, toolCall, noticed>>
      /\ bridge' \in {"stopping", "cleaned", "stopped"}
      /\ UNCHANGED <<mon, writer>> \/ (mon' = MonAsleep /\ writer' = Nobody)
  BY Zenon DEF ShutdownBegins, ShutdownRemoves, ShutdownAborts
<1>2. /\ refusals' = refusals \/ (refusals < MaxRefusals /\ refusals' = refusals + 1)
      /\ registered' \subseteq registered
  BY Zenon DEF ShutdownBegins, ShutdownRemoves, ShutdownAborts, Accepts, Refuses
<1>3. refusals' \in 0 .. MaxRefusals /\ (refusals' = 0 => refusals = 0) BY <1>0, <1>2 DEF McpType
<1>4. mon' \in MonRecs BY Zenon, <1>0, <1>1, MonAsleepFacts DEF McpType
<1>5. McpType' BY Zenon, <1>0, <1>1, <1>2, <1>3, <1>4 DEF McpType, world
<1>6. LockInv' BY Zenon, <1>0, <1>1 DEF LockInv
<1>7. MonInv' BY Zenon, <1>0, <1>1, MonAsleepFacts DEF MonInv
<1>8. NamesInv'
  <2>1. CASE ShutdownBegins BY Zenon, <1>0, <2>1 DEF ShutdownBegins, NamesInv
  <2>2. CASE ShutdownRemoves
    <3>1. \/ refusals' = refusals /\ registered' = registered \ startNames
          \/ refusals' = refusals + 1
      BY Zenon, <2>2 DEF ShutdownRemoves, Accepts, Refuses
    <3>2. refusals' = 0 => refusals' = refusals BY <1>0, <3>1 DEF McpType
    <3>3. bridge = "stopping" /\ bridge' = "cleaned" BY Zenon, <2>2 DEF ShutdownRemoves
    <3>4. refusals' = 0 => registered' = {}
      BY <1>0, <1>3, <3>1, <3>2, <3>3 DEF NamesInv, McpType
    <3> QED BY Zenon, <3>3, <3>4 DEF NamesInv
  <2>3. CASE ShutdownAborts BY Zenon, <1>0, <2>3 DEF ShutdownAborts, NamesInv
  <2> QED BY Zenon, <2>1, <2>2, <2>3
<1>9. RemovedInv' BY Zenon, <1>1 DEF RemovedInv
<1> QED BY Zenon, <1>5, <1>6, <1>7, <1>8, <1>9 DEF McpInv

\* The servers' own steps.
LEMMA McpServerKeeps ==
    ASSUME McpInv, NEW s \in Servers, ServerDies(s) \/ \E ts \in SUBSET ToolsOf : ServerChanges(s, ts)
    PROVE  McpInv'
<1> USE McpAssumption
<1>0. McpType BY Zenon DEF McpInv
<1>1. /\ UNCHANGED <<bridge, toStart, conn, cached, registered, startNames, writer, mon, toolCall, refusals, noticed>>
      /\ alive' \in [Servers -> BOOLEAN] /\ offered' \in [Servers -> SUBSET ToolsOf] /\ changes' \in 0 .. MaxChanges
  <2>1. CASE ServerDies(s) BY Zenon, <1>0, <2>1 DEF ServerDies, McpType
  <2>2. CASE \E ts \in SUBSET ToolsOf : ServerChanges(s, ts) BY <1>0, <2>2 DEF ServerChanges, McpType
  <2> QED BY Zenon, <2>1, <2>2
<1>2. McpType' BY Zenon, <1>0, <1>1 DEF McpType
<1> QED BY Zenon, <1>1, <1>2 DEF McpInv, LockInv, MonInv, NamesInv, RemovedInv

LEMMA McpStepInv == McpInv /\ [McpNext]_mcpVars => McpInv'
<1> SUFFICES ASSUME McpInv, [McpNext]_mcpVars PROVE McpInv' BY Zenon
<1>1. CASE McpNext
  <2>1. CASE (\E s \in Servers : StartServer(s)) \/ StartServes \/ StartFails BY Zenon, <2>1, McpStartKeeps
  <2>2. CASE MonTick \/ MonAsks \/ MonGoesOn \/ (\E s \in Servers : MonLook(s)) BY Zenon, <2>2, McpMonKeeps
  <2>3. CASE MonHears BY Zenon, <2>3, McpHearsKeeps
  <2>4. CASE MonActs BY <2>4, McpActsKeeps
  <2>5. CASE \E c \in ToolCalls :
                 (\E s \in Servers : CallArrives(c, s)) \/ CallForwards(c) \/ CallReturns(c)
    BY Zenon, <2>5, McpCallKeeps
  <2>6. CASE ShutdownBegins \/ ShutdownRemoves \/ ShutdownAborts BY Zenon, <2>6, McpShutdownKeeps
  <2>7. CASE \E s \in Servers : ServerDies(s) \/ \E ts \in SUBSET ToolsOf : ServerChanges(s, ts)
    BY Zenon, <2>7, McpServerKeeps
  <2> QED BY Zenon, <1>1, <2>1, <2>2, <2>3, <2>4, <2>5, <2>6, <2>7 DEF McpNext, MonStep
<1>2. CASE UNCHANGED mcpVars
  BY Zenon, <1>2 DEF mcpVars, McpInv, McpType, LockInv, MonInv, NamesInv, RemovedInv
<1> QED BY Zenon, <1>1, <1>2

\* The kernel's registry follows the MCP servers: after a shutdown none of the
\* bridge's tools is left, and after a health round a server that was found dead
\* has none, for any servers, tools and tool calls, as long as the kernel refused
\* no request (RunningBridge::shutdown, health_monitor).
THEOREM RegistryFollowsServers == McpSpec => [](McpTypeOK /\ ToolsFollowServers)
BY McpInvGives, McpInitInv, McpStepInv, PTL DEF McpSpec

-----------------------------------------------------------------------------
(* The grants of an agent                                                  *)

\* Every tool the executor holds is one it is entitled to: in the token, which
\* the kernel signed and which is never empty, among the names still to be looked
\* up and those found, in what the model is offered, and in the last request.
GrantInv ==
    /\ VerifySignature(agToken)
    /\ agToken.tools \subseteq KnownTools /\ agCat1 \subseteq KnownTools /\ agLookups \subseteq KnownTools
    /\ \A n \in agToken.tools \cup agCat1 \cup agLookups : Entitled(n)
    /\ \A d \in agList : Entitled(d.name)
    /\ agPc # "none" => CapList \in agToken.tools
    /\ \A r \in reached : Entitled(r.tool) /\ ~r.late

Endings == {"refused", "listed", "not wired", "result", "error", "denied", "approved"}

\* While calls are handled one is left, and answers and calls make up the turn.
Called(answers) == [i \in DOMAIN answers |-> answers[i][1]]
TurnInv ==
    /\ agPc = "refresh" => agAfter \in {"idle", "renew", "answer"}
    /\ agCalls \in Seq(KnownTools) /\ agAnswers \in Seq(KnownTools \X Endings)
    /\ Called(agAnswers) \o agCalls = agTurn
    /\ agPc \in {"call", "hil", "answer"} => agCalls # << >>
    /\ agPc = "refresh" /\ agAfter = "answer" => agCalls # << >>

\* What is left of the budget and what was used make up no more than the budget.
BudgetInv ==
    /\ agBudget \in Int /\ agBudget >= -1 /\ fsReads \in Nat
    /\ agBudget # -1 => fsReads + agBudget <= 1

ToolsInv ==
    /\ registry \subseteq KnownTools /\ manifest \in Manifests /\ GrantInv /\ TurnInv /\ BudgetInv

\* The pieces of the tool names and of the capability groups.
Pieces == {"cap", "request-tool", "sys", "tools", "list", "memory", "forget", "fs", "read", "dir", "kernel",
           "proc", "spawn", "info", "*"}

LEMMA KnownAreNames == KnownTools \subseteq Seq(Pieces)
<1>1. /\ RequestTool \in Seq(Pieces) /\ SysTools \in Seq(Pieces) /\ CapList \in Seq(Pieces)
  BY DEF RequestTool, SysTools, CapList, Pieces
<1>2. /\ MemoryForget \in Seq(Pieces) /\ FsRead \in Seq(Pieces)
  BY DEF MemoryForget, FsRead, Pieces
<1>3. FsReadDir \in Seq(Pieces) BY DEF FsReadDir, Pieces
<1>4. ProcSpawn \in Seq(Pieces) BY DEF ProcSpawn, Pieces
<1>5. SysInfo \in Seq(Pieces) BY DEF SysInfo, Pieces
<1> QED BY Zenon, <1>1, <1>2, <1>3, <1>4, <1>5 DEF KnownTools, ServiceTools, Syscalls

LEMMA PrefixAgrees ==
    ASSUME NEW s \in Seq(Pieces), NEW t \in Seq(Pieces), StartsWith(t, s), NEW i \in 1 .. Len(s)
    PROVE  s[i] = t[i]
<1>1. Len(s) \in Nat /\ Len(t) \in Nat /\ Len(s) <= Len(t)
  BY Zenon, LenProperties DEF StartsWith
<1>2. 1 \in 1 .. Len(t) + 1 /\ Len(s) \in 1 - 1 .. Len(t) /\ i \in 1 .. Len(s) - 1 + 1
  BY <1>1
<1>3. SubSeq(t, 1, Len(s))[i] = t[1 + i - 1] BY <1>2, SubSeqProperties
<1>4. 1 + i - 1 = i BY <1>1
<1> QED BY Zenon, <1>3, <1>4 DEF StartsWith

LEMMA MintFacts ==
    ASSUME NEW tools
    PROVE  Mint(tools).tools = tools /\ VerifySignature(Mint(tools))
BY Zenon DEF Mint, VerifySignature, Signature

\* What CapabilityResolver::resolve grants, a group of the manifest names.
LEMMA ResolveNames ==
    ASSUME registry \subseteq KnownTools, manifest \in Manifests, NEW n \in ResolveGrantedTools
    PROVE  n \in KnownTools /\ Entitled(n)
<1>1. RouterAlwaysPresent \subseteq KnownTools /\ RouterAlwaysPresent \subseteq AlwaysPresent
  BY Zenon DEF RouterAlwaysPresent, AlwaysPresent, KnownTools
<1>2. CASE n \in RouterAlwaysPresent BY Zenon, <1>1, <1>2 DEF Entitled
<1>3. ASSUME NEW c \in manifest, n \in ResolveSyscalls(c[1], c[2]) \cup ResolveTools(c[1], c[2])
      PROVE  n \in KnownTools /\ Names(c, n)
  <2>0. c[1] \in Pieces /\ c[2] \in Pieces
    <3>1. c \in {<<"fs", "read">>, <<"proc", "spawn">>, <<"memory", "*">>, <<"kernel", "*">>, <<"fs", "*">>}
      BY Zenon DEF Manifests
    <3> QED BY <3>1 DEF Pieces
  <2>1. CASE n \in ResolveTools(c[1], c[2])
    <3>1. n \in KnownTools /\ n \in Seq(Pieces) BY Zenon, <2>1, KnownAreNames DEF ResolveTools
    <3>2. CASE c[2] = "*"
      <4>1. StartsWith(n, <<c[1]>>) BY Zenon, <2>1, <3>2 DEF ResolveTools
      <4>2. <<c[1]>> \in Seq(Pieces) /\ Len(<<c[1]>>) = 1 /\ 1 \in 1 .. 1 BY <2>0
      <4>3. <<c[1]>>[1] = n[1] BY Zenon, <3>1, <4>1, <4>2, PrefixAgrees
      <4> QED BY Zenon, <3>1, <3>2, <4>3 DEF Names
    <3>3. CASE c[2] # "*"
      <4>1. StartsWith(n, <<c[1], c[2]>>) BY Zenon, <2>1, <3>3 DEF ResolveTools
      <4>2. <<c[1], c[2]>> \in Seq(Pieces) /\ Len(<<c[1], c[2]>>) = 2 /\ {1, 2} \subseteq 1 .. 2 BY <2>0
      <4>3. <<c[1], c[2]>>[1] = n[1] BY Zenon, <3>1, <4>1, <4>2, PrefixAgrees
      <4>4. <<c[1], c[2]>>[2] = n[2] BY Zenon, <3>1, <4>1, <4>2, PrefixAgrees
      <4> QED BY Zenon, <3>1, <4>3, <4>4 DEF Names
    <3> QED BY Zenon, <3>2, <3>3
  <2>2. CASE n \in ResolveSyscalls(c[1], c[2])
    <3>1. n \in Syscalls /\ n[1] = "kernel" /\ n \in KnownTools /\ n \in Seq(Pieces)
      <4>1. n \in Syscalls BY Zenon, <2>2 DEF ResolveSyscalls
      <4>2. n[1] = "kernel" BY <4>1 DEF Syscalls, ProcSpawn, SysInfo
      <4>3. n \in KnownTools BY Zenon, <4>1 DEF KnownTools
      <4> QED BY Zenon, <4>1, <4>2, <4>3, KnownAreNames
    <3>2. CASE c[1] = "kernel"
      BY Zenon, <2>2, <3>1, <3>2 DEF ResolveSyscalls, Domain, Names
    <3>3. CASE c[1] # "kernel" /\ c[2] = "*"
      BY Zenon, <2>2, <3>1, <3>3 DEF ResolveSyscalls, Domain, Names
    <3>4. CASE c[1] # "kernel" /\ c[2] # "*"
      <4>1. n[2] = c[1] /\ StartsWith(n, <<"kernel", c[1], c[2]>>)
        BY Zenon, <2>2, <3>4 DEF ResolveSyscalls, Domain
      <4>2. <<"kernel", c[1], c[2]>> \in Seq(Pieces) /\ Len(<<"kernel", c[1], c[2]>>) = 3 /\ 3 \in 1 .. 3
        <5> DEFINE g == c[1]
                   h == c[2]
        <5> HIDE DEF g, h
        <5>1. "kernel" \in Pieces /\ g \in Pieces /\ h \in Pieces BY Zenon, <2>0 DEF g, h, Pieces
        <5>2. <<"kernel", g, h>> \in Seq(Pieces) BY <5>1
        <5>3. Len(<<"kernel", g, h>>) = 3 BY Zenon
        <5> QED BY <5>2, <5>3 DEF g, h
      <4>3. <<"kernel", c[1], c[2]>>[3] = n[3] BY Zenon, <3>1, <4>1, <4>2, PrefixAgrees
      <4> QED BY Zenon, <3>1, <4>1, <4>3 DEF Names
    <3> QED BY Zenon, <3>2, <3>3, <3>4
  <2> QED BY Zenon, <1>3, <2>1, <2>2
<1>4. CASE \E c \in manifest : n \in ResolveSyscalls(c[1], c[2]) \cup ResolveTools(c[1], c[2])
  BY Zenon, <1>3, <1>4 DEF Entitled
<1>5. n \in RouterAlwaysPresent \/ \E c \in manifest : n \in ResolveSyscalls(c[1], c[2]) \cup ResolveTools(c[1], c[2])
  <2> DEFINE F(c) == ResolveSyscalls(c[1], c[2]) \cup ResolveTools(c[1], c[2])
             U == UNION {F(c) : c \in manifest}
  <2>1. ResolveGrantedTools = U \cup RouterAlwaysPresent
    BY Zenon DEF ResolveGrantedTools, Resolve
  <2> HIDE DEF F
  <2>2. n \in U => \E c \in manifest : n \in F(c) BY Zenon
  <2> HIDE DEF U
  <2>3. n \in U \/ n \in RouterAlwaysPresent BY Zenon, <2>1
  <2>4. ASSUME \E c \in manifest : n \in F(c)
        PROVE  \E c \in manifest : n \in ResolveSyscalls(c[1], c[2]) \cup ResolveTools(c[1], c[2])
    BY Zenon, <2>4 DEF F
  <2> QED BY Zenon, <2>2, <2>3, <2>4
<1> QED BY Zenon, <1>2, <1>4, <1>5

-----------------------------------------------------------------------------
(* Steps. *)

\* Approvals are not taken back and the manifest stays.
LEMMA EntitledStays ==
    ASSUME approved \subseteq approved', manifest' = manifest
    PROVE  \A n : Entitled(n) => Entitled(n)'
<1> SUFFICES ASSUME NEW n, Entitled(n) PROVE Entitled(n)' BY Zenon
<1>1. CASE n \in AlwaysPresent \cup approved BY Zenon, <1>1 DEF Entitled
<1>2. CASE \E c \in manifest : Names(c, n)
  <2>1. PICK c \in manifest : Names(c, n) BY Zenon, <1>2
  <2> QED BY Zenon, <2>1 DEF Entitled
<1> QED BY Zenon, <1>1, <1>2 DEF Entitled

\* A step that leaves token, list and requests alone.
LEMMA GrantsSame ==
    ASSUME GrantInv, UNCHANGED <<agToken, approved, manifest, agLookups, agCat1, agList, reached>>,
           agPc # "none" \/ agPc' = agPc
    PROVE  GrantInv'
<1>1. \A n : Entitled(n) => Entitled(n)' BY Zenon, EntitledStays
<1> QED BY Zenon, <1>1 DEF GrantInv, VerifySignature, Signature

\* A step that leaves the calls of the turn alone and does not begin to handle one.
LEMMA TurnSame ==
    ASSUME TurnInv, UNCHANGED <<agCalls, agAnswers, agTurn>>,
           \/ UNCHANGED <<agPc, agAfter>>
           \/ agPc' \notin {"refresh", "call", "hil", "answer"}
           \/ agPc' = "refresh" /\ agAfter' \in {"idle", "renew"}
           \/ agPc' = "refresh" /\ agAfter' = "answer" /\ agCalls # << >>
           \/ agPc' \in {"hil", "answer"} /\ agCalls # << >>
    PROVE  TurnInv'
BY Zenon DEF TurnInv, Called

\* The result of a call takes its place in the tally of the turn.
LEMMA AnswerKeeps ==
    ASSUME TurnInv, agCalls # << >>, NEW kind \in Endings, AnswerCall(kind), agTurn' = agTurn
    PROVE  TurnInv'
<1>1. /\ agCalls \in Seq(KnownTools) /\ agAnswers \in Seq(KnownTools \X Endings)
      /\ Called(agAnswers) \o agCalls = agTurn
  BY Zenon DEF TurnInv
<1> DEFINE h == Head(agCalls)
<1>2. h \in KnownTools /\ agCalls' \in Seq(KnownTools) BY Zenon, <1>1, HeadTailProperties DEF AnswerCall
<1>3. agAnswers' = Append(agAnswers, <<h, kind>>) BY Zenon DEF AnswerCall
<1>4. agAnswers' \in Seq(KnownTools \X Endings) BY Zenon, <1>1, <1>2, <1>3, AppendProperties
<1>5. Called(agAnswers)' \o agCalls' = Called(agAnswers) \o agCalls
  <2> DEFINE a == agAnswers
             b == Append(agAnswers, <<h, kind>>)
             c == agCalls
             d == Tail(agCalls)
  <2>1. d = agCalls' /\ b = agAnswers' BY Zenon, <1>3 DEF AnswerCall
  <2>2. Len(a) \in Nat /\ Len(c) \in Nat \ {0} /\ Len(b) = Len(a) + 1 /\ Len(d) = Len(c) - 1
    BY <1>1, <1>2, AppendProperties, HeadTailProperties, LenProperties, EmptySeq
  <2>3. \A i \in 1 .. Len(a) : b[i] = a[i] BY <1>1, <1>2, AppendProperties
  <2>4. b[Len(a) + 1] = <<h, kind>> BY <1>1, <1>2, AppendProperties
  <2>5. \A i \in 1 .. Len(d) : d[i] = c[i + 1] BY Zenon, <1>1, HeadTailProperties
  <2>6. h = c[1] BY Zenon, <1>1, HeadTailProperties
  <2>7. DOMAIN a = 1 .. Len(a) /\ DOMAIN b = 1 .. Len(b) BY Zenon, <1>1, <1>4, <2>1, LenProperties
  <2>8. Called(a) \in Seq(KnownTools) /\ Len(Called(a)) = Len(a)
    <3>1. \A i \in 1 .. Len(a) : a[i][1] \in KnownTools BY <1>1, ElementOfSeq
    <3>2. Called(a) \in [1 .. Len(a) -> KnownTools] BY Zenon, <2>7, <3>1 DEF Called
    <3> QED BY <2>2, <3>2, FunctionIsSeq
  <2>9. Called(b) \in Seq(KnownTools) /\ Len(Called(b)) = Len(b)
    <3>1. \A i \in 1 .. Len(b) : b[i][1] \in KnownTools BY <1>4, <2>1, ElementOfSeq
    <3>2. Called(b) \in [1 .. Len(b) -> KnownTools] BY Zenon, <2>7, <3>1 DEF Called
    <3> QED BY <2>2, <3>2, FunctionIsSeq
  <2>10. \A i \in 1 .. Len(a) : Called(a)[i] = a[i][1] BY Zenon, <2>7 DEF Called
  <2>11. \A i \in 1 .. Len(b) : Called(b)[i] = b[i][1] BY Zenon, <2>7 DEF Called
  <2> DEFINE s == Called(b) \o d
             t == Called(a) \o c
             N == Len(a) + Len(c)
  <2>12. d \in Seq(KnownTools) BY Zenon, <1>2, <2>1
  <2> HIDE DEF a, b, c, d, h
  <2>13. s \in Seq(KnownTools) /\ Len(s) = N /\ t \in Seq(KnownTools) /\ Len(t) = N
    <3>0. c \in Seq(KnownTools) BY Zenon, <1>1 DEF c
    <3>1. s \in Seq(KnownTools) /\ Len(s) = Len(Called(b)) + Len(d) BY Zenon, <2>9, <2>12, ConcatProperties
    <3>2. t \in Seq(KnownTools) /\ Len(t) = Len(Called(a)) + Len(c) BY <2>8, <3>0, ConcatProperties
    <3> HIDE DEF s, t
    <3> QED BY <2>2, <2>8, <2>9, <3>1, <3>2
  <2>14. ASSUME NEW i \in 1 .. N PROVE s[i] = t[i]
    <3>0. c \in Seq(KnownTools) BY Zenon, <1>1 DEF c
    <3> HIDE DEF h
    <3>1. s[i] = IF i <= Len(b) THEN Called(b)[i] ELSE d[i - Len(b)]
      BY <2>2, <2>9, <2>12, <2>13, ConcatProperties
    <3>2. t[i] = IF i <= Len(a) THEN Called(a)[i] ELSE c[i - Len(a)]
      BY <2>2, <2>8, <2>13, <3>0, ConcatProperties
    <3>3. CASE i <= Len(a)
      BY <2>2, <2>3, <2>10, <2>11, <3>1, <3>2, <3>3
    <3>4. CASE i = Len(a) + 1
      <4>1. Called(b)[i] = h BY <2>2, <2>4, <2>11, <3>4
      <4> QED BY <2>2, <2>6, <3>1, <3>2, <3>4, <4>1
    <3>5. CASE i > Len(a) + 1
      <4>1. i - Len(b) \in 1 .. Len(d) /\ (i - Len(b)) + 1 = i - Len(a) BY <2>2, <3>5
      <4>2. s[i] = d[i - Len(b)] /\ t[i] = c[i - Len(a)]
        <5>1. i > Len(b) /\ i > Len(a) BY <2>2, <3>5
        <5> HIDE DEF s, t
        <5> QED BY <2>2, <3>1, <3>2, <5>1
      <4>3. d[i - Len(b)] = c[(i - Len(b)) + 1] BY Zenon, <2>5, <4>1
      <4> HIDE DEF s, t
      <4> QED BY Zenon, <4>1, <4>2, <4>3
    <3> HIDE DEF s, t
    <3> QED BY <2>2, <3>3, <3>4, <3>5
  <2>15. s = t BY Zenon, <2>2, <2>13, <2>14, SeqEqual
  <2>16. Called(agAnswers)' = Called(b) BY Zenon, <2>1 DEF Called
  <2> QED BY Zenon, <2>1, <2>15, <2>16 DEF a, c
<1>6. agPc' \in {"prompt", "call"} /\ (agPc' = "call" => agCalls' # << >>) BY Zenon DEF AnswerCall
<1> QED BY Zenon, <1>1, <1>2, <1>4, <1>5, <1>6 DEF TurnInv

LEMMA ToolsInitInv == ToolsInit => ToolsInv
<1> SUFFICES ASSUME ToolsInit PROVE ToolsInv BY Zenon
<1>1. registry \subseteq KnownTools /\ manifest \in Manifests
  BY Zenon DEF ToolsInit, KnownTools, ServiceTools
<1>2. GrantInv
  <2>1. agToken.tools = {} /\ VerifySignature(agToken) BY Zenon, MintFacts DEF ToolsInit
  <2> QED BY Zenon, <2>1 DEF ToolsInit, GrantInv
<1>3. TurnInv
  <2>1. agCalls = << >> /\ agAnswers = << >> /\ agTurn = << >> /\ agPc = "none" BY Zenon DEF ToolsInit
  <2>2. Called(agAnswers) = << >> BY <2>1 DEF Called
  <2>3. << >> \o << >> = << >> BY Zenon, ConcatEmptySeq, EmptySeq
  <2> QED BY Zenon, <2>1, <2>2, <2>3, EmptySeq DEF TurnInv
<1>4. BudgetInv BY DEF ToolsInit, BudgetInv
<1> QED BY Zenon, <1>1, <1>2, <1>3, <1>4 DEF ToolsInv

LEMMA SpawnAgentKeeps == ToolsInv /\ SpawnAgent => ToolsInv'
<1> SUFFICES ASSUME ToolsInv, SpawnAgent PROVE ToolsInv' BY Zenon
<1>1. /\ UNCHANGED <<registry, manifest, approved, agList, reached, agCalls, agAnswers, agTurn, agBudget, fsReads>>
      /\ agPc' = "refresh" /\ agAfter' = "idle" /\ agCat1' = {} /\ agLookups' \subseteq agToken'.tools
  BY Zenon DEF SpawnAgent, turnVars
<1>2. agToken'.tools = ResolveGrantedTools /\ VerifySignature(agToken')
  <2>1. agToken' = Mint(ResolveGrantedTools) BY Zenon DEF SpawnAgent
  <2> QED BY Zenon, <2>1, MintFacts
<1>3. \A n \in ResolveGrantedTools : n \in KnownTools /\ Entitled(n) BY Zenon, ResolveNames DEF ToolsInv
<1>4. CapList \in ResolveGrantedTools
  <2> DEFINE U == UNION {ResolveSyscalls(c[1], c[2]) \cup ResolveTools(c[1], c[2]) : c \in manifest}
  <2>1. ResolveGrantedTools = U \cup RouterAlwaysPresent BY Zenon DEF ResolveGrantedTools, Resolve
  <2> HIDE DEF U
  <2> QED BY Zenon, <2>1 DEF RouterAlwaysPresent
<1>5. \A n : Entitled(n) => Entitled(n)' BY Zenon, <1>1, EntitledStays
<1>6. GrantInv'
  <2>1. agToken'.tools \subseteq KnownTools /\ CapList \in agToken'.tools BY Zenon, <1>2, <1>3, <1>4
  <2>2. \A n \in agToken'.tools : Entitled(n)' BY Zenon, <1>2, <1>3, <1>5
  <2> QED BY Zenon, <1>1, <1>2, <1>5, <2>1, <2>2 DEF GrantInv, ToolsInv
<1>7. TurnInv' BY Zenon, <1>1, TurnSame DEF ToolsInv
<1>8. BudgetInv' BY Zenon, <1>1 DEF BudgetInv, ToolsInv
<1> QED BY Zenon, <1>1, <1>6, <1>7, <1>8 DEF ToolsInv

LEMMA RefreshKeeps ==
    ToolsInv /\ (RefreshDone \/ \E n \in KnownTools : RefreshLookup(n)) => ToolsInv'
<1> SUFFICES ASSUME ToolsInv PROVE (RefreshDone \/ \E n \in KnownTools : RefreshLookup(n)) => ToolsInv'
  BY Zenon
<1> USE DEF tokenVars, listVars, turnVars
<1>1. ASSUME RefreshDone PROVE ToolsInv'
  <2>1. /\ UNCHANGED <<registry, manifest, agToken, approved, agLookups, reached, agCalls, agAnswers, agTurn, agBudget, fsReads>>
        /\ agPc = "refresh" /\ agPc' = agAfter /\ agAfter' = "none" /\ agCat1' = {} /\ agList' = OfferedTools
    BY Zenon, <1>1 DEF RefreshDone
  <2>2. \A n : Entitled(n) => Entitled(n)' BY Zenon, <2>1, EntitledStays
  <2>3. \A d \in agList' : Entitled(d.name)
    <3> SUFFICES ASSUME NEW d \in OfferedTools PROVE Entitled(d.name) BY Zenon, <2>1
    <3>1. CASE \E n \in ComputeCat2(agToken) : d = Cat2Descriptor(n)
      <4>1. PICK n \in ComputeCat2(agToken) : d = Cat2Descriptor(n) BY Zenon, <3>1
      <4>2. n \in AlwaysPresent \/ n \in agToken.tools BY Zenon DEF ComputeCat2, HasTool
      <4>3. d.name = n BY Zenon, <4>1 DEF Cat2Descriptor
      <4> QED BY Zenon, <4>2, <4>3 DEF Entitled, GrantInv, ToolsInv
    <3>2. CASE \E n \in agCat1 : d = [name |-> n, schema |-> TRUE]
      <4>1. PICK n \in agCat1 : d = [name |-> n, schema |-> TRUE] BY Zenon, <3>2
      <4>2. d.name = n BY Zenon, <4>1
      <4>3. Entitled(n) BY Zenon, <4>1 DEF GrantInv, ToolsInv
      <4> QED BY Zenon, <4>2, <4>3
    <3> QED BY Zenon, <3>1, <3>2 DEF OfferedTools
  <2>4. GrantInv' BY Zenon, <2>1, <2>2, <2>3 DEF GrantInv, ToolsInv, VerifySignature, Signature
  <2>5. TurnInv'
    <3>1. agPc' \in {"idle", "renew", "answer"} /\ (agPc' = "answer" => agCalls # << >>) BY Zenon, <2>1 DEF TurnInv, ToolsInv
    <3> QED BY Zenon, <2>1, <3>1, TurnSame DEF ToolsInv
  <2>6. BudgetInv' BY Zenon, <2>1 DEF BudgetInv, ToolsInv
  <2> QED BY Zenon, <2>1, <2>4, <2>5, <2>6 DEF ToolsInv
<1>2. ASSUME NEW n \in KnownTools, RefreshLookup(n) PROVE ToolsInv'
  <2>1. /\ UNCHANGED <<registry, manifest, agToken, approved, agList, reached, agCalls, agAnswers, agTurn, agBudget, fsReads>>
        /\ agPc = "refresh" /\ UNCHANGED <<agPc, agAfter>>
        /\ n \in agLookups /\ agLookups' \subseteq agLookups /\ agCat1' \subseteq agCat1 \cup {n}
    BY Zenon, <1>2 DEF RefreshLookup
  <2>2. \A m : Entitled(m) => Entitled(m)' BY Zenon, <2>1, EntitledStays
  <2>3. GrantInv' BY Zenon, <2>1, <2>2 DEF GrantInv, ToolsInv, VerifySignature, Signature
  <2>4. TurnInv' BY Zenon, <2>1, TurnSame DEF ToolsInv
  <2>5. BudgetInv' BY Zenon, <2>1 DEF BudgetInv, ToolsInv
  <2> QED BY Zenon, <2>1, <2>3, <2>4, <2>5 DEF ToolsInv
<1> QED BY Zenon, <1>1, <1>2

LEMMA LoopKeeps ==
    /\ ToolsInv
    /\ BeginGoal \/ BuildSystemPrompt \/ RenewOrFail \/ ModelEnds \/ \E calls \in Proposals : ModelCalls(calls)
    => ToolsInv'
<1> SUFFICES ASSUME ToolsInv
             PROVE  (BeginGoal \/ BuildSystemPrompt \/ RenewOrFail \/ ModelEnds
                        \/ \E calls \in Proposals : ModelCalls(calls)) => ToolsInv'
  BY Zenon
<1> USE DEF tokenVars, listVars, turnVars
<1>0. ASSUME ReturnFromGoal PROVE TurnInv'
  <2>1. agCalls' = << >> /\ agAnswers' = << >> /\ agTurn' = << >> /\ agPc' = "idle" BY Zenon, <1>0 DEF ReturnFromGoal
  <2>2. Called(agAnswers)' = << >> BY <2>1 DEF Called
  <2>3. << >> \o << >> = << >> BY Zenon, ConcatEmptySeq, EmptySeq
  <2> QED BY Zenon, <2>1, <2>2, <2>3, EmptySeq DEF TurnInv
<1>1. ASSUME BeginGoal PROVE ToolsInv'
  <2>1. GrantInv' BY Zenon, <1>1, GrantsSame DEF BeginGoal, ToolsInv
  <2>2. TurnInv' BY Zenon, <1>1, TurnSame DEF BeginGoal, ToolsInv
  <2>3. BudgetInv' BY Zenon, <1>1 DEF BeginGoal, BudgetInv, ToolsInv
  <2> QED BY Zenon, <1>1, <2>1, <2>2, <2>3 DEF BeginGoal, ToolsInv
<1>2. ASSUME BuildSystemPrompt PROVE ToolsInv'
  <2>1. /\ UNCHANGED <<registry, manifest, agToken, approved, agList, reached, agCalls, agAnswers, agTurn, agBudget, fsReads>>
        /\ agPc = "prompt" /\ agPc' = "refresh" /\ agAfter' = "renew" /\ agCat1' = {} /\ agLookups' \subseteq agToken.tools
    BY Zenon, <1>2 DEF BuildSystemPrompt, StartRefresh
  <2>2. \A n : Entitled(n) => Entitled(n)' BY Zenon, <2>1, EntitledStays
  <2>3. GrantInv' BY Zenon, <2>1, <2>2 DEF GrantInv, ToolsInv, VerifySignature, Signature
  <2>4. TurnInv' BY Zenon, <2>1, TurnSame DEF ToolsInv
  <2>5. BudgetInv' BY Zenon, <2>1 DEF BudgetInv, ToolsInv
  <2> QED BY Zenon, <2>1, <2>3, <2>4, <2>5 DEF ToolsInv
<1>3. ASSUME RenewOrFail PROVE ToolsInv'
  <2>1. /\ UNCHANGED <<registry, manifest, approved, agLookups, agCat1, agAfter, agList, reached, agBudget, fsReads>>
        /\ agPc = "renew" /\ agToken' = MaybeRenewed(agToken)
    BY Zenon, <1>3 DEF RenewOrFail
  <2>2. agToken'.tools = agToken.tools /\ VerifySignature(agToken')
    <3>1. CASE MaybeRenewed(agToken) = agToken BY Zenon, <2>1, <3>1 DEF GrantInv, ToolsInv
    <3>2. CASE MaybeRenewed(agToken) # agToken
      <4>1. HandleRenewal(agToken) = {Mint(agToken.tools)} BY Zenon DEF HandleRenewal, GrantInv, ToolsInv
      <4>2. MaybeRenewed(agToken) = Mint(agToken.tools) BY Zenon, <3>2, <4>1 DEF MaybeRenewed
      <4> QED BY Zenon, <2>1, <4>2, MintFacts
    <3> QED BY Zenon, <3>1, <3>2
  <2>3. \A n : Entitled(n) => Entitled(n)' BY Zenon, <2>1, EntitledStays
  <2>4. GrantInv' BY Zenon, <2>1, <2>2, <2>3 DEF GrantInv, ToolsInv
  <2>5. TurnInv'
    <3>1. CASE ReturnFromGoal BY Zenon, <1>0, <3>1
    <3>2. CASE agPc' = "llm" /\ UNCHANGED <<agCalls, agTurn, agAnswers>> BY Zenon, <3>2, TurnSame DEF ToolsInv
    <3> QED BY Zenon, <1>3, <3>1, <3>2 DEF RenewOrFail
  <2>6. BudgetInv' BY Zenon, <2>1 DEF BudgetInv, ToolsInv
  <2> QED BY Zenon, <2>1, <2>4, <2>5, <2>6 DEF ToolsInv
<1>4. ASSUME ModelEnds PROVE ToolsInv'
  <2>1. GrantInv' BY Zenon, <1>4, GrantsSame DEF ModelEnds, ToolsInv
  <2>2. TurnInv' BY Zenon, <1>0, <1>4 DEF ModelEnds
  <2>3. BudgetInv' BY Zenon, <1>4 DEF ModelEnds, BudgetInv, ToolsInv
  <2> QED BY Zenon, <1>4, <2>1, <2>2, <2>3 DEF ModelEnds, ToolsInv
<1>5. ASSUME NEW calls \in Proposals, ModelCalls(calls) PROVE ToolsInv'
  <2>1. GrantInv' BY Zenon, <1>5, GrantsSame DEF ModelCalls, ToolsInv
  <2>2. TurnInv'
    <3>1. CASE ReturnFromGoal BY Zenon, <1>0, <3>1
    <3>2. CASE agPc' = "call" /\ agCalls' = calls /\ agTurn' = calls /\ agAnswers' = << >>
      <4>1. calls \in Seq(KnownTools) /\ calls # << >> BY Zenon, ToolsAssumption
      <4>2. Called(agAnswers)' = << >> BY <3>2 DEF Called
      <4>3. << >> \o calls = calls BY Zenon, <4>1, ConcatEmptySeq
      <4> QED BY Zenon, <3>2, <4>1, <4>2, <4>3, EmptySeq DEF TurnInv
    <3> QED BY Zenon, <1>5, <3>1, <3>2 DEF ModelCalls
  <2>3. BudgetInv' BY Zenon, <1>5 DEF ModelCalls, BudgetInv, ToolsInv
  <2> QED BY Zenon, <1>5, <2>1, <2>2, <2>3 DEF ModelCalls, ToolsInv
<1> QED BY Zenon, <1>1, <1>2, <1>3, <1>4, <1>5

\* A call answered inside the executor.
LEMMA AnswersKeep ==
    ToolsInv /\ (RefuseCall \/ HandleCat2 \/ AskForTool \/ AnswerApproved \/ HilRefused) => ToolsInv'
<1> SUFFICES ASSUME ToolsInv
             PROVE  (RefuseCall \/ HandleCat2 \/ AskForTool \/ AnswerApproved \/ HilRefused) => ToolsInv'
  BY Zenon
<1> USE DEF tokenVars, listVars, turnVars
<1>0. ASSUME UNCHANGED <<registry, manifest, agToken, approved, agLookups, agCat1, agList, reached, agBudget, fsReads>>,
             agPc # "none", TurnInv'
      PROVE  ToolsInv'
  <2>1. GrantInv' BY Zenon, <1>0, GrantsSame DEF ToolsInv
  <2>2. BudgetInv' BY Zenon, <1>0 DEF BudgetInv, ToolsInv
  <2> QED BY Zenon, <1>0, <2>1, <2>2 DEF ToolsInv
<1>a. agPc \in {"call", "hil", "answer"} => agCalls # << >> BY Zenon DEF TurnInv, ToolsInv
<1>1. ASSUME RefuseCall PROVE ToolsInv'
  <2>1. TurnInv'
    <3>1. "refused" \in Endings BY Zenon DEF Endings
    <3> QED BY Zenon, <1>1, <1>a, <3>1, AnswerKeeps DEF RefuseCall, ToolsInv
  <2> QED BY Zenon, <1>0, <1>1, <2>1 DEF RefuseCall
<1>2. ASSUME HandleCat2 PROVE ToolsInv'
  <2> DEFINE n == Head(agCalls)
             kind == IF n \in AlwaysPresent THEN "listed" ELSE "not wired"
  <2>1. /\ UNCHANGED <<registry, manifest, agToken, approved, agLookups, agCat1, agList, reached, fsReads, agTurn>>
        /\ agPc = "call" /\ AnswerCall(kind) /\ agBudget' = Spent(n)
    BY Zenon, <1>2 DEF HandleCat2
  <2>2. TurnInv'
    <3>1. kind \in Endings BY Zenon DEF Endings
    <3> QED BY Zenon, <1>a, <2>1, <3>1, AnswerKeeps DEF ToolsInv
  <2>3. GrantInv' BY Zenon, <2>1, GrantsSame DEF ToolsInv
  <2>4. BudgetInv'
    <3>1. agBudget \in Int /\ agBudget >= -1 /\ fsReads \in Nat /\ (agBudget # -1 => fsReads + agBudget <= 1)
      BY Zenon DEF BudgetInv, ToolsInv
    <3>2. fsReads' = fsReads /\ (agBudget' = agBudget \/ (agBudget > 0 /\ agBudget' = agBudget - 1))
      BY Zenon, <2>1 DEF Spent
    <3> HIDE DEF n, kind
    <3> QED BY <3>1, <3>2 DEF BudgetInv
  <2> QED BY Zenon, <2>1, <2>2, <2>3, <2>4 DEF ToolsInv
<1>3. ASSUME AskForTool PROVE ToolsInv'
  <2>1. TurnInv'
    <3>1. CASE agPc' = "hil" /\ UNCHANGED <<agCalls, agAnswers>>
      BY Zenon, <1>3, <1>a, <3>1, TurnSame DEF AskForTool, ToolsInv
    <3>2. CASE AnswerCall("denied")
      <4>1. "denied" \in Endings BY Zenon DEF Endings
      <4> QED BY Zenon, <1>3, <1>a, <3>2, <4>1, AnswerKeeps DEF AskForTool, ToolsInv
    <3> QED BY Zenon, <1>3, <3>1, <3>2 DEF AskForTool
  <2> QED BY Zenon, <1>0, <1>3, <2>1 DEF AskForTool
<1>4. ASSUME AnswerApproved PROVE ToolsInv'
  <2>1. TurnInv'
    <3>1. "approved" \in Endings BY Zenon DEF Endings
    <3> QED BY Zenon, <1>4, <1>a, <3>1, AnswerKeeps DEF AnswerApproved, ToolsInv
  <2> QED BY Zenon, <1>0, <1>4, <2>1 DEF AnswerApproved
<1>5. ASSUME HilRefused PROVE ToolsInv'
  <2>1. TurnInv'
    <3>1. "denied" \in Endings BY DEF Endings
    <3> QED BY Zenon, <1>5, <1>a, <3>1, AnswerKeeps DEF HilRefused, ToolsInv
  <2> QED BY Zenon, <1>0, <1>5, <2>1 DEF HilRefused
<1> QED BY Zenon, <1>1, <1>2, <1>3, <1>4, <1>5

\* A call that leaves the executor: validated under the token of the moment,
\* which is not empty, and paid for.
LEMMA DispatchKeeps == ToolsInv /\ DispatchViaRouter => ToolsInv'
<1> SUFFICES ASSUME ToolsInv, DispatchViaRouter PROVE ToolsInv' OBVIOUS
<1> USE DEF tokenVars, listVars, turnVars
<1> DEFINE n == Head(agCalls)
<1>1. /\ UNCHANGED <<registry, manifest, agToken, approved, agLookups, agCat1, agList, agTurn>>
      /\ agPc = "call" /\ ValidateToolCall(n) /\ agBudget' = Spent(n)
  BY Zenon DEF DispatchViaRouter
<1>2. agCalls # << >> BY Zenon, <1>1 DEF TurnInv, ToolsInv
<1>3. CASE AnswerCall("error") /\ UNCHANGED <<fsReads, reached>>
  <2>1. TurnInv'
    <3>1. "error" \in Endings BY Zenon DEF Endings
    <3> QED BY Zenon, <1>1, <1>2, <1>3, <3>1, AnswerKeeps DEF ToolsInv
  <2>2. GrantInv' BY Zenon, <1>1, <1>3, GrantsSame DEF ToolsInv
  <2>3. BudgetInv' BY <1>1, <1>3 DEF BudgetInv, ToolsInv, Spent
  <2> QED BY Zenon, <1>1, <2>1, <2>2, <2>3 DEF ToolsInv
<1>4. ASSUME NEW caller, SendRequest(n, caller) PROVE ToolsInv'
  <2>1. PICK end \in {"result", "error"} : AnswerCall(end) BY Zenon, <1>4 DEF SendRequest
  <2>2. TurnInv'
    <3>1. end \in Endings BY Zenon DEF Endings
    <3> QED BY Zenon, <1>1, <1>2, <2>1, <3>1, AnswerKeeps DEF ToolsInv
  <2>3. reached' = {[tool |-> n, caller |-> caller, late |-> FALSE]}
    <3>1. IsExpired(agToken) = FALSE BY <1>1 DEF ValidateToolCall, IsExpired
    <3> QED BY Zenon, <1>4, <3>1 DEF SendRequest
  <2>4. Entitled(n)
    <3>1. agToken.tools # {} BY Zenon, <1>1 DEF GrantInv, ToolsInv
    <3>2. n \in agToken.tools \/ n \in AlwaysPresent BY Zenon, <1>1, <3>1 DEF ValidateToolCall, GrantCheck, HasTool
    <3> QED BY Zenon, <3>2 DEF Entitled, GrantInv, ToolsInv
  <2>5. \A m : Entitled(m) => Entitled(m)' BY Zenon, <1>1, EntitledStays
  <2>6. \A r \in reached' : Entitled(r.tool)' /\ ~r.late
    <3> HIDE DEF n
    <3>1. \A m : m = n => Entitled(m)' BY Zenon, <2>4, <2>5
    <3>2. \A r \in reached' : r.tool = n /\ r.late = FALSE BY <2>3
    <3> QED BY Zenon, <3>1, <3>2
  <2>7. GrantInv' BY Zenon, <1>1, <2>1, <2>5, <2>6 DEF GrantInv, ToolsInv, VerifySignature, Signature
  <2>8. BudgetInv'
    <3>1. fsReads' = fsReads + (IF n = FsRead /\ agBudget # -1 THEN 1 ELSE 0) BY Zenon, <1>4 DEF SendRequest
    <3>2. ~(n = FsRead /\ agBudget = 0) BY Zenon, <1>1 DEF ValidateToolCall, HasBudget
    <3> HIDE DEF n
    <3> QED BY <1>1, <3>1, <3>2 DEF BudgetInv, ToolsInv, Spent
  <2> QED BY Zenon, <1>1, <2>2, <2>7, <2>8 DEF ToolsInv
<1> QED BY Zenon, <1>3, <1>4 DEF DispatchViaRouter, DispatchKernelSyscall, DispatchCat1Tool

LEMMA ApprovalKeeps == ASSUME NEW withToken \in BOOLEAN PROVE ToolsInv /\ HilApproved(withToken) => ToolsInv'
<1> SUFFICES ASSUME ToolsInv, HilApproved(withToken) PROVE ToolsInv' BY Zenon
<1>1. /\ UNCHANGED <<registry, manifest, agList, reached, agCalls, agAnswers, agTurn, agBudget, fsReads>>
      /\ agPc = "hil" /\ agPc' = "refresh" /\ agAfter' = "answer" /\ agCat1' = {} /\ agLookups' \subseteq agToken'.tools
      /\ approved \subseteq approved'
  BY Zenon DEF HilApproved, StartRefresh, turnVars
<1>2. \A n : Entitled(n) => Entitled(n)' BY Zenon, <1>1, EntitledStays
<1>3. /\ VerifySignature(agToken') /\ agToken.tools \subseteq agToken'.tools
      /\ \A n \in agToken'.tools : n \in agToken.tools \/ (n = FsRead /\ n \in approved')
  <2>1. CASE withToken
    <3>1. agToken' = Mint(agToken.tools \cup {FsRead}) /\ FsRead \in approved' BY Zenon, <2>1 DEF HilApproved
    <3> QED BY Zenon, <3>1, MintFacts
  <2>2. CASE ~withToken
    BY Zenon, <2>2 DEF HilApproved, GrantInv, ToolsInv
  <2> QED BY Zenon, <2>1, <2>2
<1>4. \A n \in agToken'.tools : Entitled(n)' /\ n \in KnownTools
  <2>1. \A n : n \in approved' => Entitled(n)' BY Zenon DEF Entitled
  <2>2. FsRead \in KnownTools BY Zenon DEF KnownTools, ServiceTools
  <2> QED BY Zenon, <1>2, <1>3, <2>1, <2>2 DEF GrantInv, ToolsInv
<1>5. GrantInv' BY Zenon, <1>1, <1>2, <1>3, <1>4 DEF GrantInv, ToolsInv
<1>6. TurnInv'
  <2>1. agCalls # << >> BY Zenon, <1>1 DEF TurnInv, ToolsInv
  <2> QED BY Zenon, <1>1, <2>1, TurnSame DEF ToolsInv
<1>7. BudgetInv' BY Zenon, <1>1 DEF BudgetInv, ToolsInv
<1> QED BY Zenon, <1>1, <1>5, <1>6, <1>7 DEF ToolsInv

LEMMA WorldKeeps ==
    ToolsInv /\ (Tick \/ (\E n \in KnownTools : RegistryChanges(n)) \/ UNCHANGED toolVars) => ToolsInv'
<1> SUFFICES ASSUME ToolsInv, Tick \/ (\E n \in KnownTools : RegistryChanges(n)) \/ UNCHANGED toolVars
             PROVE  ToolsInv'
  BY Zenon
<1> USE DEF tokenVars, listVars, turnVars, toolVars
<1>1. /\ UNCHANGED <<manifest, agPc, agToken, approved, agLookups, agCat1, agAfter, agList, reached, agCalls, agAnswers,
                     agTurn, agBudget, fsReads>>
      /\ registry' \subseteq registry \cup Movable
  BY Zenon DEF Tick, RegistryChanges
<1>2. GrantInv' BY Zenon, <1>1, GrantsSame DEF ToolsInv
<1>3. TurnInv' BY Zenon, <1>1, TurnSame DEF ToolsInv
<1>4. BudgetInv' BY Zenon, <1>1 DEF BudgetInv, ToolsInv
<1> QED BY Zenon, <1>1, <1>2, <1>3, <1>4, ToolsAssumption DEF ToolsInv

\* Whatever is proposed, renewed, approved, registered or removed: what leaves
\* the executor, what its token holds and what the model is offered was asked for
\* or approved, no request is late, every call of a turn is answered once and in
\* order, and the budget is kept (resolve_granted_tools, maybe_renew_token,
\* validate_tool_call, dispatch_via_router, run_with_client), for any life time of
\* tokens, proposals and tools that come and go.
THEOREM ToolsAreGranted == ToolsSpec => []GrantsAreTrue
<1>1. ToolsInv /\ [ToolsNext]_toolVars => ToolsInv'
  BY Zenon, SpawnAgentKeeps, RefreshKeeps, LoopKeeps, AnswersKeep, DispatchKeeps, ApprovalKeeps, WorldKeeps DEF ToolsNext
<1>2. ToolsInv => GrantsAreTrue BY Zenon DEF ToolsInv, GrantInv, TurnInv, BudgetInv, GrantsAreTrue, Called
<1> QED BY <1>1, <1>2, ToolsInitInv, PTL DEF ToolsSpec

=============================================================================
