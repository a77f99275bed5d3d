----------------------------- MODULE BootProofs -----------------------------
(***************************************************************************)
(* Boot proved for any commands and deaths on a root: BootInv says what    *)
(* each stage of a set-up or a start has seen of the files, the stores,    *)
(* the sockets and the agent's record.                                     *)
(***************************************************************************)
EXTENDS Boot, TLAPS

-----------------------------------------------------------------------------
(* Boot: set-up and start                                                  *)

StageSet == {"off", "checked", "keyed", "stored", "kernel", "wired", "exec", "llm", "services",
             "restored", "up"}

LEMMA StageRanks ==
    /\ Rank("off") = 1 /\ Rank("checked") = 2 /\ Rank("keyed") = 3 /\ Rank("stored") = 4 /\ Rank("kernel") = 5
    /\ Rank("wired") = 6 /\ Rank("exec") = 7 /\ Rank("llm") = 8 /\ Rank("services") = 9
    /\ Rank("restored") = 10 /\ Rank("up") = 11
<1>1. ASSUME NEW i \in 1 .. 11 PROVE Rank(Stages[i]) = i
  <2>1. DOMAIN Stages = 1 .. 11 BY DEF Stages
  <2>2. \A j \in DOMAIN Stages : Stages[j] = Stages[i] => j = i BY DEF Stages
  <2> QED BY Zenon, <2>1, <2>2 DEF Rank
<1>2. /\ Stages[1] = "off" /\ Stages[2] = "checked" /\ Stages[3] = "keyed" /\ Stages[4] = "stored"
      /\ Stages[5] = "kernel" /\ Stages[6] = "wired" /\ Stages[7] = "exec" /\ Stages[8] = "llm"
      /\ Stages[9] = "services" /\ Stages[10] = "restored" /\ Stages[11] = "up"
  BY Zenon DEF Stages
<1>3. /\ Rank(Stages[1]) = 1 /\ Rank(Stages[2]) = 2 /\ Rank(Stages[3]) = 3 /\ Rank(Stages[4]) = 4
      /\ Rank(Stages[5]) = 5 /\ Rank(Stages[6]) = 6 /\ Rank(Stages[7]) = 7 /\ Rank(Stages[8]) = 8
      /\ Rank(Stages[9]) = 9 /\ Rank(Stages[10]) = 10 /\ Rank(Stages[11]) = 11
  BY <1>1
<1> QED BY <1>2, <1>3

\* The stages from which on a daemon is past one that a property names.
FromRestored == {"restored", "up"}
FromWired == {"wired", "exec", "llm", "services"} \cup FromRestored
FromKernel == {"kernel"} \cup FromWired
FromStored == {"stored"} \cup FromKernel
FromKeyed == {"keyed"} \cup FromStored

LEMMA PastMeans ==
    ASSUME NEW d, btDaemon[d].stage \in StageSet \cup Over
    PROVE  /\ Past(d, "restored") <=> btDaemon[d].stage \in FromRestored
           /\ Past(d, "wired") <=> btDaemon[d].stage \in FromWired
           /\ Past(d, "kernel") <=> btDaemon[d].stage \in FromKernel
           /\ Past(d, "stored") <=> btDaemon[d].stage \in FromStored
           /\ Past(d, "keyed") <=> btDaemon[d].stage \in FromKeyed
           /\ Alive(d) <=> btDaemon[d].stage \in StageSet \ {"off"}
BY StageRanks
   DEF Past, Alive, Over, StageSet, FromRestored, FromWired, FromKernel, FromStored, FromKeyed

LEMMA StagesRange == Range(Stages) = StageSet
<1>1. DOMAIN Stages = 1 .. 11 BY DEF Stages
<1>2. Range(Stages) \subseteq StageSet BY <1>1 DEF Range, Stages, StageSet
<1>3. /\ Stages[1] = "off" /\ Stages[2] = "checked" /\ Stages[3] = "keyed" /\ Stages[4] = "stored"
      /\ Stages[5] = "kernel" /\ Stages[6] = "wired" /\ Stages[7] = "exec" /\ Stages[8] = "llm"
      /\ Stages[9] = "services" /\ Stages[10] = "restored" /\ Stages[11] = "up"
  BY DEF Stages
<1>4. StageSet \subseteq Range(Stages) BY <1>1, <1>3 DEF Range, StageSet
<1> QED BY Zenon, <1>2, <1>4

EtcSet == {"kernel.yaml", "others", "llm.yaml", "mcp.json"}

LEMMA EtcRange == /\ Range(EtcFiles) = EtcSet /\ Len(EtcFiles) = 4
                  /\ \A n \in 1 .. 4 : EtcFiles[n] \in EtcSet
                  /\ \A f \in EtcSet : \E n \in 1 .. 4 : f = EtcFiles[n]
<1>1. DOMAIN EtcFiles = 1 .. 4 /\ Len(EtcFiles) = 4 BY DEF EtcFiles
<1>2. /\ EtcFiles[1] = "kernel.yaml" /\ EtcFiles[2] = "others" /\ EtcFiles[3] = "llm.yaml" /\ EtcFiles[4] = "mcp.json"
  BY Zenon DEF EtcFiles
<1>3. \A n \in 1 .. 4 : EtcFiles[n] \in EtcSet BY <1>2 DEF EtcSet
<1>4. \A f \in EtcSet : \E n \in 1 .. 4 : f = EtcFiles[n] BY <1>2 DEF EtcSet
<1>5. Range(EtcFiles) = EtcSet BY <1>1, <1>3, <1>4 DEF Range
<1> QED BY Zenon, <1>1, <1>3, <1>4, <1>5

SetupSteps == {"off", "key", "auth?", "auth", "etc", "told", "existing", "dead"}
ToolKinds == {"syscalls", "exec", "fs", "llm"}

\* What is written of a set-up.  Who got past the key has seen one, and who sees
\* no auth.conf is before its writing; when no two set-ups overlap, one that
\* writes auth.conf is its only author and has found every file it passed.
FileTypes ==
    /\ btKey \in BootFile /\ btAuth \in BootFile
    /\ btEtc \in [EtcSet -> {"none", "cut", "whole"}]
    /\ btLlm \in LlmEdits \cup {LlmTemplate}
    /\ btSetup \in [Setups -> [step : SetupSteps, n : 1 .. 5]]
    /\ btFuel \in [commands : Int, deaths : Int, overlap : BOOLEAN]

KeyFirst ==
    /\ btAuth.state # "none" => btKey.state # "none"
    /\ \A s \in Setups : btSetup[s].step \in {"auth?", "auth", "etc"} => btKey.state # "none"
    /\ \A s \in Setups : btSetup[s].step \in {"off", "key", "auth?", "auth"} => btSetup[s].n = 1

AuthorOK(s) ==
    /\ btSetup[s].step \in {"key", "auth"} => btAuth.state = "none"
    /\ btSetup[s].step \in {"etc", "told"} => btAuth = Whole(s)
    /\ btSetup[s].step = "etc" => \A m \in 1 .. 4 : m < btSetup[s].n => btEtc[EtcFiles[m]] # "none"
    /\ btSetup[s].step = "told" => \A m \in 1 .. 4 : btEtc[EtcFiles[m]] # "none"

OneAuthor == btFuel.overlap = FALSE => /\ \A r, s \in Setups : Busy(r) /\ Busy(s) => r = s
                                       /\ \A s \in Setups : AuthorOK(s)

\* A daemon that got past its first look found an auth.conf; while no two
\* set-ups overlap the key it read is that of the root.
DaemonsKeyed ==
    \A d \in Daemons :
        /\ btDaemon[d].stage \in {"checked"} \cup FromKeyed => btAuth.state # "none"
        /\ btFuel.overlap = FALSE /\ btDaemon[d].stage \in FromKeyed => btDaemon[d].key = btKey.by

FileInv == FileTypes /\ KeyFirst /\ OneAuthor

\* The daemons: the one with the stores is the one that got past opening them,
\* and whoever bound a socket last has its tools.
DaemonSet == [stage : StageSet \cup Over, test : BOOLEAN, key : Setups \cup {0}, tools : SUBSET ToolKinds]

ServeInv ==
    /\ btDaemon \in [Daemons -> DaemonSet]
    /\ btStore \in Daemons \cup {0} /\ btSocket \in [Sockets -> Daemons \cup {0}]
    /\ \A d \in Daemons :
          /\ btDaemon[d].stage \in {"stored", "kernel"} => btDaemon[d].test = FALSE
          /\ btDaemon[d].stage \in FromStored /\ btDaemon[d].test = FALSE => btStore = d
          /\ btStore = d => btDaemon[d].stage \in FromStored /\ btDaemon[d].test = FALSE
          /\ btSocket["kernel"] = d => btDaemon[d].stage \in FromKernel \cup Over /\ btDaemon[d].test = FALSE
          /\ btDaemon[d].stage \in StageSet \ FromWired => btDaemon[d].tools = {}
          /\ \A k \in {"exec", "llm"} :
                k \in btDaemon[d].tools => btSocket[k] # 0 /\ k \in btDaemon[btSocket[k]].tools

\* The executors of the agent: there are some only while a daemon has the
\* stores, and more than one, or one of an agent that was not spawned early,
\* only when that daemon has restored the records.
Executors == btRuns.starting + btRuns.real + btRuns.mock

RunsInv ==
    /\ btRuns \in [record : {"none", "live", "final"}, starting : Nat, real : Nat, mock : Nat, early : BOOLEAN]
    /\ btRuns.record = "none" => Executors = 0
    /\ Executors <= 2
    /\ Executors > 0 => btStore # 0
    /\ Executors > 1 => btDaemon[btStore].stage \in FromRestored
    /\ btRuns.early = FALSE =>
          Executors <= 1 /\ btRuns.mock = 0 /\ (Executors > 0 => btDaemon[btStore].stage \in FromRestored)

BootInv == FileInv /\ DaemonsKeyed /\ ServeInv /\ RunsInv /\ ReloadTells

LEMMA BootInvGives == BootInv => BootTypeOK /\ BootIsKept
<1> SUFFICES ASSUME BootInv PROVE BootTypeOK /\ BootIsKept BY Zenon
<1>0. \A d \in Daemons : btDaemon[d].stage \in StageSet \cup Over BY Zenon DEF BootInv, ServeInv, DaemonSet
<1>1. BootTypeOK
  <2>1. Executors \in 0 .. 2 BY DEF BootInv, RunsInv, Executors
  <2>2. \A s \in Setups : btSetup[s].n \in 1 .. Len(EtcFiles) + 1 BY EtcRange DEF BootInv, FileInv, FileTypes
  <2> QED BY Zenon, <1>0, <2>1, <2>2, EtcRange, StagesRange
          DEF BootInv, FileInv, FileTypes, ServeInv, BootTypeOK, Executors
<1>2. StartedOnce BY Zenon DEF BootInv, RunsInv, StartedOnce, Executors
<1>3. OneKernel
  <2>1. \A d \in Daemons : btDaemon[d].test \in BOOLEAN BY Zenon DEF BootInv, ServeInv, DaemonSet
  <2>2. ASSUME NEW d \in Daemons, Past(d, "stored"), ~btDaemon[d].test PROVE btStore = d
    <3>1. btDaemon[d].stage \in FromStored BY Zenon, <1>0, <2>2, PastMeans
    <3>2. btDaemon[d].test = FALSE BY Zenon, <2>1, <2>2
    <3> QED BY Zenon, <3>1, <3>2 DEF BootInv, ServeInv
  <2>3. ASSUME btSocket["kernel"] # 0, Alive(btSocket["kernel"]) PROVE btStore = btSocket["kernel"]
    <3>1. btSocket["kernel"] \in Daemons BY Zenon, <2>3 DEF BootInv, ServeInv, Sockets
    <3>2. btDaemon[btSocket["kernel"]].stage \in FromKernel \cup Over /\ btDaemon[btSocket["kernel"]].test = FALSE
      BY Zenon, <3>1 DEF BootInv, ServeInv
    <3> QED BY Zenon, <2>3, <3>1, <3>2 DEF BootInv, ServeInv, Alive, FromStored
  <2> QED BY Zenon, <2>2, <2>3 DEF OneKernel
<1>4. KeysAreKept
  <2> SUFFICES ASSUME ~btFuel.overlap
               PROVE  /\ \A d \in Daemons : Past(d, "keyed") => btDaemon[d].key = btKey.by
                      /\ \A s \in Setups : btSetup[s].step = "told" =>
                            btAuth = Whole(s) /\ \A f \in Range(EtcFiles) : btEtc[f] # "none"
    BY Zenon DEF KeysAreKept
  <2>1. btFuel.overlap = FALSE BY Zenon DEF BootInv, FileInv, FileTypes
  <2>2. \A d \in Daemons : Past(d, "keyed") => btDaemon[d].key = btKey.by
    BY Zenon, <1>0, <2>1, PastMeans DEF BootInv, DaemonsKeyed
  <2>3. \A s \in Setups : AuthorOK(s) BY Zenon, <2>1 DEF BootInv, FileInv, OneAuthor
  <2> QED BY <2>2, <2>3, EtcRange DEF AuthorOK
<1>5. ToolsAreServed
  <2> SUFFICES ASSUME NEW d \in Daemons, NEW k \in {"exec", "llm"}, k \in btDaemon[d].tools
               PROVE  btSocket[k] = d \/ \E e \in Daemons \ {d} : btSocket[k] = e /\ k \in btDaemon[e].tools
    BY DEF ToolsAreServed
  <2>1. btSocket[k] \in Daemons /\ k \in btDaemon[btSocket[k]].tools BY DEF BootInv, ServeInv, Sockets
  <2> QED BY Zenon, <2>1
<1> QED BY Zenon, <1>1, <1>2, <1>3, <1>4, <1>5 DEF BootInv, BootIsKept

LEMMA BootInitInv == BootInit => BootInv
<1> SUFFICES ASSUME NEW ready \in BOOLEAN,
        /\ btKey = IF ready THEN Whole(1) ELSE NotThere
        /\ btAuth = IF ready THEN Whole(1) ELSE NotThere
        /\ btEtc = [f \in Range(EtcFiles) |-> IF ready THEN "whole" ELSE "none"]
        /\ btLlm = LlmTemplate
        /\ btSetup = [s \in Setups |-> IF ready /\ s = 1 THEN [step |-> "told", n |-> Len(EtcFiles) + 1]
                                                        ELSE [step |-> "off", n |-> 1]]
        /\ btDaemon = [d \in Daemons |-> [stage |-> "off", test |-> FALSE, key |-> 0, tools |-> {}]]
        /\ btStore = 0
        /\ btSocket = [k \in Sockets |-> 0]
        /\ btRuns = [record |-> "none", starting |-> 0, real |-> 0, mock |-> 0, early |-> FALSE]
        /\ btReload = NotReloaded
        /\ btFuel = [commands |-> IF ready THEN MaxCommands ELSE MaxCommands - 1, deaths |-> MaxDeaths,
                     overlap |-> FALSE]
      PROVE BootInv
  BY Zenon DEF BootInit
<1>1. btKey \in BootFile /\ btAuth \in BootFile BY Zenon, BootAssumption DEF BootFile, Whole, NotThere
<1>2. btEtc \in [EtcSet -> {"none", "cut", "whole"}] BY Zenon, EtcRange
<1>3. btSetup \in [Setups -> [step : SetupSteps, n : 1 .. 5]] BY EtcRange DEF SetupSteps
<1>4. btFuel \in [commands : Int, deaths : Int, overlap : BOOLEAN]
  <2>1. (IF ready THEN MaxCommands ELSE MaxCommands - 1) \in Int /\ MaxDeaths \in Int BY BootAssumption
  <2> QED BY Zenon, <2>1
<1>5. FileTypes BY Zenon, <1>1, <1>2, <1>3, <1>4 DEF FileTypes
<1>6. KeyFirst BY Zenon DEF KeyFirst, Whole, NotThere
<1>7. \A s \in Setups : btSetup[s].step = "off" \/ (ready /\ s = 1 /\ btSetup[s].step = "told") BY Zenon
<1>8. OneAuthor BY Zenon, <1>7, EtcRange DEF OneAuthor, AuthorOK, Busy, Whole
<1>9. \A d \in Daemons : /\ btDaemon[d].stage = "off" /\ btDaemon[d].tools = {} /\ d # 0
  BY Zenon, BootAssumption
<1>10. DaemonsKeyed BY Zenon, <1>9 DEF DaemonsKeyed, FromKeyed, FromStored, FromKernel, FromWired, FromRestored
<1>11. ServeInv
  <2>1. [stage |-> "off", test |-> FALSE, key |-> 0, tools |-> {}] \in DaemonSet
    BY Zenon DEF DaemonSet, StageSet
  <2>2. btDaemon \in [Daemons -> DaemonSet] BY Zenon, <2>1
  <2> QED BY Zenon, <1>9, <2>2 DEF ServeInv, Sockets, FromKeyed, FromStored, FromKernel, FromWired, FromRestored
<1>12. RunsInv
  <2>1. btRuns \in [record : {"none", "live", "final"}, starting : Nat, real : Nat, mock : Nat, early : BOOLEAN]
    <3>1. 0 \in Nat BY Zenon
    <3> QED BY Zenon, <3>1
  <2>2. Executors = 0 /\ btRuns.mock = 0 BY DEF Executors
  <2> QED BY <2>1, <2>2 DEF RunsInv
<1>13. ReloadTells BY Zenon DEF ReloadTells, NotReloaded
<1> QED BY Zenon, <1>5, <1>6, <1>8, <1>10, <1>11, <1>12, <1>13 DEF BootInv, FileInv

-----------------------------------------------------------------------------
(* config init keeps the invariant *)

\* What every step of a set-up leaves alone, and how it moves.
LEMMA SetupTypes ==
    ASSUME FileTypes, NEW s \in Setups, NEW p \in SetupSteps, Step(s, p)
    PROVE  /\ btSetup' \in [Setups -> [step : SetupSteps, n : 1 .. 5]]
           /\ btSetup'[s].step = p /\ btSetup'[s].n = btSetup[s].n
           /\ \A r \in Setups : r # s => btSetup'[r] = btSetup[r]
BY Zenon DEF FileTypes, Step

LEMMA BeginsKeepsFiles == ASSUME FileInv, NEW s \in Setups, SetupBegins(s) PROVE FileInv'
<1> DEFINE p == IF btKey.state = "none" THEN "key" ELSE "auth?"
<1>1. p \in SetupSteps /\ Step(s, p) BY Zenon DEF SetupBegins, SetupSteps
<1>2. btSetup[s].step = "off" /\ UNCHANGED <<btKey, btAuth, btEtc, btLlm>> BY Zenon DEF SetupBegins, fileVars
<1>3. FileTypes BY Zenon DEF FileInv
<1>4. /\ btSetup' \in [Setups -> [step : SetupSteps, n : 1 .. 5]]
      /\ btSetup'[s].step = p /\ btSetup'[s].n = btSetup[s].n
      /\ \A r \in Setups : r # s => btSetup'[r] = btSetup[r]
  BY Zenon, <1>1, <1>3, SetupTypes
<1>5. btFuel' = [btFuel EXCEPT !.commands = @ - 1, !.overlap = @ \/ \E r \in Setups : Busy(r)] BY Zenon DEF SetupBegins
<1>6. btFuel.commands \in Int /\ btFuel.overlap \in BOOLEAN BY Zenon, <1>3 DEF FileTypes
<1>7. btFuel.commands - 1 \in Int BY <1>6
<1>8. btFuel' \in [commands : Int, deaths : Int, overlap : BOOLEAN] BY Zenon, <1>3, <1>5, <1>7 DEF FileTypes
<1>9. btFuel'.overlap = (btFuel.overlap \/ \E r \in Setups : Busy(r)) BY Zenon, <1>3, <1>5 DEF FileTypes
<1>10. btFuel'.overlap = FALSE => btFuel.overlap = FALSE /\ \A r \in Setups : ~Busy(r) BY Zenon, <1>6, <1>9
<1>11. FileTypes' BY Zenon, <1>2, <1>3, <1>4, <1>8 DEF FileTypes
<1>12. KeyFirst' BY <1>2, <1>4 DEF FileInv, KeyFirst
<1>13. OneAuthor'
  <2> SUFFICES ASSUME btFuel'.overlap = FALSE
               PROVE /\ \A q, r \in Setups : Busy(q)' /\ Busy(r)' => q = r
                     /\ \A r \in Setups : AuthorOK(r)'
    BY Zenon DEF OneAuthor
  <2>1. \A r \in Setups : ~Busy(r) /\ AuthorOK(r) BY Zenon, <1>10 DEF FileInv, OneAuthor
  <2>2. \A r \in Setups : r # s => ~Busy(r)' /\ AuthorOK(r)' BY <1>2, <1>4, <2>1 DEF Busy, AuthorOK
  <2>3. AuthorOK(s)' BY Zenon, <1>2, <1>4 DEF AuthorOK, FileInv, KeyFirst
  <2> QED BY Zenon, <2>2, <2>3
<1> QED BY Zenon, <1>11, <1>12, <1>13 DEF FileInv

\* A step that keeps what is known of overlaps, of a set-up that is under way.
LEMMA UnderWay ==
    ASSUME FileInv, NEW s \in Setups, Busy(s), btFuel'.overlap = btFuel.overlap,
           \A r \in Setups : r # s => btSetup'[r] = btSetup[r],
           btFuel.overlap = FALSE => AuthorOK(s)' /\ \A r \in Setups : r # s => AuthorOK(r)'
    PROVE  OneAuthor'
<1> SUFFICES ASSUME btFuel.overlap = FALSE
             PROVE /\ \A q, r \in Setups : Busy(q)' /\ Busy(r)' => q = r
                   /\ \A r \in Setups : AuthorOK(r)'
  BY Zenon DEF OneAuthor
<1>1. \A r \in Setups : r # s => ~Busy(r) BY Zenon DEF FileInv, OneAuthor
<1>2. \A r \in Setups : r # s => ~Busy(r)' BY Zenon, <1>1 DEF Busy
<1> QED BY Zenon, <1>2

\* While no two set-ups overlap, one that is under way and has not written
\* auth.conf meets none that told.
LEMMA NobodyTold ==
    ASSUME FileInv, NEW s \in Setups, btSetup[s].step \in {"key", "auth"}, btFuel.overlap = FALSE,
           NEW r \in Setups, r # s
    PROVE  btSetup[r].step \in {"off", "existing", "dead"}
<1>1. Busy(s) /\ AuthorOK(s) /\ AuthorOK(r) BY Zenon DEF FileInv, OneAuthor, Busy
<1>2. ~Busy(r) BY Zenon, <1>1 DEF FileInv, OneAuthor
<1>3. btSetup[r].step # "told" BY <1>1 DEF AuthorOK, Whole
<1> QED BY Zenon, <1>2, <1>3 DEF Busy

LEMMA KeyKeepsFiles == ASSUME FileInv, NEW s \in Setups, WritesKey(s) PROVE FileInv'
<1>1. btSetup[s].step = "key" /\ btKey' = Whole(s) /\ Step(s, "auth?") /\ UNCHANGED <<btAuth, btEtc, btLlm, btFuel>>
  BY Zenon DEF WritesKey
<1>2. FileTypes BY DEF FileInv
<1>3. /\ btSetup' \in [Setups -> [step : SetupSteps, n : 1 .. 5]]
      /\ btSetup'[s].step = "auth?" /\ btSetup'[s].n = btSetup[s].n
      /\ \A r \in Setups : r # s => btSetup'[r] = btSetup[r]
  BY Zenon, <1>1, <1>2, SetupTypes DEF SetupSteps
<1>4. FileTypes' BY Zenon, <1>1, <1>2, <1>3 DEF FileTypes, BootFile, Whole
<1>5. KeyFirst' BY Zenon, <1>1, <1>3 DEF FileInv, KeyFirst, Whole
<1>6. ASSUME btFuel.overlap = FALSE PROVE AuthorOK(s)' /\ \A r \in Setups : r # s => AuthorOK(r)'
  <2>1. \A r \in Setups : AuthorOK(r) BY Zenon, <1>6 DEF FileInv, OneAuthor
  <2> QED BY <1>1, <1>3, <2>1 DEF AuthorOK
<1>7. OneAuthor' BY Zenon, <1>1, <1>3, <1>6, UnderWay DEF Busy
<1> QED BY <1>4, <1>5, <1>7 DEF FileInv

LEMMA ChecksKeepsFiles == ASSUME FileInv, NEW s \in Setups, ChecksAuth(s) PROVE FileInv'
<1> DEFINE p == IF btAuth.state = "none" THEN "auth" ELSE "existing"
<1>1. /\ btSetup[s].step = "auth?" /\ p \in SetupSteps /\ Step(s, p)
      /\ UNCHANGED <<btKey, btAuth, btEtc, btLlm, btFuel>>
  BY Zenon DEF ChecksAuth, fileVars, SetupSteps
<1>2. FileTypes BY DEF FileInv
<1>3. /\ btSetup' \in [Setups -> [step : SetupSteps, n : 1 .. 5]]
      /\ btSetup'[s].step = p /\ btSetup'[s].n = btSetup[s].n
      /\ \A r \in Setups : r # s => btSetup'[r] = btSetup[r]
  BY Zenon, <1>1, <1>2, SetupTypes
<1>4. FileTypes' BY Zenon, <1>1, <1>2, <1>3 DEF FileTypes
<1>5. KeyFirst' BY <1>1, <1>3 DEF FileInv, KeyFirst
<1>6. ASSUME btFuel.overlap = FALSE PROVE AuthorOK(s)' /\ \A r \in Setups : r # s => AuthorOK(r)'
  <2>1. \A r \in Setups : AuthorOK(r) BY <1>6 DEF FileInv, OneAuthor
  <2> QED BY Zenon, <1>1, <1>3, <2>1 DEF AuthorOK
<1>7. OneAuthor' BY Zenon, <1>1, <1>3, <1>6, UnderWay DEF Busy
<1> QED BY <1>4, <1>5, <1>7 DEF FileInv

LEMMA AuthKeepsFiles == ASSUME FileInv, NEW s \in Setups, WritesAuth(s) PROVE FileInv'
<1>0. btSetup[s].n = 1 BY Zenon DEF WritesAuth, FileInv, KeyFirst
<1>1. btSetup[s].step = "auth" /\ btAuth' = Whole(s) /\ Step(s, "etc") /\ UNCHANGED <<btKey, btEtc, btLlm, btFuel>>
  BY Zenon DEF WritesAuth
<1>2. FileTypes BY DEF FileInv
<1>3. /\ btSetup' \in [Setups -> [step : SetupSteps, n : 1 .. 5]]
      /\ btSetup'[s].step = "etc" /\ btSetup'[s].n = btSetup[s].n
      /\ \A r \in Setups : r # s => btSetup'[r] = btSetup[r]
  BY Zenon, <1>1, <1>2, SetupTypes DEF SetupSteps
<1>4. FileTypes' BY Zenon, <1>1, <1>2, <1>3 DEF FileTypes, BootFile, Whole
<1>5. KeyFirst' BY <1>1, <1>3 DEF FileInv, KeyFirst
<1>6. ASSUME btFuel.overlap = FALSE PROVE AuthorOK(s)' /\ \A r \in Setups : r # s => AuthorOK(r)'
  <2>1. \A r \in Setups : r # s => btSetup'[r].step \in {"off", "existing", "dead"} BY Zenon, <1>1, <1>3, <1>6, NobodyTold
  <2>2. AuthorOK(s)' BY <1>0, <1>1, <1>3 DEF AuthorOK
  <2> QED BY Zenon, <2>1, <2>2 DEF AuthorOK
<1>7. OneAuthor' BY Zenon, <1>1, <1>3, <1>6, UnderWay DEF Busy
<1> QED BY <1>4, <1>5, <1>7 DEF FileInv

LEMMA EtcKeepsFiles == ASSUME FileInv, NEW s \in Setups, WritesEtc(s) PROVE FileInv'
<1> DEFINE n == btSetup[s].n
<1>1. /\ btSetup[s].step = "etc" /\ n <= Len(EtcFiles)
      /\ btEtc' = [btEtc EXCEPT ![EtcFiles[n]] = IF @ = "none" THEN "whole" ELSE @]
      /\ btSetup' = [btSetup EXCEPT ![s].n = n + 1]
      /\ UNCHANGED <<btKey, btAuth, btLlm, btFuel>>
  BY Zenon DEF WritesEtc
<1>2. FileTypes BY DEF FileInv
<1>3. n \in 1 .. 4 BY <1>1, <1>2, EtcRange DEF FileTypes
<1> HIDE DEF n
<1>4. EtcFiles[n] \in EtcSet BY Zenon, <1>3, EtcRange
<1>5. /\ btSetup' \in [Setups -> [step : SetupSteps, n : 1 .. 5]]
      /\ btSetup'[s].step = "etc" /\ btSetup'[s].n = n + 1
      /\ \A r \in Setups : r # s => btSetup'[r] = btSetup[r]
  BY <1>1, <1>2, <1>3 DEF FileTypes
<1>6. /\ btEtc' \in [EtcSet -> {"none", "cut", "whole"}]
      /\ btEtc'[EtcFiles[n]] # "none"
      /\ \A f \in EtcSet : btEtc[f] # "none" => btEtc'[f] # "none"
  BY Zenon, <1>1, <1>2, <1>4 DEF FileTypes
<1>7. FileTypes' BY Zenon, <1>1, <1>2, <1>5, <1>6 DEF FileTypes
<1>8. KeyFirst' BY Zenon, <1>1, <1>5 DEF FileInv, KeyFirst
<1>9. ASSUME btFuel.overlap = FALSE PROVE AuthorOK(s)' /\ \A r \in Setups : r # s => AuthorOK(r)'
  <2>1. \A r \in Setups : AuthorOK(r) BY <1>9 DEF FileInv, OneAuthor
  <2>2. \A m \in 1 .. 4 : btEtc[EtcFiles[m]] # "none" => btEtc'[EtcFiles[m]] # "none" BY Zenon, <1>6, EtcRange
  <2>3. \A m \in 1 .. 4 : m < n + 1 => btEtc'[EtcFiles[m]] # "none"
    <3> SUFFICES ASSUME NEW m \in 1 .. 4, m < n + 1 PROVE btEtc'[EtcFiles[m]] # "none" BY Zenon
    <3>1. m = n \/ m < n BY <1>3
    <3> QED BY Zenon, <1>1, <1>6, <2>1, <2>2, <3>1 DEF AuthorOK, n
  <2>4. AuthorOK(s)' BY <1>1, <1>5, <2>1, <2>3 DEF AuthorOK
  <2>5. \A r \in Setups : r # s => AuthorOK(r)' BY <1>1, <1>5, <2>1, <2>2 DEF AuthorOK
  <2> QED BY Zenon, <2>4, <2>5
<1>10. OneAuthor' BY Zenon, <1>1, <1>5, <1>9, UnderWay DEF Busy
<1> QED BY <1>7, <1>8, <1>10 DEF FileInv

LEMMA TellsKeepsFiles == ASSUME FileInv, NEW s \in Setups, SetupTells(s) PROVE FileInv'
<1>1. /\ btSetup[s].step = "etc" /\ btSetup[s].n > 4 /\ Step(s, "told")
      /\ UNCHANGED <<btKey, btAuth, btEtc, btLlm, btFuel>>
  BY Zenon, EtcRange DEF SetupTells, fileVars
<1>2. FileTypes BY DEF FileInv
<1>3. /\ btSetup' \in [Setups -> [step : SetupSteps, n : 1 .. 5]]
      /\ btSetup'[s].step = "told"
      /\ \A r \in Setups : r # s => btSetup'[r] = btSetup[r]
  BY Zenon, <1>1, <1>2, SetupTypes DEF SetupSteps
<1>4. FileTypes' BY Zenon, <1>1, <1>2, <1>3 DEF FileTypes
<1>5. KeyFirst' BY Zenon, <1>1, <1>3 DEF FileInv, KeyFirst
<1>6. ASSUME btFuel.overlap = FALSE PROVE AuthorOK(s)' /\ \A r \in Setups : r # s => AuthorOK(r)'
  <2>1. \A r \in Setups : AuthorOK(r) BY <1>6 DEF FileInv, OneAuthor
  <2>2. \A m \in 1 .. 4 : m < btSetup[s].n BY <1>1, <1>2 DEF FileTypes
  <2> QED BY Zenon, <1>1, <1>3, <2>1, <2>2 DEF AuthorOK
<1>7. OneAuthor' BY Zenon, <1>1, <1>3, <1>6, UnderWay DEF Busy
<1> QED BY <1>4, <1>5, <1>7 DEF FileInv

\* What a set-up that is cut off leaves of the file it was writing.
LEMMA DiesLeaves ==
    ASSUME FileTypes, NEW s \in Setups, SetupDies(s)
    PROVE  /\ \/ UNCHANGED <<btKey, btAuth>>
              \/ btSetup[s].step = "key" /\ btKey' = [by |-> s, state |-> "cut"] /\ btAuth' = btAuth
              \/ btSetup[s].step = "auth" /\ btAuth' = [by |-> s, state |-> "cut"] /\ btKey' = btKey
           /\ btEtc' \in [EtcSet -> {"none", "cut", "whole"}]
           /\ \A f \in EtcSet : btEtc[f] # "none" => btEtc'[f] # "none"
<1>1. CASE UNCHANGED <<btKey, btAuth, btEtc>> BY Zenon, <1>1 DEF FileTypes
<1>2. CASE btSetup[s].step = "key" /\ btKey' = CutOff(Whole(s)) /\ UNCHANGED <<btAuth, btEtc>>
  BY Zenon, <1>2 DEF FileTypes, CutOff, Whole
<1>3. CASE btSetup[s].step = "auth" /\ btAuth' = CutOff(Whole(s)) /\ UNCHANGED <<btKey, btEtc>>
  BY Zenon, <1>3 DEF FileTypes, CutOff, Whole
<1>4. CASE /\ btSetup[s].step = "etc" /\ btSetup[s].n <= Len(EtcFiles)
           /\ btEtc' = [btEtc EXCEPT ![EtcFiles[btSetup[s].n]] = "cut"]
           /\ UNCHANGED <<btKey, btAuth>>
  BY Zenon, <1>4 DEF FileTypes
<1> QED BY Zenon, <1>1, <1>2, <1>3, <1>4 DEF SetupDies

LEMMA DiesKeepsFiles == ASSUME FileInv, NEW s \in Setups, SetupDies(s) PROVE FileInv'
<1>1. /\ Busy(s) /\ Step(s, "dead") /\ btLlm' = btLlm
      /\ btFuel' = [btFuel EXCEPT !.deaths = @ - 1, !.commands = @ + 1]
  BY Zenon DEF SetupDies
<1>2. FileTypes BY DEF FileInv
<1>3. /\ btSetup' \in [Setups -> [step : SetupSteps, n : 1 .. 5]]
      /\ btSetup'[s].step = "dead"
      /\ \A r \in Setups : r # s => btSetup'[r] = btSetup[r]
  BY Zenon, <1>1, <1>2, SetupTypes DEF SetupSteps
<1>4. /\ \/ UNCHANGED <<btKey, btAuth>>
         \/ btSetup[s].step = "key" /\ btKey' = [by |-> s, state |-> "cut"] /\ btAuth' = btAuth
         \/ btSetup[s].step = "auth" /\ btAuth' = [by |-> s, state |-> "cut"] /\ btKey' = btKey
      /\ btEtc' \in [EtcSet -> {"none", "cut", "whole"}]
      /\ \A f \in EtcSet : btEtc[f] # "none" => btEtc'[f] # "none"
  BY Zenon, <1>2, DiesLeaves
<1>5. btFuel' \in [commands : Int, deaths : Int, overlap : BOOLEAN] /\ btFuel'.overlap = btFuel.overlap
  <2>1. btFuel.commands + 1 \in Int /\ btFuel.deaths - 1 \in Int BY <1>2 DEF FileTypes
  <2> QED BY Zenon, <1>1, <1>2, <2>1 DEF FileTypes
<1>6. btKey' \in BootFile /\ btAuth' \in BootFile BY <1>2, <1>4 DEF FileTypes, BootFile
<1>7. FileTypes' BY Zenon, <1>1, <1>2, <1>3, <1>4, <1>5, <1>6 DEF FileTypes
<1>8. KeyFirst' BY <1>3, <1>4 DEF FileInv, KeyFirst
<1>9. ASSUME btFuel.overlap = FALSE PROVE AuthorOK(s)' /\ \A r \in Setups : r # s => AuthorOK(r)'
  <2>1. \A r \in Setups : AuthorOK(r) BY <1>9 DEF FileInv, OneAuthor
  <2>2. \A m \in 1 .. 4 : btEtc[EtcFiles[m]] # "none" => btEtc'[EtcFiles[m]] # "none" BY Zenon, <1>4, EtcRange
  <2>3. \A r \in Setups : r # s => ~Busy(r) BY Zenon, <1>1, <1>9 DEF FileInv, OneAuthor
  <2>4. ASSUME NEW r \in Setups, r # s PROVE AuthorOK(r)'
    <3>1. btSetup[r].step \in {"off", "told", "existing", "dead"} BY Zenon, <2>3, <2>4 DEF Busy
    <3>2. btSetup[s].step = "auth" => btSetup[r].step # "told" BY Zenon, <1>9, <2>4, NobodyTold
    <3> QED BY Zenon, <1>3, <1>4, <2>1, <2>2, <2>4, <3>1, <3>2 DEF AuthorOK
  <2> QED BY Zenon, <1>3, <2>4 DEF AuthorOK
<1>10. OneAuthor' BY Zenon, <1>1, <1>3, <1>5, <1>9, UnderWay
<1> QED BY <1>7, <1>8, <1>10 DEF FileInv

\* Whoever only spends a command, a death or neither leaves the files as they are.
FilesStay == /\ UNCHANGED <<btKey, btAuth, btEtc, btSetup>>
             /\ btLlm' \in LlmEdits \cup {LlmTemplate}
             /\ btFuel' \in [commands : Int, deaths : Int, overlap : BOOLEAN]
             /\ btFuel'.overlap = btFuel.overlap

LEMMA StayKeepsFiles == ASSUME FileInv, FilesStay PROVE FileInv'
<1>1. FileTypes' BY Zenon DEF FileInv, FileTypes, FilesStay
<1>2. KeyFirst' BY Zenon DEF FileInv, KeyFirst, FilesStay
<1>3. OneAuthor' BY Zenon DEF FileInv, OneAuthor, FilesStay, Busy, AuthorOK
<1> QED BY Zenon, <1>1, <1>2, <1>3 DEF FileInv

-----------------------------------------------------------------------------
(* What a step of a daemon has to show *)

\* The daemons that are not d stay as they are.
Others(d) == btDaemon' \in [Daemons -> DaemonSet] /\ \A c \in Daemons : c # d => btDaemon'[c] = btDaemon[c]

\* A daemon that reaches a stage keeps the rest of its record.
LEMMA Reached ==
    ASSUME btDaemon \in [Daemons -> DaemonSet], NEW d \in Daemons, NEW st \in StageSet \cup Over, Reaches(d, st)
    PROVE  /\ Others(d)
           /\ btDaemon'[d].stage = st /\ btDaemon'[d].test = btDaemon[d].test
           /\ btDaemon'[d].key = btDaemon[d].key /\ btDaemon'[d].tools = btDaemon[d].tools
<1>1. [btDaemon[d] EXCEPT !.stage = st] \in DaemonSet BY Zenon DEF DaemonSet
<1>2. btDaemon' = [btDaemon EXCEPT ![d] = [btDaemon[d] EXCEPT !.stage = st]] BY Zenon DEF Reaches
<1>3. Others(d) BY Zenon, <1>1, <1>2 DEF Others
<1>4. btDaemon'[d] = [btDaemon[d] EXCEPT !.stage = st] BY Zenon, <1>2
<1>5. btDaemon[d] \in DaemonSet BY Zenon
<1> QED BY Zenon, <1>3, <1>4, <1>5 DEF DaemonSet

\* ... and one that reaches it with new tools the rest.
ReachesWith(d, st, T) == btDaemon' = [btDaemon EXCEPT ![d].stage = st, ![d].tools = T]

LEMMA ReachedWith ==
    ASSUME btDaemon \in [Daemons -> DaemonSet], NEW d \in Daemons, NEW st \in StageSet, NEW T \in SUBSET ToolKinds,
           ReachesWith(d, st, T)
    PROVE  /\ Others(d)
           /\ btDaemon'[d].stage = st /\ btDaemon'[d].test = btDaemon[d].test
           /\ btDaemon'[d].key = btDaemon[d].key /\ btDaemon'[d].tools = T
<1> DEFINE e == [btDaemon[d] EXCEPT !.stage = st, !.tools = T]
<1>1. e \in DaemonSet BY Zenon DEF DaemonSet
<1>2. btDaemon' = [btDaemon EXCEPT ![d] = e] BY Zenon DEF ReachesWith
<1>3. Others(d) BY Zenon, <1>1, <1>2 DEF Others
<1>4. btDaemon'[d] = e BY Zenon, <1>2
<1>5. btDaemon[d] \in DaemonSet BY Zenon
<1> QED BY Zenon, <1>3, <1>4, <1>5 DEF DaemonSet

LEMMA ServeMoves ==
    ASSUME ServeInv, NEW d \in Daemons, Others(d),
           btStore' \in Daemons \cup {0}, btSocket' \in [Sockets -> Daemons \cup {0}],
           \A c \in Daemons : c # d => /\ btStore' = c <=> btStore = c
                                       /\ btSocket'["kernel"] = c => btSocket["kernel"] = c,
           btDaemon'[d].stage \in {"stored", "kernel"} => btDaemon'[d].test = FALSE,
           (btDaemon'[d].stage \in FromStored /\ btDaemon'[d].test = FALSE) <=> btStore' = d,
           btSocket'["kernel"] = d => btDaemon'[d].stage \in FromKernel \cup Over /\ btDaemon'[d].test = FALSE,
           btDaemon'[d].stage \in StageSet \ FromWired => btDaemon'[d].tools = {},
           btDaemon[d].tools \subseteq btDaemon'[d].tools,
           \A k \in {"exec", "llm"} :
               /\ btSocket'[k] = btSocket[k] \/ (btSocket'[k] = d /\ k \in btDaemon'[d].tools)
               /\ k \in btDaemon'[d].tools => k \in btDaemon[d].tools \/ btSocket'[k] = d
    PROVE  ServeInv'
<1>0. d # 0 BY Zenon, BootAssumption
<1>1. ASSUME NEW c \in Daemons
      PROVE  /\ btDaemon'[c].stage \in {"stored", "kernel"} => btDaemon'[c].test = FALSE
             /\ btDaemon'[c].stage \in FromStored /\ btDaemon'[c].test = FALSE => btStore' = c
             /\ btStore' = c => btDaemon'[c].stage \in FromStored /\ btDaemon'[c].test = FALSE
             /\ btSocket'["kernel"] = c => btDaemon'[c].stage \in FromKernel \cup Over /\ btDaemon'[c].test = FALSE
             /\ btDaemon'[c].stage \in StageSet \ FromWired => btDaemon'[c].tools = {}
  <2>1. CASE c = d BY Zenon, <2>1
  <2>2. CASE c # d
    <3>1. btDaemon'[c] = btDaemon[c] BY Zenon, <2>2 DEF Others
    <3> QED BY <2>2, <3>1 DEF ServeInv
  <2> QED BY Zenon, <2>1, <2>2
<1>2. ASSUME NEW c \in Daemons, NEW k \in {"exec", "llm"}, k \in btDaemon'[c].tools
      PROVE  btSocket'[k] # 0 /\ k \in btDaemon'[btSocket'[k]].tools
  <2>1. CASE btSocket'[k] = d
    <3>1. k \in btDaemon'[d].tools
      <4>1. CASE btSocket[k] = d
        <5>1. CASE c = d BY Zenon, <1>2, <5>1
        <5>2. CASE c # d
          <6>1. k \in btDaemon[c].tools BY Zenon, <1>2, <5>2 DEF Others
          <6> QED BY <4>1, <6>1 DEF ServeInv
        <5> QED BY Zenon, <5>1, <5>2
      <4>2. CASE btSocket[k] # d BY Zenon, <2>1, <4>2
      <4> QED BY Zenon, <4>1, <4>2
    <3> QED BY Zenon, <1>0, <2>1, <3>1
  <2>2. CASE btSocket'[k] # d
    <3>1. btSocket'[k] = btSocket[k] BY Zenon, <2>2
    <3>2. k \in btDaemon[c].tools
      <4>1. CASE c = d BY Zenon, <1>2, <2>2, <4>1
      <4>2. CASE c # d BY <1>2, <4>2 DEF Others
      <4> QED BY Zenon, <4>1, <4>2
    <3>3. btSocket[k] # 0 /\ k \in btDaemon[btSocket[k]].tools BY <3>2 DEF ServeInv
    <3>4. btSocket[k] \in Daemons BY <3>3 DEF ServeInv, Sockets
    <3> QED BY <2>2, <3>1, <3>3, <3>4 DEF Others
  <2> QED BY Zenon, <2>1, <2>2
<1> QED BY <1>1, <1>2 DEF ServeInv, Others

\* The executors stay with the daemon that has the stores, or end with it.
LEMMA RunsStay ==
    ASSUME RunsInv, NEW d \in Daemons, Others(d), btRuns' = btRuns, Executors = 0 \/ btStore' = btStore,
           btStore \in Daemons \cup {0},
           btDaemon[d].stage \in FromRestored /\ btStore = d => btDaemon'[d].stage \in FromRestored
    PROVE  RunsInv'
<1>1. Executors' = Executors BY Zenon DEF Executors
<1>2. Executors \in Nat BY DEF RunsInv, Executors
<1>3. ASSUME Executors > 0, btDaemon[btStore].stage \in FromRestored PROVE btDaemon'[btStore'].stage \in FromRestored
  <2>1. btStore' = btStore /\ btStore \in Daemons BY <1>2, <1>3 DEF RunsInv
  <2>2. CASE btStore = d BY Zenon, <1>3, <2>1, <2>2
  <2>3. CASE btStore # d BY Zenon, <1>3, <2>1, <2>3 DEF Others
  <2> QED BY Zenon, <2>2, <2>3
<1>4. Executors > 0 => btStore' # 0 BY <1>2 DEF RunsInv
<1>5. btRuns' \in [record : {"none", "live", "final"}, starting : Nat, real : Nat, mock : Nat, early : BOOLEAN]
  BY Zenon DEF RunsInv
<1> QED BY <1>1, <1>2, <1>3, <1>4, <1>5 DEF RunsInv

LEMMA RunsEnd == ASSUME RunsInv, btRuns' = NoRuns PROVE RunsInv'
<1>1. btRuns' \in [record : {"none", "live", "final"}, starting : Nat, real : Nat, mock : Nat, early : BOOLEAN]
  <2>1. 0 \in Nat BY Zenon
  <2> QED BY Zenon, <2>1 DEF RunsInv, NoRuns
<1>2. btRuns'.starting = 0 /\ btRuns'.real = 0 /\ btRuns'.mock = 0 BY Zenon DEF RunsInv, NoRuns
<1>3. Executors' = 0 /\ btRuns'.mock = 0 BY <1>2 DEF Executors
<1> QED BY <1>1, <1>3 DEF RunsInv

\* A daemon's own key and the auth.conf it saw.
LEMMA KeyedMoves ==
    ASSUME DaemonsKeyed, NEW d \in Daemons, Others(d), UNCHANGED <<btKey, btAuth>>,
           btFuel'.overlap = btFuel.overlap,
           btDaemon'[d].stage \in {"checked"} \cup FromKeyed => btAuth.state # "none",
           btFuel.overlap = FALSE /\ btDaemon'[d].stage \in FromKeyed => btDaemon'[d].key = btKey.by
    PROVE  DaemonsKeyed'
<1> SUFFICES ASSUME NEW c \in Daemons
             PROVE  /\ btDaemon'[c].stage \in {"checked"} \cup FromKeyed => btAuth'.state # "none"
                    /\ btFuel'.overlap = FALSE /\ btDaemon'[c].stage \in FromKeyed => btDaemon'[c].key = btKey'.by
  BY Zenon DEF DaemonsKeyed
<1>1. CASE c = d BY Zenon, <1>1
<1>2. CASE c # d BY Zenon, <1>2 DEF DaemonsKeyed, Others
<1> QED BY Zenon, <1>1, <1>2

\* What spending a death or a command does to the bounds.
LEMMA Spent ==
    ASSUME FileTypes,
           \/ btFuel' = btFuel
           \/ btFuel' = [btFuel EXCEPT !.commands = @ - 1]
           \/ btFuel' = [btFuel EXCEPT !.commands = 0]
           \/ btFuel' = [btFuel EXCEPT !.deaths = @ - 1]
    PROVE  btFuel' \in [commands : Int, deaths : Int, overlap : BOOLEAN] /\ btFuel'.overlap = btFuel.overlap
<1>1. btFuel.commands - 1 \in Int /\ btFuel.deaths - 1 \in Int /\ 0 \in Int BY DEF FileTypes
<1> QED BY Zenon, <1>1 DEF FileTypes

-----------------------------------------------------------------------------
(* server start keeps the invariant *)

DaemonKept == FilesStay /\ DaemonsKeyed' /\ ServeInv' /\ RunsInv'

LEMMA RestStays == ASSUME FileTypes, RestKept PROVE FilesStay /\ UNCHANGED <<btKey, btAuth, btFuel>>
<1>1. btFuel' = btFuel BY Zenon DEF RestKept
<1> QED BY Zenon, <1>1, Spent DEF FilesStay, RestKept, fileVars, FileTypes

\* What the invariant says of one daemon.
LEMMA OneDaemon ==
    ASSUME BootInv, NEW d \in Daemons
    PROVE  /\ FileTypes /\ d # 0 /\ btDaemon \in [Daemons -> DaemonSet]
           /\ btDaemon[d].stage \in StageSet \cup Over /\ btDaemon[d].test \in BOOLEAN
           /\ btDaemon[d].key \in Setups \cup {0} /\ btDaemon[d].tools \in SUBSET ToolKinds
           /\ btStore \in Daemons \cup {0} /\ btSocket \in [Sockets -> Daemons \cup {0}]
BY BootAssumption DEF BootInv, FileInv, ServeInv, DaemonSet

LEMMA ChecksRootKept ==
    ASSUME BootInv, NEW d \in Daemons, NEW test \in BOOLEAN, ChecksRoot(d, test) PROVE DaemonKept
<1> DEFINE st == IF btAuth.state = "none" THEN "failed" ELSE "checked"
<1> DEFINE e == [btDaemon[d] EXCEPT !.stage = st, !.test = test]
<1>1. FileTypes /\ btDaemon[d] \in DaemonSet /\ btDaemon \in [Daemons -> DaemonSet] BY Zenon, OneDaemon
<1>2. /\ btDaemon[d].stage = "off"
      /\ btDaemon' = [btDaemon EXCEPT ![d].stage = st, ![d].test = test]
      /\ btFuel' = [btFuel EXCEPT !.commands = @ - 1]
      /\ UNCHANGED <<btKey, btAuth, btEtc, btLlm, btSetup, btStore, btSocket, btRuns>>
  BY Zenon DEF ChecksRoot, fileVars
<1>3. st \in StageSet \cup Over /\ st \in {"failed", "checked"} BY Zenon DEF StageSet, Over
<1>4. e \in DaemonSet BY Zenon, <1>1, <1>3 DEF DaemonSet
<1>5. btDaemon' = [btDaemon EXCEPT ![d] = e] BY Zenon, <1>2
<1>6. Others(d) BY Zenon, <1>1, <1>4, <1>5 DEF Others
<1>7. btDaemon'[d] = e BY Zenon, <1>1, <1>5
<1>8. btDaemon'[d].stage = st /\ btDaemon'[d].tools = btDaemon[d].tools /\ btDaemon'[d].key = btDaemon[d].key
  BY Zenon, <1>1, <1>7 DEF DaemonSet
<1>9. FilesStay BY Zenon, <1>1, <1>2, Spent DEF FilesStay, FileTypes
<1>10. DaemonsKeyed'
  <2>1. btDaemon'[d].stage \in {"checked"} \cup FromKeyed => btAuth.state # "none"
    BY Zenon, <1>8 DEF FromKeyed, FromStored, FromKernel, FromWired, FromRestored
  <2>2. btDaemon'[d].stage \notin FromKeyed
    BY Zenon, <1>3, <1>8 DEF FromKeyed, FromStored, FromKernel, FromWired, FromRestored
  <2> QED BY Zenon, <1>2, <1>6, <1>9, <2>1, <2>2, KeyedMoves DEF BootInv, FilesStay
<1>11. ServeInv'
  <2>1. btDaemon[d].tools = {} /\ btStore # d /\ btSocket["kernel"] # d
    BY Zenon, <1>2 DEF BootInv, ServeInv, StageSet, FromStored, FromKernel, FromWired, FromRestored, Over
  <2>2. btDaemon'[d].stage \notin FromStored /\ btDaemon'[d].stage \notin {"stored", "kernel"}
    BY Zenon, <1>3, <1>8 DEF FromStored, FromKernel, FromWired, FromRestored
  <2>3. ServeInv BY Zenon DEF BootInv
  <2> QED BY Zenon, <1>2, <1>6, <1>8, <2>1, <2>2, <2>3, OneDaemon, ServeMoves
<1>12. RunsInv'
  <2>1. btDaemon[d].stage \notin FromRestored BY Zenon, <1>2 DEF FromRestored
  <2> QED BY Zenon, <1>2, <1>6, <2>1, OneDaemon, RunsStay DEF BootInv
<1> QED BY Zenon, <1>9, <1>10, <1>11, <1>12 DEF DaemonKept

LEMMA ReadsKeyKept == ASSUME BootInv, NEW d \in Daemons, ReadsKey(d) PROVE DaemonKept
<1> DEFINE st == IF btKey.state = "none" THEN "failed" ELSE "keyed"
<1> DEFINE e == [btDaemon[d] EXCEPT !.stage = st, !.key = btKey.by]
<1>1. FileTypes /\ btDaemon[d] \in DaemonSet /\ btDaemon \in [Daemons -> DaemonSet] BY Zenon, OneDaemon
<1>2. /\ btDaemon[d].stage = "checked"
      /\ btDaemon' = [btDaemon EXCEPT ![d].stage = st, ![d].key = btKey.by]
      /\ UNCHANGED <<btStore, btSocket, btRuns>> /\ RestKept
  BY Zenon DEF ReadsKey
<1>3. st \in StageSet \cup Over /\ st \in {"failed", "keyed"} BY Zenon DEF StageSet, Over
<1>4. btKey.by \in Setups \cup {0} BY Zenon, <1>1 DEF FileTypes, BootFile
<1>5. e \in DaemonSet BY Zenon, <1>1, <1>3, <1>4 DEF DaemonSet
<1>6. btDaemon' = [btDaemon EXCEPT ![d] = e] BY Zenon, <1>2
<1>7. Others(d) BY Zenon, <1>1, <1>5, <1>6 DEF Others
<1>8. btDaemon'[d] = e BY Zenon, <1>1, <1>6
<1>9. btDaemon'[d].stage = st /\ btDaemon'[d].tools = btDaemon[d].tools /\ btDaemon'[d].key = btKey.by
  BY Zenon, <1>1, <1>8 DEF DaemonSet
<1>10. FilesStay /\ UNCHANGED <<btKey, btAuth, btFuel>> BY Zenon, <1>1, <1>2, RestStays
<1>11. DaemonsKeyed'
  <2>1. btAuth.state # "none" BY Zenon, <1>2 DEF BootInv, DaemonsKeyed
  <2> QED BY Zenon, <1>7, <1>9, <1>10, <2>1, KeyedMoves DEF BootInv, FilesStay
<1>12. ServeInv'
  <2>1. btDaemon[d].tools = {} /\ btStore # d /\ btSocket["kernel"] # d
    BY Zenon, <1>2 DEF BootInv, ServeInv, StageSet, FromStored, FromKernel, FromWired, FromRestored, Over
  <2>2. btDaemon'[d].stage \notin FromStored /\ btDaemon'[d].stage \notin {"stored", "kernel"}
    BY Zenon, <1>3, <1>9 DEF FromStored, FromKernel, FromWired, FromRestored
  <2>3. ServeInv BY Zenon DEF BootInv
  <2> QED BY Zenon, <1>2, <1>7, <1>9, <2>1, <2>2, <2>3, OneDaemon, ServeMoves
<1>13. RunsInv'
  <2>1. btDaemon[d].stage \notin FromRestored BY Zenon, <1>2 DEF FromRestored
  <2> QED BY Zenon, <1>2, <1>7, <2>1, OneDaemon, RunsStay DEF BootInv
<1> QED BY Zenon, <1>10, <1>11, <1>12, <1>13 DEF DaemonKept

\* A daemon that ends: the sockets' files stay, its executors go with it.
LEMMA DaemonEndsKept ==
    ASSUME BootInv, NEW d \in Daemons, NEW how \in Over, DaemonEnds(d, how), FilesStay
    PROVE  DaemonKept
<1>1. /\ btDaemon \in [Daemons -> DaemonSet] /\ how \in StageSet \cup Over BY Zenon, OneDaemon
<1>2. /\ Reaches(d, how) /\ btStore' = (IF btStore = d THEN 0 ELSE btStore)
      /\ btRuns' = (IF btStore = d THEN NoRuns ELSE btRuns)
      /\ btSocket' = [btSocket EXCEPT !["gateway"] = IF @ = d THEN 0 ELSE @]
  BY Zenon DEF DaemonEnds, Reaches
<1>3. /\ Others(d) /\ btDaemon'[d].stage = how /\ btDaemon'[d].test = btDaemon[d].test
      /\ btDaemon'[d].tools = btDaemon[d].tools
  BY Zenon, <1>1, <1>2, Reached
<1>4. how \notin FromKeyed \cup {"checked"} /\ how \notin FromStored /\ how \notin StageSet
  BY Zenon DEF Over, StageSet, FromKeyed, FromStored, FromKernel, FromWired, FromRestored
<1>5. DaemonsKeyed' BY Zenon, <1>3, <1>4, KeyedMoves DEF BootInv, FilesStay
<1>6. /\ btSocket' \in [Sockets -> Daemons \cup {0}]
      /\ \A k \in {"kernel", "exec", "llm"} : btSocket'[k] = btSocket[k]
  BY Zenon, <1>2, OneDaemon DEF Sockets
<1>7. ServeInv'
  <2>1. btSocket["kernel"] = d => btDaemon[d].test = FALSE BY Zenon DEF BootInv, ServeInv
  <2>2. btStore' # d /\ btStore' \in Daemons \cup {0} BY Zenon, <1>2, OneDaemon
  <2>3. \A c \in Daemons : c # d => (btStore' = c <=> btStore = c) BY <1>2, OneDaemon, BootAssumption
  <2>4. ServeInv BY Zenon DEF BootInv
  <2>5. how \notin {"stored", "kernel"} BY Zenon DEF Over
  <2> QED BY Zenon, <1>3, <1>4, <1>6, <2>1, <2>2, <2>3, <2>4, <2>5, ServeMoves
<1>8. RunsInv'
  <2>1. CASE btStore = d BY Zenon, <1>2, <2>1, RunsEnd DEF BootInv
  <2>2. CASE btStore # d BY Zenon, <1>2, <1>3, <2>2, OneDaemon, RunsStay DEF BootInv
  <2> QED BY Zenon, <2>1, <2>2
<1> QED BY Zenon, <1>5, <1>7, <1>8 DEF DaemonKept

LEMMA OpensStoresKept == ASSUME BootInv, NEW d \in Daemons, OpensStores(d) PROVE DaemonKept
<1>1. btDaemon[d].stage = "keyed" /\ ~btDaemon[d].test /\ RestKept BY Zenon DEF OpensStores
<1>2. FileTypes /\ btDaemon \in [Daemons -> DaemonSet] BY Zenon, OneDaemon
<1>3. FilesStay /\ UNCHANGED <<btKey, btAuth, btFuel>> BY Zenon, <1>1, <1>2, RestStays
<1>4. CASE DaemonEnds(d, "failed") BY Zenon, <1>1, <1>3, <1>4, DaemonEndsKept DEF Over
<1>5. CASE btStore = 0 /\ btStore' = d /\ Reaches(d, "stored") /\ UNCHANGED <<btSocket, btRuns>>
  <2>1. /\ Others(d) /\ btDaemon'[d].stage = "stored" /\ btDaemon'[d].test = btDaemon[d].test
        /\ btDaemon'[d].tools = btDaemon[d].tools /\ btDaemon'[d].key = btDaemon[d].key
    BY Zenon, <1>2, <1>5, Reached DEF StageSet
  <2>2. btDaemon[d].test = FALSE BY Zenon, <1>1, OneDaemon
  <2>3. btAuth.state # "none" /\ (btFuel.overlap = FALSE => btDaemon[d].key = btKey.by)
    BY Zenon, <1>1 DEF BootInv, DaemonsKeyed, FromKeyed
  <2>4. DaemonsKeyed' BY Zenon, <1>3, <2>1, <2>3, KeyedMoves DEF BootInv
  <2>5. btDaemon[d].tools = {} /\ btSocket["kernel"] # d
    BY Zenon, <1>1 DEF BootInv, ServeInv, StageSet, FromStored, FromKernel, FromWired, FromRestored, Over
  <2>6. ServeInv BY DEF BootInv
  <2>7. \A c \in Daemons : c # d => (btStore' = c <=> btStore = c) BY Zenon, <1>5, BootAssumption
  <2>8. "stored" \in FromStored BY Zenon DEF FromStored
  <2>9. ServeInv' BY Zenon, <1>5, <2>1, <2>2, <2>5, <2>6, <2>7, <2>8, OneDaemon, ServeMoves
  <2>10. Executors = 0 BY <1>5 DEF BootInv, RunsInv, Executors
  <2>11. RunsInv' BY Zenon, <1>1, <1>5, <2>1, <2>10, OneDaemon, RunsStay DEF BootInv, FromRestored
  <2> QED BY <1>3, <2>4, <2>9, <2>11 DEF DaemonKept
<1> QED BY Zenon, <1>4, <1>5 DEF OpensStores

\* A daemon past its key that goes on, perhaps with a socket and tools of its own.
LEMMA Advances ==
    ASSUME BootInv, NEW d \in Daemons, FilesStay, Others(d), btStore' = btStore,
           btDaemon'[d].test = btDaemon[d].test, btDaemon'[d].key = btDaemon[d].key,
           btDaemon[d].stage \in FromKeyed, btDaemon'[d].stage \in FromKernel,
           btDaemon[d].stage \in FromStored \/ btDaemon[d].test = TRUE,
           btDaemon'[d].stage = "kernel" => btDaemon[d].test = FALSE /\ btDaemon'[d].tools = {},
           btSocket' \in [Sockets -> Daemons \cup {0}],
           btSocket'["kernel"] = btSocket["kernel"] \/ (btSocket'["kernel"] = d /\ btDaemon[d].test = FALSE),
           btDaemon[d].tools \subseteq btDaemon'[d].tools,
           \A k \in {"exec", "llm"} :
               /\ btSocket'[k] = btSocket[k] \/ (btSocket'[k] = d /\ k \in btDaemon'[d].tools)
               /\ k \in btDaemon'[d].tools => k \in btDaemon[d].tools \/ btSocket'[k] = d
    PROVE  DaemonsKeyed' /\ ServeInv'
<1>1. btAuth.state # "none" /\ (btFuel.overlap = FALSE => btDaemon[d].key = btKey.by) BY Zenon DEF BootInv, DaemonsKeyed
<1>2. DaemonsKeyed' BY Zenon, <1>1, KeyedMoves DEF BootInv, FilesStay
<1>3. ServeInv BY Zenon DEF BootInv
<1>4. btDaemon'[d].stage \in {"stored", "kernel"} => btDaemon'[d].test = FALSE BY Zenon DEF FromKernel, FromWired, FromRestored
<1>5. (btDaemon'[d].stage \in FromStored /\ btDaemon'[d].test = FALSE) <=> btStore' = d
  <2>1. CASE btDaemon[d].test = TRUE BY Zenon, <1>3, <2>1 DEF ServeInv
  <2>2. CASE btDaemon[d].test = FALSE
    <3>1. btDaemon[d].stage \in FromStored BY Zenon, <2>2
    <3> QED BY Zenon, <1>3, <2>2, <3>1 DEF ServeInv, FromStored
  <2> QED BY Zenon, <2>1, <2>2, OneDaemon
<1>6. btSocket'["kernel"] = d => btDaemon'[d].stage \in FromKernel \cup Over /\ btDaemon'[d].test = FALSE
  BY <1>3 DEF ServeInv
<1>7. btDaemon'[d].stage \in StageSet \ FromWired => btDaemon'[d].tools = {} BY Zenon DEF FromKernel
<1>8. \A c \in Daemons : c # d => /\ btStore' = c <=> btStore = c
                                  /\ btSocket'["kernel"] = c => btSocket["kernel"] = c
  BY Zenon
<1>9. btStore' \in Daemons \cup {0} BY Zenon, OneDaemon
<1>10. ServeInv' BY Zenon, <1>3, <1>4, <1>5, <1>6, <1>7, <1>8, <1>9, ServeMoves
<1> QED BY Zenon, <1>2, <1>10

LEMMA ServesKernelKept == ASSUME BootInv, NEW d \in Daemons, ServesKernel(d) PROVE DaemonKept
<1>1. /\ btDaemon[d].stage = "stored" /\ ServesOn(d, "kernel") /\ Reaches(d, "kernel")
      /\ UNCHANGED <<btStore, btRuns>> /\ RestKept
  BY Zenon DEF ServesKernel
<1>2. FileTypes /\ btDaemon \in [Daemons -> DaemonSet] BY OneDaemon
<1>3. FilesStay BY Zenon, <1>1, <1>2, RestStays
<1>4. /\ Others(d) /\ btDaemon'[d].stage = "kernel" /\ btDaemon'[d].test = btDaemon[d].test
      /\ btDaemon'[d].tools = btDaemon[d].tools /\ btDaemon'[d].key = btDaemon[d].key
  BY Zenon, <1>1, <1>2, Reached DEF StageSet
<1>5. /\ btSocket' \in [Sockets -> Daemons \cup {0}] /\ btSocket'["kernel"] = d
      /\ \A k \in {"exec", "llm"} : btSocket'[k] = btSocket[k]
  BY Zenon, <1>1, OneDaemon DEF ServesOn, Sockets
<1>6. btDaemon[d].tools = {} /\ btDaemon[d].test = FALSE
  BY Zenon, <1>1 DEF BootInv, ServeInv, StageSet, FromWired, FromRestored
<1>7. "stored" \in FromStored /\ "stored" \in FromKeyed /\ "kernel" \in FromKernel
  BY Zenon DEF FromStored, FromKeyed, FromKernel
<1>8. DaemonsKeyed' /\ ServeInv' BY Zenon, <1>1, <1>3, <1>4, <1>5, <1>6, <1>7, Advances
<1>9. RunsInv' BY Zenon, <1>1, <1>4, OneDaemon, RunsStay DEF BootInv, FromRestored
<1> QED BY Zenon, <1>3, <1>8, <1>9 DEF DaemonKept

LEMMA WiresKept == ASSUME BootInv, NEW d \in Daemons, Wires(d) PROVE DaemonKept
<1>1. /\ btDaemon[d].stage = IF btDaemon[d].test THEN "keyed" ELSE "kernel"
      /\ ReachesWith(d, "wired", {"syscalls"})
      /\ UNCHANGED <<btStore, btSocket, btRuns>> /\ RestKept
  BY Zenon DEF Wires, ReachesWith
<1>2. FileTypes /\ btDaemon \in [Daemons -> DaemonSet] /\ btDaemon[d].test \in BOOLEAN BY Zenon, OneDaemon
<1>3. FilesStay BY Zenon, <1>1, <1>2, RestStays
<1>4. /\ Others(d) /\ btDaemon'[d].stage = "wired" /\ btDaemon'[d].test = btDaemon[d].test
      /\ btDaemon'[d].tools = {"syscalls"} /\ btDaemon'[d].key = btDaemon[d].key
  BY <1>1, <1>2, ReachedWith DEF StageSet, ToolKinds
<1>5. btDaemon[d].stage \in {"keyed", "kernel"} /\ (btDaemon[d].test = TRUE \/ btDaemon[d].stage = "kernel")
  BY Zenon, <1>1, <1>2
<1>6. btDaemon[d].tools = {} BY Zenon, <1>5 DEF BootInv, ServeInv, StageSet, FromWired, FromRestored
<1>7. /\ "kernel" \in FromStored /\ "kernel" \in FromKeyed /\ "keyed" \in FromKeyed /\ "wired" \in FromKernel
  BY Zenon DEF FromStored, FromKeyed, FromKernel, FromWired
<1>8. DaemonsKeyed' /\ ServeInv' BY Zenon, <1>1, <1>3, <1>4, <1>5, <1>6, <1>7, OneDaemon, Advances
<1>9. RunsInv' BY Zenon, <1>1, <1>4, <1>5, OneDaemon, RunsStay DEF BootInv, FromRestored
<1> QED BY <1>3, <1>8, <1>9 DEF DaemonKept

\* The stages after the wiring, of which a real daemon's come after its stores.
LEMMA WiredStages ==
    ASSUME NEW st \in FromWired
    PROVE  st \in FromKernel /\ st \in FromStored /\ st \in FromKeyed /\ st # "kernel" /\ st \in StageSet
BY Zenon DEF FromStored, FromKeyed, FromKernel, FromWired, FromRestored, StageSet

LEMMA BuiltInsKept == ASSUME BootInv, NEW d \in Daemons, StartsBuiltIns(d) PROVE DaemonKept
<1> DEFINE T == btDaemon[d].tools \cup {"exec", "fs"}
<1>1. /\ btDaemon[d].stage = "wired" /\ ServesOn(d, "exec")
      /\ ReachesWith(d, "exec", T)
      /\ UNCHANGED <<btStore, btRuns>> /\ RestKept
  BY Zenon DEF StartsBuiltIns, ReachesWith
<1>2. FileTypes /\ btDaemon \in [Daemons -> DaemonSet] BY OneDaemon
<1>3. FilesStay BY Zenon, <1>1, <1>2, RestStays
<1>4. T \in SUBSET ToolKinds BY Zenon, OneDaemon DEF ToolKinds
<1>5. /\ Others(d) /\ btDaemon'[d].stage = "exec" /\ btDaemon'[d].test = btDaemon[d].test
      /\ btDaemon'[d].tools = T /\ btDaemon'[d].key = btDaemon[d].key
  BY <1>1, <1>2, <1>4, ReachedWith DEF StageSet
<1>6. /\ btSocket' \in [Sockets -> Daemons \cup {0}] /\ btSocket'["exec"] = d
      /\ btSocket'["llm"] = btSocket["llm"] /\ btSocket'["kernel"] = btSocket["kernel"]
  BY Zenon, <1>1, OneDaemon DEF ServesOn, Sockets
<1>7. "wired" \in FromWired /\ "exec" \in FromWired BY Zenon DEF FromWired
<1>8. DaemonsKeyed' /\ ServeInv' BY Zenon, <1>1, <1>3, <1>5, <1>6, <1>7, WiredStages, Advances
<1>9. RunsInv' BY Zenon, <1>1, <1>5, OneDaemon, RunsStay DEF BootInv, FromRestored
<1> QED BY <1>3, <1>8, <1>9 DEF DaemonKept

LEMMA StartsLlmKept == ASSUME BootInv, NEW d \in Daemons, StartsLlm(d) PROVE DaemonKept
<1> DEFINE T == btDaemon[d].tools \cup {"llm"}
<1>1. btDaemon[d].stage = "exec" /\ UNCHANGED <<btStore, btRuns, btKey, btAuth, btEtc, btLlm, btSetup>>
  BY Zenon DEF StartsLlm, fileVars
<1>2. FileTypes /\ btDaemon \in [Daemons -> DaemonSet] BY OneDaemon
<1>3. btFuel' = btFuel \/ btFuel' = [btFuel EXCEPT !.deaths = @ - 1] BY Zenon DEF StartsLlm
<1>4. FilesStay BY Zenon, <1>1, <1>2, <1>3, Spent DEF FilesStay, FileTypes
<1>5. "exec" \in FromWired /\ "llm" \in FromWired /\ "exec" \notin FromRestored BY Zenon DEF FromWired, FromRestored
<1>6. CASE /\ ServesOn(d, "llm")
           /\ ReachesWith(d, "llm", T)
  <2>1. T \in SUBSET ToolKinds BY Zenon, OneDaemon DEF ToolKinds
  <2>2. /\ Others(d) /\ btDaemon'[d].stage = "llm" /\ btDaemon'[d].test = btDaemon[d].test
        /\ btDaemon'[d].tools = T /\ btDaemon'[d].key = btDaemon[d].key
    BY <1>2, <1>6, <2>1, ReachedWith DEF StageSet
  <2>3. /\ btSocket' \in [Sockets -> Daemons \cup {0}] /\ btSocket'["llm"] = d
        /\ btSocket'["exec"] = btSocket["exec"] /\ btSocket'["kernel"] = btSocket["kernel"]
    BY Zenon, <1>6, OneDaemon DEF ServesOn, Sockets
  <2>4. DaemonsKeyed' /\ ServeInv' BY Zenon, <1>1, <1>4, <1>5, <2>2, <2>3, WiredStages, Advances
  <2>5. RunsInv' BY <1>1, <1>5, <2>2, OneDaemon, RunsStay DEF BootInv
  <2> QED BY <1>4, <2>4, <2>5 DEF DaemonKept
<1>7. CASE Reaches(d, "llm") /\ btSocket' = btSocket
  <2>1. /\ Others(d) /\ btDaemon'[d].stage = "llm" /\ btDaemon'[d].test = btDaemon[d].test
        /\ btDaemon'[d].tools = btDaemon[d].tools /\ btDaemon'[d].key = btDaemon[d].key
    BY Zenon, <1>2, <1>7, Reached DEF StageSet
  <2>2. DaemonsKeyed' /\ ServeInv' BY Zenon, <1>1, <1>4, <1>5, <1>7, <2>1, OneDaemon, WiredStages, Advances
  <2>3. RunsInv' BY Zenon, <1>1, <1>5, <2>1, OneDaemon, RunsStay DEF BootInv
  <2> QED BY <1>4, <2>2, <2>3 DEF DaemonKept
<1> QED BY Zenon, <1>6, <1>7 DEF StartsLlm, ReachesWith

LEMMA OthersKept == ASSUME BootInv, NEW d \in Daemons, StartsOthers(d) PROVE DaemonKept
<1>1. /\ btDaemon[d].stage = "llm" /\ Reaches(d, "services")
      /\ UNCHANGED <<btStore, btSocket, btRuns>> /\ RestKept
  BY Zenon DEF StartsOthers
<1>2. FileTypes /\ btDaemon \in [Daemons -> DaemonSet] BY OneDaemon
<1>3. FilesStay BY Zenon, <1>1, <1>2, RestStays
<1>4. /\ Others(d) /\ btDaemon'[d].stage = "services" /\ btDaemon'[d].test = btDaemon[d].test
      /\ btDaemon'[d].tools = btDaemon[d].tools /\ btDaemon'[d].key = btDaemon[d].key
  BY Zenon, <1>1, <1>2, Reached DEF StageSet
<1>5. "llm" \in FromWired /\ "services" \in FromWired /\ "llm" \notin FromRestored BY Zenon DEF FromWired, FromRestored
<1>6. DaemonsKeyed' /\ ServeInv' BY Zenon, <1>1, <1>3, <1>4, <1>5, OneDaemon, WiredStages, Advances
<1>7. RunsInv' BY Zenon, <1>1, <1>4, <1>5, OneDaemon, RunsStay DEF BootInv
<1> QED BY <1>3, <1>6, <1>7 DEF DaemonKept

LEMMA RestoresKept == ASSUME BootInv, NEW d \in Daemons, Restores(d) PROVE DaemonKept
<1>1. /\ btDaemon[d].stage = "services" /\ Reaches(d, "restored")
      /\ btRuns' = IF ~btDaemon[d].test /\ btRuns.record = "live" THEN [btRuns EXCEPT !.starting = @ + 1] ELSE btRuns
      /\ UNCHANGED <<btStore, btSocket>> /\ RestKept
  BY Zenon DEF Restores
<1>2. FileTypes /\ btDaemon \in [Daemons -> DaemonSet] /\ btDaemon[d].test \in BOOLEAN BY OneDaemon
<1>3. FilesStay BY Zenon, <1>1, <1>2, RestStays
<1>4. /\ Others(d) /\ btDaemon'[d].stage = "restored" /\ btDaemon'[d].test = btDaemon[d].test
      /\ btDaemon'[d].tools = btDaemon[d].tools /\ btDaemon'[d].key = btDaemon[d].key
  BY Zenon, <1>1, <1>2, Reached DEF StageSet
<1>5. "services" \in FromWired /\ "restored" \in FromWired /\ "services" \notin FromRestored /\ "restored" \in FromRestored
  BY Zenon DEF FromWired, FromRestored
<1>6. DaemonsKeyed' /\ ServeInv' BY Zenon, <1>1, <1>3, <1>4, <1>5, OneDaemon, WiredStages, Advances
<1>7. RunsInv'
  <2>1. CASE btRuns' = btRuns BY Zenon, <1>1, <1>4, <1>5, <2>1, OneDaemon, RunsStay DEF BootInv
  <2>2. CASE ~btDaemon[d].test /\ btRuns.record = "live" /\ btRuns' = [btRuns EXCEPT !.starting = @ + 1]
    <3>1. btDaemon[d].test = FALSE BY Zenon, <1>2, <2>2
    <3>2. btStore = d /\ d # 0
      <4>1. btDaemon[d].stage \in FromStored BY Zenon, <1>1, <1>5, WiredStages
      <4> QED BY Zenon, <3>1, <4>1, OneDaemon DEF BootInv, ServeInv
    <3>3. RunsInv BY Zenon DEF BootInv
    <3>4. btRuns.starting + 1 \in Nat BY <3>3 DEF RunsInv
    <3>5. btRuns' \in [record : {"none", "live", "final"}, starting : Nat, real : Nat, mock : Nat, early : BOOLEAN]
      BY Zenon, <2>2, <3>3, <3>4 DEF RunsInv
    <3>6. /\ btRuns'.starting = btRuns.starting + 1 /\ btRuns'.real = btRuns.real /\ btRuns'.mock = btRuns.mock
          /\ btRuns'.early = btRuns.early /\ btRuns'.record = "live"
      BY Zenon, <2>2, <3>3 DEF RunsInv
    <3>7. Executors' = Executors + 1 /\ Executors \in Nat BY <3>3, <3>6 DEF Executors, RunsInv
    <3>8. Executors <= 1 BY <1>1, <1>5, <3>2, <3>3, <3>7 DEF RunsInv
    <3>9. btRuns.early = FALSE => Executors = 0 /\ btRuns.mock = 0 BY <1>1, <1>5, <3>2, <3>3, <3>7 DEF RunsInv
    <3>10. btStore' = d /\ btDaemon'[btStore'].stage \in FromRestored BY Zenon, <1>1, <1>4, <1>5, <3>2
    <3> QED BY <3>2, <3>5, <3>6, <3>7, <3>8, <3>9, <3>10 DEF RunsInv
  <2> QED BY Zenon, <1>1, <2>1, <2>2
<1> QED BY <1>3, <1>6, <1>7 DEF DaemonKept

LEMMA OpensGatewayKept == ASSUME BootInv, NEW d \in Daemons, OpensGateway(d) PROVE DaemonKept
<1>1. btDaemon[d].stage = "restored" /\ RestKept BY Zenon DEF OpensGateway
<1>2. FileTypes /\ btDaemon \in [Daemons -> DaemonSet] BY OneDaemon
<1>3. FilesStay BY Zenon, <1>1, <1>2, RestStays
<1>4. CASE DaemonEnds(d, "failed") BY Zenon, <1>1, <1>3, <1>4, DaemonEndsKept DEF Over
<1>5. CASE /\ Reaches(d, "up") /\ btSocket' = [btSocket EXCEPT !["gateway"] = IF @ = 0 THEN d ELSE @]
           /\ UNCHANGED <<btStore, btRuns>>
  <2>1. /\ Others(d) /\ btDaemon'[d].stage = "up" /\ btDaemon'[d].test = btDaemon[d].test
        /\ btDaemon'[d].tools = btDaemon[d].tools /\ btDaemon'[d].key = btDaemon[d].key
    BY <1>2, <1>5, Reached DEF StageSet
  <2>2. /\ btSocket' \in [Sockets -> Daemons \cup {0}]
        /\ \A k \in {"kernel", "exec", "llm"} : btSocket'[k] = btSocket[k]
    BY Zenon, <1>5, OneDaemon DEF Sockets
  <2>3. "restored" \in FromWired /\ "up" \in FromWired /\ "up" \in FromRestored BY Zenon DEF FromWired, FromRestored
  <2>4. DaemonsKeyed' /\ ServeInv' BY Zenon, <1>1, <1>3, <1>5, <2>1, <2>2, <2>3, WiredStages, Advances
  <2>5. RunsInv' BY <1>5, <2>1, <2>3, OneDaemon, RunsStay DEF BootInv
  <2> QED BY <1>3, <2>4, <2>5 DEF DaemonKept
<1> QED BY Zenon, <1>4, <1>5 DEF OpensGateway

LEMMA DaemonDiesKept == ASSUME BootInv, NEW d \in Daemons, DaemonDies(d) PROVE DaemonKept
<1>1. /\ Alive(d) /\ btFuel' = [btFuel EXCEPT !.deaths = @ - 1] /\ DaemonEnds(d, "dead")
      /\ UNCHANGED <<btKey, btAuth, btEtc, btLlm, btSetup>>
  BY Zenon DEF DaemonDies, fileVars
<1>2. FileTypes BY Zenon, OneDaemon
<1>3. FilesStay BY Zenon, <1>1, <1>2, Spent DEF FilesStay, FileTypes
<1> QED BY Zenon, <1>1, <1>3, DaemonEndsKept DEF Over

\* Steps of the agent: the daemons, the stores and the sockets stay.
LEMMA AgentStepKept ==
    ASSUME BootInv, RestKept, UNCHANGED <<btDaemon, btStore, btSocket>>, RunsInv'
    PROVE  DaemonKept
<1>1. FilesStay /\ UNCHANGED <<btKey, btAuth, btFuel>> BY Zenon, RestStays DEF BootInv, FileInv
<1>2. DaemonsKeyed' BY Zenon, <1>1 DEF BootInv, DaemonsKeyed
<1>3. ServeInv' BY DEF BootInv, ServeInv
<1> QED BY Zenon, <1>1, <1>2, <1>3 DEF DaemonKept

LEMMA SpawnsKept == ASSUME BootInv, NEW d \in Daemons, Spawns(d) PROVE DaemonKept
<1>1. /\ btSocket["kernel"] = d /\ Past(d, "kernel") /\ btRuns.record = "none"
      /\ btRuns' = [btRuns EXCEPT !.record = "live", !.starting = 1, !.early = ~Past(d, "restored")]
      /\ UNCHANGED <<btDaemon, btStore, btSocket>> /\ RestKept
  BY Zenon DEF Spawns
<1>2. RunsInv BY DEF BootInv
<1>3. btDaemon[d].stage \in FromKernel /\ btDaemon[d].test = FALSE
  BY Zenon, <1>1, OneDaemon, PastMeans DEF BootInv, ServeInv
<1>4. btStore = d /\ d # 0 BY Zenon, <1>3, OneDaemon DEF BootInv, ServeInv, FromStored
<1>5. btRuns.starting = 0 /\ btRuns.real = 0 /\ btRuns.mock = 0 BY <1>1, <1>2 DEF RunsInv, Executors
<1>6. btRuns' \in [record : {"none", "live", "final"}, starting : Nat, real : Nat, mock : Nat, early : BOOLEAN]
  <2>1. 1 \in Nat BY Zenon
  <2>2. (~Past(d, "restored")) \in BOOLEAN BY Zenon
  <2> QED BY Zenon, <1>1, <1>2, <2>1, <2>2 DEF RunsInv
<1>7. /\ btRuns'.record = "live" /\ btRuns'.starting = 1 /\ btRuns'.real = btRuns.real /\ btRuns'.mock = btRuns.mock
      /\ btRuns'.early = ~Past(d, "restored")
  BY Zenon, <1>1, <1>2 DEF RunsInv
<1>8. Executors' = 1 BY <1>5, <1>7 DEF Executors
<1>9. btRuns'.early = FALSE => btDaemon[d].stage \in FromRestored
  <2>1. btRuns'.early = FALSE => Past(d, "restored") BY Zenon, <1>7
  <2> QED BY Zenon, <2>1, OneDaemon, PastMeans
<1>10. RunsInv' BY <1>1, <1>4, <1>5, <1>6, <1>7, <1>8, <1>9 DEF RunsInv
<1> QED BY Zenon, <1>1, <1>10, AgentStepKept

LEMMA LaunchesKept == ASSUME BootInv, NEW d \in Daemons, Launches(d) PROVE DaemonKept
<1>1. /\ btStore = d /\ btRuns.starting > 0
      /\ btRuns' = [btRuns EXCEPT !.starting = @ - 1,
                                  !.real = IF Past(d, "wired") THEN @ + 1 ELSE @,
                                  !.mock = IF Past(d, "wired") THEN @ ELSE @ + 1]
      /\ UNCHANGED <<btDaemon, btStore, btSocket>> /\ RestKept
  BY Zenon DEF Launches
<1> DEFINE wired == Past(d, "wired")
           real == IF wired THEN btRuns.real + 1 ELSE btRuns.real
           mock == IF wired THEN btRuns.mock ELSE btRuns.mock + 1
<1>2. RunsInv BY DEF BootInv
<1>3. btRuns.starting - 1 \in Nat /\ real \in Nat /\ mock \in Nat BY <1>1, <1>2 DEF RunsInv
<1>4. btRuns' = [btRuns EXCEPT !.starting = btRuns.starting - 1, !.real = real, !.mock = mock] BY Zenon, <1>1
<1>5. wired <=> btDaemon[d].stage \in FromWired BY Zenon, OneDaemon, PastMeans
<1>6. real + mock = btRuns.real + btRuns.mock + 1 BY <1>2 DEF RunsInv
<1>7. wired => mock = btRuns.mock BY Zenon
<1> HIDE DEF wired, real, mock
<1>8. btRuns' \in [record : {"none", "live", "final"}, starting : Nat, real : Nat, mock : Nat, early : BOOLEAN]
  BY Zenon, <1>2, <1>3, <1>4 DEF RunsInv
<1>9. /\ btRuns'.starting = btRuns.starting - 1 /\ btRuns'.real = real /\ btRuns'.mock = mock
      /\ btRuns'.early = btRuns.early /\ btRuns'.record = btRuns.record
  BY Zenon, <1>2, <1>4 DEF RunsInv
<1>10. Executors' = Executors BY <1>2, <1>3, <1>6, <1>9 DEF Executors, RunsInv
<1>11. Executors > 0 BY <1>1, <1>2 DEF Executors, RunsInv
<1>12. btRuns.early = FALSE => mock = 0
  <2> SUFFICES ASSUME btRuns.early = FALSE PROVE mock = 0 BY Zenon
  <2>1. btDaemon[d].stage \in FromRestored /\ btRuns.mock = 0 BY Zenon, <1>1, <1>2, <1>11 DEF RunsInv
  <2>2. wired BY Zenon, <1>5, <2>1 DEF FromWired
  <2> QED BY Zenon, <1>7, <2>1, <2>2
<1>13. RunsInv' BY <1>1, <1>2, <1>8, <1>9, <1>10, <1>12 DEF RunsInv
<1> QED BY Zenon, <1>1, <1>13, AgentStepKept

LEMMA AgentEndsKept == ASSUME BootInv, AgentEnds PROVE DaemonKept
<1>1. UNCHANGED <<btDaemon, btStore, btSocket>> /\ RestKept BY Zenon DEF AgentEnds
<1>2. RunsInv BY Zenon DEF BootInv
<1>3. CASE btRuns.real > 0 /\ btRuns' = [btRuns EXCEPT !.record = "final", !.real = @ - 1]
  <2>1. btRuns.real - 1 \in Nat BY <1>2, <1>3 DEF RunsInv
  <2>2. btRuns' \in [record : {"none", "live", "final"}, starting : Nat, real : Nat, mock : Nat, early : BOOLEAN]
    BY Zenon, <1>2, <1>3, <2>1 DEF RunsInv
  <2>3. /\ btRuns'.starting = btRuns.starting /\ btRuns'.real = btRuns.real - 1 /\ btRuns'.mock = btRuns.mock
        /\ btRuns'.early = btRuns.early /\ btRuns'.record = "final"
    BY Zenon, <1>2, <1>3 DEF RunsInv
  <2>4. Executors' = Executors - 1 /\ Executors \in Nat BY <1>2, <2>3 DEF RunsInv, Executors
  <2>5. RunsInv' BY <1>1, <1>2, <2>2, <2>3, <2>4 DEF RunsInv
  <2> QED BY Zenon, <1>1, <2>5, AgentStepKept
<1>4. CASE btRuns.mock > 0 /\ btRuns' = [btRuns EXCEPT !.record = "final", !.mock = @ - 1]
  <2>1. btRuns.mock - 1 \in Nat BY <1>2, <1>4 DEF RunsInv
  <2>2. btRuns' \in [record : {"none", "live", "final"}, starting : Nat, real : Nat, mock : Nat, early : BOOLEAN]
    BY Zenon, <1>2, <1>4, <2>1 DEF RunsInv
  <2>3. /\ btRuns'.starting = btRuns.starting /\ btRuns'.real = btRuns.real /\ btRuns'.mock = btRuns.mock - 1
        /\ btRuns'.early = btRuns.early /\ btRuns'.record = "final"
    BY Zenon, <1>2, <1>4 DEF RunsInv
  <2>4. Executors' = Executors - 1 /\ Executors \in Nat BY <1>2, <2>3 DEF RunsInv, Executors
  <2>5. RunsInv' BY <1>1, <1>2, <1>4, <2>2, <2>3, <2>4 DEF RunsInv
  <2> QED BY <1>1, <2>5, AgentStepKept
<1> QED BY Zenon, <1>3, <1>4 DEF AgentEnds

-----------------------------------------------------------------------------
(* config init and the daemons, config reload, and the theorem *)

\* A set-up's step leaves what the daemons saw: the key changes only where there
\* is no auth.conf yet, and auth.conf never goes away.
LEMMA SetupKeepsKeyed ==
    ASSUME FileInv, DaemonsKeyed, btDaemon' = btDaemon,
           btFuel'.overlap = FALSE => btFuel.overlap = FALSE,
           btAuth.state # "none" => btAuth'.state # "none",
           btFuel.overlap = FALSE => btKey' = btKey \/ btAuth.state = "none"
    PROVE  DaemonsKeyed'
BY Zenon DEF DaemonsKeyed

LEMMA SetupStep ==
    ASSUME BootInv, NEW s \in Setups,
           \/ SetupBegins(s) \/ WritesKey(s) \/ ChecksAuth(s) \/ WritesAuth(s)
           \/ WritesEtc(s) \/ SetupTells(s) \/ SetupDies(s)
    PROVE  FileInv' /\ DaemonsKeyed' /\ UNCHANGED <<serveVars, btReload>>
<1>1. FileInv /\ DaemonsKeyed /\ FileTypes BY Zenon DEF BootInv, FileInv
<1>2. FileInv'
  BY Zenon, <1>1, BeginsKeepsFiles, KeyKeepsFiles, ChecksKeepsFiles, AuthKeepsFiles, EtcKeepsFiles, TellsKeepsFiles,
     DiesKeepsFiles
<1>3. UNCHANGED <<serveVars, btReload>>
  BY Zenon DEF SetupBegins, WritesKey, ChecksAuth, WritesAuth, WritesEtc, SetupTells, SetupDies
<1>4. btFuel'.overlap = FALSE => btFuel.overlap = FALSE
  <2>1. CASE SetupBegins(s)
    <3>1. btFuel' = [btFuel EXCEPT !.commands = @ - 1, !.overlap = @ \/ \E r \in Setups : Busy(r)]
      BY Zenon, <2>1 DEF SetupBegins
    <3>2. btFuel'.overlap = (btFuel.overlap \/ \E r \in Setups : Busy(r)) BY Zenon, <1>1, <3>1 DEF FileTypes
    <3>3. btFuel.overlap \in BOOLEAN BY Zenon, <1>1 DEF FileTypes
    <3> QED BY Zenon, <3>2, <3>3
  <2>2. CASE SetupDies(s)
    <3>1. btFuel' = [btFuel EXCEPT !.deaths = @ - 1, !.commands = @ + 1] BY Zenon, <2>2 DEF SetupDies
    <3> QED BY Zenon, <1>1, <3>1 DEF FileTypes
  <2>3. CASE btFuel' = btFuel BY Zenon, <2>3
  <2> QED BY Zenon, <2>1, <2>2, <2>3 DEF WritesKey, ChecksAuth, WritesAuth, WritesEtc, SetupTells
<1>5. /\ btAuth.state # "none" => btAuth'.state # "none"
      /\ btFuel.overlap = FALSE => btKey' = btKey \/ btAuth.state = "none"
  <2>1. btFuel.overlap = FALSE /\ btSetup[s].step = "key" => btAuth.state = "none"
    BY Zenon, <1>1 DEF FileInv, OneAuthor, AuthorOK
  <2>2. CASE SetupDies(s)
    <3>1. \/ UNCHANGED <<btKey, btAuth>>
          \/ btSetup[s].step = "key" /\ btAuth' = btAuth
          \/ btAuth' = [by |-> s, state |-> "cut"] /\ btKey' = btKey
      BY Zenon, <1>1, <2>2, DiesLeaves
    <3> QED BY <2>1, <3>1
  <2>3. CASE WritesKey(s) BY Zenon, <2>1, <2>3 DEF WritesKey
  <2>4. CASE WritesAuth(s) BY Zenon, <2>4 DEF WritesAuth, Whole
  <2>5. CASE SetupBegins(s) \/ ChecksAuth(s) \/ WritesEtc(s) \/ SetupTells(s)
    BY Zenon, <2>5 DEF SetupBegins, ChecksAuth, WritesEtc, SetupTells, fileVars
  <2> QED BY Zenon, <2>2, <2>3, <2>4, <2>5
<1>6. DaemonsKeyed' BY Zenon, <1>1, <1>3, <1>4, <1>5, SetupKeepsKeyed DEF serveVars
<1> QED BY Zenon, <1>2, <1>3, <1>6

LEMMA EditsKept == ASSUME BootInv, Edits PROVE FileInv' /\ DaemonsKeyed'
<1>1. /\ btFuel' = [btFuel EXCEPT !.commands = @ - 1] /\ btLlm' \in LlmEdits
      /\ UNCHANGED <<btKey, btAuth, btEtc, btSetup, btDaemon>>
  BY Zenon DEF Edits, serveVars
<1>2. FileInv /\ FileTypes BY Zenon DEF BootInv, FileInv
<1>3. FilesStay BY Zenon, <1>1, <1>2, Spent DEF FilesStay
<1> QED BY Zenon, <1>1, <1>2, <1>3, StayKeepsFiles DEF BootInv, DaemonsKeyed, FilesStay

\* What the report says of a kernel.yaml of the operator.
LEMMA ReportTells ==
    ASSUME NEW spec \in KernelSpec
    PROVE  /\ Restarts(spec) \cap Reloads(spec) = {}
           /\ \A f \in DOMAIN spec : Changed(spec[f]) => f \in Restarts(spec) \cup Reloads(spec)
           /\ RequiresRestart(spec) => Restarts(spec) # {}
<1>1. DOMAIN spec = {"scheduler", "memory", "ipc", "safety", "models", "observability", "secrets"} BY Zenon DEF KernelSpec
<1>2. Restarts(spec) \cap Reloads(spec) = {} BY Zenon DEF Restarts, Reloads
<1>3. ASSUME NEW f \in DOMAIN spec, Changed(spec[f]) PROVE f \in Restarts(spec) \cup Reloads(spec)
  BY Zenon, <1>1, <1>3 DEF Restarts, Reloads
<1>4. ASSUME RequiresRestart(spec) PROVE Restarts(spec) # {}
  <2>1. spec.ipc = "moved" => "ipc" \in Restarts(spec) BY Zenon DEF Restarts, Changed
  <2>2. spec.models = "kernel" => "models" \in Restarts(spec) BY Zenon DEF Restarts
  <2>3. spec.secrets \in {"key", "store"} => "secrets" \in Restarts(spec) BY Zenon DEF Restarts
  <2> QED BY Zenon, <1>4, <2>1, <2>2, <2>3 DEF RequiresRestart
<1> QED BY Zenon, <1>2, <1>3, <1>4

LEMMA ReloadsKept == ASSUME BootInv, ReloadsConfig PROVE FileInv' /\ DaemonsKeyed' /\ ReloadTells'
<1>1. /\ btFuel' = [btFuel EXCEPT !.commands = 0]
      /\ UNCHANGED <<btKey, btAuth, btEtc, btLlm, btSetup, btDaemon>>
  BY Zenon DEF ReloadsConfig, serveVars, fileVars
<1>2. FileInv /\ FileTypes BY DEF BootInv, FileInv
<1>3. FilesStay BY Zenon, <1>1, <1>2, Spent DEF FilesStay, FileTypes
<1>4. PICK spec \in KernelEdits \cup {KernelTemplate} :
           btReload' = IF btEtc["kernel.yaml"] # "whole" \/ ~Validates(spec)
                       THEN [NotReloaded EXCEPT !.answer = "error", !.spec = spec]
                       ELSE [answer |-> "ok", restart |-> Restarts(spec), reloaded |-> Reloads(spec), spec |-> spec]
  BY Zenon DEF ReloadsConfig
<1>5. KernelTemplate \in KernelSpec
  BY Zenon DEF KernelTemplate, KernelSpec, Scheduler, MemorySection, IpcSection, Safety, Models, Observability, Secrets
<1>6. spec \in KernelSpec BY Zenon, <1>5, BootAssumption
<1>7. ReloadTells'
  <2>1. CASE btReload' = [NotReloaded EXCEPT !.answer = "error", !.spec = spec]
    <3>1. btReload'.answer = "error" BY Zenon, <2>1 DEF NotReloaded
    <3> QED BY Zenon, <3>1 DEF ReloadTells
  <2>2. CASE btReload' = [answer |-> "ok", restart |-> Restarts(spec), reloaded |-> Reloads(spec), spec |-> spec]
    <3>1. btReload'.restart = Restarts(spec) /\ btReload'.reloaded = Reloads(spec) /\ btReload'.spec = spec BY Zenon, <2>2
    <3> QED BY Zenon, <1>6, <3>1, ReportTells DEF ReloadTells
  <2> QED BY Zenon, <1>4, <2>1, <2>2
<1> QED BY Zenon, <1>1, <1>2, <1>3, <1>7, StayKeepsFiles DEF BootInv, DaemonsKeyed, FilesStay

LEMMA BootStep == ASSUME BootInv, [BootNext]_bootVars PROVE BootInv'
<1>1. ASSUME btReload' = btReload PROVE ReloadTells' BY Zenon, <1>1 DEF BootInv, ReloadTells
<1>2. ASSUME DaemonKept, btReload' = btReload PROVE BootInv'
  BY Zenon, <1>1, <1>2, StayKeepsFiles DEF BootInv, DaemonKept
<1>3. ASSUME UNCHANGED serveVars PROVE ServeInv' /\ RunsInv'
  BY <1>3 DEF BootInv, ServeInv, RunsInv, Executors, serveVars
<1>4. ASSUME NEW s \in Setups,
             \/ SetupBegins(s) \/ WritesKey(s) \/ ChecksAuth(s) \/ WritesAuth(s)
             \/ WritesEtc(s) \/ SetupTells(s) \/ SetupDies(s)
      PROVE  BootInv'
  BY Zenon, <1>1, <1>3, <1>4, SetupStep DEF BootInv
<1>5. CASE Edits BY Zenon, <1>1, <1>3, <1>5, EditsKept DEF BootInv, Edits
<1>6. ASSUME NEW d \in Daemons,
             \/ \E test \in BOOLEAN : ChecksRoot(d, test)
             \/ ReadsKey(d) \/ OpensStores(d) \/ ServesKernel(d) \/ Wires(d)
             \/ StartsBuiltIns(d) \/ StartsLlm(d) \/ StartsOthers(d)
             \/ Restores(d) \/ OpensGateway(d)
             \/ DaemonDies(d) \/ Spawns(d) \/ Launches(d)
      PROVE  BootInv'
  <2>1. btReload' = btReload
    BY Zenon, <1>6 DEF ChecksRoot, ReadsKey, OpensStores, ServesKernel, Wires, StartsBuiltIns, StartsLlm, StartsOthers,
       Restores, OpensGateway, DaemonDies, Spawns, Launches, RestKept
  <2>2. DaemonKept
    BY Zenon, <1>6, ChecksRootKept, ReadsKeyKept, OpensStoresKept, ServesKernelKept, WiresKept, BuiltInsKept, StartsLlmKept,
       OthersKept, RestoresKept, OpensGatewayKept, DaemonDiesKept, SpawnsKept, LaunchesKept
  <2> QED BY Zenon, <1>2, <2>1, <2>2
<1>7. CASE AgentEnds BY Zenon, <1>2, <1>7, AgentEndsKept DEF AgentEnds, RestKept
<1>8. CASE ReloadsConfig BY Zenon, <1>3, <1>8, ReloadsKept DEF BootInv, ReloadsConfig
<1>9. CASE UNCHANGED bootVars
  <2>1. UNCHANGED serveVars /\ btReload' = btReload BY Zenon, <1>9 DEF bootVars, serveVars
  <2>2. FilesStay /\ btDaemon' = btDaemon BY Zenon, <1>9 DEF bootVars, FilesStay, BootInv, FileInv, FileTypes
  <2>3. DaemonsKeyed' BY Zenon, <2>2 DEF BootInv, DaemonsKeyed, FilesStay
  <2> QED BY Zenon, <1>1, <1>3, <2>1, <2>2, <2>3, StayKeepsFiles DEF BootInv
<1> QED BY Zenon, <1>4, <1>5, <1>6, <1>7, <1>8, <1>9 DEF BootNext

\* Whatever config init, server start and config reload do on one root, in any
\* order and cut off anywhere: an agent that was not spawned before phase 3.5 has
\* one executor at most, with the real tools; one daemon alone is in the stores
\* and behind kernel.sock; the signing key and the printed API key stay those of
\* the root while no two set-ups overlap; the tools a daemon lists lead to a
\* service that was started; and a reload reports every changed section.
THEOREM RootIsKept == BootSpec => [](BootTypeOK /\ BootIsKept)
<1>1. BootInit => BootInv BY Zenon, BootInitInv
<1>2. BootInv /\ [BootNext]_bootVars => BootInv' BY Zenon, BootStep
<1>3. BootInv => BootTypeOK /\ BootIsKept BY Zenon, BootInvGives
<1> QED BY <1>1, <1>2, <1>3, PTL DEF BootSpec

=============================================================================
