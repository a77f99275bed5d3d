---------------------------- MODULE GatewayProofs ---------------------------
(***************************************************************************)
(* GatewayAuth proved for any sessions, connections, command ids and life  *)
(* times: a connection runs a command id at most once, every frame is      *)
(* answered once, and tokens end with their session.  WireOK strengthens   *)
(* this with what a command in progress knows: an accepted id has been     *)
(* seen and has not run before its dispatch.                               *)
(*                                                                         *)
(* EventBus proved for any publishers, subscribers, capacities and numbers *)
(* of events: a connection that asks for what it missed gets the replayed  *)
(* and the live events without a gap.  BusInv strengthens NoGap with where *)
(* an event is before the connection can have it: it is in the ring, or on *)
(* record as lost to it, before it is broadcast (StoredInv), and only an   *)
(* open connection has a replay.                                           *)
(***************************************************************************)
EXTENDS GatewayAuth, EventBus, TLAPS

-----------------------------------------------------------------------------
(* Sequences *)

\* What is in a sequence is of its set.
LEMMA ElementOfSeq ==
    ASSUME NEW S, NEW q \in Seq(S), NEW n \in 1 .. Len(q)
    PROVE  q[n] \in S
OBVIOUS

\* The empty sequence, and the length of any other.
LEMMA EmptySeq ==
    ASSUME NEW S
    PROVE  /\ << >> \in Seq(S) /\ Len(<< >>) = 0
           /\ \A q \in Seq(S) : q # << >> => Len(q) \in Nat \ {0}
OBVIOUS

\* A sequence is a function on the numbers up to its length.
LEMMA LenProperties ==
    ASSUME NEW S, NEW q \in Seq(S)
    PROVE  Len(q) \in Nat /\ q \in [1 .. Len(q) -> S] /\ DOMAIN q = 1 .. Len(q)
OBVIOUS

\* A push at the end.
LEMMA AppendProperties ==
    ASSUME NEW S, NEW q \in Seq(S), NEW e \in S
    PROVE  /\ Append(q, e) \in Seq(S) /\ Append(q, e) # << >>
           /\ Len(Append(q, e)) = Len(q) + 1
           /\ \A i \in 1 .. Len(q) : Append(q, e)[i] = q[i]
           /\ Append(q, e)[Len(q) + 1] = e
OBVIOUS

\* A pop at the front.
LEMMA HeadTailProperties ==
    ASSUME NEW S, NEW q \in Seq(S), q # << >>
    PROVE  /\ Head(q) \in S /\ Head(q) = q[1]
           /\ Tail(q) \in Seq(S) /\ Len(Tail(q)) = Len(q) - 1
           /\ \A i \in 1 .. Len(Tail(q)) : Tail(q)[i] = q[i + 1]
OBVIOUS

-----------------------------------------------------------------------------
(* Commands and tokens                                                     *)

Wires == [state : {"unopened", "open", "closed"}, session : Logins,
          seen : SUBSET CmdIds, cmd : {NoCmd} \cup Cmds,
          frames : 0 .. MaxFrames, replies : 0 .. MaxFrames]

\* What holds of one connection and the runs of its ids: every frame has its
\* reply or is being handled, an id that was not seen has not run, and an
\* accepted command has been seen and has not run before its dispatch.
WireOK(w, ran) ==
    /\ w \in Wires /\ ran \in [CmdIds -> Nat]
    /\ w.frames = w.replies + (IF w.cmd = NoCmd THEN 0 ELSE 1)
    /\ w.state = "unopened" => w.cmd = NoCmd
    /\ \A i \in CmdIds : ran[i] <= 1 /\ (i \notin w.seen => ran[i] = 0)
    /\ w.cmd.pc = "dispatch" => w.cmd.id \in w.seen /\ ran[w.cmd.id] = 0

WireInv ==
    /\ wire \in [Conns -> Wires] /\ runs \in [Conns -> [CmdIds -> Nat]]
    /\ \A c \in Conns : WireOK(wire[c], runs[c])

\* Tokens belong to sessions that were opened, no later than now, and die
\* with them.
SessionInv ==
    /\ now \in 0 .. MaxTime /\ tokens \subseteq Tokens
    /\ revoked \subseteq Logins /\ loggedOut \subseteq revoked
    /\ account \in [Logins -> [state : {"none", "active", "gone"}, since : 0 .. MaxTime]]
    /\ \A t \in tokens : account[t.session].state # "none"
    /\ \A s \in Logins : account[s].since <= now
    /\ TokensDieWithSession

\* A logout that has revoked its session goes on to forget it.
ForgetInv == \A c \in Conns : wire[c].cmd.pc = "forget" => wire[c].session \in revoked

AuthInv == WireInv /\ SessionInv /\ ForgetInv

LEMMA AuthInitInv == GatewayAuthInit => AuthInv
<1> SUFFICES ASSUME GatewayAuthInit PROVE AuthInv BY Zenon
<1> USE GatewayAuthAssumption DEF GatewayAuthInit
<1>1. Unopened \in Wires
  <2>1. (CHOOSE s \in Logins : TRUE) \in Logins BY Zenon
  <2> QED BY <2>1 DEF Unopened, Wires
<1>2. \A c \in Conns : WireOK(wire[c], runs[c]) BY <1>1 DEF WireOK, Unopened, NoCmd
<1>3. WireInv BY Zenon, <1>1, <1>2 DEF WireInv
<1>4. SessionInv BY DEF SessionInv, TokensDieWithSession
<1>5. ForgetInv BY Zenon DEF ForgetInv, Unopened, NoCmd
<1> QED BY Zenon, <1>3, <1>4, <1>5 DEF AuthInv

\* A step of one connection: it and its runs stay in order, the others stay.
LEMMA WireMoves ==
    ASSUME WireInv, NEW c \in Conns, NEW w, NEW ran, WireOK(w, ran),
           wire' = [wire EXCEPT ![c] = w], runs' = [runs EXCEPT ![c] = ran]
    PROVE  /\ WireInv'
           /\ wire'[c] = w /\ \A d \in Conns \ {c} : wire'[d] = wire[d]
<1>1. wire' \in [Conns -> Wires] /\ runs' \in [Conns -> [CmdIds -> Nat]] BY Zenon DEF WireInv, WireOK
<1>2. \A d \in Conns : WireOK(wire'[d], runs'[d]) BY Zenon DEF WireInv
<1> QED BY Zenon, <1>1, <1>2 DEF WireInv

LEMMA WireStepKeeps ==
    ASSUME AuthInv, NEW c \in Conns, NEW w, WireOK(w, runs[c]), wire' = [wire EXCEPT ![c] = w],
           UNCHANGED <<now, account, revoked, tokens, runs, loggedOut>>, w.cmd.pc # "forget"
    PROVE  AuthInv'
<1>1. runs' = [runs EXCEPT ![c] = runs[c]] BY Zenon DEF AuthInv, WireInv
<1>2. /\ WireInv' /\ wire'[c] = w
      /\ \A d \in Conns \ {c} : wire'[d] = wire[d]
  BY Zenon, <1>1, WireMoves DEF AuthInv
<1>3. SessionInv' BY Zenon DEF AuthInv, SessionInv, TokensDieWithSession
<1>4. ForgetInv' BY <1>2 DEF AuthInv, ForgetInv
<1> QED BY Zenon, <1>2, <1>3, <1>4 DEF AuthInv

\* A login, an upgrade, a frame that arrives, the end of a connection, the clock.
LEMMA ArrivalKeeps ==
    ASSUME AuthInv,
           \/ \E s \in Logins : HandleLogin(s)
           \/ \E c \in Conns : \/ \E t \in tokens : HandleWsUpgrade(c, t)
                               \/ \E id \in CmdIds, op \in CmdOps, t \in tokens : CmdArrives(c, id, op, t)
                               \/ ConnCloses(c)
           \/ TimePasses
    PROVE  AuthInv'
<1>1. ASSUME NEW s \in Logins, HandleLogin(s) PROVE AuthInv'
  <2> USE <1>1, GatewayAuthAssumption DEF HandleLogin
  <2>1. [session |-> s, exp |-> now + TokenLife] \in Tokens BY DEF Tokens, AuthInv, SessionInv
  <2>2. \A t \in tokens : t.session \in Logins \ {s} BY Zenon DEF AuthInv, SessionInv, Tokens
  <2>3. /\ account' \in [Logins -> [state : {"none", "active", "gone"}, since : 0 .. MaxTime]]
        /\ account'[s] = [state |-> "active", since |-> now]
        /\ \A r \in Logins \ {s} : account'[r] = account[r]
    BY Zenon DEF AuthInv, SessionInv
  <2>4. TokensDieWithSession'
    BY <2>2, <2>3 DEF TokensDieWithSession, AuthInv, SessionInv, Tokens
  <2>5. \A t \in tokens' : account'[t.session].state # "none" BY <2>2, <2>3 DEF AuthInv, SessionInv
  <2>6. SessionInv' BY <2>1, <2>3, <2>4, <2>5 DEF AuthInv, SessionInv
  <2>7. WireInv' /\ ForgetInv' BY Zenon DEF AuthInv, WireInv, ForgetInv
  <2> QED BY Zenon, <2>6, <2>7 DEF AuthInv
<1>2. ASSUME NEW c \in Conns, NEW t \in tokens, HandleWsUpgrade(c, t) PROVE AuthInv'
  <2> DEFINE v == wire[c]
             u == [v EXCEPT !.state = "open"]
             w == [u EXCEPT !.session = t.session]
  <2>1. v \in Wires /\ WireOK(v, runs[c]) /\ v.cmd = NoCmd
    BY Zenon, <1>2 DEF AuthInv, WireInv, HandleWsUpgrade, WireOK
  <2>2. wire' = [wire EXCEPT ![c] = w] BY Zenon, <1>2 DEF HandleWsUpgrade, AuthInv, WireInv
  <2>3. t.session \in Logins BY Zenon DEF AuthInv, SessionInv, Tokens
  <2> HIDE DEF v
  <2>4. /\ u \in Wires /\ u.seen = v.seen /\ u.cmd = v.cmd
        /\ u.frames = v.frames /\ u.replies = v.replies /\ u.state = "open"
    BY Zenon, <2>1 DEF Wires
  <2> HIDE DEF u
  <2>5. /\ w \in Wires /\ w.seen = v.seen /\ w.cmd = v.cmd
        /\ w.frames = v.frames /\ w.replies = v.replies /\ w.state = "open"
    BY Zenon, <2>3, <2>4 DEF Wires
  <2> HIDE DEF w
  <2>6. WireOK(w, runs[c]) /\ w.cmd.pc # "forget" BY <2>1, <2>5 DEF WireOK, NoCmd
  <2> QED BY Zenon, <1>2, <2>2, <2>6, WireStepKeeps DEF HandleWsUpgrade
<1>3. ASSUME NEW c \in Conns, NEW id \in CmdIds, NEW op \in CmdOps, NEW t \in tokens,
             CmdArrives(c, id, op, t)
      PROVE  AuthInv'
  <2> DEFINE v == wire[c]
             cmd == [pc |-> "validate", id |-> id, op |-> op, token |-> t]
             w == [state |-> v.state, session |-> v.session, seen |-> v.seen, cmd |-> cmd,
                   frames |-> v.frames + 1, replies |-> v.replies]
  <2>1. v \in Wires /\ WireOK(v, runs[c]) /\ v.cmd = NoCmd /\ v.state = "open" /\ v.frames < MaxFrames
    BY Zenon, <1>3 DEF AuthInv, WireInv, CmdArrives
  <2>2. wire' = [wire EXCEPT ![c] = w] BY <1>3, <2>1 DEF CmdArrives, Wires, AuthInv, WireInv
  <2>3. cmd \in Cmds /\ cmd # NoCmd BY Zenon DEF Cmds, NoCmd, AuthInv, SessionInv
  <2>4. cmd.pc = "validate" BY Zenon
  <2> HIDE DEF cmd
  <2>5. w \in Wires BY <2>1, <2>3, GatewayAuthAssumption DEF Wires
  <2>6. WireOK(w, runs[c]) BY <2>1, <2>3, <2>4, <2>5 DEF WireOK, Wires
  <2> QED BY Zenon, <1>3, <2>2, <2>4, <2>6, WireStepKeeps DEF CmdArrives
<1>4. ASSUME NEW c \in Conns, ConnCloses(c) PROVE AuthInv'
  <2> DEFINE v == wire[c]
             w == [v EXCEPT !.state = "closed"]
  <2>1. v \in Wires /\ WireOK(v, runs[c]) /\ v.cmd = NoCmd
    BY Zenon, <1>4 DEF AuthInv, WireInv, ConnCloses
  <2>2. wire' = [wire EXCEPT ![c] = w] BY Zenon, <1>4 DEF ConnCloses, AuthInv, WireInv
  <2> HIDE DEF v
  <2>3. /\ w \in Wires /\ w.seen = v.seen /\ w.cmd = v.cmd
        /\ w.frames = v.frames /\ w.replies = v.replies /\ w.state = "closed"
    BY Zenon, <2>1 DEF Wires
  <2> HIDE DEF w
  <2>4. WireOK(w, runs[c]) /\ w.cmd.pc # "forget" BY <2>1, <2>3 DEF WireOK, NoCmd
  <2> QED BY Zenon, <1>4, <2>2, <2>4, WireStepKeeps DEF ConnCloses
<1>5. CASE TimePasses
  <2> USE <1>5, GatewayAuthAssumption DEF TimePasses
  <2>1. WireInv' /\ ForgetInv' BY Zenon DEF AuthInv, WireInv, ForgetInv
  <2>2. SessionInv' BY DEF AuthInv, SessionInv, TokensDieWithSession
  <2> QED BY Zenon, <2>1, <2>2 DEF AuthInv
<1> QED BY Zenon, <1>1, <1>2, <1>3, <1>4, <1>5

LEMMA CmdIsCmd == \A cmd \in Cmds : cmd # NoCmd BY DEF Cmds, NoCmd

\* A step of the command handler that moves its command past dispatch and
\* leaves the rest of the connection.
LEMMA GoesMoves ==
    ASSUME AuthInv, NEW c \in Conns, wire[c].cmd # NoCmd,
           NEW pc \in {"session", "forget", "reply"}, Goes(c, pc)
    PROVE  \E w : /\ wire' = [wire EXCEPT ![c] = w] /\ w.cmd.pc = pc
                 /\ w.session = wire[c].session /\ w.seen = wire[c].seen
                 /\ WireOK(w, runs[c])
<1> DEFINE v == wire[c]
           cmd == [v.cmd EXCEPT !.pc = pc]
           w == [v EXCEPT !.cmd = cmd]
<1>1. v \in Wires /\ WireOK(v, runs[c]) BY Zenon DEF AuthInv, WireInv
<1>2. wire' = [wire EXCEPT ![c] = w] BY Zenon DEF Goes, AuthInv, WireInv
<1>3. v.cmd \in Cmds BY Zenon, <1>1 DEF Wires
<1>4. v.cmd # NoCmd BY Zenon
<1> HIDE DEF v
<1>5. cmd \in Cmds /\ cmd.pc = pc BY Zenon, <1>3 DEF Cmds
<1> HIDE DEF cmd
<1>6. /\ w \in Wires /\ w.cmd = cmd /\ w.session = v.session /\ w.seen = v.seen
      /\ w.frames = v.frames /\ w.replies = v.replies /\ w.state = v.state
  BY Zenon, <1>1, <1>5 DEF Wires
<1> HIDE DEF w
<1>7. WireOK(w, runs[c]) BY Zenon, <1>1, <1>4, <1>5, <1>6, CmdIsCmd DEF WireOK
<1> QED BY Zenon, <1>2, <1>5, <1>6, <1>7 DEF v

\* The same for a step that runs the command's operation.
LEMMA CountedMoves ==
    ASSUME AuthInv, NEW c \in Conns, CmdAt(c, "dispatch"),
           NEW pc \in {"session", "forget", "reply"}, Goes(c, pc), Counted(c)
    PROVE  \E w : /\ WireInv' /\ wire'[c] = w /\ w.cmd.pc = pc /\ w.session = wire[c].session
                 /\ \A d \in Conns \ {c} : wire'[d] = wire[d]
<1>1. wire[c].cmd # NoCmd BY DEF CmdAt, NoCmd
<1>2. PICK w : /\ wire' = [wire EXCEPT ![c] = w] /\ w.cmd.pc = pc
               /\ w.session = wire[c].session /\ w.seen = wire[c].seen
               /\ WireOK(w, runs[c])
  BY Zenon, <1>1, GoesMoves
<1> DEFINE id == wire[c].cmd.id
           ran == [runs[c] EXCEPT ![id] = runs[c][id] + 1]
<1>3. WireOK(wire[c], runs[c]) /\ runs \in [Conns -> [CmdIds -> Nat]] BY Zenon DEF AuthInv, WireInv
<1>4. id \in CmdIds /\ id \in wire[c].seen /\ runs[c][id] = 0
  BY Zenon, <1>1, <1>3 DEF WireOK, CmdAt, Wires, Cmds
<1>5. runs' = [runs EXCEPT ![c] = ran] BY Zenon, <1>3 DEF Counted
<1>6. /\ ran \in [CmdIds -> Nat] /\ ran[id] = 1
      /\ \A i \in CmdIds \ {id} : ran[i] = runs[c][i]
  BY <1>3, <1>4
<1> HIDE DEF ran, id
<1>7. WireOK(w, ran) BY <1>2, <1>4, <1>6 DEF WireOK
<1>8. /\ WireInv' /\ wire'[c] = w
      /\ \A d \in Conns \ {c} : wire'[d] = wire[d]
  BY Zenon, <1>2, <1>5, <1>7, WireMoves DEF AuthInv
<1> QED BY Zenon, <1>2, <1>8

\* The command handler: validate, dispatch, reply.
LEMMA CommandKeeps ==
    ASSUME AuthInv, NEW c \in Conns, CmdStep(c)
    PROVE  AuthInv'
<1>1. wire[c].cmd # NoCmd
  BY DEF CmdStep, CmdRefused, CmdAccepted, DispatchPlain, RefreshValidates, RefreshIssues,
         LogoutRevokes, LogoutForgets, CmdReplied, CmdAt, NoCmd
<1>2. wire[c] \in Wires /\ WireOK(wire[c], runs[c]) /\ wire[c].cmd \in Cmds
  BY Zenon, <1>1 DEF AuthInv, WireInv, Wires
<1>3. CASE CmdRefused(c)
  <2>1. Goes(c, "reply") /\ UNCHANGED <<now, account, revoked, tokens, runs, loggedOut>>
    BY Zenon, <1>3 DEF CmdRefused
  <2>2. PICK w : /\ wire' = [wire EXCEPT ![c] = w] /\ w.cmd.pc = "reply" /\ WireOK(w, runs[c])
    BY Zenon, <1>1, <2>1, GoesMoves
  <2> QED BY Zenon, <2>1, <2>2, WireStepKeeps
<1>4. CASE CmdAccepted(c)
  <2> DEFINE v == wire[c]
             u == [v EXCEPT !.seen = v.seen \cup {v.cmd.id}]
             cmd == [u.cmd EXCEPT !.pc = "dispatch"]
             w == [u EXCEPT !.cmd = cmd]
  <2>1. wire' = [wire EXCEPT ![c] = w] BY Zenon, <1>4 DEF CmdAccepted, AuthInv, WireInv
  <2>2. v.cmd.id \notin v.seen /\ v.cmd.id \in CmdIds
    BY Zenon, <1>2, <1>4 DEF CmdAccepted, Refused, Cmds
  <2>3. v \in Wires /\ WireOK(v, runs[c]) /\ v.cmd \in Cmds BY Zenon, <1>2
  <2>4. v.state # "unopened" BY Zenon, <1>1, <2>3 DEF WireOK
  <2> HIDE DEF v
  <2>5. /\ u \in Wires /\ u.cmd = v.cmd /\ u.session = v.session /\ u.seen = v.seen \cup {v.cmd.id}
        /\ u.frames = v.frames /\ u.replies = v.replies /\ u.state = v.state
    BY Zenon, <2>2, <2>3 DEF Wires
  <2> HIDE DEF u
  <2>6. cmd \in Cmds /\ cmd.pc = "dispatch" /\ cmd.id = v.cmd.id BY Zenon, <2>3, <2>5 DEF Cmds
  <2> HIDE DEF cmd
  <2>7. /\ w \in Wires /\ w.cmd = cmd /\ w.seen = v.seen \cup {v.cmd.id}
        /\ w.frames = v.frames /\ w.replies = v.replies /\ w.state = v.state
    BY Zenon, <2>5, <2>6 DEF Wires
  <2> HIDE DEF w
  <2>8. WireOK(w, runs[c])
    BY Zenon, <2>2, <2>3, <2>4, <2>6, <2>7, CmdIsCmd DEF WireOK
  <2> QED BY Zenon, <1>4, <2>1, <2>6, <2>7, <2>8, WireStepKeeps DEF CmdAccepted
<1>5. CASE DispatchPlain(c) \/ RefreshValidates(c)
  <2>1. /\ CmdAt(c, "dispatch") /\ Counted(c) /\ UNCHANGED <<now, account, revoked, tokens, loggedOut>>
        /\ \E pc \in {"session", "reply"} : Goes(c, pc)
    BY Zenon, <1>5 DEF DispatchPlain, RefreshValidates
  <2>2. PICK w : /\ WireInv' /\ wire'[c] = w /\ w.cmd.pc \in {"session", "reply"}
                 /\ \A d \in Conns \ {c} : wire'[d] = wire[d]
    BY <2>1, CountedMoves
  <2>3. SessionInv' BY Zenon, <2>1 DEF AuthInv, SessionInv, TokensDieWithSession
  <2>4. ForgetInv' BY Zenon, <2>1, <2>2 DEF AuthInv, ForgetInv
  <2> QED BY Zenon, <2>2, <2>3, <2>4 DEF AuthInv
<1>6. CASE RefreshIssues(c)
  <2> DEFINE s == wire[c].cmd.token.session
  <2>1. Goes(c, "reply") /\ UNCHANGED <<now, account, revoked, runs, loggedOut>>
    BY Zenon, <1>6 DEF RefreshIssues
  <2>2. PICK w : /\ wire' = [wire EXCEPT ![c] = w] /\ w.cmd.pc = "reply" /\ WireOK(w, runs[c])
    BY Zenon, <1>1, <2>1, GoesMoves
  <2>3. runs' = [runs EXCEPT ![c] = runs[c]] BY Zenon, <2>1 DEF AuthInv, WireInv
  <2>4. /\ WireInv' /\ wire'[c] = w
        /\ \A d \in Conns \ {c} : wire'[d] = wire[d]
    BY Zenon, <2>2, <2>3, WireMoves DEF AuthInv
  <2>5. ForgetInv' BY <2>1, <2>2, <2>4 DEF AuthInv, ForgetInv
  <2>6. s \in Logins BY Zenon, <1>2 DEF Cmds, Tokens
  <2>7. CASE tokens' = tokens
    BY Zenon, <2>1, <2>4, <2>5, <2>7 DEF AuthInv, SessionInv, TokensDieWithSession
  <2>8. CASE /\ account[s].state = "active" /\ now - account[s].since <= SessionTtl
             /\ tokens' = tokens \cup {[session |-> s, exp |-> now + TokenLife]}
    <3> HIDE DEF s
    <3>1. [session |-> s, exp |-> now + TokenLife] \in Tokens
      BY <2>6, GatewayAuthAssumption DEF Tokens, AuthInv, SessionInv
    <3>2. now + TokenLife <= account[s].since + SessionTtl + TokenLife
      BY <2>6, <2>8, GatewayAuthAssumption DEF AuthInv, SessionInv
    <3>3. TokensDieWithSession' BY <2>1, <2>8, <3>2 DEF TokensDieWithSession, AuthInv, SessionInv
    <3>4. SessionInv' BY <2>1, <2>8, <3>1, <3>3 DEF AuthInv, SessionInv
    <3> QED BY Zenon, <2>4, <2>5, <3>4 DEF AuthInv
  <2> QED BY Zenon, <1>6, <2>7, <2>8 DEF RefreshIssues
<1>7. CASE LogoutRevokes(c)
  <2>1. /\ CmdAt(c, "dispatch") /\ Counted(c) /\ Goes(c, "forget")
        /\ UNCHANGED <<now, account, tokens, loggedOut>>
        /\ revoked' = revoked \cup {wire[c].session}
    BY Zenon, <1>7 DEF LogoutRevokes
  <2>2. PICK w : /\ WireInv' /\ wire'[c] = w /\ w.session = wire[c].session
                 /\ \A d \in Conns \ {c} : wire'[d] = wire[d]
    BY Zenon, <2>1, CountedMoves
  <2>3. wire[c].session \in Logins BY Zenon, <1>2 DEF Wires
  <2>4. SessionInv' BY Zenon, <2>1, <2>3 DEF AuthInv, SessionInv, TokensDieWithSession
  <2>5. ForgetInv' BY Zenon, <2>1, <2>2 DEF AuthInv, ForgetInv
  <2> QED BY Zenon, <2>2, <2>4, <2>5 DEF AuthInv
<1>8. CASE LogoutForgets(c)
  <2> DEFINE s == wire[c].session
  <2>1. /\ CmdAt(c, "forget") /\ Goes(c, "reply") /\ UNCHANGED <<now, revoked, tokens, runs>>
        /\ account' = [account EXCEPT ![s].state = "gone"] /\ loggedOut' = loggedOut \cup {s}
    BY Zenon, <1>8 DEF LogoutForgets
  <2>2. PICK w : /\ wire' = [wire EXCEPT ![c] = w] /\ w.cmd.pc = "reply" /\ WireOK(w, runs[c])
    BY Zenon, <1>1, <2>1, GoesMoves
  <2>3. runs' = [runs EXCEPT ![c] = runs[c]] BY Zenon, <2>1 DEF AuthInv, WireInv
  <2>4. /\ WireInv' /\ wire'[c] = w
        /\ \A d \in Conns \ {c} : wire'[d] = wire[d]
    BY Zenon, <2>2, <2>3, WireMoves DEF AuthInv
  <2>5. ForgetInv' BY <2>1, <2>2, <2>4 DEF AuthInv, ForgetInv
  <2>6. s \in Logins /\ s \in revoked BY Zenon, <1>2, <2>1 DEF Wires, AuthInv, ForgetInv, CmdAt
  <2> HIDE DEF s
  <2>7. /\ account' \in [Logins -> [state : {"none", "active", "gone"}, since : 0 .. MaxTime]]
        /\ \A r \in Logins : /\ account'[r].since = account[r].since
                              /\ account[r].state # "none" => account'[r].state # "none"
    BY <2>1, <2>6 DEF AuthInv, SessionInv
  <2>8. \A t \in tokens : t.session \in Logins BY Zenon DEF AuthInv, SessionInv, Tokens
  <2>9. TokensDieWithSession' BY Zenon, <2>1, <2>7, <2>8 DEF AuthInv, SessionInv, TokensDieWithSession
  <2>10. SessionInv' BY <2>1, <2>6, <2>7, <2>8, <2>9 DEF AuthInv, SessionInv
  <2> QED BY <2>4, <2>5, <2>10 DEF AuthInv
<1>9. CASE CmdReplied(c)
  <2> DEFINE v == wire[c]
             u == [v EXCEPT !.cmd = NoCmd]
             w == [u EXCEPT !.replies = u.replies + 1]
  <2>1. wire' = [wire EXCEPT ![c] = w] BY Zenon, <1>9 DEF CmdReplied, AuthInv, WireInv
  <2>2. v \in Wires /\ WireOK(v, runs[c]) /\ v.cmd # NoCmd BY Zenon, <1>1, <1>2
  <2> HIDE DEF v
  <2>3. v.replies + 1 \in 0 .. MaxFrames /\ v.frames = v.replies + 1
    BY Zenon, <2>2, GatewayAuthAssumption DEF WireOK, Wires
  <2>4. /\ u \in Wires /\ u.cmd = NoCmd /\ u.seen = v.seen
        /\ u.frames = v.frames /\ u.replies = v.replies
    BY Zenon, <2>2 DEF Wires
  <2> HIDE DEF u
  <2>5. /\ w \in Wires /\ w.cmd = NoCmd /\ w.seen = v.seen
        /\ w.frames = v.frames /\ w.replies = v.replies + 1
    BY Zenon, <2>3, <2>4 DEF Wires
  <2> HIDE DEF w
  <2>6. w.cmd.pc = "idle" BY <2>5 DEF NoCmd
  <2>7. WireOK(w, runs[c]) BY <2>2, <2>3, <2>5, <2>6 DEF WireOK
  <2> QED BY Zenon, <1>9, <2>1, <2>6, <2>7, WireStepKeeps DEF CmdReplied
<1> QED BY Zenon, <1>3, <1>4, <1>5, <1>6, <1>7, <1>8, <1>9 DEF CmdStep

LEMMA AuthStepInv == AuthInv /\ [GatewayAuthNext]_gatewayAuthVars => AuthInv'
<1> SUFFICES ASSUME AuthInv, [GatewayAuthNext]_gatewayAuthVars PROVE AuthInv' BY Zenon
<1>1. CASE GatewayAuthNext BY Zenon, <1>1, ArrivalKeeps, CommandKeeps DEF GatewayAuthNext
<1>2. CASE UNCHANGED gatewayAuthVars
  <2> USE <1>2 DEF gatewayAuthVars, AuthInv
  <2>1. WireInv' /\ ForgetInv' BY Zenon DEF WireInv, ForgetInv
  <2>2. SessionInv' BY Zenon DEF SessionInv, TokensDieWithSession
  <2> QED BY Zenon, <2>1, <2>2
<1> QED BY Zenon, <1>1, <1>2

LEMMA AuthInvariant == GatewayAuthSpec => []AuthInv
BY AuthInitInv, AuthStepInv, PTL DEF GatewayAuthSpec

\* A connection dispatches a command id at most once, and every frame has one
\* reply or is being handled: for any connections, ids and frames
\* (validate_cmd with its ReplayGuard, handle_text_frame).
THEOREM CommandsRunOnce == GatewayAuthSpec => [](GatewayAuthTypeOK /\ NoCmdTwice)
<1>1. AuthInv => GatewayAuthTypeOK
  BY Zenon DEF AuthInv, WireInv, WireOK, SessionInv, GatewayAuthTypeOK, Wires
<1>2. AuthInv => NoCmdTwice BY Zenon DEF AuthInv, WireInv, WireOK, NoCmdTwice
<1> QED BY <1>1, <1>2, AuthInvariant, PTL

\* After a logout was answered none of the session's tokens is accepted, and
\* however often it is refreshed a token dies at the latest TokenLife after its
\* session is SessionTtl old: for any sessions, connections and lifetimes
\* (ATPTokenStore::validate, refresh_token, logout).
THEOREM TokensEndWithSession == GatewayAuthSpec => []TokensEnd
<1>1. AuthInv => LogoutIsFinal BY Zenon DEF AuthInv, SessionInv, LogoutIsFinal, Validates
<1>2. AuthInv => TokensEnd BY Zenon, <1>1 DEF AuthInv, SessionInv, TokensEnd
<1> QED BY <1>2, AuthInvariant, PTL

-----------------------------------------------------------------------------
(* Replay and live events                                                  *)

LEMMA RangeAppend ==
    ASSUME NEW S, NEW s \in Seq(S), NEW e \in S
    PROVE  Range(Append(s, e)) = Range(s) \cup {e}
<1>1. /\ Len(Append(s, e)) = Len(s) + 1 /\ Append(s, e) \in Seq(S)
      /\ Append(s, e)[Len(s) + 1] = e
      /\ \A i \in 1 .. Len(s) : Append(s, e)[i] = s[i]
  BY AppendProperties
<1>2. DOMAIN Append(s, e) = 1 .. Len(s) + 1 /\ DOMAIN s = 1 .. Len(s) /\ Len(s) \in Nat
  BY Zenon, <1>1, LenProperties
<1> DEFINE t == Append(s, e)
<1> HIDE DEF t
<1>3. \A x : x \in Range(t) => x \in Range(s) \cup {e}
  <2> SUFFICES ASSUME NEW i \in 1 .. Len(s) + 1 PROVE t[i] \in Range(s) \cup {e}
    BY Zenon, <1>2 DEF Range, t
  <2>1. CASE i = Len(s) + 1 BY Zenon, <1>1, <2>1 DEF t
  <2>2. CASE i # Len(s) + 1
    <3>1. i \in 1 .. Len(s) BY <1>2, <2>2
    <3> QED BY Zenon, <1>1, <1>2, <3>1 DEF t, Range
  <2> QED BY Zenon, <2>1, <2>2
<1>4. e \in Range(t)
  <2>1. Len(s) + 1 \in DOMAIN t BY <1>2 DEF t
  <2> QED BY Zenon, <1>1, <2>1 DEF t, Range
<1>5. \A x : x \in Range(s) => x \in Range(t)
  <2> SUFFICES ASSUME NEW i \in 1 .. Len(s) PROVE s[i] \in Range(t)
    BY Zenon, <1>2 DEF Range
  <2>1. i \in DOMAIN t /\ t[i] = s[i] BY <1>1, <1>2 DEF t
  <2> QED BY Zenon, <2>1 DEF Range
<1> QED BY Zenon, <1>3, <1>4, <1>5 DEF t

LEMMA RangeHeadTail ==
    ASSUME NEW S, NEW s \in Seq(S), s # << >>
    PROVE  /\ Head(s) \in S /\ Tail(s) \in Seq(S) /\ Len(Tail(s)) = Len(s) - 1
           /\ Range(s) = {Head(s)} \cup Range(Tail(s))
<1>1. /\ Head(s) \in S /\ Tail(s) \in Seq(S) /\ Len(Tail(s)) = Len(s) - 1
      /\ \A i \in 1 .. Len(Tail(s)) : Tail(s)[i] = s[i + 1]
      /\ Head(s) = s[1]
  BY Zenon, HeadTailProperties
<1>2. Len(s) \in Nat \ {0} /\ DOMAIN s = 1 .. Len(s) /\ DOMAIN Tail(s) = 1 .. Len(s) - 1
  BY Zenon, <1>1, LenProperties, EmptySeq
<1> DEFINE t == Tail(s)
           h == Head(s)
<1> HIDE DEF t, h
<1>3. \A x : x \in Range(s) => x \in {h} \cup Range(t)
  <2> SUFFICES ASSUME NEW i \in 1 .. Len(s) PROVE s[i] \in {h} \cup Range(t)
    BY Zenon, <1>2 DEF Range
  <2>1. CASE i = 1 BY Zenon, <1>1, <2>1 DEF h
  <2>2. CASE i # 1
    <3>1. i - 1 \in 1 .. Len(s) - 1 BY <1>2, <2>2
    <3>2. i - 1 \in DOMAIN t /\ t[i - 1] = s[(i - 1) + 1] BY Zenon, <1>1, <1>2, <3>1 DEF t
    <3>3. (i - 1) + 1 = i BY <1>2
    <3> QED BY Zenon, <3>2, <3>3 DEF Range
  <2> QED BY Zenon, <2>1, <2>2
<1>4. h \in Range(s)
  <2>1. 1 \in DOMAIN s BY <1>2
  <2> QED BY Zenon, <1>1, <2>1 DEF h, Range
<1>5. \A x : x \in Range(t) => x \in Range(s)
  <2> SUFFICES ASSUME NEW i \in 1 .. Len(s) - 1 PROVE t[i] \in Range(s)
    BY Zenon, <1>2 DEF Range, t
  <2>1. i + 1 \in DOMAIN s /\ t[i] = s[i + 1] BY <1>1, <1>2 DEF t
  <2> QED BY Zenon, <2>1 DEF Range
<1> QED BY Zenon, <1>1, <1>3, <1>4, <1>5 DEF t, h

LEMMA RangeIn == ASSUME NEW S, NEW s \in Seq(S) PROVE Range(s) \subseteq S
BY ElementOfSeq DEF Range

Links == [state : {"open", "closed"}, cursor : SeqNums \cup {NoCursor},
          subs : Subscriptions \cup {{}}, queue : Seq(Events), lagged : BOOLEAN,
          out : Seq(SeqNums \cup {Ready})]

Replays == [pc : {"idle", "lock", "copy", "send"}, since : SeqNums \cup {NoCursor}, todo : Seq(Events)]

Publishes == [pc : {"idle", "store", "push", "send"}, ev : Events \cup {NoEvent}]

Fates == [sent : SUBSET Events, evicted : SUBSET Events, skipped : SUBSET Events]

\* The types, in parts that actions change together.
PubType ==
    /\ nextSeq \in 0 .. MaxEvents
    /\ pub \in [Publishers -> Publishes]
    /\ \A p \in Publishers : pub[p].pc # "idle" => pub[p].ev \in Events

RingType == ring \in Seq(Events) /\ Len(ring) <= RingCapacity

LockType ==
    /\ \A p \in Publishers : pub[p].pc = "push" <=> ringLock = p
    /\ replay.pc = "copy" <=> ringLock = "replay"

LinkType == link \in Links /\ Len(link.queue) <= BusCapacity /\ Len(link.out) <= OutCapacity

ClientType == seen \in [got : SUBSET SeqNums, cursor : SeqNums \cup {NoCursor}] /\ connects \in 0 .. MaxConnects

BusType == PubType /\ RingType /\ LockType /\ LinkType /\ ClientType /\ replay \in Replays /\ fate \in Fates

LEMMA BusTypes == BusType => EventBusTypeOK
BY Zenon DEF BusType, PubType, RingType, LockType, LinkType, ClientType, Links, Replays, Publishes, Fates,
       EventBusTypeOK

\* Where an event that goes to the ring can be once it is broadcast.
Stored == Range(ring) \cup fate.evicted \cup fate.skipped

Ringed(e) == e.class.kind # ChunkKind

\* An event is in the ring, or on record as lost to it, before it is sent;
\* and only an open connection has a replay.
StoredInv ==
    /\ \A e \in fate.sent : Ringed(e) => e \in Stored
    /\ \A p \in Publishers : pub[p].pc = "send" /\ Ringed(pub[p].ev) => pub[p].ev \in Stored

OpenInv == link.state = "closed" => replay = NoReplay

BusInv == BusType /\ StoredInv /\ OpenInv /\ NoGap

\* A step that keeps the connection, its filter and its replay cursor, loses
\* no event that the client waits for and sends none, leaves no gap.
LEMMA GapKept ==
    ASSUME NoGap, link'.state = link.state, link'.subs = link.subs, replay'.since = replay.since,
           replay'.pc \notin {"lock", "copy"} => replay.pc \notin {"lock", "copy"},
           link.lagged => link'.lagged,
           fate'.sent = fate.sent, fate.evicted \subseteq fate'.evicted, fate.skipped \subseteq fate'.skipped,
           \A e \in fate.sent :
               ShouldReceive(link.subs, e) /\ e.seq > replay.since /\ Reached(e) => Reached(e)'
    PROVE  NoGap'
<1> SUFFICES ASSUME link'.state = "open", replay'.since # NoCursor, replay'.pc \notin {"lock", "copy"},
                    ~ link'.lagged, NEW e \in fate'.sent \ (fate'.evicted \cup fate'.skipped),
                    e.class.kind # ChunkKind, ShouldReceive(link'.subs, e), e.seq > replay'.since
             PROVE  Reached(e)'
  BY Zenon DEF NoGap, ShouldReceive
<1> QED BY Zenon DEF NoGap

LEMMA BusInitInv == EventBusInit => BusInv
<1> SUFFICES ASSUME EventBusInit PROVE BusInv OBVIOUS
<1> USE EventBusAssumption DEF EventBusInit
<1>1. << >> \in Seq(Events) /\ << >> \in Seq(SeqNums \cup {Ready}) /\ Len(<< >>) = 0
  BY Zenon, EmptySeq
<1>2. link \in Links BY Zenon, <1>1 DEF Links, Closed
<1>3. replay \in Replays BY Zenon, <1>1 DEF Replays, NoReplay
<1>4. LinkType BY <1>1, <1>2 DEF LinkType, Closed
<1>5. PubType BY DEF PubType, Publishes
<1>6. RingType BY <1>1 DEF RingType
<1>7. LockType BY Zenon DEF LockType, NoReplay
<1>8. ClientType BY DEF ClientType
<1>9. fate \in Fates BY Zenon DEF Fates
<1>10. StoredInv /\ OpenInv BY Zenon DEF StoredInv, OpenInv
<1>11. NoGap BY Zenon DEF NoGap, Closed
<1> QED BY Zenon, <1>3, <1>4, <1>5, <1>6, <1>7, <1>8, <1>9, <1>10, <1>11 DEF BusInv, BusType

\* A publish call moves on with its event.
LEMMA PubMoves ==
    ASSUME PubType, NEW p \in Publishers, pub[p].pc # "idle", NEW pc \in {"push", "send"},
           pub' = [pub EXCEPT ![p].pc = pc], nextSeq' = nextSeq
    PROVE  /\ PubType' /\ pub'[p].pc = pc /\ pub'[p].ev = pub[p].ev
           /\ \A q \in Publishers \ {p} : pub'[q] = pub[q]
<1>1. pub[p] \in Publishes /\ pub \in [Publishers -> Publishes] BY Zenon DEF PubType
<1>2. [pub[p] EXCEPT !.pc = pc] \in Publishes BY Zenon, <1>1 DEF Publishes
<1>3. /\ pub' \in [Publishers -> Publishes] /\ pub'[p].pc = pc /\ pub'[p].ev = pub[p].ev
      /\ \A q \in Publishers \ {p} : pub'[q] = pub[q]
  BY Zenon, <1>1, <1>2 DEF Publishes
<1> QED BY Zenon, <1>3 DEF PubType

LEMMA PublishKeeps ==
    ASSUME BusInv, NEW p \in Publishers,
           PubLocks(p) \/ PubSkips(p) \/ PubPushes(p) \/ \E c \in EventClasses : PubSeq(p, c)
    PROVE  BusInv'
<1> USE EventBusAssumption DEF BusInv, BusType
<1>1. ASSUME NEW c \in EventClasses, PubSeq(p, c) PROVE BusInv'
  <2>1. UNCHANGED <<ring, ringLock, link, replay, seen, connects, fate>> BY Zenon, <1>1 DEF PubSeq
  <2> DEFINE e == [seq |-> nextSeq, class |-> c]
             pc == IF c.kind = ChunkKind THEN "send" ELSE "store"
  <2>2. e \in Events BY <1>1 DEF PubSeq, PubType, Events, SeqNums
  <2>3. pub[p].pc = "idle" /\ nextSeq' \in 0 .. MaxEvents BY <1>1 DEF PubSeq, PubType
  <2>4. e.class.kind # ChunkKind => pc = "store" BY Zenon
  <2>5. pub' = [pub EXCEPT ![p] = [pc |-> pc, ev |-> e]] BY Zenon, <1>1 DEF PubSeq
  <2>6. pc \in {"send", "store"} BY Zenon
  <2> HIDE DEF e, pc
  <2>7. /\ pub' \in [Publishers -> Publishes] /\ pub'[p].pc = pc /\ pub'[p].ev = e
        /\ \A q \in Publishers \ {p} : pub'[q] = pub[q]
    BY Zenon, <2>2, <2>5, <2>6 DEF PubType, Publishes
  <2>8. PubType' BY Zenon, <2>2, <2>3, <2>7 DEF PubType
  <2>9. LockType' BY <2>1, <2>3, <2>6, <2>7 DEF LockType
  <2>10. StoredInv' BY Zenon, <2>1, <2>4, <2>7 DEF StoredInv, Stored, Ringed
  <2>11. RingType' /\ LinkType' /\ ClientType' /\ (replay \in Replays)' /\ (fate \in Fates)' /\ OpenInv'
    BY Zenon, <2>1 DEF RingType, LinkType, ClientType, OpenInv
  <2>12. NoGap' BY Zenon, <2>1 DEF NoGap, Reached
  <2> QED BY Zenon, <2>8, <2>9, <2>10, <2>11, <2>12
<1>2. CASE PubLocks(p)
  <2>1. /\ UNCHANGED <<nextSeq, ring, link, replay, seen, connects, fate>>
        /\ pub[p].pc = "store" /\ ringLock = NoOne /\ ringLock' = p
        /\ pub' = [pub EXCEPT ![p].pc = "push"]
    BY Zenon, <1>2 DEF PubLocks
  <2>2. /\ PubType' /\ pub'[p].pc = "push" /\ pub'[p].ev = pub[p].ev
        /\ \A q \in Publishers \ {p} : pub'[q] = pub[q]
    BY Zenon, <2>1, PubMoves
  <2>3. LockType' BY <2>1, <2>2 DEF LockType
  <2>4. StoredInv' BY <2>1, <2>2 DEF StoredInv, Stored
  <2>5. RingType' /\ LinkType' /\ ClientType' /\ (replay \in Replays)' /\ (fate \in Fates)' /\ OpenInv'
    BY Zenon, <2>1 DEF RingType, LinkType, ClientType, OpenInv
  <2>6. NoGap' BY Zenon, <2>1 DEF NoGap, Reached
  <2> QED BY Zenon, <2>2, <2>3, <2>4, <2>5, <2>6
<1>3. CASE PubSkips(p)
  <2> DEFINE e == pub[p].ev
  <2>1. /\ UNCHANGED <<nextSeq, ring, ringLock, link, replay, seen, connects>>
        /\ pub[p].pc = "store" /\ pub' = [pub EXCEPT ![p].pc = "send"]
        /\ fate' = [fate EXCEPT !.skipped = fate.skipped \cup {e}]
    BY Zenon, <1>3 DEF PubSkips
  <2>2. /\ PubType' /\ pub'[p].pc = "send" /\ pub'[p].ev = e
        /\ \A q \in Publishers \ {p} : pub'[q] = pub[q]
    BY Zenon, <2>1, PubMoves
  <2>3. e \in Events BY Zenon, <2>1 DEF PubType
  <2> HIDE DEF e
  <2>4. /\ fate' \in Fates /\ fate'.sent = fate.sent /\ fate'.evicted = fate.evicted
        /\ fate'.skipped = fate.skipped \cup {e}
    BY Zenon, <2>1, <2>3 DEF Fates
  <2>5. LockType' BY <2>1, <2>2 DEF LockType
  <2>6. StoredInv' BY <2>1, <2>2, <2>4 DEF StoredInv, Stored
  <2>7. RingType' /\ LinkType' /\ ClientType' /\ (replay \in Replays)' /\ OpenInv'
    BY Zenon, <2>1 DEF RingType, LinkType, ClientType, OpenInv
  <2>8. NoGap' BY Zenon, <2>1, <2>4, GapKept DEF Reached
  <2> QED BY Zenon, <2>2, <2>4, <2>5, <2>6, <2>7, <2>8
<1>4. CASE PubPushes(p)
  <2> DEFINE e == pub[p].ev
             old == IF Len(ring) >= RingCapacity THEN Tail(ring) ELSE ring
  <2>1. /\ UNCHANGED <<nextSeq, link, replay, seen, connects>>
        /\ pub[p].pc = "push" /\ pub' = [pub EXCEPT ![p].pc = "send"]
        /\ ring' = Append(old, e) /\ ringLock' = NoOne
        /\ fate' = (IF Len(ring) >= RingCapacity
                    THEN [fate EXCEPT !.evicted = fate.evicted \cup {Head(ring)}] ELSE fate)
    BY Zenon, <1>4 DEF PubPushes
  <2>2. /\ PubType' /\ pub'[p].pc = "send" /\ pub'[p].ev = e
        /\ \A q \in Publishers \ {p} : pub'[q] = pub[q]
    BY Zenon, <2>1, PubMoves
  <2>3. e \in Events BY Zenon, <2>1 DEF PubType
  <2>4. ring \in Seq(Events) /\ Len(ring) \in Nat /\ Len(ring) <= RingCapacity
    BY Zenon, LenProperties DEF RingType
  <2>5. /\ old \in Seq(Events) /\ Len(old) \in Nat /\ Len(old) < RingCapacity
        /\ fate' \in Fates /\ fate'.sent = fate.sent /\ fate'.skipped = fate.skipped
        /\ fate.evicted \subseteq fate'.evicted /\ Range(ring) \subseteq Range(old) \cup fate'.evicted
    <3>1. CASE Len(ring) >= RingCapacity
      <4>1. ring # << >> BY <3>1, EmptySeq
      <4>2. /\ Head(ring) \in Events /\ Tail(ring) \in Seq(Events) /\ Len(Tail(ring)) = Len(ring) - 1
            /\ Range(ring) = {Head(ring)} \cup Range(Tail(ring))
        BY Zenon, <2>4, <4>1, RangeHeadTail
      <4>3. fate' = [fate EXCEPT !.evicted = fate.evicted \cup {Head(ring)}] /\ old = Tail(ring)
        BY Zenon, <2>1, <3>1
      <4>4. /\ fate' \in Fates /\ fate'.sent = fate.sent /\ fate'.skipped = fate.skipped
            /\ fate'.evicted = fate.evicted \cup {Head(ring)}
        BY Zenon, <4>2, <4>3 DEF Fates
      <4>5. Len(old) \in Nat BY Zenon, <4>2, <4>3, LenProperties
      <4>6. Len(old) < RingCapacity
        <5>1. RingCapacity \in Nat BY Zenon
        <5>2. Len(old) = Len(ring) - 1 BY Zenon, <4>2, <4>3
        <5> QED BY <2>4, <5>1, <5>2
      <4> QED BY Zenon, <4>2, <4>3, <4>4, <4>5, <4>6
    <3>2. CASE ~(Len(ring) >= RingCapacity)
      <4>1. fate' = fate /\ old = ring BY Zenon, <2>1, <3>2
      <4> QED BY <2>4, <3>2, <4>1
    <3> QED BY Zenon, <3>1, <3>2
  <2> HIDE DEF old, e
  <2>6. ring' \in Seq(Events) /\ Len(ring') = Len(old) + 1 /\ Range(ring') = Range(old) \cup {e}
    BY <2>1, <2>3, <2>5, AppendProperties, RangeAppend
  <2>7. RingType' BY <2>5, <2>6 DEF RingType
  <2>8. LockType' BY Zenon, <2>1, <2>2 DEF LockType
  <2>9. Stored \subseteq Stored' /\ e \in Stored' BY Zenon, <2>5, <2>6 DEF Stored
  <2>10. StoredInv' BY Zenon, <2>2, <2>5, <2>9 DEF StoredInv
  <2>11. LinkType' /\ ClientType' /\ (replay \in Replays)' /\ OpenInv'
    BY Zenon, <2>1 DEF LinkType, ClientType, OpenInv
  <2>12. NoGap' BY Zenon, <2>1, <2>5, GapKept DEF Reached
  <2> QED BY Zenon, <2>2, <2>5, <2>7, <2>8, <2>10, <2>11, <2>12
<1> QED BY Zenon, <1>1, <1>2, <1>3, <1>4

\* A connection's record with another queue, channel or filter.
LEMMA LinkMoves ==
    ASSUME LinkType, NEW q \in Seq(Events), NEW o \in Seq(SeqNums \cup {Ready}), NEW b \in BOOLEAN,
           Len(q) <= BusCapacity, Len(o) <= OutCapacity,
           link' = [[[link EXCEPT !.queue = q] EXCEPT !.lagged = b] EXCEPT !.out = o]
    PROVE  /\ LinkType' /\ link'.state = link.state /\ link'.subs = link.subs /\ link'.lagged = b
           /\ link'.queue = q /\ link'.out = o
<1> DEFINE k == [link EXCEPT !.queue = q]
           l == [k EXCEPT !.lagged = b]
<1>1. k \in Links /\ k.state = link.state /\ k.subs = link.subs /\ k.queue = q
  BY Zenon DEF LinkType, Links
<1>2. link' = [l EXCEPT !.out = o] BY Zenon
<1> HIDE DEF k
<1>3. l \in Links /\ l.state = link.state /\ l.subs = link.subs /\ l.queue = q /\ l.lagged = b
  BY Zenon, <1>1 DEF Links
<1> HIDE DEF l
<1>4. /\ link' \in Links /\ link'.state = link.state /\ link'.subs = link.subs /\ link'.lagged = b
      /\ link'.queue = q /\ link'.out = o
  BY Zenon, <1>2, <1>3 DEF Links
<1> QED BY Zenon, <1>4 DEF LinkType

\* Updates of one or two of the fields are updates of all three.
LEMMA LinkUpdates ==
    ASSUME link \in Links, NEW q, NEW o, NEW b
    PROVE  /\ [link EXCEPT !.queue = q] =
                  [[[link EXCEPT !.queue = q] EXCEPT !.lagged = link.lagged] EXCEPT !.out = link.out]
           /\ [link EXCEPT !.out = o] =
                  [[[link EXCEPT !.queue = link.queue] EXCEPT !.lagged = link.lagged] EXCEPT !.out = o]
           /\ [link EXCEPT !.queue = q, !.out = o] =
                  [[[link EXCEPT !.queue = q] EXCEPT !.lagged = link.lagged] EXCEPT !.out = o]
           /\ [link EXCEPT !.queue = q, !.lagged = b] =
                  [[[link EXCEPT !.queue = q] EXCEPT !.lagged = b] EXCEPT !.out = link.out]
BY Zenon DEF Links

\* broadcast::send: the event is in the connection's queue, or it lags.
LEMMA SendKeeps ==
    ASSUME BusInv, NEW p \in Publishers, PubSends(p)
    PROVE  BusInv'
<1> USE EventBusAssumption DEF BusInv, BusType
<1> DEFINE e == pub[p].ev
           q == Append(link.queue, e)
           over == Len(q) > BusCapacity
           kept == IF over THEN Tail(q) ELSE q
<1>1. /\ UNCHANGED <<nextSeq, ring, ringLock, replay, seen, connects>> /\ pub[p].pc = "send"
      /\ pub' = [pub EXCEPT ![p] = [pc |-> "idle", ev |-> NoEvent]]
      /\ fate' = [fate EXCEPT !.sent = fate.sent \cup {e}]
      /\ link' = (IF link.state = "closed" THEN link
                  ELSE [link EXCEPT !.queue = kept, !.lagged = link.lagged \/ over])
  BY Zenon DEF PubSends
<1>2. e \in Events BY Zenon, <1>1 DEF PubType
<1>3. /\ pub' \in [Publishers -> Publishes] /\ pub'[p].pc = "idle"
      /\ \A r \in Publishers \ {p} : pub'[r] = pub[r]
  BY Zenon, <1>1 DEF PubType, Publishes
<1>4. PubType' BY Zenon, <1>1, <1>3 DEF PubType
<1>5. Ringed(e) => e \in Stored BY Zenon, <1>1 DEF StoredInv
<1>6. link \in Links /\ link.queue \in Seq(Events) /\ Len(link.queue) \in Nat /\ Len(link.queue) <= BusCapacity
  BY Zenon, LenProperties DEF LinkType, Links
<1>7. /\ q \in Seq(Events) /\ Len(q) = Len(link.queue) + 1 /\ q # << >>
      /\ Range(q) = Range(link.queue) \cup {e}
  BY <1>2, <1>6, AppendProperties, RangeAppend
<1>8. BusCapacity \in Nat BY Zenon
<1> HIDE DEF e, q
<1>9. /\ fate' \in Fates /\ fate'.sent = fate.sent \cup {e} /\ fate'.evicted = fate.evicted
      /\ fate'.skipped = fate.skipped
  BY Zenon, <1>1, <1>2 DEF Fates
<1>10. kept \in Seq(Events) /\ Len(kept) <= BusCapacity /\ over \in BOOLEAN /\ (~over => kept = q)
  <2>1. CASE over
    <3>1. Tail(q) \in Seq(Events) /\ Len(Tail(q)) = Len(q) - 1 BY Zenon, <1>7, HeadTailProperties
    <3> QED BY <1>6, <1>7, <1>8, <2>1, <3>1
  <2>2. CASE ~over BY <1>6, <1>7, <1>8, <2>2
  <2> QED BY Zenon, <2>1, <2>2
<1> HIDE DEF kept, over
<1>11. LockType' BY Zenon, <1>1, <1>3 DEF LockType
<1>12. StoredInv' BY <1>1, <1>3, <1>5, <1>9 DEF StoredInv, Stored
<1>13. RingType' /\ ClientType' /\ (replay \in Replays)' BY Zenon, <1>1 DEF RingType, ClientType
<1>14. CASE link.state = "closed"
  <2>1. link' = link BY Zenon, <1>1, <1>14
  <2>2. LinkType' /\ OpenInv' BY Zenon, <1>1, <2>1 DEF LinkType, OpenInv
  <2>3. NoGap' BY Zenon, <1>14, <2>1 DEF NoGap
  <2> QED BY <1>4, <1>9, <1>11, <1>12, <1>13, <2>2, <2>3
<1>15. CASE link.state # "closed"
  <2>1. link' = [[[link EXCEPT !.queue = kept] EXCEPT !.lagged = (link.lagged \/ over)] EXCEPT !.out = link.out]
    BY Zenon, <1>1, <1>6, <1>15, LinkUpdates
  <2>2. link.out \in Seq(SeqNums \cup {Ready}) /\ Len(link.out) <= OutCapacity
        /\ (link.lagged \/ over) \in BOOLEAN
    BY Zenon, <1>6 DEF LinkType, Links
  <2>3. /\ LinkType' /\ link'.state = link.state /\ link'.subs = link.subs
        /\ link'.lagged = (link.lagged \/ over) /\ link'.queue = kept /\ link'.out = link.out
    BY Zenon, <1>10, <2>1, <2>2, LinkMoves
  <2>4. OpenInv' BY Zenon, <1>15, <2>3 DEF OpenInv
  <2>5. NoGap'
    <3> SUFFICES ASSUME link'.state = "open", replay.since # NoCursor, replay.pc \notin {"lock", "copy"},
                        ~ link'.lagged, NEW f \in fate'.sent \ (fate.evicted \cup fate.skipped),
                        f.class.kind # ChunkKind, ShouldReceive(link.subs, f), f.seq > replay.since
                 PROVE  Reached(f)'
      BY <1>1, <1>9, <2>3 DEF NoGap, ShouldReceive
    <3>1. ~ link.lagged /\ kept = q BY Zenon, <1>10, <2>3
    <3>2. Range(link'.queue) = Range(link.queue) \cup {e} BY Zenon, <1>7, <2>3, <3>1
    <3>3. CASE f = e BY Zenon, <3>2, <3>3 DEF Reached
    <3>4. CASE f \in fate.sent
      <4>1. Reached(f) BY Zenon, <2>3, <3>1, <3>4 DEF NoGap
      <4> QED BY Zenon, <1>1, <2>3, <3>2, <4>1 DEF Reached
    <3> QED BY Zenon, <1>9, <3>3, <3>4
  <2> QED BY <1>4, <1>9, <1>11, <1>12, <1>13, <2>3, <2>4, <2>5
<1> QED BY Zenon, <1>14, <1>15

\* A step that leaves the ring, the publishers and the history alone.
LEMMA RingKept ==
    ASSUME BusInv, UNCHANGED <<nextSeq, ring, pub, fate>>
    PROVE  PubType' /\ RingType' /\ StoredInv' /\ (fate \in Fates)'
BY Zenon DEF BusInv, BusType, PubType, RingType, StoredInv, Stored

\* The pump, the writer task and the loss of a connection.
LEMMA ConnectionKeeps ==
    ASSUME BusInv, Connect \/ Disconnect \/ PumpForwards \/ WriterSends
    PROVE  BusInv'
<1> USE EventBusAssumption DEF BusInv, BusType
<1>1. UNCHANGED <<nextSeq, ring, pub, fate>> /\ UNCHANGED ringLock
  BY Zenon DEF Connect, Disconnect, PumpForwards, WriterSends
<1>2. PubType' /\ RingType' /\ StoredInv' /\ (fate \in Fates)' BY Zenon, <1>1, RingKept
<1>3. link \in Links /\ link.queue \in Seq(Events) /\ link.out \in Seq(SeqNums \cup {Ready})
      /\ link.lagged \in BOOLEAN /\ Len(link.queue) <= BusCapacity /\ Len(link.out) <= OutCapacity
  BY Zenon DEF LinkType, Links
<1>4. Len(link.queue) \in Nat /\ Len(link.out) \in Nat BY Zenon, <1>3, LenProperties
<1>5. << >> \in Seq(Events) /\ << >> \in Seq(SeqNums \cup {Ready}) /\ Len(<< >>) = 0 BY Zenon, EmptySeq
<1>6. NoReplay \in Replays /\ NoReplay.pc = "idle" /\ NoReplay.since = NoCursor
  BY Zenon, <1>5 DEF Replays, NoReplay
<1>7. CASE Connect
  <2>1. /\ link' = [Closed EXCEPT !.state = "open", !.cursor = seen.cursor, !.out = <<Ready>>]
        /\ link.state = "closed" /\ replay' = NoReplay /\ seen' = seen /\ connects' \in 0 .. MaxConnects
    BY <1>7 DEF Connect, ClientType
  <2>2. seen.cursor \in SeqNums \cup {NoCursor} BY Zenon DEF ClientType
  <2>3. <<Ready>> \in Seq(SeqNums \cup {Ready}) /\ Len(<<Ready>>) = 1 OBVIOUS
  <2> DEFINE r == <<Ready>>
             n == seen.cursor
  <2>4. link' = [state |-> "open", cursor |-> n, subs |-> {}, queue |-> << >>, lagged |-> FALSE, out |-> r]
    BY Zenon, <2>1 DEF Closed
  <2>5. r \in Seq(SeqNums \cup {Ready}) /\ Len(r) = 1 BY Zenon, <2>3
  <2>6. n \in SeqNums \cup {NoCursor} BY Zenon, <2>2
  <2> HIDE DEF r, n
  <2>7. LinkType' /\ link'.state = "open"
    <3>1. link' \in Links BY Zenon, <1>5, <2>4, <2>5, <2>6 DEF Links
    <3>2. link'.queue = << >> /\ link'.out = r /\ link'.state = "open" BY Zenon, <2>4
    <3>3. Len(link'.queue) = 0 BY <3>2
    <3>4. Len(link'.out) = 1 BY Zenon, <2>5, <3>2
    <3>5. 0 <= BusCapacity /\ 1 <= OutCapacity BY SMT
    <3> QED BY Zenon, <3>1, <3>2, <3>3, <3>4, <3>5 DEF LinkType
  <2>8. LockType' BY Zenon, <1>1, <1>6, <2>1 DEF LockType, OpenInv
  <2>9. ClientType' BY Zenon, <2>1 DEF ClientType
  <2>10. OpenInv' /\ NoGap' BY Zenon, <1>6, <2>1, <2>7 DEF OpenInv, NoGap
  <2> QED BY Zenon, <1>2, <1>6, <2>1, <2>7, <2>8, <2>9, <2>10
<1>8. CASE Disconnect
  <2>1. link' = Closed /\ replay' = NoReplay /\ UNCHANGED <<seen, connects>> /\ replay.pc # "copy"
    BY Zenon, <1>8 DEF Disconnect
  <2>2. Closed \in Links /\ Closed.state = "closed" /\ Closed.queue = << >> /\ Closed.out = << >>
    BY Zenon, <1>5 DEF Closed, Links
  <2>3. LinkType' BY <1>5, <2>1, <2>2 DEF LinkType
  <2>4. LockType' BY Zenon, <1>1, <1>6, <2>1 DEF LockType
  <2>5. ClientType' BY Zenon, <2>1 DEF ClientType
  <2>6. OpenInv' /\ NoGap' BY Zenon, <2>1, <2>2 DEF OpenInv, NoGap
  <2> QED BY Zenon, <1>2, <1>6, <2>1, <2>3, <2>4, <2>5, <2>6
<1>9. CASE PumpForwards
  <2> DEFINE e == Head(link.queue)
             q == Tail(link.queue)
  <2>1. UNCHANGED <<replay, seen, connects>> /\ link.queue # << >> BY Zenon, <1>9 DEF PumpForwards
  <2>2. e \in Events /\ q \in Seq(Events) /\ Len(q) = Len(link.queue) - 1
        /\ Range(link.queue) = {e} \cup Range(q)
    BY Zenon, <1>3, <2>1, RangeHeadTail
  <2>3. Len(q) <= BusCapacity BY <1>3, <1>4, <2>2
  <2>4. e.seq \in SeqNums BY Zenon, <2>2 DEF Events
  <2>5. CASE ShouldReceive(link.subs, e)
    <3> DEFINE o == Append(link.out, e.seq)
    <3>1. link' = [link EXCEPT !.queue = q, !.out = o] /\ Len(link.out) < OutCapacity
      BY Zenon, <1>9, <2>5 DEF PumpForwards, HasRoom
    <3>2. /\ o \in Seq(SeqNums \cup {Ready}) /\ Len(o) = Len(link.out) + 1
          /\ Range(o) = Range(link.out) \cup {e.seq}
      BY <1>3, <2>4, AppendProperties, RangeAppend
    <3>3. Len(o) <= OutCapacity BY <1>4, <3>1, <3>2
    <3> HIDE DEF e, q, o
    <3>4. link' = [[[link EXCEPT !.queue = q] EXCEPT !.lagged = link.lagged] EXCEPT !.out = o]
      BY Zenon, <1>3, <3>1, LinkUpdates
    <3>5. /\ LinkType' /\ link'.state = link.state /\ link'.subs = link.subs
          /\ link'.lagged = link.lagged /\ link'.queue = q /\ link'.out = o
      BY Zenon, <1>3, <2>2, <2>3, <3>2, <3>3, <3>4, LinkMoves
    <3>6. LockType' /\ ClientType' /\ OpenInv' BY Zenon, <1>1, <2>1, <3>5 DEF LockType, ClientType, OpenInv
    <3>7. \A f : Reached(f) => Reached(f)' BY <2>1, <2>2, <3>2, <3>5 DEF Reached
    <3>8. NoGap' BY <1>1, <2>1, <3>5, <3>7, GapKept
    <3> QED BY Zenon, <1>2, <2>1, <3>5, <3>6, <3>8
  <2>6. CASE ~ ShouldReceive(link.subs, e)
    <3>1. link' = [link EXCEPT !.queue = q] BY Zenon, <1>9, <2>6 DEF PumpForwards
    <3> HIDE DEF e, q
    <3>2. link' = [[[link EXCEPT !.queue = q] EXCEPT !.lagged = link.lagged] EXCEPT !.out = link.out]
      BY Zenon, <1>3, <3>1, LinkUpdates
    <3>3. /\ LinkType' /\ link'.state = link.state /\ link'.subs = link.subs
          /\ link'.lagged = link.lagged /\ link'.queue = q /\ link'.out = link.out
      BY Zenon, <1>3, <2>2, <2>3, <3>2, LinkMoves
    <3>4. LockType' /\ ClientType' /\ OpenInv' BY Zenon, <1>1, <2>1, <3>3 DEF LockType, ClientType, OpenInv
    <3>5. \A f : ShouldReceive(link.subs, f) /\ Reached(f) => Reached(f)'
      BY Zenon, <2>1, <2>2, <2>6, <3>3 DEF Reached
    <3>6. NoGap' BY Zenon, <1>1, <2>1, <3>3, <3>5, GapKept
    <3> QED BY <1>2, <2>1, <3>3, <3>4, <3>6
  <2> QED BY Zenon, <2>5, <2>6
<1>10. CASE WriterSends
  <2> DEFINE n == Head(link.out)
             o == Tail(link.out)
             seq == IF n = Ready THEN 0 ELSE n
  <2>1. /\ UNCHANGED <<replay, connects>> /\ link.out # << >> /\ link' = [link EXCEPT !.out = o]
        /\ seen' = [got |-> seen.got \cup ({n} \ {Ready}),
                    cursor |-> IF seq > seen.cursor THEN seq ELSE seen.cursor]
    BY Zenon, <1>10 DEF WriterSends
  <2>2. n \in SeqNums \cup {Ready} /\ o \in Seq(SeqNums \cup {Ready}) /\ Len(o) = Len(link.out) - 1
        /\ Range(link.out) = {n} \cup Range(o)
    BY Zenon, <1>3, <2>1, RangeHeadTail
  <2>3. Len(o) <= OutCapacity BY <1>3, <1>4, <2>2
  <2>4. seq \in SeqNums BY <2>2 DEF SeqNums, Ready
  <2> HIDE DEF n, o, seq
  <2>5. /\ seen' \in [got : SUBSET SeqNums, cursor : SeqNums \cup {NoCursor}]
        /\ seen'.got = seen.got \cup ({n} \ {Ready})
    BY Zenon, <2>1, <2>2, <2>4 DEF ClientType
  <2>6. link' = [[[link EXCEPT !.queue = link.queue] EXCEPT !.lagged = link.lagged] EXCEPT !.out = o]
    BY Zenon, <1>3, <2>1, LinkUpdates
  <2>7. /\ LinkType' /\ link'.state = link.state /\ link'.subs = link.subs
        /\ link'.lagged = link.lagged /\ link'.queue = link.queue /\ link'.out = o
    BY Zenon, <1>3, <2>2, <2>3, <2>6, LinkMoves
  <2>8. LockType' /\ ClientType' /\ OpenInv' BY Zenon, <1>1, <2>1, <2>5, <2>7 DEF LockType, ClientType, OpenInv
  <2>9. \A f \in fate.sent : f.seq \in SeqNums /\ f.seq # Ready
    BY DEF Fates, Events, SeqNums, Ready
  <2>10. \A f \in fate.sent : Reached(f) => Reached(f)'
    BY Zenon, <2>1, <2>2, <2>5, <2>7, <2>9 DEF Reached
  <2>11. NoGap' BY Zenon, <1>1, <2>1, <2>7, <2>10, GapKept
  <2> QED BY Zenon, <1>2, <2>1, <2>7, <2>8, <2>11
<1> QED BY Zenon, <1>7, <1>8, <1>9, <1>10

\* A replay's record with another place or what is left to send.
LEMMA ReplayMoves ==
    ASSUME replay \in Replays, NEW pc \in {"idle", "lock", "copy", "send"}, NEW todo \in Seq(Events),
           replay' = [[replay EXCEPT !.pc = pc] EXCEPT !.todo = todo]
    PROVE  /\ replay' \in Replays /\ replay'.pc = pc /\ replay'.since = replay.since /\ replay'.todo = todo
<1> DEFINE k == [replay EXCEPT !.pc = pc]
<1>1. k \in Replays /\ k.pc = pc /\ k.since = replay.since BY Zenon DEF Replays
<1>2. replay' = [k EXCEPT !.todo = todo] BY Zenon
<1> HIDE DEF k
<1> QED BY Zenon, <1>1, <1>2 DEF Replays

LEMMA ReplayUpdates ==
    ASSUME replay \in Replays, NEW pc, NEW todo
    PROVE  /\ [replay EXCEPT !.pc = pc] = [[replay EXCEPT !.pc = pc] EXCEPT !.todo = replay.todo]
           /\ [replay EXCEPT !.todo = todo] = [[replay EXCEPT !.pc = replay.pc] EXCEPT !.todo = todo]
           /\ replay.pc \in {"idle", "lock", "copy", "send"} /\ replay.todo \in Seq(Events)
BY Zenon DEF Replays

\* The subscribe frame: the filter is set, then the ring is replayed.
LEMMA ReplayKeeps ==
    ASSUME BusInv,
           \/ \E subs \in Subscriptions, since \in {NoCursor, link.cursor} : HandleSubscribe(subs, since)
           \/ ReplayStep
    PROVE  BusInv'
<1> USE EventBusAssumption DEF BusInv, BusType
<1>1. /\ link \in Links /\ link.queue \in Seq(Events) /\ link.out \in Seq(SeqNums \cup {Ready})
      /\ link.lagged \in BOOLEAN /\ link.cursor \in SeqNums \cup {NoCursor}
      /\ Len(link.queue) <= BusCapacity /\ Len(link.out) <= OutCapacity
  BY Zenon DEF LinkType, Links
<1>2. Len(link.out) \in Nat BY Zenon, <1>1, LenProperties
<1>3. UNCHANGED <<nextSeq, ring, pub, fate>>
  BY Zenon DEF HandleSubscribe, ReplayStep, ReplayLocks, ReplayCopies, ReplaySends, ReplayEnds
<1>4. PubType' /\ RingType' /\ StoredInv' /\ (fate \in Fates)' BY Zenon, <1>3, RingKept
<1>5. UNCHANGED <<seen, connects>>
  BY Zenon DEF HandleSubscribe, ReplayStep, ReplayLocks, ReplayCopies, ReplaySends, ReplayEnds
<1>6. ClientType' BY Zenon, <1>5 DEF ClientType
<1>7. replay.pc # "idle" => link.state # "closed" BY DEF OpenInv, NoReplay
<1>8. ASSUME NEW subs \in Subscriptions, NEW since \in {NoCursor, link.cursor}, HandleSubscribe(subs, since)
      PROVE  BusInv'
  <2> DEFINE pc == IF since = NoCursor THEN "idle" ELSE "lock"
  <2>1. /\ link.state = "open" /\ replay.pc = "idle" /\ link' = [link EXCEPT !.subs = subs]
        /\ replay' = [pc |-> pc, since |-> since, todo |-> << >>] /\ ringLock' = ringLock
    BY Zenon, <1>8 DEF HandleSubscribe
  <2>2. pc \in {"idle", "lock"} /\ (since # NoCursor => pc = "lock") BY Zenon
  <2>3. << >> \in Seq(Events) BY Zenon, EmptySeq
  <2>4. since \in SeqNums \cup {NoCursor} BY Zenon, <1>1
  <2> HIDE DEF pc
  <2>5. replay' \in Replays /\ replay'.pc = pc /\ replay'.since = since
    BY Zenon, <2>1, <2>2, <2>3, <2>4 DEF Replays
  <2>6. /\ link' \in Links /\ link'.state = "open" /\ link'.queue = link.queue /\ link'.out = link.out
    BY Zenon, <1>1, <2>1 DEF Links
  <2>7. LinkType' BY Zenon, <1>1, <2>6 DEF LinkType
  <2>8. LockType' BY <1>3, <2>1, <2>2, <2>5 DEF LockType
  <2>9. OpenInv' /\ NoGap' BY Zenon, <2>2, <2>5, <2>6 DEF OpenInv, NoGap
  <2> QED BY Zenon, <1>4, <1>6, <2>5, <2>7, <2>8, <2>9
<1>9. CASE ReplayLocks
  <2>1. /\ replay.pc = "lock" /\ ringLock = NoOne /\ ringLock' = "replay" /\ link' = link
        /\ replay' = [replay EXCEPT !.pc = "copy"]
    BY Zenon, <1>9 DEF ReplayLocks
  <2>2. replay' \in Replays /\ replay'.pc = "copy" BY Zenon, <2>1, ReplayUpdates, ReplayMoves
  <2>3. LinkType' /\ OpenInv' /\ NoGap'
    BY Zenon, <1>7, <2>1, <2>2 DEF LinkType, OpenInv, NoGap
  <2>4. LockType' BY Zenon, <1>3, <2>1, <2>2 DEF LockType
  <2> QED BY Zenon, <1>4, <1>6, <2>2, <2>3, <2>4
<1>10. CASE ReplayCopies
  <2>1. /\ replay.pc = "copy" /\ ringLock' = NoOne /\ link' = link
        /\ replay' = [replay EXCEPT !.pc = "send", !.todo = ring]
    BY Zenon, <1>10 DEF ReplayCopies
  <2>2. ring \in Seq(Events) BY Zenon DEF RingType
  <2>3. replay' = [[replay EXCEPT !.pc = "send"] EXCEPT !.todo = ring] BY Zenon, <2>1
  <2>4. /\ replay' \in Replays /\ replay'.pc = "send" /\ replay'.todo = ring
    BY Zenon, <2>2, <2>3, ReplayMoves
  <2>5. LinkType' /\ OpenInv' BY Zenon, <1>7, <2>1 DEF LinkType, OpenInv
  <2>6. LockType' BY Zenon, <1>3, <2>1, <2>4 DEF LockType
  <2>7. NoGap'
    <3> SUFFICES ASSUME NEW e \in fate.sent \ (fate.evicted \cup fate.skipped), e.class.kind # ChunkKind
                 PROVE  Reached(e)'
      BY Zenon, <1>3 DEF NoGap
    <3>1. e \in Range(ring) BY Zenon DEF StoredInv, Stored, Ringed
    <3> QED BY Zenon, <2>4, <3>1 DEF Reached
  <2> QED BY <1>4, <1>6, <2>4, <2>5, <2>6, <2>7
<1>11. CASE ReplaySends
  <2> DEFINE e == Head(replay.todo)
             t == Tail(replay.todo)
  <2>1. /\ replay.pc = "send" /\ replay.todo # << >> /\ ringLock' = ringLock
        /\ replay' = [replay EXCEPT !.todo = t]
    BY Zenon, <1>11 DEF ReplaySends
  <2>2. replay.todo \in Seq(Events) BY Zenon, ReplayUpdates
  <2>3. e \in Events /\ t \in Seq(Events) /\ Range(replay.todo) = {e} \cup Range(t)
    BY Zenon, <2>1, <2>2, RangeHeadTail
  <2>4. e.seq \in SeqNums BY Zenon, <2>3 DEF Events
  <2>5. CASE NewSince(e, replay.since) /\ ShouldReceive(link.subs, e)
    <3> DEFINE o == Append(link.out, e.seq)
    <3>1. link' = [link EXCEPT !.out = o] /\ Len(link.out) < OutCapacity
      BY Zenon, <1>11, <2>5 DEF ReplaySends, HasRoom
    <3>2. /\ o \in Seq(SeqNums \cup {Ready}) /\ Len(o) = Len(link.out) + 1
          /\ Range(o) = Range(link.out) \cup {e.seq}
      BY <1>1, <2>4, AppendProperties, RangeAppend
    <3>3. Len(o) <= OutCapacity BY <1>2, <3>1, <3>2
    <3> HIDE DEF e, t, o
    <3>4. link' = [[[link EXCEPT !.queue = link.queue] EXCEPT !.lagged = link.lagged] EXCEPT !.out = o]
      BY Zenon, <1>1, <3>1, LinkUpdates
    <3>5. /\ LinkType' /\ link'.state = link.state /\ link'.subs = link.subs
          /\ link'.lagged = link.lagged /\ link'.queue = link.queue /\ link'.out = o
      BY Zenon, <1>1, <3>2, <3>3, <3>4, LinkMoves
    <3>6. replay' \in Replays /\ replay'.pc = "send" /\ replay'.since = replay.since /\ replay'.todo = t
      BY Zenon, <2>1, <2>3, ReplayUpdates, ReplayMoves
    <3>7. LockType' BY Zenon, <1>3, <2>1, <3>6 DEF LockType
    <3>8. OpenInv' BY Zenon, <1>7, <2>1, <3>5 DEF OpenInv
    <3>9. \A f : Reached(f) => Reached(f)' BY Zenon, <1>5, <2>3, <3>2, <3>5, <3>6 DEF Reached
    <3>10. NoGap' BY <1>3, <2>1, <3>5, <3>6, <3>9, GapKept
    <3> QED BY Zenon, <1>4, <1>6, <3>5, <3>6, <3>7, <3>8, <3>10
  <2>6. CASE ~(NewSince(e, replay.since) /\ ShouldReceive(link.subs, e))
    <3>1. link' = link BY <1>11, <2>6 DEF ReplaySends
    <3> HIDE DEF e, t
    <3>2. replay' \in Replays /\ replay'.pc = "send" /\ replay'.since = replay.since /\ replay'.todo = t
      BY Zenon, <2>1, <2>3, ReplayUpdates, ReplayMoves
    <3>3. LinkType' /\ LockType' BY Zenon, <1>3, <2>1, <3>1, <3>2 DEF LinkType, LockType
    <3>4. OpenInv' BY Zenon, <1>7, <2>1, <3>1 DEF OpenInv
    <3>5. \A f : ShouldReceive(link.subs, f) /\ f.seq > replay.since /\ Reached(f) => Reached(f)'
      BY <1>5, <2>3, <2>6, <3>1, <3>2 DEF Reached, NewSince
    <3>6. NoGap' BY <1>3, <2>1, <3>1, <3>2, <3>5, GapKept
    <3> QED BY Zenon, <1>4, <1>6, <3>2, <3>3, <3>4, <3>6
  <2> QED BY Zenon, <2>5, <2>6
<1>12. CASE ReplayEnds
  <2>1. /\ replay.pc = "send" /\ UNCHANGED <<ringLock, link>> /\ replay' = [replay EXCEPT !.pc = "idle"]
    BY Zenon, <1>12 DEF ReplayEnds
  <2>2. /\ replay' \in Replays /\ replay'.pc = "idle" /\ replay'.since = replay.since
        /\ replay'.todo = replay.todo
    BY Zenon, <2>1, ReplayUpdates, ReplayMoves
  <2>3. LinkType' /\ LockType' /\ OpenInv' BY <1>3, <1>7, <2>1, <2>2 DEF LinkType, LockType, OpenInv
  <2>4. \A f : Reached(f) => Reached(f)' BY Zenon, <1>5, <2>1, <2>2 DEF Reached
  <2>5. NoGap' BY <1>3, <2>1, <2>2, <2>4, GapKept
  <2> QED BY Zenon, <1>4, <1>6, <2>2, <2>3, <2>5
<1> QED BY Zenon, <1>8, <1>9, <1>10, <1>11, <1>12 DEF ReplayStep

LEMMA BusStepInv == BusInv /\ [EventBusNext]_eventBusVars => BusInv'
<1> SUFFICES ASSUME BusInv, [EventBusNext]_eventBusVars PROVE BusInv' OBVIOUS
<1>1. CASE EventBusNext
  BY Zenon, <1>1, PublishKeeps, SendKeeps, ConnectionKeeps, ReplayKeeps DEF EventBusNext, PubStep
<1>2. CASE UNCHANGED eventBusVars
  <2> USE <1>2 DEF eventBusVars, BusInv
  <2>1. BusType' BY Zenon DEF BusType, PubType, RingType, LockType, LinkType, ClientType
  <2>2. StoredInv' /\ OpenInv' BY Zenon DEF StoredInv, Stored, OpenInv
  <2>3. NoGap' BY Zenon DEF NoGap, Reached
  <2> QED BY Zenon, <2>1, <2>2, <2>3
<1> QED BY <1>1, <1>2

\* A subscribe with since_seq leaves no gap between the replayed and the live
\* events, and ring and channels keep to their capacities: for any publishers,
\* filters, capacities and number of events and reconnects (AtpEventBus::publish
\* and replay_since, handle_text_frame, the connection's pump and writer).
THEOREM ReplayLeavesNoGap == EventBusSpec => [](EventBusTypeOK /\ NoGap)
<1>1. BusInv => EventBusTypeOK /\ NoGap BY Zenon, BusTypes DEF BusInv
<1> QED BY <1>1, BusInitInv, BusStepInv, PTL DEF EventBusSpec

=============================================================================
