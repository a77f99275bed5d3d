----------------------------- MODULE GatewayAuth -----------------------------
(***************************************************************************)
(* Login sessions, bearer tokens and the commands of ATP connections       *)
(* (auth/, gateway/server.rs, gateway/validator.rs, gateway/replay.rs).    *)
(* A login opens a session and issues a token for it; a connection is      *)
(* bound to the session of the token it was opened with and handles its    *)
(* command frames one after the other: validate, warn, dispatch, reply.    *)
(* Tokens carry their own expiry; refresh issues another one while the     *)
(* session is young enough, and logout revokes the session.  Commands of   *)
(* different connections interleave.                                       *)
(***************************************************************************)
EXTENDS Naturals, FiniteSets

CONSTANTS
    Logins,       \* the sessions that may be opened
    Conns,        \* connections
    CmdIds,       \* ids a client puts on its command frames
    CmdOps,       \* the operations it asks for: see OpKinds
    TokenLife,    \* 8 hours
    SessionTtl,   \* AuthService.ttl, one hour
    MaxTime,      \* bound: the clock
    MaxFrames     \* bound: command frames a connection receives

\* "plain" stands for every operation that is forwarded or answered without
\* touching tokens, "denied" for one the role, port or path checks refuse.
OpKinds == {"plain", "refresh", "logout", "denied"}

ASSUME GatewayAuthAssumption ==
    /\ {TokenLife, SessionTtl, MaxTime, MaxFrames} \subseteq Nat
    /\ CmdOps \subseteq OpKinds /\ Logins # {}

VARIABLES
    now,        \* the clock
    account,    \* AuthService.sessions: login time, "none" and "gone" apart
    revoked,    \* ATPTokenStore.revoked: session ids
    tokens,     \* the tokens clients hold: session and expiry
    wire,       \* the connections and the command each one is handling
    runs,       \* history: how often a connection dispatched each id
    loggedOut   \* history: sessions whose logout was answered

gatewayAuthVars == <<now, account, revoked, tokens, wire, runs, loggedOut>>

Tokens == [session : Logins, exp : 0 .. MaxTime + TokenLife]

NoCmd == [pc |-> "idle"]

Cmds == [pc : {"validate", "dispatch", "session", "forget", "reply"},
         id : CmdIds, op : CmdOps, token : Tokens]

Unopened == [state |-> "unopened", session |-> CHOOSE s \in Logins : TRUE, seen |-> {},
             cmd |-> NoCmd, frames |-> 0, replies |-> 0]

\* Faulty variant: the store looks at the signature and the expiry only.
ValidatesUnrevoked(t) == t.exp >= now

\* ATPTokenStore::validate.
Validates(t) == t.exp >= now /\ t.session \notin revoked

-----------------------------------------------------------------------------
(* Sessions and connections *)

\* handle_login with a good credential; with a bad one nothing changes.
HandleLogin(s) ==
    /\ account[s].state = "none"
    /\ account' = [account EXCEPT ![s] = [state |-> "active", since |-> now]]
    /\ tokens' = tokens \cup {[session |-> s, exp |-> now + TokenLife]}
    /\ UNCHANGED <<now, revoked, wire, runs, loggedOut>>

\* handle_ws_upgrade: the token is checked before the upgrade.
HandleWsUpgrade(c, t) ==
    /\ wire[c].state = "unopened" /\ Validates(t)
    /\ wire' = [wire EXCEPT ![c].state = "open", ![c].session = t.session]
    /\ UNCHANGED <<now, account, revoked, tokens, runs, loggedOut>>

\* The next text frame of the reader loop is a command.
CmdArrives(c, id, op, t) ==
    /\ wire[c].state = "open" /\ wire[c].cmd = NoCmd /\ wire[c].frames < MaxFrames
    /\ wire' = [wire EXCEPT ![c].cmd = [pc |-> "validate", id |-> id, op |-> op, token |-> t],
                            ![c].frames = @ + 1]
    /\ UNCHANGED <<now, account, revoked, tokens, runs, loggedOut>>

CmdAt(c, pc) == wire[c].cmd.pc = pc

Goes(c, pc) == wire' = [wire EXCEPT ![c].cmd.pc = pc]

\* What validate_cmd refuses, in its order.
Refused(c, cmd) ==
    \/ ~ Validates(cmd.token)                 \* EEXPIRED, EAUTH
    \/ cmd.token.session # wire[c].session    \* ESESSION
    \/ cmd.op = "denied"                      \* EPERM
    \/ cmd.id \in wire[c].seen                \* EPARSE

CmdRefused(c) ==
    /\ CmdAt(c, "validate") /\ Refused(c, wire[c].cmd)
    /\ Goes(c, "reply")
    /\ UNCHANGED <<now, account, revoked, tokens, runs, loggedOut>>

\* Faulty variant: the id is checked but not remembered.
CmdAcceptedUnregistered(c) ==
    /\ CmdAt(c, "validate") /\ ~ Refused(c, wire[c].cmd)
    /\ Goes(c, "dispatch")
    /\ UNCHANGED <<now, account, revoked, tokens, runs, loggedOut>>

\* validate_cmd succeeds and the id is registered; the token.expiring event,
\* when it is due, goes to the same writer and changes no state here.
CmdAccepted(c) ==
    /\ CmdAt(c, "validate") /\ ~ Refused(c, wire[c].cmd)
    /\ wire' = [wire EXCEPT ![c].seen = @ \cup {wire[c].cmd.id}, ![c].cmd.pc = "dispatch"]
    /\ UNCHANGED <<now, account, revoked, tokens, runs, loggedOut>>

Counted(c) == runs' = [runs EXCEPT ![c][wire[c].cmd.id] = @ + 1]

DispatchPlain(c) ==
    /\ CmdAt(c, "dispatch") /\ wire[c].cmd.op = "plain"
    /\ Counted(c) /\ Goes(c, "reply")
    /\ UNCHANGED <<now, account, revoked, tokens, loggedOut>>

\* refresh_token validates the old token again ...
RefreshValidates(c) ==
    /\ CmdAt(c, "dispatch") /\ wire[c].cmd.op = "refresh"
    /\ Counted(c)
    /\ Goes(c, IF Validates(wire[c].cmd.token) THEN "session" ELSE "reply")
    /\ UNCHANGED <<now, account, revoked, tokens, loggedOut>>

\* ... then the session, and issues a token for the same session.
RefreshIssues(c) ==
    LET s == wire[c].cmd.token.session IN
    /\ CmdAt(c, "session")
    /\ tokens' = IF account[s].state = "active" /\ now - account[s].since <= SessionTtl
                 THEN tokens \cup {[session |-> s, exp |-> now + TokenLife]} ELSE tokens
    /\ Goes(c, "reply")
    /\ UNCHANGED <<now, account, revoked, runs, loggedOut>>

LogoutRevokes(c) ==
    /\ CmdAt(c, "dispatch") /\ wire[c].cmd.op = "logout"
    /\ Counted(c)
    /\ revoked' = revoked \cup {wire[c].session}
    /\ Goes(c, "forget")
    /\ UNCHANGED <<now, account, tokens, loggedOut>>

LogoutForgets(c) ==
    /\ CmdAt(c, "forget")
    /\ account' = [account EXCEPT ![wire[c].session].state = "gone"]
    /\ loggedOut' = loggedOut \cup {wire[c].session}
    /\ Goes(c, "reply")
    /\ UNCHANGED <<now, revoked, tokens, runs>>

\* Faulty variant: the reply is sent but the handler does not return.
CmdRepliedTwice(c) ==
    /\ CmdAt(c, "reply")
    /\ wire' = [wire EXCEPT ![c].replies = @ + 1]
    /\ UNCHANGED <<now, account, revoked, tokens, runs, loggedOut>>

CmdReplied(c) ==
    /\ CmdAt(c, "reply")
    /\ wire' = [wire EXCEPT ![c].cmd = NoCmd, ![c].replies = @ + 1]
    /\ UNCHANGED <<now, account, revoked, tokens, runs, loggedOut>>

\* The socket closes; a reconnect has a fresh ReplayGuard, so it is another
\* connection.  A command in the handler runs to its end.
ConnCloses(c) ==
    /\ wire[c].state = "open" /\ wire[c].cmd = NoCmd
    /\ wire' = [wire EXCEPT ![c].state = "closed"]
    /\ UNCHANGED <<now, account, revoked, tokens, runs, loggedOut>>

TimePasses ==
    /\ now < MaxTime
    /\ now' = now + 1
    /\ UNCHANGED <<account, revoked, tokens, wire, runs, loggedOut>>

-----------------------------------------------------------------------------

GatewayAuthInit ==
    /\ now = 0
    /\ account = [s \in Logins |-> [state |-> "none", since |-> 0]]
    /\ revoked = {} /\ tokens = {} /\ loggedOut = {}
    /\ wire = [c \in Conns |-> Unopened]
    /\ runs = [c \in Conns |-> [i \in CmdIds |-> 0]]

CmdStep(c) ==
    \/ CmdRefused(c) \/ CmdAccepted(c) \/ DispatchPlain(c)
    \/ RefreshValidates(c) \/ RefreshIssues(c)
    \/ LogoutRevokes(c) \/ LogoutForgets(c)
    \/ CmdReplied(c)

GatewayAuthNext ==
    \/ \E s \in Logins : HandleLogin(s)
    \/ \E c \in Conns :
        \/ \E t \in tokens : HandleWsUpgrade(c, t)
        \/ \E id \in CmdIds, op \in CmdOps, t \in tokens : CmdArrives(c, id, op, t)
        \/ CmdStep(c)
        \/ ConnCloses(c)
    \/ TimePasses

GatewayAuthSpec == GatewayAuthInit /\ [][GatewayAuthNext]_gatewayAuthVars

-----------------------------------------------------------------------------
(* Properties *)

\* Types, and every command frame gets exactly one reply (04-atp.md): the
\* frames received are the replies sent and the one being handled.
GatewayAuthTypeOK ==
    /\ now \in 0 .. MaxTime
    /\ tokens \subseteq Tokens
    /\ revoked \subseteq Logins /\ loggedOut \subseteq revoked
    /\ account \in [Logins -> [state : {"none", "active", "gone"}, since : 0 .. MaxTime]]
    /\ wire \in [Conns -> [state : {"unopened", "open", "closed"}, session : Logins,
                           seen : SUBSET CmdIds, cmd : {NoCmd} \cup Cmds,
                           frames : 0 .. MaxFrames, replies : 0 .. MaxFrames]]
    /\ runs \in [Conns -> [CmdIds -> Nat]]
    /\ \A c \in Conns :
        wire[c].frames = wire[c].replies + (IF wire[c].cmd = NoCmd THEN 0 ELSE 1)

\* A connection dispatches a command id at most once, whatever the client
\* repeats and whatever the outcome of the first was.
NoCmdTwice ==
    \A c \in Conns, i \in CmdIds : runs[c][i] <= 1

\* After a logout is answered no token of the session is accepted, not even
\* one that a refresh on another connection issued meanwhile: revocation is
\* by session id.
LogoutIsFinal ==
    \A t \in tokens : t.session \in loggedOut => ~ Validates(t)

\* However often a client refreshes, its tokens die at the latest TokenLife
\* after the session is SessionTtl old: refresh_token looks at the session.
TokensDieWithSession ==
    \A t \in tokens : t.exp <= account[t.session].since + SessionTtl + TokenLife

\* Together: tokens end with their session, by logout or by age.
TokensEnd == LogoutIsFinal /\ TokensDieWithSession
=============================================================================
