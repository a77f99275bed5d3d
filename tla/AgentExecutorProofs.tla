------------------------- MODULE AgentExecutorProofs ------------------------
(***************************************************************************)
(* The executor and its mailbox, proved for any callers and requests: the  *)
(* types, what a pause stops, and that the executor's channel implements   *)
(* AgentMailbox.  On top of them: FinalizeInv says that one request        *)
(* finalizes an invocation, and PauseRecordInv, with it, that a pause is   *)
(* recorded.                                                               *)
(***************************************************************************)
EXTENDS AgentExecutor, TLAPS

-----------------------------------------------------------------------------
(* Sequences *)

\* The empty sequence, and the length of any other.
LEMMA EmptySeq ==
    ASSUME NEW S
    PROVE  /\ << >> \in Seq(S) /\ Len(<< >>) = 0
           /\ \A q \in Seq(S) : q # << >> => Len(q) \in Nat \ {0}
OBVIOUS

\* A sequence is a function on the numbers up to its length.
LEMMA LenProperties ==
    ASSUME NEW S, NEW q \in Seq(S)
    PROVE  Len(q) \in Nat /\ q \in [1 .. Len(q) -> S] /\ DOMAIN q = 1 .. Len(q)
OBVIOUS

\* A pop at the front.
LEMMA HeadTailProperties ==
    ASSUME NEW S, NEW q \in Seq(S), q # << >>
    PROVE  /\ Head(q) \in S /\ Head(q) = q[1]
           /\ Tail(q) \in Seq(S) /\ Len(Tail(q)) = Len(q) - 1
           /\ \A i \in 1 .. Len(Tail(q)) : Tail(q)[i] = q[i + 1]
OBVIOUS

\* One sequence after another.
LEMMA ConcatProperties ==
    ASSUME NEW S, NEW p \in Seq(S), NEW q \in Seq(S)
    PROVE  /\ p \o q \in Seq(S) /\ Len(p \o q) = Len(p) + Len(q)
           /\ \A i \in 1 .. Len(p) + Len(q) :
                 (p \o q)[i] = IF i <= Len(p) THEN p[i] ELSE q[i - Len(p)]
OBVIOUS

-----------------------------------------------------------------------------
(* Sequences of accesses *)

LEMMA TailInSeq ==
    ASSUME NEW S, NEW q \in Seq(S), q # << >>
    PROVE  Tail(q) \in Seq(S) /\ Head(q) \in S
BY Zenon, HeadTailProperties

LEMMA ConcatInSeq ==
    ASSUME NEW S, NEW p \in Seq(S), NEW q \in Seq(S)
    PROVE  p \o q \in Seq(S)
BY Zenon, ConcatProperties

\* The writes of idle() are accesses of the executor.
LEMMA IdleWritesType == IdleWrites \in Seq(ExecAccesses)
<1>1. Interim \in ExecAccesses BY Zenon DEF Interim, Access, ExecAccesses, InvArgs
<1>2. Access("inv", "Idle") \in ExecAccesses
  BY Zenon DEF Access, ExecAccesses, InvArgs, InvStatus
<1>3. Access("sess", "Idle") \in ExecAccesses
  BY Zenon DEF Access, ExecAccesses, SessArgs
<1>4. Access("proc", "Waiting") \in ExecAccesses
  BY Zenon DEF Access, ExecAccesses, ProcStatus
<1> QED BY <1>1, <1>2, <1>3, <1>4 DEF IdleWrites

\* So are the writes of the two signal handlers.
LEMMA HandlerWritesType ==
    ASSUME NEW k
    PROVE  /\ BetweenTurnsWrites(k) \in Seq(ExecAccesses)
           /\ DuringLlmWrites(k) \in Seq(ExecAccesses)
<1>1. /\ Interim \in ExecAccesses
      /\ Access("inv", "Paused") \in ExecAccesses
      /\ Access("inv", "Running") \in ExecAccesses
  BY Zenon DEF Interim, Access, ExecAccesses, InvArgs, InvStatus
<1>2. << >> \in Seq(ExecAccesses) BY Zenon, EmptySeq
<1> QED BY <1>1, <1>2 DEF BetweenTurnsWrites, DuringLlmWrites
-----------------------------------------------------------------------------
(* Type correctness *)

\* Every store access of the executor keeps the types.
LEMMA UpdatedType ==
    ASSUME NEW arg, NEW rec
    PROVE  /\ arg \in InvArgs /\ rec \in InvRecord => Updated(arg, rec) \in InvRecord
           /\ arg \in SessArgs /\ rec \in SessRecord => Updated(arg, rec) \in SessRecord
<1>1. ASSUME arg \in InvArgs, rec \in InvRecord PROVE Updated(arg, rec) \in InvRecord
  <2>1. CASE arg = "keep" BY Zenon, <1>1, <2>1 DEF Updated
  <2>2. CASE arg \in InvStatus
    BY Zenon, <1>1, <2>2 DEF Updated, InvRecord, InvStatus
  <2> QED BY Zenon, <1>1, <2>1, <2>2 DEF InvArgs
<1>2. ASSUME arg \in SessArgs, rec \in SessRecord PROVE Updated(arg, rec) \in SessRecord
  <2>1. CASE arg = "keep" BY <1>2, <2>1 DEF Updated
  <2>2. CASE arg = "leave" BY Zenon, <1>2, <2>2 DEF Updated, SessRecord, SessStatus
  <2>3. CASE arg = "resume" BY Zenon, <1>2, <2>3 DEF Updated, SessRecord, SessStatus
  <2>4. CASE arg \in {"Idle", "Paused"}
    BY Zenon, <1>2, <2>4 DEF Updated, SessRecord, SessStatus
  <2> QED BY Zenon, <1>2, <2>1, <2>2, <2>3, <2>4 DEF SessArgs
<1> QED BY Zenon, <1>1, <1>2

\* The steps of a request are accesses of the kernel.
LEMMA StepsType ==
    ASSUME NEW op \in AllOps
    PROVE  Steps(op) \in Seq(CallAccesses)
<1> USE DEF Access, CallAccesses, ExecAccesses, InvStatus, ProcStatus, Kinds, SessArgs
<1>1. PauseSteps \in Seq(CallAccesses) /\ ResumeSteps \in Seq(CallAccesses)
  BY DEF PauseSteps, ResumeSteps, SignalSteps
<1>2. KillSteps \in Seq(CallAccesses)
  <2>1. /\ Access("abort", "task") \in CallAccesses
        /\ Access("proc", "Stopped") \in CallAccesses
        /\ Access("takeInv", "Killed") \in CallAccesses
        /\ Access("takeSess", "leave") \in CallAccesses
    BY Zenon
  <2> HIDE DEF Access, CallAccesses
  <2> QED BY <2>1 DEF KillSteps
<1>3. << >> \in Seq(CallAccesses) BY Zenon, EmptySeq
<1>4. SessionResumeSteps \in Seq(CallAccesses)
  <2>1. << Access("send", "Start") >> \in Seq(CallAccesses) OBVIOUS
  <2> HIDE DEF Access, CallAccesses
  <2> QED BY Zenon, <1>1, <1>3, <2>1 DEF SessionResumeSteps
<1>5. SnapshotSteps \in Seq(CallAccesses)
  <2>1. << Interim >> \in Seq(CallAccesses) BY DEF Interim, InvArgs
  <2> HIDE DEF Access, CallAccesses
  <2> QED BY Zenon, <1>3, <2>1 DEF SnapshotSteps
<1>6. ASSUME op \in Signals PROVE << Access("send", KindOf[op]) >> \in Seq(CallAccesses)
  <2>1. KindOf[op] \in Kinds BY <1>6 DEF Signals, KindOf
  <2>2. Access("send", KindOf[op]) \in CallAccesses BY Zenon, <2>1
  <2> HIDE DEF Access, CallAccesses
  <2> QED BY <2>2
<1> HIDE DEF Access, CallAccesses
<1>7. CASE op \in Signals BY Zenon, <1>6, <1>7 DEF Steps, Signals
<1>8. CASE op \notin Signals
  BY Zenon, <1>1, <1>2, <1>4, <1>5, <1>8 DEF Steps, AllOps, Signals
<1> QED BY Zenon, <1>7, <1>8

\* Sequences of accesses the executor queues.
LEMMA WritesType ==
    /\ << >> \in Seq(ExecAccesses)
    /\ << Access("proc", "Crashed") >> \in Seq(ExecAccesses)
    /\ << Access("proc", "Running") >> \in Seq(ExecAccesses)
    /\ << Interim >> \in Seq(ExecAccesses)
    /\ << Access("inv", "Killed"), Access("proc", "Crashed") >> \in Seq(ExecAccesses)
    /\ IdleWrites \in Seq(ExecAccesses)
    /\ << >> \o IdleWrites \in Seq(ExecAccesses)
    /\ << Interim, Access("sess", "keep") >> \o IdleWrites \in Seq(ExecAccesses)
<1>1. /\ << >> \in Seq(ExecAccesses)
      /\ << Access("proc", "Crashed") >> \in Seq(ExecAccesses)
      /\ << Access("proc", "Running") >> \in Seq(ExecAccesses)
      /\ << Interim >> \in Seq(ExecAccesses)
      /\ << Interim, Access("sess", "keep") >> \in Seq(ExecAccesses)
      /\ << Access("inv", "Killed"), Access("proc", "Crashed") >> \in Seq(ExecAccesses)
  BY DEF Access, Interim, ExecAccesses, ProcStatus, InvArgs, InvStatus, SessArgs
<1>2. IdleWrites \in Seq(ExecAccesses) BY Zenon, IdleWritesType
<1>3. << >> \o IdleWrites \in Seq(ExecAccesses) BY Zenon, <1>1, <1>2, ConcatInSeq
<1>4. << Interim, Access("sess", "keep") >> \o IdleWrites \in Seq(ExecAccesses)
  BY Zenon, <1>1, <1>2, ConcatInSeq
<1> QED BY Zenon, <1>1, <1>2, <1>3, <1>4

\* A caller's state is not touched by the executor.
LEMMA CallUnchanged == CallType /\ UNCHANGED callVars => CallType'
BY Zenon DEF CallType, callVars

\* Steps of the executor that only move control and queue accesses.
LEMMA ControlType ==
    ASSUME TypeOK,
           \/ SpawnFails \/ Launch \/ TokenAges \/ TokenExpired \/ BeginTurn
           \/ EnterPause \/ CallLlm \/ LlmFails \/ LlmFinal
           \/ \E n \in 0..MaxCalls : LlmTools(n)
           \/ ToolCall \/ ToolsDone \/ Exit \/ Dropped
    PROVE  TypeOK'
<1> USE DEF TypeOK, Ready, execVars, sigVars, kernVars, storeVars
<1> USE WritesType, CallUnchanged
<1>1. CASE SpawnFails
  <2>1. ExecType' BY Zenon, <1>1, ExecutorAssumption DEF SpawnFails, ExecType, ExecPc, Dead
  <2>2. TodoType' BY Zenon, <1>1 DEF SpawnFails, TodoType, CopyMatches
  <2>3. FlagType' BY Zenon, <1>1 DEF SpawnFails, FlagType
  <2>4. StoreType' BY Zenon, <1>1 DEF SpawnFails, StoreType
  <2>5. UNCHANGED callVars BY Zenon, <1>1 DEF SpawnFails
  <2> QED BY Zenon, <2>1, <2>2, <2>3, <2>4, <2>5
<1>2. CASE Launch
  <2>1. ExecType' BY Zenon, <1>2, ExecutorAssumption DEF Launch, ExecType, ExecPc, Dead
  <2>2. TodoType' BY Zenon, <1>2 DEF Launch, TodoType, CopyMatches
  <2>3. FlagType' BY Zenon, <1>2 DEF Launch, FlagType
  <2>4. StoreType' BY Zenon, <1>2 DEF Launch, StoreType
  <2>5. UNCHANGED callVars BY Zenon, <1>2 DEF Launch
  <2> QED BY <2>1, <2>2, <2>3, <2>4, <2>5
<1>3. CASE TokenAges
  <2>1. ExecType' BY Zenon, <1>3, ExecutorAssumption DEF TokenAges, ExecType, ExecPc, Dead
  <2>2. TodoType' BY Zenon, <1>3 DEF TokenAges, TodoType, CopyMatches
  <2>3. FlagType' BY Zenon, <1>3 DEF TokenAges, FlagType
  <2>4. StoreType' BY Zenon, <1>3 DEF TokenAges, StoreType
  <2>5. UNCHANGED callVars BY Zenon, <1>3 DEF TokenAges
  <2> QED BY <2>1, <2>2, <2>3, <2>4, <2>5
<1>4. CASE TokenExpired
  <2>1. ExecType' BY Zenon, <1>4, ExecutorAssumption DEF TokenExpired, TurnError, ExecType, ExecPc, Dead
  <2>2. TodoType' BY Zenon, <1>4 DEF TokenExpired, TurnError, TodoType, CopyMatches
  <2>3. FlagType' BY Zenon, <1>4 DEF TokenExpired, TurnError, FlagType
  <2>4. StoreType' BY Zenon, <1>4 DEF TokenExpired, TurnError, StoreType
  <2>5. UNCHANGED callVars BY Zenon, <1>4 DEF TokenExpired, TurnError
  <2> QED BY <2>1, <2>2, <2>3, <2>4, <2>5
<1>5. CASE BeginTurn
  <2>1. ExecType' BY Zenon, <1>5, ExecutorAssumption DEF BeginTurn, ExecType, ExecPc, Dead
  <2>2. TodoType' BY Zenon, <1>5 DEF BeginTurn, TodoType, CopyMatches
  <2>3. FlagType' BY Zenon, <1>5 DEF BeginTurn, FlagType
  <2>4. StoreType' BY Zenon, <1>5 DEF BeginTurn, StoreType
  <2>5. UNCHANGED callVars BY Zenon, <1>5 DEF BeginTurn
  <2> QED BY <2>1, <2>2, <2>3, <2>4, <2>5
<1>6. CASE EnterPause
  <2>1. ExecType' BY Zenon, <1>6, ExecutorAssumption DEF EnterPause, ExecType, ExecPc, Dead
  <2>2. TodoType' BY Zenon, <1>6 DEF EnterPause, TodoType, CopyMatches
  <2>3. FlagType' BY Zenon, <1>6 DEF EnterPause, FlagType
  <2>4. StoreType' BY Zenon, <1>6 DEF EnterPause, StoreType
  <2>5. UNCHANGED callVars BY Zenon, <1>6 DEF EnterPause
  <2> QED BY <2>1, <2>2, <2>3, <2>4, <2>5
<1>7. CASE CallLlm
  <2>1. ExecType' BY Zenon, <1>7, ExecutorAssumption DEF CallLlm, MayCallLlm, ExecType, ExecPc, Dead
  <2>2. TodoType' BY Zenon, <1>7 DEF CallLlm, MayCallLlm, TodoType, CopyMatches
  <2>3. FlagType' BY Zenon, <1>7 DEF CallLlm, MayCallLlm, FlagType
  <2>4. StoreType' BY Zenon, <1>7 DEF CallLlm, MayCallLlm, StoreType
  <2>5. UNCHANGED callVars BY Zenon, <1>7 DEF CallLlm, MayCallLlm
  <2> QED BY <2>1, <2>2, <2>3, <2>4, <2>5
<1>8. CASE LlmFails
  <2>1. ExecType' BY Zenon, <1>8, ExecutorAssumption DEF LlmFails, TurnError, ExecType, ExecPc, Dead
  <2>2. TodoType' BY Zenon, <1>8 DEF LlmFails, TurnError, TodoType, CopyMatches
  <2>3. FlagType' BY Zenon, <1>8 DEF LlmFails, TurnError, FlagType
  <2>4. StoreType' BY Zenon, <1>8 DEF LlmFails, TurnError, StoreType
  <2>5. UNCHANGED callVars BY Zenon, <1>8 DEF LlmFails, TurnError
  <2> QED BY <2>1, <2>2, <2>3, <2>4, <2>5
<1>9. CASE LlmFinal
  <2>1. ExecType' BY Zenon, <1>9, ExecutorAssumption DEF LlmFinal, FinishTurn, ExecType, ExecPc, Dead
  <2>2. TodoType' BY Zenon, <1>9 DEF LlmFinal, FinishTurn, TodoType, CopyMatches
  <2>3. FlagType' BY Zenon, <1>9 DEF LlmFinal, FinishTurn, FlagType
  <2>4. StoreType' BY Zenon, <1>9 DEF LlmFinal, FinishTurn, StoreType
  <2>5. UNCHANGED callVars BY Zenon, <1>9 DEF LlmFinal, FinishTurn
  <2> QED BY <2>1, <2>2, <2>3, <2>4, <2>5
<1>10. CASE ToolsDone
  <2>1. ExecType' BY Zenon, <1>10, ExecutorAssumption DEF ToolsDone, ExecType, ExecPc, Dead
  <2>2. TodoType' BY Zenon, <1>10 DEF ToolsDone, TodoType, CopyMatches
  <2>3. FlagType' BY Zenon, <1>10 DEF ToolsDone, FlagType
  <2>4. StoreType' BY Zenon, <1>10 DEF ToolsDone, StoreType
  <2>5. UNCHANGED callVars BY Zenon, <1>10 DEF ToolsDone
  <2> QED BY <2>1, <2>2, <2>3, <2>4, <2>5
<1>11. CASE Exit
  <2>1. ExecType' BY Zenon, <1>11, ExecutorAssumption DEF Exit, ExecType, ExecPc, Dead
  <2>2. TodoType' BY Zenon, <1>11 DEF Exit, TodoType, CopyMatches
  <2>3. FlagType' BY Zenon, <1>11 DEF Exit, FlagType
  <2>4. StoreType' BY Zenon, <1>11 DEF Exit, StoreType
  <2>5. UNCHANGED callVars BY Zenon, <1>11 DEF Exit
  <2> QED BY <2>1, <2>2, <2>3, <2>4, <2>5
<1>12. CASE Dropped
  <2>1. ExecType' BY Zenon, <1>12, ExecutorAssumption DEF Dropped, AbortSeen, ExecType, ExecPc, Dead
  <2>2. TodoType' BY Zenon, <1>12 DEF Dropped, AbortSeen, TodoType, CopyMatches
  <2>3. FlagType' BY Zenon, <1>12 DEF Dropped, AbortSeen, FlagType
  <2>4. StoreType' BY Zenon, <1>12 DEF Dropped, AbortSeen, StoreType
  <2>5. UNCHANGED callVars BY Zenon, <1>12 DEF Dropped, AbortSeen
  <2> QED BY <2>1, <2>2, <2>3, <2>4, <2>5
<1>13. CASE ToolCall
  <2>1. ExecType' BY <1>13, ExecutorAssumption DEF ToolCall, MoreCalls, ExecType, ExecPc, Dead
  <2>2. TodoType' BY Zenon, <1>13 DEF ToolCall, MoreCalls, TodoType, CopyMatches
  <2>3. FlagType' BY Zenon, <1>13 DEF ToolCall, MoreCalls, FlagType
  <2>4. StoreType' BY Zenon, <1>13 DEF ToolCall, MoreCalls, StoreType
  <2>5. UNCHANGED callVars BY Zenon, <1>13 DEF ToolCall, MoreCalls
  <2> QED BY <2>1, <2>2, <2>3, <2>4, <2>5
<1>14. CASE \E n \in 0..MaxCalls : LlmTools(n)
  <2>0. PICK n \in 0..MaxCalls : LlmTools(n) BY Zenon, <1>14
  <2>1. ExecType' BY <2>0, ExecutorAssumption DEF LlmTools, FinishTurn, ExecType, ExecPc, Dead
  <2>2. TodoType' BY Zenon, <2>0 DEF LlmTools, FinishTurn, TodoType, CopyMatches
  <2>3. FlagType' BY Zenon, <2>0 DEF LlmTools, FinishTurn, FlagType
  <2>4. StoreType' BY Zenon, <2>0 DEF LlmTools, FinishTurn, StoreType
  <2>5. UNCHANGED callVars BY Zenon, <2>0 DEF LlmTools, FinishTurn
  <2> QED BY Zenon, <2>1, <2>2, <2>3, <2>4, <2>5
<1> QED BY Zenon, <1>1, <1>2, <1>3, <1>4, <1>5, <1>6, <1>7, <1>8, <1>9, <1>10, <1>11, <1>12, <1>13, <1>14

\* Steps of the executor that take a signal out of the channel.
LEMMA ReceiveType ==
    ASSUME TypeOK,
           TurnSignal \/ LlmSignal \/ GoalArrives \/ KilledWhileWaiting
           \/ SignalWhileWaiting
    PROVE  TypeOK'
<1> USE DEF TypeOK, Ready, execVars, sigVars, kernVars, storeVars
<1> USE WritesType, CallUnchanged
<1>a. \A k : /\ BetweenTurnsWrites(k) \in Seq(ExecAccesses)
             /\ DuringLlmWrites(k) \in Seq(ExecAccesses)
             /\ BetweenTurnsWrites(k) \o IdleWrites \in Seq(ExecAccesses)
             /\ DuringLlmWrites(k) \o IdleWrites \in Seq(ExecAccesses)
  BY Zenon, HandlerWritesType, ConcatInSeq
<1>b. chan # << >> => Tail(chan) \in Seq(Kinds) BY Zenon, TailInSeq DEF StoreType
<1>1. CASE TurnSignal
  <2>1. ExecType' BY Zenon, <1>1 DEF TurnSignal, Receiving, HandleBetweenTurns, TurnError, ExecType, ExecPc, Dead
  <2>2. TodoType'
    BY Zenon, <1>1, <1>a DEF TurnSignal, Receiving, TurnError, TodoType, CopyMatches
  <2>3. FlagType' BY Zenon, <1>1 DEF TurnSignal, Receiving, HandleBetweenTurns, TurnError, FlagType
  <2>4. StoreType' BY Zenon, <1>1, <1>b DEF TurnSignal, Receiving, HandleBetweenTurns, TurnError, StoreType
  <2>5. UNCHANGED callVars BY Zenon, <1>1 DEF TurnSignal, Receiving, HandleBetweenTurns, TurnError
  <2> QED BY Zenon, <2>1, <2>2, <2>3, <2>4, <2>5
<1>2. CASE LlmSignal
  <2>1. ExecType' BY Zenon, <1>2 DEF LlmSignal, TurnError, ExecType, ExecPc, Dead
  <2>2. TodoType'
    BY Zenon, <1>2, <1>a DEF LlmSignal, TurnError, TodoType, CopyMatches
  <2>3. FlagType' BY Zenon, <1>2 DEF LlmSignal, TurnError, FlagType
  <2>4. StoreType' BY Zenon, <1>2, <1>b DEF LlmSignal, TurnError, StoreType
  <2>5. UNCHANGED callVars BY Zenon, <1>2 DEF LlmSignal, TurnError
  <2> QED BY <2>1, <2>2, <2>3, <2>4, <2>5
<1>3. CASE GoalArrives
  <2>1. ExecType' BY Zenon, <1>3 DEF GoalArrives, ExecType, ExecPc, Dead
  <2>2. TodoType'
    <3>1. (IF after = "restore" THEN << >> ELSE << Interim >>)
            \o << Access("proc", "Running") >> \in Seq(ExecAccesses)
      BY Zenon, ConcatInSeq
    <3> QED BY Zenon, <1>3, <3>1 DEF GoalArrives, TodoType, CopyMatches
  <2>3. FlagType' BY <1>3 DEF GoalArrives, FlagType
  <2>4. StoreType' BY Zenon, <1>3, <1>b DEF GoalArrives, StoreType
  <2>5. UNCHANGED callVars BY Zenon, <1>3 DEF GoalArrives
  <2> QED BY <2>1, <2>2, <2>3, <2>4, <2>5
<1>4. CASE KilledWhileWaiting
  <2>1. ExecType' BY Zenon, <1>4 DEF KilledWhileWaiting, ExecType, ExecPc, Dead
  <2>2. TodoType'
    BY Zenon, <1>4 DEF KilledWhileWaiting, TodoType, CopyMatches
  <2>3. FlagType' BY Zenon, <1>4 DEF KilledWhileWaiting, FlagType
  <2>4. StoreType' BY Zenon, <1>4, <1>b DEF KilledWhileWaiting, StoreType
  <2>5. UNCHANGED callVars BY Zenon, <1>4 DEF KilledWhileWaiting
  <2> QED BY <2>1, <2>2, <2>3, <2>4, <2>5
<1>5. CASE SignalWhileWaiting
  <2>1. ExecType' BY Zenon, <1>5 DEF SignalWhileWaiting, HandleBetweenTurns, ExecType, ExecPc, Dead
  <2>2. TodoType'
    <3>1. BetweenTurnsWrites(Head(chan)) \o
            (IF killed /\ after = "err"
             THEN << Access("inv", "Killed"), Access("proc", "Crashed") >>
             ELSE << >>) \in Seq(ExecAccesses)
      BY Zenon, <1>a, ConcatInSeq
    <3> QED BY Zenon, <1>5, <3>1 DEF SignalWhileWaiting, TodoType, CopyMatches
  <2>3. FlagType' BY Zenon, <1>5 DEF SignalWhileWaiting, HandleBetweenTurns, FlagType
  <2>4. StoreType' BY Zenon, <1>5, <1>b DEF SignalWhileWaiting, HandleBetweenTurns, StoreType
  <2>5. UNCHANGED callVars BY Zenon, <1>5 DEF SignalWhileWaiting, HandleBetweenTurns
  <2> QED BY <2>1, <2>2, <2>3, <2>4, <2>5
<1> QED BY Zenon, <1>1, <1>2, <1>3, <1>4, <1>5

\* The store accesses of the executor, and the end of AgentManager::spawn.
LEMMA AccessType ==
    ASSUME TypeOK, ExecRead \/ ExecWrite \/ ExecSetStatus \/ StoreHandle \/ MarkRunning
    PROVE  TypeOK'
<1> USE DEF TypeOK, execVars, sigVars, kernVars, storeVars
<1> USE CallUnchanged
<1>a. todo # << >> => Tail(todo) \in Seq(ExecAccesses) /\ Head(todo) \in ExecAccesses
  BY Zenon, TailInSeq DEF TodoType
<1>b. inv \in Copies /\ sess \in Copies /\ inv.kind = "inv" /\ sess.kind = "sess"
  BY Zenon DEF StoreType, Copies, InvRecord, SessRecord
<1>1. CASE ExecRead
  <2>1. TodoType' BY Zenon, <1>1, <1>b DEF ExecRead, TodoType, CopyMatches
  <2> QED BY <1>1, <2>1 DEF ExecRead, ExecType, FlagType, StoreType
<1>2. CASE ExecWrite
  <2>1. TodoType' BY Zenon, <1>2, <1>a DEF ExecWrite, TodoType, CopyMatches, Copies
  <2>2. /\ copy \in InvRecord \cup SessRecord
        /\ copy.kind = Head(todo).store
    BY Zenon, <1>2 DEF ExecWrite, TodoType, CopyMatches, Copies
  <2>3. StoreType'
    <3>1. CASE Head(todo).store = "inv"
      <4>1. copy \in InvRecord BY Zenon, <2>2, <3>1 DEF InvRecord, SessRecord
      <4>2. Head(todo).arg \in InvArgs BY Zenon, <1>2, <1>a, <3>1 DEF ExecWrite, ExecAccesses
      <4>3. Updated(Head(todo).arg, copy) \in InvRecord BY Zenon, <4>1, <4>2, UpdatedType
      <4> QED BY Zenon, <1>2, <3>1, <4>3 DEF ExecWrite, StoreType
    <3>2. CASE Head(todo).store # "inv"
      <4>1. copy \in SessRecord /\ Head(todo).store = "sess"
        BY Zenon, <2>2, <3>2 DEF InvRecord, SessRecord
      <4>2. Head(todo).arg \in SessArgs BY Zenon, <1>2, <1>a, <4>1 DEF ExecWrite, ExecAccesses
      <4>3. Updated(Head(todo).arg, copy) \in SessRecord BY Zenon, <4>1, <4>2, UpdatedType
      <4> QED BY Zenon, <1>2, <3>2, <4>3 DEF ExecWrite, StoreType
    <3> QED BY Zenon, <3>1, <3>2
  <2> QED BY <1>2, <2>1, <2>3 DEF ExecWrite, ExecType, FlagType
<1>3. CASE ExecSetStatus
  <2>1. copy = NoCopy
    BY Zenon, <1>3 DEF ExecSetStatus, TodoType, CopyMatches, Copies, InvRecord, SessRecord
  <2>2. TodoType' BY Zenon, <1>3, <1>a, <2>1 DEF ExecSetStatus, TodoType, CopyMatches
  <2>3. Head(todo).arg \in ProcStatus BY Zenon, <1>3, <1>a DEF ExecSetStatus, ExecAccesses
  <2>4. StoreType' BY Zenon, <1>3, <2>3 DEF ExecSetStatus, StoreType
  <2> QED BY <1>3, <2>2, <2>4 DEF ExecSetStatus, ExecType, FlagType
<1>4. CASE StoreHandle
  BY <1>4 DEF StoreHandle, ExecType, TodoType, FlagType, StoreType
<1>5. CASE MarkRunning
  BY <1>5 DEF MarkRunning, ExecType, TodoType, FlagType, StoreType, ProcStatus
<1> QED BY Zenon, <1>1, <1>2, <1>3, <1>4, <1>5

\* Facts about the step a caller is at.
LEMMA StepFacts ==
    ASSUME CallType, NEW c \in Callers, call[c].todo # << >>
    PROVE  /\ NextStep(c) \in CallAccesses
           /\ Tail(call[c].todo) \in Seq(CallAccesses)
           /\ call[c].copy \in Copies
BY Zenon, TailInSeq DEF CallType, NextStep

\* A caller that leaves its step with no copy keeps the type of the callers.
LEMMA AdvanceType ==
    ASSUME CallType, NEW c \in Callers, NEW q \in Seq(CallAccesses),
           call' = [call EXCEPT ![c].todo = q], requests' \in 0..MaxRequests,
           call[c].copy = NoCopy
    PROVE  CallType'
<1>1. call' \in [Callers -> [todo : Seq(CallAccesses), copy : Copies]] BY Zenon DEF CallType
<1>2. \A d \in Callers : CopyMatches(call'[d].todo, call'[d].copy)
  BY Zenon DEF CallType, CopyMatches
<1> QED BY Zenon, <1>1, <1>2 DEF CallType

\* A caller at a step that is not a store access holds no copy.
LEMMA NoCopyOutsideStores ==
    ASSUME CallType, NEW c \in Callers, call[c].todo # << >>,
           NextStep(c).store \notin {"inv", "sess"}
    PROVE  call[c].copy = NoCopy
BY Zenon DEF CallType, CopyMatches, NextStep, Copies, InvRecord, SessRecord

\* The step that replaces a look-up is an access to the store it names.
LEMMA ResolveType ==
    ASSUME CallType, NEW c \in Callers, call[c].todo # << >>, NEW found,
           NEW store \in {"inv", "sess"},
           NextStep(c).arg \in IF store = "inv" THEN InvStatus ELSE SessArgs,
           call[c].copy = NoCopy,
           call' = Resolve(c, found, store), requests' \in 0..MaxRequests
    PROVE  CallType'
<1> DEFINE front == IF found THEN << Access(store, NextStep(c).arg) >> ELSE << >>
<1>1. Access(store, NextStep(c).arg) \in CallAccesses
  BY Zenon DEF Access, CallAccesses, ExecAccesses, InvArgs
<1>2. front \in Seq(CallAccesses)
  <2> HIDE DEF Access, CallAccesses
  <2> QED BY <1>1, EmptySeq
<1>3. front \o Tail(call[c].todo) \in Seq(CallAccesses)
  BY Zenon, <1>2, StepFacts, ConcatInSeq
<1>4. call' = [call EXCEPT ![c].todo = front \o Tail(call[c].todo)] BY Zenon DEF Resolve
<1> QED BY Zenon, <1>3, <1>4, AdvanceType

\* No kernel request touches what the executor owns.
LEMMA ExecutorOwns ==
    ASSUME TypeOK, UNCHANGED <<execVars, todo, copy>>
    PROVE  ExecType' /\ TodoType'
<1>1. ExecType' BY Zenon DEF TypeOK, ExecType, execVars
<1>2. TodoType' BY Zenon DEF TypeOK, TodoType, CopyMatches
<1> QED BY Zenon, <1>1, <1>2

\* The steps of the kernel requests.
LEMMA CallerType ==
    ASSUME TypeOK, NEW c \in Callers,
           CallStep(c) \/ \E op \in Ops : Request(c, op)
    PROVE  TypeOK'
<1> USE DEF TypeOK, At, execVars, sigVars, kernVars, storeVars
<1>a. requests \in 0..MaxRequests BY Zenon DEF CallType
<1>1. CASE \E op \in Ops : Request(c, op)
  <2>1. PICK op \in Ops : Request(c, op) BY Zenon, <1>1
  <2>2. Steps(op) \in Seq(CallAccesses) BY Zenon, StepsType, ExecutorAssumption
  <2>3. call[c].copy = NoCopy BY Zenon, <2>1 DEF Request, CallType, CopyMatches
  <2>4. requests' \in 0..MaxRequests BY <2>1, <1>a, ExecutorAssumption DEF Request
  <2>5. CallType' BY Zenon, <2>1, <2>2, <2>3, <2>4, AdvanceType DEF Request
  <2>6. ExecType' /\ TodoType' BY Zenon, <2>1, ExecutorOwns DEF Request
  <2>7. FlagType' BY <2>1 DEF Request, FlagType
  <2>8. StoreType' BY Zenon, <2>1 DEF Request, StoreType
  <2> QED BY Zenon, <2>6, <2>7, <2>8, <2>5
<1>2. CASE CallSetStatus(c)
  <2>1. CallType' BY Zenon, <1>2, <1>a, StepFacts, NoCopyOutsideStores, AdvanceType
    DEF CallSetStatus, Advance
  <2>2. NextStep(c).arg \in ProcStatus
    BY Zenon, <1>2, StepFacts DEF CallSetStatus, CallAccesses, ExecAccesses
  <2>3. ExecType' /\ TodoType' BY Zenon, <1>2, ExecutorOwns DEF CallSetStatus
  <2>4. FlagType' BY Zenon, <1>2 DEF CallSetStatus, FlagType
  <2>5. StoreType' BY Zenon, <1>2, <2>2 DEF CallSetStatus, StoreType
  <2> QED BY Zenon, <2>3, <2>4, <2>5, <2>1
<1>3. CASE CallLookup(c)
  <2>1. NextStep(c).arg \in IF NextStep(c).store = "lookupInv" THEN InvStatus ELSE SessArgs
    BY Zenon, <1>3, StepFacts DEF CallLookup, CallAccesses, ExecAccesses
  <2>2. CallType' BY Zenon, <1>3, <1>a, <2>1, NoCopyOutsideStores, ResolveType DEF CallLookup
  <2>3. ExecType' /\ TodoType' BY Zenon, <1>3, ExecutorOwns DEF CallLookup
  <2>4. FlagType' BY Zenon, <1>3 DEF CallLookup, FlagType
  <2>5. StoreType' BY Zenon, <1>3 DEF CallLookup, StoreType
  <2> QED BY <2>3, <2>4, <2>5, <2>2
<1>4. CASE CallTakeInv(c)
  <2>1. NextStep(c).arg \in InvStatus
    BY Zenon, <1>4, StepFacts DEF CallTakeInv, CallAccesses, ExecAccesses
  <2>2. CallType' BY Zenon, <1>4, <1>a, <2>1, NoCopyOutsideStores, ResolveType DEF CallTakeInv
  <2>3. FlagType' BY Zenon, <1>4 DEF CallTakeInv, FlagType
  <2>4. StoreType' BY Zenon, <1>4 DEF CallTakeInv, StoreType
  <2>5. ExecType' /\ TodoType' BY Zenon, <1>4, ExecutorOwns DEF CallTakeInv
  <2> QED BY Zenon, <2>5, <2>3, <2>4, <2>2
<1>5. CASE CallTakeSess(c)
  <2>1. NextStep(c).arg \in SessArgs
    BY Zenon, <1>5, StepFacts DEF CallTakeSess, CallAccesses, ExecAccesses
  <2>2. CallType' BY Zenon, <1>5, <1>a, <2>1, NoCopyOutsideStores, ResolveType DEF CallTakeSess
  <2>3. FlagType' BY Zenon, <1>5 DEF CallTakeSess, FlagType
  <2>4. StoreType' BY Zenon, <1>5 DEF CallTakeSess, StoreType
  <2>5. ExecType' /\ TodoType' BY Zenon, <1>5, ExecutorOwns DEF CallTakeSess
  <2> QED BY <2>5, <2>3, <2>4, <2>2
<1>6. CASE CallAbort(c)
  <2>1. CallType' BY Zenon, <1>6, <1>a, StepFacts, NoCopyOutsideStores, AdvanceType
    DEF CallAbort, Advance
  <2>2. ExecType' /\ TodoType' BY Zenon, <1>6, ExecutorOwns DEF CallAbort
  <2>3. FlagType' BY Zenon, <1>6 DEF CallAbort, FlagType
  <2>4. StoreType' BY Zenon, <1>6 DEF CallAbort, StoreType
  <2> QED BY <2>2, <2>3, <2>4, <2>1
<1>7. CASE CallSend(c)
  <2>1. CallType' BY Zenon, <1>7, <1>a, StepFacts, NoCopyOutsideStores, AdvanceType
    DEF CallSend, Advance
  <2>2. NextStep(c).arg \in Kinds
    BY Zenon, <1>7, StepFacts DEF CallSend, CallAccesses, ExecAccesses
  <2>3. StoreType' BY <1>7, <2>2 DEF CallSend, StoreType
  <2>4. ExecType' /\ TodoType' BY Zenon, <1>7, ExecutorOwns DEF CallSend
  <2>5. FlagType' BY <1>7 DEF CallSend, FlagType
  <2> QED BY Zenon, <2>4, <2>5, <2>3, <2>1
<1>8. CASE CallSendBlocks(c)
  <2>1. CallType' BY Zenon, <1>8, CallUnchanged DEF CallSendBlocks
  <2>2. ExecType' /\ TodoType' BY Zenon, <1>8, ExecutorOwns DEF CallSendBlocks
  <2>3. FlagType' BY Zenon, <1>8 DEF CallSendBlocks, FlagType
  <2>4. StoreType' BY Zenon, <1>8 DEF CallSendBlocks, StoreType
  <2> QED BY Zenon, <2>1, <2>2, <2>3, <2>4
<1>b. inv \in Copies /\ sess \in Copies /\ inv.kind = "inv" /\ sess.kind = "sess"
  BY Zenon DEF StoreType, Copies, InvRecord, SessRecord
<1>9. CASE CallRead(c)
  <2>1. CallType' BY <1>9, <1>b DEF CallRead, CallType, CopyMatches, NextStep
  <2>2. ExecType' /\ TodoType' BY Zenon, <1>9, ExecutorOwns DEF CallRead
  <2>3. FlagType' BY Zenon, <1>9 DEF CallRead, FlagType
  <2>4. StoreType' BY Zenon, <1>9 DEF CallRead, StoreType
  <2> QED BY <2>2, <2>3, <2>4, <2>1
<1>10. CASE CallWrite(c)
  <2>1. CallType' BY Zenon, <1>10, StepFacts DEF CallWrite, CallType, CopyMatches, Copies
  <2>2. /\ call[c].copy \in InvRecord \cup SessRecord
        /\ call[c].copy.kind = NextStep(c).store
    BY Zenon, <1>10 DEF CallWrite, CallType, CopyMatches, NextStep, Copies
  <2>3. StoreType'
    <3>1. CASE NextStep(c).store = "inv"
      <4>1. call[c].copy \in InvRecord BY Zenon, <2>2, <3>1 DEF InvRecord, SessRecord
      <4>2. NextStep(c).arg \in InvArgs
        BY Zenon, <1>10, <3>1, StepFacts DEF CallWrite, CallAccesses, ExecAccesses
      <4>3. Updated(NextStep(c).arg, call[c].copy) \in InvRecord BY Zenon, <4>1, <4>2, UpdatedType
      <4> QED BY Zenon, <1>10, <3>1, <4>3 DEF CallWrite, StoreType
    <3>2. CASE NextStep(c).store # "inv"
      <4>1. call[c].copy \in SessRecord /\ NextStep(c).store = "sess"
        BY Zenon, <2>2, <3>2 DEF InvRecord, SessRecord
      <4>2. NextStep(c).arg \in SessArgs
        BY Zenon, <1>10, <4>1, StepFacts DEF CallWrite, CallAccesses, ExecAccesses
      <4>3. Updated(NextStep(c).arg, call[c].copy) \in SessRecord BY Zenon, <4>1, <4>2, UpdatedType
      <4> QED BY Zenon, <1>10, <3>2, <4>3 DEF CallWrite, StoreType
    <3> QED BY Zenon, <3>1, <3>2
  <2>4. ExecType' /\ TodoType' BY Zenon, <1>10, ExecutorOwns DEF CallWrite
  <2>5. FlagType' BY Zenon, <1>10 DEF CallWrite, FlagType
  <2> QED BY <2>4, <2>5, <2>3, <2>1
<1> QED BY Zenon, <1>1, <1>2, <1>3, <1>4, <1>5, <1>6, <1>7, <1>8, <1>9, <1>10 DEF CallStep

\* A step that changes nothing.
LEMMA StutterType ==
    ASSUME TypeOK, UNCHANGED vars
    PROVE  TypeOK'
<1> USE DEF TypeOK, vars, execVars, sigVars, kernVars, storeVars, callVars
<1>1. ExecType' /\ FlagType' BY DEF ExecType, FlagType
<1>2. TodoType' BY Zenon DEF TodoType, CopyMatches
<1>3. StoreType' BY Zenon DEF StoreType
<1>4. CallType' BY Zenon, CallUnchanged
<1> QED BY Zenon, <1>1, <1>2, <1>3, <1>4

LEMMA InitType == Init => TypeOK
<1> SUFFICES ASSUME Init PROVE TypeOK BY Zenon
<1> USE DEF Init, TypeOK
<1>1. ExecType
  <2>1. 0 \in 0..MaxCalls BY ExecutorAssumption
  <2>2. after \in {"ok", "restore"} BY Zenon
  <2> QED BY Zenon, <2>1, <2>2 DEF ExecType, ExecPc
<1>2. TodoType BY Zenon, EmptySeq DEF TodoType, CopyMatches, Copies
<1>3. FlagType BY Zenon DEF FlagType
<1>4. /\ Record("sess", "Running", TRUE) \in SessRecord
      /\ Record("sess", "Idle", TRUE) \in SessRecord
      /\ \A s \in Live : Record("inv", s, FALSE) \in InvRecord
  BY Zenon DEF Record, SessRecord, InvRecord, SessStatus, InvStatus, Live
<1>5. inv \in InvRecord /\ sess \in SessRecord BY Zenon, <1>4 DEF Live
<1>6. StoreType BY Zenon, <1>5, EmptySeq DEF StoreType, ProcStatus
<1>7. CallType
  <2>1. [todo |-> << >>, copy |-> NoCopy] \in [todo : Seq(CallAccesses), copy : Copies]
    BY Zenon, EmptySeq DEF Copies
  <2> QED BY <2>1, ExecutorAssumption DEF CallType, CopyMatches
<1> QED BY Zenon, <1>1, <1>2, <1>3, <1>6, <1>7

LEMMA NextType == TypeOK /\ [Next]_vars => TypeOK'
<1> SUFFICES ASSUME TypeOK, [Next]_vars PROVE TypeOK' BY Zenon
<1>1. CASE Executor
  BY Zenon, <1>1, ControlType, ReceiveType, AccessType DEF Executor
<1>2. CASE Dropped \/ TokenAges BY Zenon, <1>2, ControlType
<1>3. CASE StoreHandle \/ MarkRunning BY Zenon, <1>3, AccessType
<1>4. CASE \E c \in Callers : CallStep(c) BY Zenon, <1>4, CallerType
<1>5. CASE \E c \in Callers, op \in Ops : Request(c, op) BY Zenon, <1>5, CallerType
<1>6. CASE UNCHANGED vars BY Zenon, <1>6, StutterType
<1> QED BY Zenon, <1>1, <1>2, <1>3, <1>4, <1>5, <1>6 DEF Next

\* Every reachable state of the executor, its channel, the kernel maps and the
\* stores is well typed; in particular a record copy is written back only to the
\* store it was read from, and the tool calls left never go below zero.
THEOREM TypeCorrect == Spec => []TypeOK
BY InitType, NextType, PTL DEF Spec

-----------------------------------------------------------------------------
(* Safety *)

\* Kernel requests, the end of spawn and the clock leave the executor alone.
LEMMA OthersKeepExecutor ==
    ASSUME \/ StoreHandle \/ MarkRunning \/ TokenAges
           \/ \E c \in Callers : CallStep(c)
           \/ \E c \in Callers, op \in Ops : Request(c, op)
           \/ UNCHANGED vars
    PROVE  UNCHANGED <<pc, paused, killed, saveReq, chain, calls, after, todo>>
<1> USE DEF execVars
<1>1. CASE StoreHandle BY Zenon, <1>1 DEF StoreHandle
<1>2. CASE MarkRunning BY Zenon, <1>2 DEF MarkRunning
<1>3. CASE TokenAges BY Zenon, <1>3 DEF TokenAges
<1>4. CASE \E c \in Callers : CallStep(c)
  BY Zenon, <1>4 DEF CallStep, CallSetStatus, CallLookup, CallTakeInv, CallTakeSess, CallAbort,
              CallSend, CallSendBlocks, CallRead, CallWrite
<1>5. CASE \E c \in Callers, op \in Ops : Request(c, op) BY Zenon, <1>5 DEF Request
<1>6. CASE UNCHANGED vars BY Zenon, <1>6 DEF vars
<1> QED BY Zenon, <1>1, <1>2, <1>3, <1>4, <1>5, <1>6

\* What the executor can do to its control point, pause flag and tool calls.
LEMMA ExecutorMoves ==
    ASSUME TypeOK, Executor \/ Dropped
    PROVE  \/ pc' \notin {"llm", "tools"}
           \/ pc' = "llm" /\ pc # "llm" /\ ~paused'
           \/ /\ pc = "llm" /\ pc' = "tools" /\ paused' = paused
              /\ chain' <= ChainLimit /\ calls' <= chain'
           \/ /\ pc' = pc /\ paused' = paused /\ chain' = chain
              /\ calls' \in {calls, calls - 1}
<1> USE DEF Ready, execVars, Dead
<1>1. CASE SpawnFails \/ Launch \/ TokenExpired \/ BeginTurn \/ EnterPause \/ LlmFails
           \/ LlmFinal \/ ToolsDone \/ GoalArrives \/ KilledWhileWaiting \/ Exit \/ Dropped
  BY Zenon, <1>1 DEF SpawnFails, Launch, TokenExpired, BeginTurn, EnterPause, LlmFails, LlmFinal,
              ToolsDone, GoalArrives, KilledWhileWaiting, Exit, Dropped, TurnError, FinishTurn
<1>2. CASE TurnSignal \/ SignalWhileWaiting \/ LlmSignal
  BY Zenon, <1>2 DEF TurnSignal, Receiving, SignalWhileWaiting, LlmSignal, TurnError
<1>3. CASE CallLlm BY Zenon, <1>3 DEF CallLlm, MayCallLlm
<1>4. CASE \E n \in 0..MaxCalls : LlmTools(n)
  BY <1>4, ExecutorAssumption DEF LlmTools, OverLimit, FinishTurn, TypeOK, ExecType
<1>5. CASE ToolCall BY Zenon, <1>5 DEF ToolCall
<1>6. CASE ExecRead \/ ExecWrite \/ ExecSetStatus
  BY Zenon, <1>6 DEF ExecRead, ExecWrite, ExecSetStatus
<1> QED BY Zenon, <1>1, <1>2, <1>3, <1>4, <1>5, <1>6 DEF Executor

\* A paused agent is never in an LLM call or dispatching tools: run_with_client
\* drains the channel and looks at the flag before each call.
THEOREM PausedIdle == Spec => []PausedConsumesNothing
<1>1. Init => PausedConsumesNothing BY Zenon DEF Init, PausedConsumesNothing
<1>2. TypeOK /\ PausedConsumesNothing /\ [Next]_vars => PausedConsumesNothing'
  BY Zenon, ExecutorMoves, OthersKeepExecutor DEF Next, PausedConsumesNothing
<1> QED BY <1>1, <1>2, TypeCorrect, PTL DEF Spec

\* Tools are dispatched only within max_tool_chain_length calls of one goal.
THEOREM ChainBounded == Spec => []ChainWithinLimit
<1>1. Init => ChainWithinLimit BY Zenon DEF Init, ChainWithinLimit
<1>2. TypeOK /\ ChainWithinLimit /\ [Next]_vars => ChainWithinLimit'
  <2> SUFFICES ASSUME TypeOK, ChainWithinLimit, [Next]_vars PROVE ChainWithinLimit' BY Zenon
  <2>1. CASE Executor \/ Dropped
    BY <2>1, ExecutorMoves, ExecutorAssumption DEF ChainWithinLimit, TypeOK, ExecType
  <2> QED BY Zenon, <2>1, OthersKeepExecutor DEF Next, ChainWithinLimit
<1> QED BY <1>1, <1>2, TypeCorrect, PTL DEF Spec

\* The executor leaves the pause loop only on a signal that lifts the pause or
\* kills it, or because it was aborted.
THEOREM PauseIsLeft == Spec => PauseHolds
<1>1. [Next]_vars => [pc = "pausedWait" /\ pc' # "pausedWait"
                        => ~paused \/ killed' \/ abortReq]_vars
  <2> SUFFICES ASSUME Next, pc = "pausedWait", pc' # "pausedWait", paused
               PROVE  killed' \/ abortReq
    BY Zenon
  <2> USE DEF Ready, execVars
  <2>1. Executor \/ Dropped BY Zenon, OthersKeepExecutor DEF Next
  <2>2. CASE Dropped BY Zenon, <2>2 DEF Dropped
  <2>3. CASE TurnSignal BY Zenon, <2>3 DEF TurnSignal
  <2>4. CASE CallLlm BY Zenon, <2>4 DEF CallLlm, MayCallLlm
  <2>5. CASE ExecRead \/ ExecWrite \/ ExecSetStatus
    BY Zenon, <2>5 DEF ExecRead, ExecWrite, ExecSetStatus
  <2> QED BY Zenon, <2>1, <2>2, <2>3, <2>4, <2>5
      DEF Executor, SpawnFails, Launch, TokenExpired, BeginTurn, EnterPause, LlmSignal,
          LlmFails, LlmFinal, LlmTools, ToolCall, ToolsDone, GoalArrives,
          KilledWhileWaiting, SignalWhileWaiting, Exit
<1> QED BY <1>1, PTL DEF Spec, PauseHolds

-----------------------------------------------------------------------------
(* Refinement *)

\* Steps that take nothing from the channel and leave the control point alone are
\* stuttering steps of the mailbox, or deliver a signal.
LEMMA QuietSteps ==
    ASSUME UNCHANGED <<pc, paused, killed, after, chan>>
    PROVE  UNCHANGED Mailbox!mbVars
BY Zenon DEF Mailbox!mbVars, Mode, Closed

\* A signal joins the channel only while the receiver is alive.
LEMMA SendDelivers ==
    ASSUME TypeOK, NEW c \in Callers, CallSend(c), registered => pc # "launch"
    PROVE  [Mailbox!Next]_(Mailbox!mbVars)
<1>1. CASE ~registered \/ Closed
  BY Zenon, <1>1, QuietSteps DEF CallSend, execVars
<1>2. CASE registered /\ ~Closed
  <2>1. NextStep(c).arg \in Mailbox!SignalKinds
    BY Zenon, StepFacts DEF CallSend, At, TypeOK, CallAccesses, ExecAccesses, Kinds, Mailbox!SignalKinds
  <2>2. Mode \in {"busy", "held", "idle", "leaving"}
    BY Zenon, <1>2 DEF Mode, Closed, Dead, TypeOK, ExecType, ExecPc
  <2>3. Mailbox!Deliver(NextStep(c).arg)
    BY Zenon, <1>2, <2>2 DEF CallSend, Mailbox!Deliver, execVars, Mode, Closed
  <2> QED BY Zenon, <2>1, <2>3 DEF Mailbox!Next
<1> QED BY Zenon, <1>1, <1>2

\* The signal channel is registered by the launch.
RegisteredLate == registered => pc # "launch"

LEMMA RegisteredStep == RegisteredLate /\ [Next]_vars => RegisteredLate'
<1> SUFFICES ASSUME RegisteredLate, [Next]_vars PROVE RegisteredLate' OBVIOUS
<1> USE DEF RegisteredLate
<1>1. CASE Executor \/ Dropped
  BY Zenon, <1>1 DEF Executor, SpawnFails, Launch, TokenExpired, BeginTurn, TurnSignal, Receiving,
     EnterPause, CallLlm, MayCallLlm, LlmSignal, LlmFails, LlmFinal, LlmTools, ToolCall,
     ToolsDone, GoalArrives, KilledWhileWaiting, SignalWhileWaiting, Exit, ExecRead,
     ExecWrite, ExecSetStatus, Dropped, TurnError, FinishTurn, Ready, execVars, sigVars
<1>2. CASE UNCHANGED <<registered, pc>> BY Zenon, <1>2
<1>3. ~(Executor \/ Dropped) => UNCHANGED <<registered, pc>>
  BY Zenon DEF Next, vars, TokenAges, StoreHandle, MarkRunning, Request, CallStep, CallSetStatus,
     CallLookup, CallTakeInv, CallTakeSess, CallAbort, CallSend, CallSendBlocks, CallRead,
     CallWrite, execVars, sigVars
<1> QED BY Zenon, <1>1, <1>2, <1>3

\* Each step of the executor is a step of the mailbox or leaves it unchanged.
LEMMA ExecutorRefines ==
    ASSUME TypeOK, Executor \/ Dropped
    PROVE  [Mailbox!Next]_(Mailbox!mbVars)
<1> USE DEF Ready, execVars, sigVars, Mode, Closed, Dead
<1>1. CASE SpawnFails
  BY Zenon, <1>1 DEF SpawnFails, Mailbox!Next, Mailbox!Vanish, Mailbox!FailToStart
<1>2. CASE Launch BY Zenon, <1>2 DEF Launch, Mailbox!Next, Mailbox!Begin
<1>3. CASE TokenExpired \/ LlmFails \/ LlmFinal
  BY Zenon, <1>3 DEF TokenExpired, LlmFails, LlmFinal, TurnError, FinishTurn, Mailbox!Next,
              Mailbox!Finish
<1>4. CASE BeginTurn \/ ToolCall \/ ToolsDone
  BY Zenon, <1>4 DEF BeginTurn, ToolCall, ToolsDone, Mailbox!mbVars
<1>5. CASE TurnSignal
  <2>1. Mailbox!Take
    BY Zenon, <1>5 DEF TurnSignal, HandleBetweenTurns, Mailbox!Take
  <2>2. Mode \in {"busy", "held"} BY Zenon, <1>5 DEF TurnSignal, Receiving
  <2>3. Mode' = IF killed' THEN "idle" ELSE Mode
    BY Zenon, <1>5 DEF TurnSignal, Receiving, TurnError
  <2> QED BY Zenon, <2>1, <2>2, <2>3 DEF Mailbox!TakeAtWork, Mailbox!Next
<1>6. CASE EnterPause BY Zenon, <1>6 DEF EnterPause, Mailbox!Next, Mailbox!Hold
<1>7. CASE CallLlm
  BY Zenon, <1>7 DEF CallLlm, MayCallLlm, Mailbox!Next, Mailbox!Release, Mailbox!mbVars
<1>8. CASE LlmSignal
  <2>1. Mailbox!Take BY Zenon, <1>8 DEF LlmSignal, Mailbox!Take
  <2>2. Mode = "busy" /\ Mode' = IF killed' THEN "idle" ELSE Mode
    BY Zenon, <1>8 DEF LlmSignal, TurnError
  <2> QED BY Zenon, <2>1, <2>2 DEF Mailbox!TakeAtWork, Mailbox!Next
<1>9. CASE \E n \in 0..MaxCalls : LlmTools(n)
  BY Zenon, <1>9 DEF LlmTools, FinishTurn, Mailbox!Next, Mailbox!Finish, Mailbox!mbVars
<1>10. CASE GoalArrives
  <2>1. Mailbox!Take BY Zenon, <1>10 DEF GoalArrives, Mailbox!Take, TypeOK, FlagType
  <2> QED BY Zenon, <1>10, <2>1 DEF GoalArrives, Mailbox!TakeGoal, Mailbox!Next
<1>11. CASE KilledWhileWaiting
  <2>1. Mailbox!Take BY Zenon, <1>11 DEF KilledWhileWaiting, Mailbox!Take
  <2> QED BY Zenon, <1>11, <2>1 DEF KilledWhileWaiting, Mailbox!TakeIdle, Mailbox!Next
<1>12. CASE SignalWhileWaiting
  <2>1. Mailbox!Take
    BY Zenon, <1>12 DEF SignalWhileWaiting, HandleBetweenTurns, Mailbox!Take
  <2>2. killed' = killed
    BY Zenon, <1>12 DEF SignalWhileWaiting, HandleBetweenTurns, TypeOK, FlagType
  <2> QED BY Zenon, <1>12, <2>1, <2>2 DEF SignalWhileWaiting, Mailbox!TakeIdle, Mailbox!Next
<1>13. CASE Exit BY Zenon, <1>13 DEF Exit, Mailbox!Next, Mailbox!Vanish, Mailbox!mbVars
<1>14. CASE ExecRead \/ ExecWrite \/ ExecSetStatus
  BY Zenon, <1>14, QuietSteps DEF ExecRead, ExecWrite, ExecSetStatus
<1>15. CASE Dropped BY Zenon, <1>15 DEF Dropped, AbortSeen, Mailbox!Next, Mailbox!Vanish, Mailbox!mbVars
<1> QED BY Zenon, <1>1, <1>2, <1>3, <1>4, <1>5, <1>6, <1>7, <1>8, <1>9, <1>10, <1>11, <1>12,
           <1>13, <1>14, <1>15 DEF Executor

\* The executor, its callers and its stores implement the mailbox contract: signals
\* are taken once and in order, only SIGSTART wakes an idle agent, a held agent
\* goes on only after the hold is lifted, and a gone agent does nothing.
THEOREM MailboxRefined == Spec => ImplementsMailbox
<1>1. Init => Mailbox!Init BY Zenon DEF Init, Mailbox!Init, Mode
<1>2. Init => RegisteredLate BY Zenon DEF Init, RegisteredLate
<1>3. TypeOK /\ RegisteredLate /\ [Next]_vars => [Mailbox!Next]_(Mailbox!mbVars)
  <2> SUFFICES ASSUME TypeOK, RegisteredLate, [Next]_vars
               PROVE  [Mailbox!Next]_(Mailbox!mbVars)
    BY Zenon
  <2>1. CASE Executor \/ Dropped BY Zenon, <2>1, ExecutorRefines
  <2>2. CASE \E c \in Callers : CallSend(c) BY Zenon, <2>2, SendDelivers DEF RegisteredLate
  <2>3. CASE UNCHANGED <<pc, paused, killed, after, chan>> BY Zenon, <2>3, QuietSteps
  <2>4. ~(Executor \/ Dropped) /\ ~(\E c \in Callers : CallSend(c))
        => UNCHANGED <<pc, paused, killed, after, chan>>
    BY ZenonT(30) DEF Next, vars, TokenAges, StoreHandle, MarkRunning, Request, CallStep,
       CallSetStatus, CallLookup, CallTakeInv, CallTakeSess, CallAbort, CallSendBlocks,
       CallRead, CallWrite, execVars, sigVars
  <2> QED BY Zenon, <2>1, <2>2, <2>3, <2>4
<1> QED BY <1>1, <1>2, <1>3, RegisteredStep, TypeCorrect, PTL
    DEF Spec, ImplementsMailbox, Mailbox!Spec

-----------------------------------------------------------------------------
(* One finalizer *)

Kill == Access("inv", "Killed")

\* A request that finalizes does so only by the step it is at: no such step waits
\* further down its list, and no look-up turns into one.
OnlyTaken(q) ==
    /\ \A i \in 2..Len(q) : q[i] # Kill
    /\ \A i \in 1..Len(q) : q[i].store = "lookupInv" => q[i].arg # "Killed"
FinalizeInv ==
    /\ \A c \in Callers : OnlyTaken(call[c].todo)
    /\ KernelFinalizesOnce

\* No request starts at the finalizing step.
LEMMA StepsOnlyTaken ==
    ASSUME NEW op \in AllOps
    PROVE  OnlyTaken(Steps(op)) /\ (Steps(op) # << >> => Head(Steps(op)) # Kill)
<1> DEFINE Good(q) == OnlyTaken(q) /\ (q # << >> => Head(q) # Kill)
<1>1. Good(PauseSteps) /\ Good(ResumeSteps)
  BY DEF OnlyTaken, PauseSteps, ResumeSteps, SignalSteps, Access, Kill
<1>2. Good(KillSteps) BY DEF OnlyTaken, KillSteps, Access, Kill
<1>3. Good(<< >>) BY DEF OnlyTaken
<1>4. \A k : Good(<< Access("send", k) >>) BY DEF OnlyTaken, Access, Kill
<1>5. Good(<< Interim >>) BY DEF OnlyTaken, Interim, Access, Kill
<1>6. Good(SessionResumeSteps) BY Zenon, <1>1, <1>3, <1>4 DEF SessionResumeSteps
<1>7. Good(SnapshotSteps) BY Zenon, <1>3, <1>5 DEF SnapshotSteps
<1> HIDE DEF Good
<1>8. Good(Steps(op))
  <2>1. CASE op \in Signals BY Zenon, <1>4, <2>1 DEF Steps, Signals
  <2>2. CASE op \notin Signals
    BY Zenon, <1>1, <1>2, <1>6, <1>7, <2>2 DEF Steps, AllOps, Signals
  <2> QED BY Zenon, <2>1, <2>2
<1> QED BY Zenon, <1>8 DEF Good

\* Taking the next step, or resolving a look-up, keeps it so.
LEMMA TailOnlyTaken ==
    ASSUME NEW q \in Seq(CallAccesses), q # << >>, OnlyTaken(q)
    PROVE  OnlyTaken(Tail(q)) /\ (Tail(q) # << >> => Head(Tail(q)) # Kill)
<1>1. /\ Tail(q) \in Seq(CallAccesses)
      /\ Len(Tail(q)) = Len(q) - 1
      /\ \A i \in 1..Len(Tail(q)) : Tail(q)[i] = q[i + 1]
  OBVIOUS
<1>2. Len(q) \in Nat OBVIOUS
<1>3. OnlyTaken(Tail(q)) BY <1>1, <1>2 DEF OnlyTaken
<1>4. Tail(q) # << >> => Head(Tail(q)) = q[2] /\ Len(q) >= 2 BY <1>1, <1>2
<1> QED BY <1>2, <1>3, <1>4 DEF OnlyTaken

LEMMA ConsOnlyTaken ==
    ASSUME NEW q \in Seq(CallAccesses), q # << >>, OnlyTaken(q),
           NEW a \in CallAccesses, a.store # "lookupInv"
    PROVE  OnlyTaken(<< a >> \o Tail(q)) /\ Head(<< a >> \o Tail(q)) = a
           /\ << a >> \o Tail(q) # << >>
<1> DEFINE r == << a >> \o Tail(q)
<1>1. /\ Len(q) \in Nat
      /\ Tail(q) \in Seq(CallAccesses)
      /\ Len(Tail(q)) = Len(q) - 1
      /\ \A i \in 1..Len(Tail(q)) : Tail(q)[i] = q[i + 1]
  OBVIOUS
<1>2. /\ r \in Seq(CallAccesses)
      /\ Len(r) = Len(q)
      /\ r[1] = a
      /\ \A i \in 2..Len(q) : r[i] = q[i]
  BY <1>1
<1>3. Head(r) = a /\ r # << >> BY <1>2
<1> HIDE DEF r
<1>4. OnlyTaken(r)
  BY <1>1, <1>2 DEF OnlyTaken
<1> QED BY Zenon, <1>3, <1>4 DEF r

\* Steps that leave the callers alone.
LEMMA FinalizeUnchanged ==
    ASSUME FinalizeInv, UNCHANGED <<call, active>>
    PROVE  FinalizeInv'
BY Zenon DEF FinalizeInv, KernelFinalizesOnce, Finalizing, At, NextStep, OnlyTaken

\* A step of one caller to a list that does not begin with the finalizing step.
LEMMA FinalizeNotAt ==
    ASSUME FinalizeInv, CallType, NEW c \in Callers, NEW q,
           call' \in [Callers -> [todo : Seq(CallAccesses), copy : Copies]],
           call'[c].todo = q,
           \A d \in Callers \ {c} : call'[d].todo = call[d].todo,
           OnlyTaken(q), q # << >> => Head(q) # Kill,
           active' \in {active, FALSE}
    PROVE  FinalizeInv'
<1>1. ~Finalizing(c)'
  <2> SUFFICES ASSUME q # << >>, Head(q).store = "inv", Head(q).arg = "Killed" PROVE FALSE
    BY Zenon DEF Finalizing, At, NextStep
  <2>1. Head(q) \in CallAccesses BY Zenon, TailInSeq
  <2>2. Head(q) = Kill BY Zenon, <2>1 DEF CallAccesses, ExecAccesses, Kill, Access
  <2> QED BY Zenon, <2>2
<1>2. \A d \in Callers : Finalizing(d)' => Finalizing(d)
  BY Zenon, <1>1 DEF Finalizing, At, NextStep
<1>3. \A d \in Callers : OnlyTaken(call'[d].todo) BY Zenon DEF FinalizeInv
<1>4. ~active => ~active' BY Zenon
<1>5. KernelFinalizesOnce' BY Zenon, <1>2, <1>4 DEF FinalizeInv, KernelFinalizesOnce
<1> QED BY Zenon, <1>3, <1>5 DEF FinalizeInv

\* The steps of a caller keep the invariant.  Only CallTakeInv makes a caller
\* finalize, and it does so exactly when it removes the active entry.
LEMMA FinalizeCaller ==
    ASSUME TypeOK, TypeOK', FinalizeInv, NEW c \in Callers,
           CallStep(c) \/ \E op \in Ops : Request(c, op)
    PROVE  FinalizeInv'
<1> USE DEF At, kernVars
<1>a. CallType /\ CallType' BY Zenon DEF TypeOK
<1>b. call \in [Callers -> [todo : Seq(CallAccesses), copy : Copies]]
      /\ call' \in [Callers -> [todo : Seq(CallAccesses), copy : Copies]]
  BY Zenon, <1>a DEF CallType
<1>c. OnlyTaken(call[c].todo) /\ call[c].todo \in Seq(CallAccesses) BY Zenon, <1>b DEF FinalizeInv
<1>d. ASSUME call[c].todo # << >>,
             call' = Advance(c) \/ call' = [call EXCEPT ![c] = [todo |-> Tail(@.todo), copy |-> NoCopy]],
             active' \in {active, FALSE}
      PROVE  FinalizeInv'
  <2>1. call'[c].todo = Tail(call[c].todo)
    <3>1. CASE call' = Advance(c) BY Zenon, <3>1, <1>b DEF Advance
    <3>2. CASE call' = [call EXCEPT ![c] = [todo |-> Tail(@.todo), copy |-> NoCopy]]
      BY Zenon, <3>2, <1>b
    <3> QED BY Zenon, <1>d, <3>1, <3>2
  <2>2. \A d \in Callers \ {c} : call'[d].todo = call[d].todo BY Zenon, <1>d, <1>b DEF Advance
  <2> QED BY Zenon, <1>a, <1>b, <1>c, <1>d, <2>1, <2>2, TailOnlyTaken, FinalizeNotAt
<1>e. ASSUME call[c].todo # << >>, NEW found \in BOOLEAN, NEW store \in {"inv", "sess"},
             call' = Resolve(c, found, store)
      PROVE  /\ ~found => call'[c].todo = Tail(call[c].todo)
             /\ found => call'[c].todo = << Access(store, NextStep(c).arg) >> \o Tail(call[c].todo)
             /\ \A d \in Callers \ {c} : call'[d].todo = call[d].todo
  <2>1. Tail(call[c].todo) \in Seq(CallAccesses) BY Zenon, <1>c, <1>e, TailInSeq
  <2>2. << >> \o Tail(call[c].todo) = Tail(call[c].todo) BY <2>1
  <2> QED BY Zenon, <1>e, <1>b, <2>2 DEF Resolve
<1>1. CASE \E op \in Ops : Request(c, op)
  <2>1. PICK op \in Ops : Request(c, op) BY Zenon, <1>1
  <2>2. op \in AllOps BY Zenon, ExecutorAssumption
  <2>3. call'[c].todo = Steps(op) /\ \A d \in Callers \ {c} : call'[d].todo = call[d].todo
    BY <2>1, <1>b DEF Request
  <2> QED BY Zenon, <1>a, <1>b, <2>1, <2>2, <2>3, StepsOnlyTaken, FinalizeNotAt DEF Request
<1>2. CASE CallSetStatus(c) \/ CallAbort(c) \/ CallSend(c)
  BY Zenon, <1>2, <1>d DEF CallSetStatus, CallAbort, CallSend
<1>3. CASE CallWrite(c) BY Zenon, <1>3, <1>d DEF CallWrite
<1>4. CASE CallSendBlocks(c)
  BY Zenon, <1>4, FinalizeUnchanged DEF CallSendBlocks, callVars
<1>5. CASE CallRead(c)
  <2>1. /\ \A d \in Callers : call'[d].todo = call[d].todo
        /\ UNCHANGED active
    BY Zenon, <1>5, <1>b DEF CallRead
  <2> QED BY Zenon, <2>1 DEF FinalizeInv, KernelFinalizesOnce, Finalizing, NextStep
<1>6. CASE CallLookup(c)
  <2> DEFINE isInv == NextStep(c).store = "lookupInv"
             found == IF isInv THEN active ELSE activeSess
             store == IF isInv THEN "inv" ELSE "sess"
  <2>1. found \in BOOLEAN /\ store \in {"inv", "sess"} BY Zenon DEF TypeOK, FlagType
  <2>2. call' = Resolve(c, found, store) /\ call[c].todo # << >> /\ UNCHANGED active
    BY Zenon, <1>6 DEF CallLookup
  <2> DEFINE a == Access(store, NextStep(c).arg)
  <2>3. a \in CallAccesses /\ a # Kill /\ a.store # "lookupInv"
    <3>1. NextStep(c) \in CallAccesses BY Zenon, <1>a, <2>2, StepFacts
    <3>2. isInv => NextStep(c).arg # "Killed"
      <4>1. call[c].todo[1] = NextStep(c) /\ Len(call[c].todo) >= 1
        BY <1>c, <2>2 DEF NextStep
      <4> QED BY <4>1, <1>c DEF OnlyTaken
    <3>3. NextStep(c).store \in {"lookupInv", "lookupSess"} BY Zenon, <1>6 DEF CallLookup
    <3>4. isInv => NextStep(c).arg \in InvStatus
      BY Zenon, <3>1 DEF CallAccesses, ExecAccesses
    <3>5. ~isInv => NextStep(c).arg \in SessArgs
      BY Zenon, <3>1, <3>3 DEF CallAccesses, ExecAccesses
    <3> QED BY Zenon, <3>2, <3>4, <3>5
        DEF Access, Kill, CallAccesses, ExecAccesses, InvArgs, SessArgs
  <2>4. \A d \in Callers \ {c} : call'[d].todo = call[d].todo BY Zenon, <1>e, <2>1, <2>2
  <2>5. CASE found
    <3>1. call'[c].todo = << a >> \o Tail(call[c].todo) BY Zenon, <1>e, <2>1, <2>2, <2>5
    <3> HIDE DEF a
    <3> QED BY Zenon, <1>a, <1>b, <1>c, <2>2, <2>3, <2>4, <3>1, ConsOnlyTaken, FinalizeNotAt
  <2>6. CASE ~found
    <3>1. call'[c].todo = Tail(call[c].todo) BY Zenon, <1>e, <2>1, <2>2, <2>6
    <3> QED BY Zenon, <1>a, <1>b, <1>c, <2>2, <2>4, <3>1, TailOnlyTaken, FinalizeNotAt
  <2> QED BY Zenon, <2>5, <2>6
<1>7. CASE CallTakeSess(c)
  <2>1. /\ call' = Resolve(c, activeSess, "sess") /\ call[c].todo # << >>
        /\ UNCHANGED active /\ activeSess \in BOOLEAN
    BY Zenon, <1>7 DEF CallTakeSess, TypeOK, FlagType
  <2> DEFINE a == Access("sess", NextStep(c).arg)
  <2>2. a \in CallAccesses /\ a # Kill /\ a.store # "lookupInv"
    <3>1. NextStep(c).arg \in SessArgs
      BY Zenon, <1>7, <1>a, StepFacts DEF CallTakeSess, CallAccesses, ExecAccesses
    <3> QED BY Zenon, <3>1 DEF Access, Kill, CallAccesses, ExecAccesses
  <2>4. \A d \in Callers \ {c} : call'[d].todo = call[d].todo BY Zenon, <1>e, <2>1
  <2>5. CASE activeSess
    <3>1. call'[c].todo = << a >> \o Tail(call[c].todo) BY Zenon, <1>e, <2>1, <2>5
    <3> HIDE DEF a
    <3> QED BY Zenon, <1>a, <1>b, <1>c, <2>1, <2>2, <2>4, <3>1, ConsOnlyTaken, FinalizeNotAt
  <2>6. CASE ~activeSess
    <3>1. call'[c].todo = Tail(call[c].todo) BY Zenon, <1>e, <2>1, <2>6
    <3> QED BY Zenon, <1>a, <1>b, <1>c, <2>1, <2>4, <3>1, TailOnlyTaken, FinalizeNotAt
  <2> QED BY Zenon, <2>1, <2>5, <2>6
<1>8. CASE CallTakeInv(c)
  <2>1. /\ call' = Resolve(c, active, "inv") /\ call[c].todo # << >>
        /\ active' = FALSE /\ active \in BOOLEAN
    BY Zenon, <1>8 DEF CallTakeInv, TypeOK, FlagType
  <2> DEFINE a == Access("inv", NextStep(c).arg)
  <2>2. a \in CallAccesses /\ a.store # "lookupInv"
    <3>1. NextStep(c).arg \in InvStatus
      BY Zenon, <1>8, <1>a, StepFacts DEF CallTakeInv, CallAccesses, ExecAccesses
    <3> QED BY Zenon, <3>1 DEF Access, CallAccesses, ExecAccesses, InvArgs
  <2>4. \A d \in Callers \ {c} : call'[d].todo = call[d].todo BY Zenon, <1>e, <2>1
  <2>5. CASE active
    <3>1. call'[c].todo = << a >> \o Tail(call[c].todo) BY Zenon, <1>e, <2>1, <2>5
    <3> HIDE DEF a
    <3>2. OnlyTaken(call'[c].todo) BY Zenon, <1>c, <2>1, <2>2, <3>1, ConsOnlyTaken
    <3>3. \A d \in Callers : OnlyTaken(call'[d].todo) BY Zenon, <2>4, <3>2 DEF FinalizeInv
    <3>4. \A d \in Callers \ {c} : ~Finalizing(d)'
      BY Zenon, <2>4, <2>5 DEF FinalizeInv, KernelFinalizesOnce, Finalizing, NextStep
    <3>5. KernelFinalizesOnce' BY Zenon, <2>1, <3>4 DEF KernelFinalizesOnce
    <3> QED BY Zenon, <3>3, <3>5 DEF FinalizeInv
  <2>6. CASE ~active
    <3>1. call'[c].todo = Tail(call[c].todo) BY Zenon, <1>e, <2>1, <2>6
    <3> QED BY Zenon, <1>a, <1>b, <1>c, <2>1, <2>4, <3>1, TailOnlyTaken, FinalizeNotAt
  <2> QED BY Zenon, <2>1, <2>5, <2>6
<1> QED BY Zenon, <1>1, <1>2, <1>3, <1>4, <1>5, <1>6, <1>7, <1>8 DEF CallStep

\* However many kill requests run at once, active_invocations.remove lets exactly
\* one of them finalize the invocation record.
THEOREM FinalizesOnce == Spec => []KernelFinalizesOnce
<1>1. Init => FinalizeInv
  BY DEF Init, FinalizeInv, OnlyTaken, KernelFinalizesOnce, Finalizing, At
<1>2. TypeOK /\ TypeOK' /\ FinalizeInv /\ [Next]_vars => FinalizeInv'
  <2> SUFFICES ASSUME TypeOK, TypeOK', FinalizeInv, [Next]_vars PROVE FinalizeInv' BY Zenon
  <2>1. CASE \E c \in Callers : CallStep(c) BY Zenon, <2>1, FinalizeCaller
  <2>2. CASE \E c \in Callers, op \in Ops : Request(c, op) BY Zenon, <2>2, FinalizeCaller
  <2>3. CASE Executor \/ Dropped \/ TokenAges \/ StoreHandle \/ MarkRunning \/ UNCHANGED vars
    <3>1. UNCHANGED <<call, active>>
      BY Zenon, <2>3 DEF Executor, SpawnFails, Launch, TokenExpired, BeginTurn, TurnSignal,
         EnterPause, CallLlm, LlmSignal, LlmFails, LlmFinal, LlmTools, ToolCall, ToolsDone,
         GoalArrives, KilledWhileWaiting, SignalWhileWaiting, Exit, ExecRead, ExecWrite,
         ExecSetStatus, Dropped, TokenAges, StoreHandle, MarkRunning, vars, callVars, kernVars
    <3> QED BY Zenon, <3>1, FinalizeUnchanged
  <2> QED BY Zenon, <2>1, <2>2, <2>3 DEF Next
<1>3. FinalizeInv => KernelFinalizesOnce BY Zenon DEF FinalizeInv
<1> QED BY <1>1, <1>2, <1>3, TypeCorrect, PTL DEF Spec

-----------------------------------------------------------------------------
(* A pause is recorded *)

\* A send of SIGPAUSE or SIGRESUME.
HoldKinds == {"Pause", "Resume"}
HoldSend(a) == a.store = "send" /\ a.arg \in HoldKinds

\* A request that writes the status of the invocation finalizes it, or sends the
\* signal that makes the executor write it again.
TellsAfter(q) ==
    \A i \in 1..Len(q) :
        /\ q[i].store \in {"inv", "lookupInv"}
              => q[i].arg = "Killed" \/ (i + 1 <= Len(q) /\ HoldSend(q[i + 1]))
        /\ q[i].store = "takeInv" => q[i].arg = "Killed"
RequestsTell == \A c \in Callers : TellsAfter(call[c].todo)

\* The channel is there as long as the executor is in its loop, and nothing has
\* paused the executor before.
LoopPc == {"top", "drain", "pausedWait", "llm", "tools", "waitGoal"}
LoopInv ==
    /\ pc = "launch" => ~paused
    /\ pc \in LoopPc => registered

\* What the record of a paused agent may say.
SoundStatus(s) == s = "Paused" \/ (after = "err" /\ s = "Idle")
Harmless(a) == a.store = "inv" => a.arg = "keep" \/ SoundStatus(a.arg)

\* It says so, and the accesses still to be made keep it.
StillRecorded ==
    /\ SoundStatus(inv.status)
    /\ \A i \in 1..Len(todo) : Harmless(todo[i])
    /\ copy # NoCopy /\ Head(todo).store = "inv" => SoundStatus(copy.status)

\* An access still to be made writes it, and the later ones keep it.
WillRecord ==
    \E i \in 1..Len(todo) :
        /\ todo[i].store = "inv" /\ SoundStatus(todo[i].arg)
        /\ \A j \in 1..Len(todo) : j > i => Harmless(todo[j])

\* A signal that pauses or resumes is on its way.
InChannel == \E i \in 1..Len(chan) : chan[i] \in HoldKinds
InRequest == \E c \in Callers : \E i \in 1..Len(call[c].todo) : HoldSend(call[c].todo[i])

PauseRecordInv ==
    active /\ paused /\ pc \in LoopPc => StillRecorded \/ WillRecord \/ InChannel \/ InRequest

\* The requests other than snapshot have that shape, and keep it.
LEMMA StepsTell ==
    ASSUME NEW op \in AllOps \ {"snapshot"}
    PROVE  TellsAfter(Steps(op))
<1>1. TellsAfter(PauseSteps) /\ TellsAfter(ResumeSteps)
  BY DEF TellsAfter, PauseSteps, ResumeSteps, SignalSteps, Access, HoldSend, HoldKinds
<1>2. TellsAfter(KillSteps) BY DEF TellsAfter, KillSteps, Access
<1>3. TellsAfter(<< >>) BY DEF TellsAfter
<1>4. \A k : TellsAfter(<< Access("send", k) >>) BY DEF TellsAfter, Access
<1>5. TellsAfter(SessionResumeSteps) BY Zenon, <1>1, <1>3, <1>4 DEF SessionResumeSteps
<1>6. CASE op \in Signals BY Zenon, <1>4, <1>6 DEF Steps, Signals
<1>7. CASE op \notin Signals BY Zenon, <1>1, <1>2, <1>5, <1>7 DEF Steps, AllOps, Signals
<1> QED BY Zenon, <1>6, <1>7

LEMMA TailTells ==
    ASSUME NEW q \in Seq(CallAccesses), q # << >>, TellsAfter(q)
    PROVE  TellsAfter(Tail(q))
<1>1. /\ Len(q) \in Nat /\ Len(Tail(q)) = Len(q) - 1
      /\ \A i \in 1..Len(Tail(q)) : Tail(q)[i] = q[i + 1]
  OBVIOUS
<1> SUFFICES ASSUME NEW i \in 1..Len(Tail(q))
             PROVE  /\ Tail(q)[i].store \in {"inv", "lookupInv"}
                          => \/ Tail(q)[i].arg = "Killed"
                             \/ i + 1 <= Len(Tail(q)) /\ HoldSend(Tail(q)[i + 1])
                    /\ Tail(q)[i].store = "takeInv" => Tail(q)[i].arg = "Killed"
  BY Zenon DEF TellsAfter
<1>3. i + 1 \in 1..Len(q) /\ Tail(q)[i] = q[i + 1] BY <1>1
<1>4. (i + 1) + 1 <= Len(q) => i + 1 <= Len(Tail(q)) /\ Tail(q)[i + 1] = q[(i + 1) + 1] BY <1>1
<1> QED BY Zenon, <1>3, <1>4 DEF TellsAfter

\* A look-up becomes an access with the same argument.
LEMMA ConsTells ==
    ASSUME NEW q \in Seq(CallAccesses), q # << >>, TellsAfter(q),
           NEW a \in CallAccesses, a.store \notin {"lookupInv", "takeInv"},
           a.store = "inv" => a.arg = Head(q).arg /\ Head(q).store \in {"lookupInv", "takeInv"}
    PROVE  TellsAfter(<< a >> \o Tail(q))
<1> DEFINE r == << a >> \o Tail(q)
<1>1. /\ Len(q) \in Nat /\ Len(q) >= 1
      /\ Tail(q) \in Seq(CallAccesses)
      /\ Len(Tail(q)) = Len(q) - 1
      /\ \A i \in 1..Len(Tail(q)) : Tail(q)[i] = q[i + 1]
      /\ Head(q) = q[1]
  OBVIOUS
<1>2. /\ Len(r) = Len(q)
      /\ r[1] = a
      /\ \A i \in 2..Len(q) : r[i] = q[i]
  BY <1>1
<1> HIDE DEF r
<1>3. ASSUME NEW i \in 2..Len(q) PROVE i + 1 <= Len(q) => r[i + 1] = q[i + 1] BY <1>1, <1>2
<1>4. 1 + 1 <= Len(q) => r[1 + 1] = q[1 + 1] BY <1>1, <1>2
<1>5. ASSUME NEW i \in 1..Len(r)
      PROVE  /\ r[i].store \in {"inv", "lookupInv"}
                   => r[i].arg = "Killed" \/ (i + 1 <= Len(r) /\ HoldSend(r[i + 1]))
             /\ r[i].store = "takeInv" => r[i].arg = "Killed"
  <2>1. CASE i = 1
    <3>1. 1 \in 1..Len(q) BY <1>1
    <3> QED BY Zenon, <1>1, <1>2, <1>4, <2>1, <3>1 DEF TellsAfter
  <2>2. CASE i # 1
    <3>1. i \in 2..Len(q) /\ i \in 1..Len(q) BY <1>1, <1>2, <2>2
    <3> QED BY Zenon, <1>2, <1>3, <3>1 DEF TellsAfter
  <2> QED BY Zenon, <2>1, <2>2
<1> QED BY Zenon, <1>5 DEF TellsAfter, r

\* What a step does to the list of the caller that takes it.
Resolved(a, q) ==
    /\ a \in CallAccesses /\ a.store \notin {"lookupInv", "takeInv", "send"}
    /\ a.store = "inv" => a.arg = Head(q).arg
    /\ Head(q).store \in {"lookupInv", "takeInv", "lookupSess", "takeSess"}
    /\ a.store = "inv" => Head(q).store \in {"lookupInv", "takeInv"}

LEMMA CallerMoves ==
    ASSUME TypeOK, TypeOK', NEW c \in Callers,
           CallStep(c) \/ \E op \in Ops : Request(c, op)
    PROVE  /\ \A d \in Callers \ {c} : call'[d].todo = call[d].todo
           /\ \/ call[c].todo = << >> /\ \E op \in Ops : call'[c].todo = Steps(op)
              \/ call'[c].todo = call[c].todo
              \/ call[c].todo # << >> /\ call'[c].todo = Tail(call[c].todo)
              \/ /\ call[c].todo # << >>
                 /\ \E a : /\ Resolved(a, call[c].todo)
                           /\ call'[c].todo = << a >> \o Tail(call[c].todo)
<1> USE DEF At
<1>a. call \in [Callers -> [todo : Seq(CallAccesses), copy : Copies]] BY Zenon DEF TypeOK, CallType
<1>b. CallType BY Zenon DEF TypeOK
<1>c. ASSUME call[c].todo # << >>, NEW found \in BOOLEAN, NEW store \in {"inv", "sess"},
             call' = Resolve(c, found, store),
             Resolved(Access(store, NextStep(c).arg), call[c].todo)
      PROVE  /\ \A d \in Callers \ {c} : call'[d].todo = call[d].todo
             /\ \/ call'[c].todo = Tail(call[c].todo)
                \/ \E a : /\ Resolved(a, call[c].todo)
                          /\ call'[c].todo = << a >> \o Tail(call[c].todo)
  <2>1. Tail(call[c].todo) \in Seq(CallAccesses) BY Zenon, <1>a, <1>c, TailInSeq
  <2>2. << >> \o Tail(call[c].todo) = Tail(call[c].todo) BY <2>1
  <2> DEFINE a == Access(store, NextStep(c).arg)
  <2>3. /\ \A d \in Callers \ {c} : call'[d].todo = call[d].todo
        /\ ~found => call'[c].todo = Tail(call[c].todo)
        /\ found => call'[c].todo = << a >> \o Tail(call[c].todo)
    BY Zenon, <1>a, <1>c, <2>2 DEF Resolve
  <2>4. Resolved(a, call[c].todo) BY Zenon, <1>c
  <2> HIDE DEF a
  <2> QED BY Zenon, <2>3, <2>4
<1>1. CASE \E op \in Ops : Request(c, op) BY <1>1, <1>a DEF Request
<1>2. CASE CallSetStatus(c) \/ CallAbort(c) \/ CallSend(c)
  BY Zenon, <1>2, <1>a DEF CallSetStatus, CallAbort, CallSend, Advance
<1>3. CASE CallWrite(c) BY Zenon, <1>3, <1>a DEF CallWrite
<1>4. CASE CallSendBlocks(c) \/ CallRead(c)
  BY <1>4, <1>a DEF CallSendBlocks, CallRead, callVars
<1>5. CASE CallLookup(c)
  <2> DEFINE isInv == NextStep(c).store = "lookupInv"
             found == IF isInv THEN active ELSE activeSess
             store == IF isInv THEN "inv" ELSE "sess"
  <2>1. found \in BOOLEAN /\ store \in {"inv", "sess"} BY Zenon DEF TypeOK, FlagType
  <2>2. call' = Resolve(c, found, store) /\ call[c].todo # << >> BY Zenon, <1>5 DEF CallLookup
  <2>3. NextStep(c) \in CallAccesses /\ NextStep(c).store \in {"lookupInv", "lookupSess"}
    BY Zenon, <1>5, <1>b, StepFacts DEF CallLookup
  <2>4. NextStep(c).arg \in IF isInv THEN InvStatus ELSE SessArgs
    BY Zenon, <2>3 DEF CallAccesses, ExecAccesses
  <2>5. Resolved(Access(store, NextStep(c).arg), call[c].todo)
    BY Zenon, <2>3, <2>4 DEF Resolved, Access, NextStep, CallAccesses, ExecAccesses, InvArgs
  <2> HIDE DEF found, store
  <2> QED BY Zenon, <1>c, <2>1, <2>2, <2>5
<1>6. CASE CallTakeInv(c)
  <2>1. call' = Resolve(c, active, "inv") /\ call[c].todo # << >> /\ active \in BOOLEAN
    BY Zenon, <1>6 DEF CallTakeInv, TypeOK, FlagType
  <2>2. NextStep(c) \in CallAccesses /\ NextStep(c).store = "takeInv"
    BY Zenon, <1>6, <1>b, StepFacts DEF CallTakeInv
  <2>3. NextStep(c).arg \in InvStatus BY Zenon, <2>2 DEF CallAccesses, ExecAccesses
  <2>4. Resolved(Access("inv", NextStep(c).arg), call[c].todo)
    BY Zenon, <2>2, <2>3 DEF Resolved, Access, NextStep, CallAccesses, ExecAccesses, InvArgs
  <2> QED BY Zenon, <1>c, <2>1, <2>4
<1>7. CASE CallTakeSess(c)
  <2>1. call' = Resolve(c, activeSess, "sess") /\ call[c].todo # << >> /\ activeSess \in BOOLEAN
    BY Zenon, <1>7 DEF CallTakeSess, TypeOK, FlagType
  <2>2. NextStep(c) \in CallAccesses /\ NextStep(c).store = "takeSess"
    BY Zenon, <1>7, <1>b, StepFacts DEF CallTakeSess
  <2>3. NextStep(c).arg \in SessArgs BY Zenon, <2>2 DEF CallAccesses, ExecAccesses
  <2>4. Resolved(Access("sess", NextStep(c).arg), call[c].todo)
    BY Zenon, <2>2, <2>3 DEF Resolved, Access, NextStep, CallAccesses, ExecAccesses
  <2> QED BY Zenon, <1>c, <2>1, <2>4
<1> QED BY Zenon, <1>1, <1>2, <1>3, <1>4, <1>5, <1>6, <1>7 DEF CallStep

\* The shape of the requests is kept by every step of a caller.
LEMMA CallersTell ==
    ASSUME "snapshot" \notin Ops, TypeOK, TypeOK', RequestsTell, NEW c \in Callers,
           CallStep(c) \/ \E op \in Ops : Request(c, op)
    PROVE  RequestsTell'
<1>1. call[c].todo \in Seq(CallAccesses) /\ TellsAfter(call[c].todo)
  BY Zenon DEF TypeOK, CallType, RequestsTell
<1>2. TellsAfter(call'[c].todo)
  <2>1. CASE \E op \in Ops : call'[c].todo = Steps(op)
    BY Zenon, <2>1, StepsTell, ExecutorAssumption
  <2>2. CASE call'[c].todo = call[c].todo BY Zenon, <1>1, <2>2
  <2>3. CASE call[c].todo # << >> /\ call'[c].todo = Tail(call[c].todo)
    BY Zenon, <1>1, <2>3, TailTells
  <2>4. ASSUME call[c].todo # << >>, NEW a, Resolved(a, call[c].todo),
               call'[c].todo = << a >> \o Tail(call[c].todo)
        PROVE  TellsAfter(call'[c].todo)
    BY Zenon, <1>1, <2>4, ConsTells DEF Resolved
  <2> QED BY Zenon, <2>1, <2>2, <2>3, <2>4, CallerMoves
<1>3. \A d \in Callers \ {c} : TellsAfter(call'[d].todo)
  BY Zenon, CallerMoves DEF RequestsTell
<1> QED BY Zenon, <1>2, <1>3 DEF RequestsTell

\* No step but Exit unregisters the channel, and none pauses before the launch.
LEMMA LoopStep == LoopInv /\ [Next]_vars => LoopInv'
<1> SUFFICES ASSUME LoopInv, [Next]_vars PROVE LoopInv' BY Zenon
<1> USE DEF LoopInv, LoopPc
<1>1. CASE Executor \/ Dropped
  <2>1. CASE SpawnFails \/ Launch \/ TokenExpired \/ BeginTurn \/ TurnSignal
    BY Zenon, <2>1 DEF SpawnFails, Launch, TokenExpired, BeginTurn, TurnSignal, Receiving, TurnError,
       FinishTurn, Ready, execVars, sigVars
  <2>2. CASE EnterPause \/ CallLlm \/ LlmSignal \/ LlmFails \/ LlmFinal
    BY Zenon, <2>2 DEF EnterPause, CallLlm, MayCallLlm, LlmSignal, Receiving, LlmFails, LlmFinal,
       TurnError, FinishTurn, Ready, execVars, sigVars
  <2>3. CASE (\E n \in 0..MaxCalls : LlmTools(n)) \/ ToolCall \/ ToolsDone
    BY Zenon, <2>3 DEF LlmTools, ToolCall, ToolsDone, TurnError, FinishTurn, Ready, execVars, sigVars
  <2>4. CASE GoalArrives \/ KilledWhileWaiting \/ SignalWhileWaiting \/ Exit \/ Dropped
    BY Zenon, <2>4 DEF GoalArrives, KilledWhileWaiting, SignalWhileWaiting, Receiving, Exit, Dropped,
       Ready, execVars, sigVars
  <2>5. CASE ExecRead \/ ExecWrite \/ ExecSetStatus
    BY <2>5 DEF ExecRead, ExecWrite, ExecSetStatus, Ready, execVars, sigVars
  <2> QED BY Zenon, <1>1, <2>1, <2>2, <2>3, <2>4, <2>5 DEF Executor
<1>2. CASE UNCHANGED <<registered, pc, paused>> BY Zenon, <1>2
<1>3. ~(Executor \/ Dropped) => UNCHANGED <<registered, pc, paused>>
  BY ZenonT(30) DEF Next, vars, TokenAges, StoreHandle, MarkRunning, Request, CallStep, CallSetStatus,
     CallLookup, CallTakeInv, CallTakeSess, CallAbort, CallSend, CallSendBlocks, CallRead,
     CallWrite, execVars, sigVars
<1> QED BY Zenon, <1>1, <1>2, <1>3

\* A turn that fails ends with Idle on the record, whatever was to be written first.
LEMMA FailedTurnRecords ==
    ASSUME NEW w \in Seq(ExecAccesses), todo' = w \o IdleWrites, after' = "err"
    PROVE  WillRecord'
<1> DEFINE i == Len(w) + 2
<1>1. IdleWrites \in Seq(ExecAccesses) /\ Len(IdleWrites) = 4
  BY Zenon, IdleWritesType DEF IdleWrites
<1>2. /\ IdleWrites[2].store = "inv" /\ IdleWrites[2].arg = "Idle"
      /\ IdleWrites[3].store # "inv" /\ IdleWrites[4].store # "inv"
  BY Zenon DEF IdleWrites, Access
<1>3. /\ Len(w) \in Nat
      /\ Len(todo') = Len(w) + 4
      /\ \A n \in 1..4 : todo'[Len(w) + n] = IdleWrites[n]
  <2>0. Len(todo') = Len(w) + Len(IdleWrites) BY Zenon, <1>1, ConcatProperties
  <2>1. Len(w) \in Nat /\ Len(todo') = Len(w) + 4 BY Zenon, <1>1, <2>0, LenProperties
  <2>2. \A k \in Len(w) + 1 .. Len(w) + 4 : todo'[k] = IdleWrites[k - Len(w)]
    BY <1>1, <2>1, ConcatProperties
  <2> QED BY <2>1, <2>2
<1>4. i \in 1..Len(todo') /\ todo'[i] = IdleWrites[2] BY <1>3
<1>5. ASSUME NEW j \in 1..Len(todo'), j > i PROVE Harmless(todo[j])'
  <2>1. j - Len(w) \in {3, 4} /\ j = Len(w) + (j - Len(w)) BY <1>3, <1>5
  <2>2. todo'[j] \in {IdleWrites[3], IdleWrites[4]} BY <1>3, <2>1
  <2> QED BY Zenon, <1>2, <2>2 DEF Harmless
<1>6. SoundStatus(todo[i].arg)' BY Zenon, <1>2, <1>4 DEF SoundStatus
<1> HIDE DEF i
<1> QED BY Zenon, <1>2, <1>4, <1>5, <1>6 DEF WillRecord

\* Taking a signal that is no SIGPAUSE or SIGRESUME leaves those in the channel.
LEMMA OthersStayQueued ==
    ASSUME chan \in Seq(Kinds), chan # << >>, chan' = Tail(chan), Head(chan) \notin HoldKinds,
           InChannel
    PROVE  InChannel'
<1>1. PICK i \in 1..Len(chan) : chan[i] \in HoldKinds BY Zenon DEF InChannel
<1>2. i # 1 BY <1>1
<1>3. i - 1 \in 1..Len(chan') /\ chan'[i - 1] = chan[i] BY <1>2
<1> QED BY Zenon, <1>1, <1>3 DEF InChannel

\* The executor's steps other than its store accesses.  A turn that fails queues
\* Idle, a pause queues Paused, and the other steps of a paused executor queue
\* nothing that changes the status.
LEMMA PauseControl ==
    ASSUME TypeOK, LoopInv, PausedConsumesNothing, PauseRecordInv, UNCHANGED <<call, active, inv>>,
           \/ SpawnFails \/ Launch \/ TokenExpired \/ BeginTurn \/ TurnSignal
           \/ EnterPause \/ CallLlm \/ LlmSignal \/ LlmFails \/ LlmFinal
           \/ \E n \in 0..MaxCalls : LlmTools(n)
           \/ ToolCall \/ ToolsDone \/ GoalArrives \/ KilledWhileWaiting
           \/ SignalWhileWaiting \/ Exit \/ Dropped
    PROVE  PauseRecordInv'
<1> SUFFICES ASSUME active, paused', pc' \in LoopPc
             PROVE  (StillRecorded \/ WillRecord \/ InChannel \/ InRequest)'
  BY Zenon DEF PauseRecordInv
<1> USE DEF Ready, execVars, sigVars
<1>a. InRequest => InRequest' BY Zenon DEF InRequest
<1>b. /\ todo \in Seq(ExecAccesses) /\ chan \in Seq(Kinds)
      /\ todo = << >> => copy = NoCopy /\ ~WillRecord
      /\ paused \in BOOLEAN /\ killed \in BOOLEAN
  <2>1. todo = << >> => ~WillRecord BY DEF WillRecord
  <2> QED BY Zenon, <2>1 DEF TypeOK, TodoType, StoreType, FlagType, CopyMatches
<1>c. \A k : /\ BetweenTurnsWrites(k) \in Seq(ExecAccesses)
             /\ DuringLlmWrites(k) \in Seq(ExecAccesses)
  BY Zenon, HandlerWritesType
\* A paused executor with nothing queued goes on in its loop.
<1>d. ASSUME paused, pc \in LoopPc, todo = << >>, UNCHANGED <<todo, copy, chan, after>>
      PROVE  (StillRecorded \/ WillRecord \/ InChannel \/ InRequest)'
  <2>1. StillRecorded \/ InChannel \/ InRequest BY Zenon, <1>b, <1>d DEF PauseRecordInv
  <2>2. StillRecorded => StillRecorded' BY <1>d DEF StillRecorded, SoundStatus, Harmless
  <2>3. InChannel => InChannel' BY Zenon, <1>d DEF InChannel
  <2> QED BY Zenon, <1>a, <2>1, <2>2, <2>3
\* It takes a signal that neither pauses nor resumes and queues what keeps the status.
<1>e. ASSUME paused, pc \in LoopPc, todo = << >>, UNCHANGED <<copy, after>>,
             chan # << >>, chan' = Tail(chan), Head(chan) \notin HoldKinds,
             \A i \in 1..Len(todo') : todo'[i].store = "inv" => todo'[i].arg = "keep"
      PROVE  (StillRecorded \/ WillRecord \/ InChannel \/ InRequest)'
  <2>1. StillRecorded \/ InChannel \/ InRequest BY Zenon, <1>b, <1>e DEF PauseRecordInv
  <2>2. StillRecorded => StillRecorded'
    BY Zenon, <1>b, <1>e DEF StillRecorded, SoundStatus, Harmless
  <2>3. InChannel => InChannel' BY Zenon, <1>b, <1>e, OthersStayQueued
  <2> QED BY <1>a, <2>1, <2>2, <2>3
\* It is paused by the signal it takes.
<1>f. ASSUME todo' = << Access("inv", "Paused") >> PROVE WillRecord'
  <2>1. /\ Len(todo') = 1 /\ todo'[1].store = "inv" /\ todo'[1].arg = "Paused"
    BY Zenon, <1>f DEF Access
  <2>2. 1 \in 1..Len(todo') /\ \A j \in 1..Len(todo') : ~(j > 1) BY <2>1
  <2>3. SoundStatus(todo[1].arg)' BY Zenon, <2>1 DEF SoundStatus
  <2> QED BY Zenon, <2>1, <2>2, <2>3 DEF WillRecord
<1>1. CASE SpawnFails \/ Exit \/ Dropped \/ KilledWhileWaiting
  BY Zenon, <1>1 DEF SpawnFails, Exit, Dropped, KilledWhileWaiting, LoopPc, Dead
<1>2. CASE Launch BY Zenon, <1>2 DEF Launch, LoopInv
<1>3. CASE TokenExpired
  <2>1. << >> \in Seq(ExecAccesses) BY Zenon, EmptySeq
  <2> QED BY Zenon, <1>3, <2>1, FailedTurnRecords DEF TokenExpired, TurnError
<1>4. CASE BeginTurn \/ EnterPause
  BY Zenon, <1>4, <1>d DEF BeginTurn, EnterPause, LoopPc
<1>5. CASE CallLlm BY Zenon, <1>5 DEF CallLlm, MayCallLlm
<1>6. CASE LlmFails \/ LlmFinal \/ ToolCall \/ ToolsDone \/ \E n \in 0..MaxCalls : LlmTools(n)
  BY Zenon, <1>6 DEF LlmFails, LlmFinal, ToolCall, ToolsDone, LlmTools, PausedConsumesNothing
<1>7. CASE TurnSignal
  <2>1. CASE killed'
    BY Zenon, <1>7, <1>c, <2>1, FailedTurnRecords DEF TurnSignal, TurnError
  <2>2. CASE ~killed' /\ Head(chan) = "Pause"
    BY Zenon, <1>7, <1>f, <2>2 DEF TurnSignal, BetweenTurnsWrites
  <2>3. CASE ~killed' /\ Head(chan) \notin HoldKinds
    <3>1. todo' = << >> BY Zenon, <1>7, <2>3 DEF TurnSignal, BetweenTurnsWrites, HoldKinds
    <3>2. paused BY Zenon, <1>7, <2>3 DEF TurnSignal, HandleBetweenTurns, HoldKinds
    <3> QED BY <1>7, <1>e, <2>3, <3>1, <3>2 DEF TurnSignal, Receiving, LoopPc
  <2>4. Head(chan) # "Resume" BY Zenon, <1>7 DEF TurnSignal, HandleBetweenTurns
  <2> QED BY Zenon, <1>7, <2>1, <2>2, <2>3, <2>4 DEF TurnSignal, HandleBetweenTurns, HoldKinds
<1>8. CASE LlmSignal
  <2>1. ~paused BY Zenon, <1>8 DEF LlmSignal, PausedConsumesNothing
  <2>2. Head(chan) = "Pause" BY Zenon, <1>8, <2>1 DEF LlmSignal
  <2>3. CASE killed' BY Zenon, <1>8, <1>c, <2>3, FailedTurnRecords DEF LlmSignal, TurnError
  <2>4. CASE ~killed' BY <1>8, <1>f, <2>2, <2>4 DEF LlmSignal, DuringLlmWrites
  <2> QED BY Zenon, <2>3, <2>4
<1>9. CASE GoalArrives
  <2>1. \A i \in 1..Len(todo') : todo'[i].store = "inv" => todo'[i].arg = "keep"
    BY <1>9 DEF GoalArrives, Interim, Access
  <2> QED BY Zenon, <1>9, <1>e, <2>1 DEF GoalArrives, HoldKinds, LoopPc
<1>10. CASE SignalWhileWaiting
  <2>1. pc' = pc /\ pc \in LoopPc /\ ~killed
    BY Zenon, <1>10 DEF SignalWhileWaiting, LoopPc
  <2>2. todo' = BetweenTurnsWrites(Head(chan)) BY <1>10, <1>c, <2>1 DEF SignalWhileWaiting
  <2>3. CASE Head(chan) = "Pause"
    BY Zenon, <1>f, <2>2, <2>3 DEF BetweenTurnsWrites
  <2>4. CASE Head(chan) \notin HoldKinds
    <3>1. todo' = << >> BY Zenon, <2>2, <2>4 DEF BetweenTurnsWrites, HoldKinds
    <3>2. paused BY Zenon, <1>10, <2>4 DEF SignalWhileWaiting, HandleBetweenTurns, HoldKinds
    <3> QED BY <1>10, <1>e, <2>1, <2>4, <3>1, <3>2 DEF SignalWhileWaiting
  <2>5. Head(chan) # "Resume" BY Zenon, <1>10 DEF SignalWhileWaiting, HandleBetweenTurns
  <2> QED BY Zenon, <2>3, <2>4, <2>5 DEF HoldKinds
<1> QED BY Zenon, <1>1, <1>2, <1>3, <1>4, <1>5, <1>6, <1>7, <1>8, <1>9, <1>10

\* The executor's store accesses.
LEMMA PauseAccess ==
    ASSUME TypeOK, PauseRecordInv, UNCHANGED <<call, active>>,
           ExecRead \/ ExecWrite \/ ExecSetStatus
    PROVE  PauseRecordInv'
<1> USE DEF execVars, sigVars
<1>a. UNCHANGED <<pc, paused, after, chan>>
  BY Zenon DEF ExecRead, ExecWrite, ExecSetStatus
<1>b. /\ todo \in Seq(ExecAccesses) /\ todo # << >> /\ Head(todo) = todo[1]
      /\ Len(todo) \in Nat /\ Len(todo) >= 1
  BY DEF TypeOK, TodoType, ExecRead, ExecWrite, ExecSetStatus
<1>c. (InChannel => InChannel') /\ (InRequest => InRequest') BY Zenon, <1>a DEF InChannel, InRequest
<1> SUFFICES ASSUME active, paused, pc \in LoopPc, StillRecorded \/ WillRecord
             PROVE  (StillRecorded \/ WillRecord)'
  BY Zenon, <1>a, <1>c DEF PauseRecordInv
<1>d. ASSUME todo' = Tail(todo)
      PROVE  /\ Len(todo') = Len(todo) - 1
             /\ \A i \in 1..Len(todo') : todo'[i] = todo[i + 1]
  BY <1>b, <1>d
\* The access that writes it is not the first: it is still to be made.
<1>g. ASSUME todo' = Tail(todo), NEW i \in 1..Len(todo), i # 1,
             todo[i].store = "inv", SoundStatus(todo[i].arg),
             \A j \in 1..Len(todo) : j > i => Harmless(todo[j])
      PROVE  WillRecord'
  <2>1. i - 1 \in 1..Len(todo') /\ todo'[i - 1] = todo[i] BY <1>b, <1>d, <1>g
  <2>2. ASSUME NEW j \in 1..Len(todo'), j > i - 1 PROVE Harmless(todo'[j])
    <3>1. j + 1 \in 1..Len(todo) /\ j + 1 > i /\ todo'[j] = todo[j + 1]
      BY <1>b, <1>d, <1>g, <2>2
    <3> QED BY Zenon, <1>g, <3>1
  <2>3. todo'[i - 1].store = "inv" /\ SoundStatus(todo'[i - 1].arg) BY Zenon, <1>g, <2>1
  <2> QED BY Zenon, <1>a, <2>1, <2>2, <2>3 DEF WillRecord, Harmless, SoundStatus
<1>1. CASE ExecRead
  <2>1. CASE StillRecorded
    BY Zenon, <1>1, <1>a, <2>1 DEF ExecRead, StillRecorded, Harmless, SoundStatus, storeVars
  <2>2. CASE WillRecord
    BY <1>1, <1>a, <2>2 DEF ExecRead, WillRecord, Harmless, SoundStatus
  <2> QED BY Zenon, <2>1, <2>2
<1>2. CASE ExecWrite
  <2>0. todo' = Tail(todo) /\ copy' = NoCopy BY Zenon, <1>2 DEF ExecWrite
  <2>1. ASSUME SoundStatus(inv'.status), \A j \in 1..Len(todo) : j > 1 => Harmless(todo[j])
        PROVE  StillRecorded'
    <3>1. ASSUME NEW j \in 1..Len(todo') PROVE Harmless(todo'[j])
      BY <1>b, <1>d, <2>0, <2>1
    <3> QED BY Zenon, <1>a, <2>0, <2>1, <3>1 DEF StillRecorded, Harmless, SoundStatus
  <2>2. ASSUME Head(todo).store = "inv", Harmless(Head(todo)),
               Head(todo).arg = "keep" => SoundStatus(copy.status)
        PROVE  SoundStatus(inv'.status)
    <3>1. inv' = Updated(Head(todo).arg, copy) BY Zenon, <1>2, <2>2 DEF ExecWrite
    <3>2. copy \in InvRecord
      BY Zenon, <1>2, <2>2 DEF ExecWrite, TypeOK, TodoType, CopyMatches, Copies, InvRecord, SessRecord
    <3>3. CASE Head(todo).arg = "keep" BY Zenon, <2>2, <3>1, <3>3 DEF Updated
    <3>4. CASE Head(todo).arg # "keep"
      <4>1. Head(todo).arg \in {"Paused", "Idle"} /\ SoundStatus(Head(todo).arg)
        BY Zenon, <2>2, <3>4 DEF Harmless, SoundStatus
      <4>2. inv'.status = Head(todo).arg BY Zenon, <3>1, <3>2, <4>1 DEF Updated, InvRecord
      <4> QED BY Zenon, <4>1, <4>2
    <3> QED BY Zenon, <3>3, <3>4
  <2>3. CASE StillRecorded
    <3>1. \A j \in 1..Len(todo) : Harmless(todo[j]) BY Zenon, <2>3 DEF StillRecorded
    <3>2. SoundStatus(inv'.status)
      <4>1. CASE Head(todo).store = "inv"
        <5>1. Harmless(Head(todo))
          <6>1. 1 \in 1..Len(todo) BY <1>b
          <6> QED BY Zenon, <1>b, <3>1, <6>1
        <5>2. SoundStatus(copy.status) BY Zenon, <1>2, <2>3, <4>1 DEF ExecWrite, StillRecorded
        <5> QED BY Zenon, <2>2, <4>1, <5>1, <5>2
      <4>2. CASE Head(todo).store # "inv"
        BY Zenon, <1>2, <2>3, <4>2 DEF ExecWrite, StillRecorded
      <4> QED BY Zenon, <4>1, <4>2
    <3> QED BY Zenon, <2>1, <3>1, <3>2
  <2>4. CASE WillRecord
    <3>1. PICK i \in 1..Len(todo) :
              /\ todo[i].store = "inv" /\ SoundStatus(todo[i].arg)
              /\ \A j \in 1..Len(todo) : j > i => Harmless(todo[j])
      BY Zenon, <2>4 DEF WillRecord
    <3>2. CASE i # 1 BY Zenon, <1>g, <2>0, <3>1, <3>2
    <3>3. CASE i = 1
      <4>1. Head(todo).arg # "keep" BY Zenon, <1>b, <3>1, <3>3 DEF SoundStatus
      <4> QED BY Zenon, <1>b, <2>1, <2>2, <3>1, <3>3, <4>1 DEF Harmless
    <3> QED BY Zenon, <3>2, <3>3
  <2> QED BY <2>3, <2>4
<1>3. CASE ExecSetStatus
  <2>0. todo' = Tail(todo) /\ UNCHANGED <<copy, inv>> /\ Head(todo).store = "proc"
    BY Zenon, <1>3 DEF ExecSetStatus
  <2>1. copy = NoCopy
    BY Zenon, <2>0 DEF TypeOK, TodoType, CopyMatches, Copies, InvRecord, SessRecord
  <2>2. CASE StillRecorded
    <3>1. ASSUME NEW j \in 1..Len(todo') PROVE Harmless(todo'[j])
      BY <1>b, <1>d, <2>0, <2>2 DEF StillRecorded
    <3> QED BY Zenon, <1>a, <2>0, <2>1, <2>2, <3>1 DEF StillRecorded, Harmless, SoundStatus
  <2>3. CASE WillRecord
    <3>1. PICK i \in 1..Len(todo) :
              /\ todo[i].store = "inv" /\ SoundStatus(todo[i].arg)
              /\ \A j \in 1..Len(todo) : j > i => Harmless(todo[j])
      BY <2>3 DEF WillRecord
    <3>2. i # 1 BY Zenon, <1>b, <2>0, <3>1
    <3> QED BY Zenon, <1>g, <2>0, <3>1, <3>2
  <2> QED BY <2>2, <2>3
<1> QED BY Zenon, <1>1, <1>2, <1>3

\* A send that is still to be made stays so, or has put its signal into the channel.
LEMMA SendsArrive ==
    ASSUME TypeOK, TypeOK', NEW c \in Callers, registered, ~Closed,
           CallStep(c) \/ \E op \in Ops : Request(c, op),
           InChannel \/ InRequest
    PROVE  (InChannel \/ InRequest)'
<1>a. /\ chan \in Seq(Kinds) /\ call[c].todo \in Seq(CallAccesses)
      /\ Len(call[c].todo) \in Nat
  BY DEF TypeOK, StoreType, CallType
<1>b. CASE InChannel
  <2>1. PICK i \in 1..Len(chan) : chan[i] \in HoldKinds BY Zenon, <1>b DEF InChannel
  <2>2. chan' = chan \/ \E k : chan' = Append(chan, k)
    BY Zenon DEF CallStep, Request, CallSetStatus, CallLookup, CallTakeInv, CallTakeSess, CallAbort,
           CallSend, CallSendBlocks, CallRead, CallWrite, sigVars
  <2>3. i \in 1..Len(chan') /\ chan'[i] = chan[i] BY <1>a, <2>2
  <2> QED BY Zenon, <2>1, <2>3 DEF InChannel
<1>c. CASE InRequest
  <2>0. PICK d \in Callers : \E i \in 1..Len(call[d].todo) : HoldSend(call[d].todo[i])
    BY Zenon, <1>c DEF InRequest
  <2>1. PICK i \in 1..Len(call[d].todo) : HoldSend(call[d].todo[i]) BY Zenon, <2>0
  <2>2. CASE d # c
    <3>1. call'[d].todo = call[d].todo BY Zenon, <2>2, CallerMoves
    <3> QED BY Zenon, <2>1, <3>1 DEF InRequest
  <2>3. CASE d = c
    <3>0. call[c].todo # << >> /\ i \in 1..Len(call[c].todo) BY <1>a, <2>1, <2>3
    <3>1. CASE call'[c].todo = call[c].todo BY Zenon, <2>1, <2>3, <3>1 DEF InRequest
    <3>2. CASE i # 1 /\ call'[c].todo = Tail(call[c].todo)
      <4>1. i - 1 \in 1..Len(call'[c].todo) /\ call'[c].todo[i - 1] = call[c].todo[i]
        BY <1>a, <3>0, <3>2
      <4> QED BY Zenon, <2>1, <2>3, <4>1 DEF InRequest
    <3>3. ASSUME i # 1, NEW a, Resolved(a, call[c].todo),
                 call'[c].todo = << a >> \o Tail(call[c].todo)
          PROVE  InRequest'
      <4>1. Tail(call[c].todo) \in Seq(CallAccesses) /\ a \in CallAccesses
        BY Zenon, <1>a, <3>0, <3>3, TailInSeq DEF Resolved
      <4>2. i \in 1..Len(call'[c].todo) /\ call'[c].todo[i] = call[c].todo[i]
        BY <1>a, <3>0, <3>3, <4>1
      <4> QED BY Zenon, <2>1, <2>3, <4>2 DEF InRequest
    <3>4. CASE i = 1 /\ call'[c].todo # call[c].todo
      <4>1. NextStep(c).store = "send" /\ NextStep(c).arg \in HoldKinds
        BY <1>a, <2>1, <2>3, <3>0, <3>4 DEF HoldSend, NextStep
      <4>2. CallSend(c)
        BY Zenon, <3>0, <3>4, <4>1 DEF CallStep, Request, CallSetStatus, CallLookup, CallTakeInv,
           CallTakeSess, CallAbort, CallSendBlocks, CallRead, CallWrite, At, TypeOK, CallType,
           callVars
      <4>3. chan' = Append(chan, NextStep(c).arg) BY Zenon, <4>2 DEF CallSend
      <4>4. Len(chan) + 1 \in 1..Len(chan') /\ chan'[Len(chan) + 1] = NextStep(c).arg
        BY <1>a, <4>3
      <4> QED BY Zenon, <4>1, <4>4 DEF InChannel
    <3> QED BY Zenon, <3>0, <3>1, <3>2, <3>3, <3>4, CallerMoves DEF Resolved, HoldSend
  <2> QED BY Zenon, <2>2, <2>3
<1> QED BY Zenon, <1>b, <1>c

\* The steps of a request.  A write of the status by pause or resume is followed
\* by its signal; that of a kill finds the invocation no longer active.
LEMMA PauseCaller ==
    ASSUME TypeOK, TypeOK', FinalizeInv, RequestsTell, LoopInv, PauseRecordInv, NEW c \in Callers,
           CallStep(c) \/ \E op \in Ops : Request(c, op)
    PROVE  PauseRecordInv'
<1>a. UNCHANGED <<pc, paused, after, todo>> BY Zenon, OthersKeepExecutor
<1>b. UNCHANGED <<copy, registered>>
  BY Zenon DEF CallStep, Request, CallSetStatus, CallLookup, CallTakeInv, CallTakeSess, CallAbort,
         CallSend, CallSendBlocks, CallRead, CallWrite, sigVars
<1>c. active' => active
  BY Zenon DEF CallStep, Request, CallSetStatus, CallLookup, CallTakeInv, CallTakeSess, CallAbort,
         CallSend, CallSendBlocks, CallRead, CallWrite, kernVars
<1> SUFFICES ASSUME active', paused, pc \in LoopPc
             PROVE  (StillRecorded \/ WillRecord \/ InChannel \/ InRequest)'
  BY Zenon, <1>a DEF PauseRecordInv
<1>d. active /\ (StillRecorded \/ WillRecord \/ InChannel \/ InRequest)
  BY Zenon, <1>c DEF PauseRecordInv
<1>1. CASE InChannel \/ InRequest
  BY Zenon, <1>1, SendsArrive DEF LoopInv, LoopPc, Closed, Dead
<1>2. CASE WillRecord BY Zenon, <1>2, <1>a DEF WillRecord, Harmless, SoundStatus
<1>3. CASE StillRecorded /\ inv' = inv
  BY Zenon, <1>3, <1>a, <1>b DEF StillRecorded, Harmless, SoundStatus
<1>4. CASE inv' # inv
  <2>1. CallWrite(c) /\ NextStep(c).store = "inv"
    BY Zenon, <1>4 DEF CallStep, Request, CallSetStatus, CallLookup, CallTakeInv, CallTakeSess,
       CallAbort, CallSend, CallSendBlocks, CallRead, CallWrite, storeVars
  <2>2. call[c].todo # << >> /\ ~Finalizing(c)
    BY Zenon, <1>d, <2>1 DEF CallWrite, At, FinalizeInv, KernelFinalizesOnce
  <2>3. NextStep(c).arg # "Killed" BY Zenon, <2>1, <2>2 DEF Finalizing, At
  <2>4. /\ call[c].todo \in Seq(CallAccesses) /\ Len(call[c].todo) \in Nat
        /\ 1 \in 1..Len(call[c].todo) /\ call[c].todo[1] = NextStep(c)
    BY <2>2 DEF TypeOK, CallType, NextStep
  <2>5. 1 + 1 <= Len(call[c].todo) /\ HoldSend(call[c].todo[1 + 1])
    BY Zenon, <2>1, <2>3, <2>4 DEF RequestsTell, TellsAfter
  <2>6. call'[c].todo = Tail(call[c].todo) BY Zenon, <2>1 DEF CallWrite, TypeOK, CallType
  <2>7. 1 \in 1..Len(call'[c].todo) /\ call'[c].todo[1] = call[c].todo[1 + 1]
    BY <2>4, <2>5, <2>6
  <2> QED BY Zenon, <2>5, <2>7 DEF InRequest
<1> QED BY Zenon, <1>d, <1>1, <1>2, <1>3, <1>4

\* As long as nobody takes a snapshot, a pause survives every race on the
\* invocation record: when the executor sits in the pause loop and nothing is in
\* flight, the record says Paused, or Idle if the turn failed while paused.  The
\* stores have no transaction over read and write; what saves the pause is that a
\* request writes the status before it sends, and that the executor writes it
\* again when it takes the signal and takes none while it holds a copy.
THEOREM PauseSurvives == ASSUME "snapshot" \notin Ops PROVE Spec => []PauseIsRecorded
<1> DEFINE I == FinalizeInv /\ RequestsTell /\ LoopInv /\ PauseRecordInv
<1>1. Init => I
  <2>1. Init => FinalizeInv
    BY DEF Init, FinalizeInv, OnlyTaken, KernelFinalizesOnce, Finalizing, At
  <2>2. Init => RequestsTell BY DEF Init, RequestsTell, TellsAfter
  <2>3. Init => LoopInv /\ PauseRecordInv BY Zenon DEF Init, LoopInv, LoopPc, PauseRecordInv
  <2> QED BY Zenon, <2>1, <2>2, <2>3
<1>2. TypeOK /\ TypeOK' /\ PausedConsumesNothing /\ I /\ [Next]_vars => I'
  <2> SUFFICES ASSUME TypeOK, TypeOK', PausedConsumesNothing, I, [Next]_vars PROVE I' BY Zenon
  <2>0. LoopInv' BY Zenon, LoopStep
  <2>1. CASE \E c \in Callers : CallStep(c) \/ \E op \in Ops : Request(c, op)
    <3>1. FinalizeInv' BY Zenon, <2>1, FinalizeCaller
    <3>2. RequestsTell' BY Zenon, <2>1, CallersTell
    <3>3. PauseRecordInv' BY <2>1, PauseCaller
    <3> QED BY Zenon, <2>0, <3>1, <3>2, <3>3
  <2>2. CASE Executor \/ Dropped \/ TokenAges \/ StoreHandle \/ MarkRunning \/ UNCHANGED vars
    <3>1. UNCHANGED <<call, active>>
      BY Zenon, <2>2 DEF Executor, SpawnFails, Launch, TokenExpired, BeginTurn, TurnSignal,
         EnterPause, CallLlm, LlmSignal, LlmFails, LlmFinal, LlmTools, ToolCall, ToolsDone,
         GoalArrives, KilledWhileWaiting, SignalWhileWaiting, Exit, ExecRead, ExecWrite,
         ExecSetStatus, Dropped, TokenAges, StoreHandle, MarkRunning, vars, callVars, kernVars
    <3>2. FinalizeInv' BY Zenon, <3>1, FinalizeUnchanged
    <3>3. RequestsTell' BY Zenon, <3>1 DEF RequestsTell
    <3>4. PauseRecordInv'
      <4>1. CASE ExecRead \/ ExecWrite \/ ExecSetStatus BY Zenon, <3>1, <4>1, PauseAccess
      <4>2. CASE TokenAges \/ StoreHandle \/ MarkRunning \/ UNCHANGED vars
        <5>1. UNCHANGED <<pc, paused, after, todo, copy, chan, inv>>
          BY Zenon, <4>2 DEF TokenAges, StoreHandle, MarkRunning, vars, execVars, sigVars, storeVars
        <5> QED BY Zenon, <3>1, <5>1 DEF PauseRecordInv, StillRecorded, WillRecord, InChannel,
                                  InRequest, Harmless, SoundStatus
      <4>3. CASE (Executor \/ Dropped) /\ ~(ExecRead \/ ExecWrite \/ ExecSetStatus)
        <5>1. UNCHANGED inv
          BY Zenon, <4>3 DEF Executor, SpawnFails, Launch, TokenExpired, BeginTurn, TurnSignal,
             EnterPause, CallLlm, LlmSignal, LlmFails, LlmFinal, LlmTools, ToolCall, ToolsDone,
             GoalArrives, KilledWhileWaiting, SignalWhileWaiting, Exit, Dropped, storeVars
        <5> QED BY Zenon, <3>1, <4>3, <5>1, PauseControl DEF Executor
      <4> QED BY Zenon, <2>2, <4>1, <4>2, <4>3
    <3> QED BY <2>0, <3>2, <3>3, <3>4
  <2> QED BY Zenon, <2>1, <2>2 DEF Next
<1>3. I => PauseIsRecorded
  <2> SUFFICES ASSUME I, Settled, pc = "pausedWait", paused, active
               PROVE  inv.status = "Paused" \/ (after = "err" /\ inv.status = "Idle")
    BY Zenon DEF PauseIsRecorded
  <2>1. ~WillRecord /\ ~InChannel /\ ~InRequest
    BY DEF Settled, WillRecord, InChannel, InRequest
  <2>2. StillRecorded BY Zenon, <2>1 DEF PauseRecordInv, LoopPc
  <2> QED BY Zenon, <2>2 DEF StillRecorded, SoundStatus
<1> QED BY <1>1, <1>2, <1>3, TypeCorrect, PausedIdle, PTL DEF Spec

=============================================================================
