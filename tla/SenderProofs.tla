---------------------------- MODULE SenderProofs ----------------------------
(***************************************************************************)
(* Proofs about the sender task: SenderInv is inductive, and with it, for  *)
(* every backoff, the sender writes only on a stream it holds, at most one *)
(* client holds a socket, "Connected" is reported of a live client, and    *)
(* nothing is taken from the channel while the connection is known to be   *)
(* down.                                                                   *)
(*                                                                         *)
(* The properties are not inductive alone.  They rest on what each phase   *)
(* knows: a sender that retries has a client without stream and has        *)
(* said so; a sender that takes chunks has a running client, but for the   *)
(* shutdown; the stream goes before the running flag does; and main, from  *)
(* the moment it took the stream of Original, holds its lock.              *)
(*                                                                         *)
(* That the waits double rests on WaitInv, which says how far the backoff  *)
(* has come in every phase: Wait is shown to be what its recursion says,   *)
(* by induction on the number of failures.                                 *)
(***************************************************************************)
EXTENDS SenderProperties, DataProofs

PhaseInv ==
  /\ pc \in {"lost", "retry", "sleep", "connect"} => ~stream[client]
  /\ pc \in {"retry", "sleep", "connect"} => connState = "Reconnecting"
  /\ pc = "unborn" <=> connState = "Disconnected"
  /\ mainPc = "connect" => pc = "unborn"
  /\ pc = "unborn" => client = Original /\ \A k \in Conn : ~stream[k]
  /\ \A k \in Conn : stream[k] => running[k]
  /\ pc \in {"select", "check", "lock", "write"} /\ ~shutdown
       => running[client] /\ stream[client]
  /\ pc \in {"select", "check", "lock", "write", "lost"} /\ ~shutdown => Ready

MainInv ==
  /\ mainPc \in {"grace", "lock", "close", "clear"} => shutdown
  /\ mainPc \in {"close", "clear"} => lock[Original] = "main" /\ ~stream[Original]

SenderInv ==
  /\ TypeOK /\ PhaseInv /\ MainInv
  /\ WriteHoldsStream /\ OneSocket /\ ConnectedMeansStream
-----------------------------------------------------------------------------
\* Initially nobody has a connection.
LEMMA SenderInit == Init => SenderInv
  <1>. SUFFICES ASSUME Init PROVE SenderInv
    OBVIOUS
  <1>. USE BackoffAssumption DEF Init, Conn, Original, Renewed
  <1>1. TypeOK
    <2>1. backoff \in InitialBackoff..MaxBackoff
      OBVIOUS
    <2>2. /\ running \in [Conn -> BOOLEAN] /\ stream \in [Conn -> BOOLEAN]
          /\ lock \in [Conn -> {"free", "sender", "main"}]
          /\ socket \in [Conn -> {"none", "open", "broken", "dropped", "closed"}]
      OBVIOUS
    <2>. QED
      BY <2>1, <2>2 DEF TypeOK, SenderPc, MainPc
  <1>2. PhaseInv /\ MainInv
    BY DEF PhaseInv, MainInv, Ready
  <1>3. WriteHoldsStream /\ OneSocket /\ ConnectedMeansStream
    BY DEF WriteHoldsStream, OneSocket, ConnectedMeansStream, Ready
  <1>. QED
    BY <1>1, <1>2, <1>3 DEF SenderInv

\* Every step keeps it: one case per action of the two tasks and of the
\* world around them.
LEMMA SenderNext == SenderInv /\ [Next]_vars => SenderInv'
  <1>. SUFFICES ASSUME SenderInv, [Next]_vars PROVE SenderInv'
    OBVIOUS
  <1>. USE BackoffAssumption
       DEF SenderInv, TypeOK, PhaseInv, MainInv, WriteHoldsStream, OneSocket,
           ConnectedMeansStream, Ready, Disconnecting, SenderPc, MainPc,
           Conn, Original, Renewed, clients, sender, program, outside, ghosts
  <1>1. CASE FirstConnect
    BY <1>1 DEF FirstConnect, Connected
  <1>2. CASE FirstConnectFails
    BY <1>2 DEF FirstConnectFails
  <1>3. CASE BindApi
    BY <1>3 DEF BindApi
  <1>4. CASE BindApiFails
    BY <1>4 DEF BindApiFails
  <1>5. CASE CtrlC
    BY <1>5 DEF CtrlC
  <1>6. CASE TasksEnded
    BY <1>6 DEF TasksEnded
  <1>7. CASE GraceTimeout
    BY <1>7 DEF GraceTimeout
  <1>8. CASE LockOriginal
    BY <1>8 DEF LockOriginal
  <1>9. CASE CloseSocket
    BY <1>9 DEF CloseSocket
  <1>10. CASE ClearRunning
    BY <1>10 DEF ClearRunning
  <1>11. CASE Receive
    BY <1>11 DEF Receive, Goto
  <1>12. CASE EndSender
    BY <1>12 DEF EndSender, Goto
  <1>13. CASE CheckRunning
    BY <1>13 DEF CheckRunning, Goto
  <1>14. CASE LockStream
    BY <1>14 DEF LockStream, Goto
  <1>15. CASE WriteChunk
    BY <1>15 DEF WriteChunk, Goto
  <1>16. CASE WriteFails
    BY <1>16 DEF WriteFails, Goto
  <1>17. CASE MarkReconnecting
    BY <1>17 DEF MarkReconnecting, Goto
  <1>18. CASE CheckRetry
    BY <1>18 DEF CheckRetry, Goto
  <1>19. CASE WakeUp
    BY <1>19 DEF WakeUp, Goto, DoubledBackoff
  <1>20. CASE Reconnect
    <2>. USE <1>20 DEF Reconnect, Goto, Connected
    <2>1. TypeOK'
      <3>1. running' \in [Conn -> BOOLEAN] /\ stream' \in [Conn -> BOOLEAN]
        OBVIOUS
      <3>2. lock' \in [Conn -> {"free", "sender", "main"}]
        OBVIOUS
      <3>3. socket' \in [Conn -> {"none", "open", "broken", "dropped", "closed"}]
        OBVIOUS
      <3>4. backoff' \in InitialBackoff..MaxBackoff
        OBVIOUS
      <3>. QED
        BY <3>1, <3>2, <3>3, <3>4
    <2>2. PhaseInv' /\ MainInv'
      OBVIOUS
    <2>3. WriteHoldsStream' /\ ConnectedMeansStream'
      OBVIOUS
    <2>4. OneSocket'
      OBVIOUS
    <2>. QED
      BY ONLY <2>1, <2>2, <2>3, <2>4 DEF SenderInv
  <1>21. CASE PeerLeaves
    <2>1. PICK k \in Conn : /\ socket[k] = "open"
                           /\ socket' = [socket EXCEPT ![k] = "broken"]
      BY <1>21 DEF PeerLeaves
    <2>. QED
      BY <1>21, <2>1 DEF PeerLeaves
  <1>22. CASE MuxEnds
    <2>1. muxOpen' \in BOOLEAN
      BY <1>22 DEF MuxEnds
    <2>. QED
      BY <1>22, <2>1 DEF MuxEnds
  <1>23. CASE OthersEnd
    BY <1>23 DEF OthersEnd
  <1>24. CASE \E auth \in BOOLEAN : ReconnectFails(auth)
    BY <1>24 DEF ReconnectFails, OneMoreFailure, Goto
  <1>25. CASE UNCHANGED vars
    BY <1>25 DEF vars
  <1>. QED
    BY <1>1, <1>2, <1>3, <1>4, <1>5, <1>6, <1>7, <1>8, <1>9, <1>10, <1>11, <1>12, <1>13,
       <1>14, <1>15, <1>16, <1>17, <1>18, <1>19, <1>20, <1>21, <1>22, <1>23, <1>24, <1>25
       DEF Next, Startup, Leave, Sender, Write, Retry

\* The inductive invariant holds: in particular every variable has its type.
THEOREM SenderSafe == Spec => []SenderInv
  <1>. QED
    BY SenderInit, SenderNext, PTL DEF Spec

\* Every variable of the sender has its type, the backoff its range.
THEOREM SenderTypes == Spec => []TypeOK
  <1>1. SenderInv => TypeOK
    BY DEF SenderInv
  <1>. QED
    BY <1>1, SenderSafe, PTL

\* From a failed write until the next connection nothing is taken from the
\* channel: the sender holds a chunk only with a running client and a stream.
THEOREM NothingIsTakenInOutage == Spec => []NothingTakenInOutage
  <1>1. SenderInv => NothingTakenInOutage
    BY DEF SenderInv, PhaseInv, NothingTakenInOutage
  <1>. QED
    BY <1>1, SenderSafe, PTL

\* The stale client that main keeps never holds a socket beside the sender's.
THEOREM AtMostOneSocket == Spec => []OneSocket
  <1>1. SenderInv => OneSocket
    BY DEF SenderInv
  <1>. QED
    BY <1>1, SenderSafe, PTL

\* What status, health and ready say of the connection is so.
THEOREM ConnectedIsTrue == Spec => []ConnectedMeansStream
  <1>1. SenderInv => ConnectedMeansStream
    BY DEF SenderInv
  <1>. QED
    BY <1>1, SenderSafe, PTL

\* disconnect() never takes the stream from under a write.
THEOREM WritesAreProtected == Spec => []WriteHoldsStream
  <1>1. SenderInv => WriteHoldsStream
    BY DEF SenderInv
  <1>. QED
    BY <1>1, SenderSafe, PTL
-----------------------------------------------------------------------------
\* Wait satisfies its definition: there is a function that doubles.
LEMMA WaitDoubles ==
  /\ Wait[0] = InitialBackoff
  /\ \A n \in Nat : Wait[n] \in Nat /\ Wait[n + 1] = 2 * Wait[n]
  <1>. DEFINE Defines(f) == f = [n \in Nat |-> IF n = 0 THEN InitialBackoff ELSE 2 * f[n - 1]]
  <1>1. \E f : Defines(f)
    <2>. DEFINE next == [n \in Nat |-> [w \in Nat |-> 2 * w]]
    <2>1. InitialBackoff \in Nat /\ next \in [Nat -> [Nat -> Nat]]
      BY BackoffAssumption
    <2>2. PICK g : Iterates(g, Nat, InitialBackoff, next)
      <3>. HIDE DEF next
      <3>. QED
        BY <2>1, RecursionExists
    <2>3. \A n \in Nat : g[n + 1] = 2 * g[n]
      BY <2>2 DEF Iterates
    <2>4. ASSUME NEW n \in Nat
          PROVE  g[n] = IF n = 0 THEN InitialBackoff ELSE 2 * g[n - 1]
      <3>1. CASE n = 0
        BY <3>1, <2>2 DEF Iterates
      <3>2. CASE n # 0
        <4>1. n - 1 \in Nat /\ n = (n - 1) + 1
          BY <3>2
        <4>. QED
          BY <4>1, <3>2, <2>3
      <3>. QED
        BY <3>1, <3>2
    <2>. QED
      BY <2>2, <2>4 DEF Iterates
  <1>2. Defines(Wait)
    <2>. HIDE DEF Defines
    <2>1. Defines(CHOOSE f : Defines(f))
      BY <1>1
    <2>. QED
      BY <2>1 DEF Wait, Defines
  <1>3. Wait[0] = InitialBackoff /\ \A n \in Nat : Wait[n + 1] = 2 * Wait[n]
    <2>1. \A n \in Nat : Wait[n] = IF n = 0 THEN InitialBackoff ELSE 2 * Wait[n - 1]
      BY <1>2
    <2>2. \A n \in Nat : n + 1 \in Nat /\ n + 1 # 0 /\ (n + 1) - 1 = n
      OBVIOUS
    <2>. QED
      BY <2>1, <2>2
  <1>. DEFINE Typed == {n \in Nat : Wait[n] \in Nat}
  <1>4. \A n \in Nat : n \in Typed
    <2>1. 0 \in Typed /\ \A n \in Nat : n \in Typed => n + 1 \in Typed
      BY <1>3, BackoffAssumption
    <2>. HIDE DEF Typed
    <2>. QED
      BY <2>1, SetInduction
  <1>. QED
    BY <1>3, <1>4

Capped(wait) == IF wait < MaxBackoff THEN wait ELSE MaxBackoff

\* The backoff is what the failures so far make it, doubled once more between
\* the end of a wait and the outcome of the attempt after it.
WaitInv ==
  /\ pc = "connect" => backoff = Capped(2 * Wait[failures])
  /\ pc # "connect" => backoff = Capped(Wait[failures])
  /\ pc \in {"unborn", "select", "check", "lock", "write", "lost"} /\ ~shutdown
       => failures = 0

LEMMA WaitInit == Init => WaitInv
  BY WaitDoubles, BackoffAssumption DEF Init, WaitInv, Capped

\* Only the end of a wait and the outcome of an attempt change the backoff or
\* the failures.
LEMMA WaitNext == SenderInv /\ WaitInv /\ [Next]_vars => WaitInv'
  <1>. SUFFICES ASSUME SenderInv, WaitInv, [Next]_vars PROVE WaitInv'
    OBVIOUS
  <1>. DEFINE wait == Wait[failures]
  <1>1. /\ MaxBackoff \in Nat /\ wait \in Nat /\ failures \in Nat
        /\ Wait[failures + 1] = 2 * wait /\ Wait[0] = InitialBackoff
        /\ InitialBackoff \in Nat /\ InitialBackoff <= MaxBackoff
    BY WaitDoubles, BackoffAssumption DEF SenderInv, TypeOK
  <1>2. CASE WakeUp
    <2>1. /\ pc = "sleep" /\ pc' = "connect" /\ backoff' = DoubledBackoff
          /\ UNCHANGED failures
      BY <1>2 DEF WakeUp, Goto, ghosts
    <2>2. backoff = Capped(wait)
      BY <2>1 DEF WaitInv
    <2>3. backoff' = Capped(2 * wait)
      BY <1>1, <2>1, <2>2 DEF Capped, DoubledBackoff
    <2>. QED
      BY <2>1, <2>3 DEF WaitInv
  <1>3. CASE Reconnect
    <2>1. pc' = "select" /\ backoff' = InitialBackoff /\ failures' = 0
      BY <1>3 DEF Reconnect, Goto
    <2>. QED
      BY <1>1, <2>1 DEF WaitInv, Capped
  <1>4. CASE \E auth \in BOOLEAN : ReconnectFails(auth)
    <2>1. /\ pc = "connect" /\ pc' = "retry" /\ UNCHANGED backoff
          /\ failures' = IF wait < MaxBackoff THEN failures + 1 ELSE failures
      BY <1>4 DEF ReconnectFails, OneMoreFailure, Goto
    <2>2. backoff = Capped(2 * wait)
      BY <2>1 DEF WaitInv
    <2>3. backoff = Capped(Wait[failures'])
      BY <1>1, <2>1, <2>2 DEF Capped
    <2>. QED
      BY <2>1, <2>3 DEF WaitInv
  <1>. DEFINE Steady == UNCHANGED <<backoff, failures>> /\ (shutdown => shutdown')
  <1>5. CASE Steady /\ UNCHANGED pc
    BY <1>5 DEF WaitInv
  <1>6. CASE Steady /\ pc # "connect" /\ pc' # "connect" /\ UNCHANGED shutdown
                    /\ (pc \in {"unborn", "select", "check", "lock", "write"}
                        \/ pc' \notin {"unborn", "select", "check", "lock", "write", "lost"}
                        \/ shutdown)
    BY <1>6 DEF WaitInv
  <1>7. CASE \/ FirstConnectFails \/ BindApi \/ BindApiFails \/ CtrlC \/ Leave
             \/ PeerLeaves \/ MuxEnds \/ OthersEnd \/ UNCHANGED vars
    <2>1. Steady /\ UNCHANGED pc
      BY <1>7 DEF FirstConnectFails, BindApi, BindApiFails, CtrlC, Leave, TasksEnded,
                  GraceTimeout, LockOriginal, CloseSocket, ClearRunning, PeerLeaves,
                  MuxEnds, OthersEnd, vars, sender, program, ghosts
    <2>. QED
      BY <1>5, <2>1
  <1>8. CASE FirstConnect
    <2>1. pc = "unborn"
      BY <1>8 DEF FirstConnect, SenderInv, PhaseInv
    <2>. QED
      BY <1>6, <1>8, <2>1 DEF FirstConnect, ghosts
  <1>9. CASE Receive \/ EndSender \/ CheckRunning \/ LockStream \/ Write
             \/ MarkReconnecting \/ CheckRetry
    BY <1>6, <1>9 DEF Receive, EndSender, CheckRunning, LockStream, Write, WriteChunk,
                      WriteFails, MarkReconnecting, CheckRetry, Goto, program, ghosts
  <1>. QED
    BY <1>2, <1>3, <1>4, <1>7, <1>8, <1>9 DEF Next, Startup, Sender, Retry

LEMMA WaitsSafe == Spec => []WaitInv
  BY WaitInit, WaitNext, SenderSafe, PTL DEF Spec

\* The n-th wait of an outage is 2^n times the first, up to the limit, for
\* every first wait and every limit: only a connection resets it.
THEOREM BackoffIsDoubled == Spec => []BackoffDoubles
  <1>1. WaitInv => BackoffDoubles
    BY WaitDoubles, BackoffAssumption DEF WaitInv, BackoffDoubles, Capped
  <1>. QED
    BY <1>1, WaitsSafe, PTL
=============================================================================
