--------------------------- MODULE IcecastSender ---------------------------
(***************************************************************************)
(* The connection to Icecast: the sender task and the shutdown sequence of *)
(* src/main.rs over the client of src/icecast.rs.                          *)
(*                                                                         *)
(* IcecastClient is a pair of shared cells, running and stream (behind a   *)
(* tokio mutex).  main keeps the client it started with, Original; the     *)
(* sender starts with a clone of it and replaces it, after each outage, by *)
(* a new client that nobody else holds.  A replaced client is gone, so     *)
(* Renewed stands for the latest of them.                                  *)
(*                                                                         *)
(* Abstractions: a chunk has no content; time is only the order of steps   *)
(* (the 5 s of the shutdown may end before or after the tasks do); the     *)
(* HTTP exchange of connect() is its outcome; a socket is its state.       *)
(***************************************************************************)
EXTENDS Integers

CONSTANTS
  InitialBackoff,  \* seconds before the first retry, 1 in the code
  MaxBackoff       \* 60 in the code

ASSUME BackoffAssumption ==
  /\ InitialBackoff \in Nat \ {0} /\ MaxBackoff \in Nat
  /\ InitialBackoff <= MaxBackoff

Original == "original"
Renewed  == "renewed"
Conn     == {Original, Renewed}

VARIABLES
  connState,  \* the ConnectionState that status, health and ready report
  running,    \* IcecastClient.running
  stream,     \* IcecastClient.stream is Some
  lock,       \* who holds the mutex of IcecastClient.stream
  socket,     \* what became of the TCP connection
  client,     \* the sender's client
  pc,         \* the sender task
  backoff,    \* its backoff, in seconds
  mainPc,     \* main
  shutdown,   \* the shutdown token is cancelled
  othersEnded,\* the player task and the API server have ended
  muxOpen,    \* oggmux still sends on output_tx
  failures,   \* ghost: failed attempts since the last connection, counted
              \* for as long as they make the backoff longer
  refused     \* ghost: the last attempt was answered 401 or 403

clients    == <<running, stream, lock, socket>>
sender     == <<client, pc, backoff>>
program    == <<mainPc, shutdown>>
outside    == <<othersEnded, muxOpen>>
ghosts     == <<failures, refused>>
vars       == <<connState, clients, sender, program, outside, ghosts>>

SenderPc == {"unborn", "select", "check", "lock", "write", "lost", "retry",
             "sleep", "connect", "done"}
MainPc   == {"connect", "bind", "serve", "grace", "lock", "close", "clear", "exit"}

Init ==
  /\ connState = "Disconnected"
  /\ running = [k \in Conn |-> FALSE] /\ stream = [k \in Conn |-> FALSE]
  /\ lock = [k \in Conn |-> "free"] /\ socket = [k \in Conn |-> "none"]
  /\ client = Original /\ pc = "unborn" /\ backoff = InitialBackoff
  /\ mainPc = "connect" /\ shutdown = FALSE
  /\ othersEnded = FALSE /\ muxOpen = TRUE
  /\ failures = 0 /\ refused = FALSE

\* connect() got its 100 or 200: the socket is saved and the client runs.
Connected(k) ==
  /\ running' = [running EXCEPT ![k] = TRUE]
  /\ stream' = [stream EXCEPT ![k] = TRUE]
  /\ lock' = [lock EXCEPT ![k] = "free"]
  /\ socket' = [socket EXCEPT ![k] = "open"]
  /\ connState' = "Connected"

\* The handlers of /ready and /health: 200 in this state only, else 503.
Ready == connState = "Connected"
-----------------------------------------------------------------------------
\* main, up to the wait for ctrl-c

FirstConnect ==
  /\ mainPc = "connect" /\ mainPc' = "bind"
  /\ Connected(Original)
  /\ pc' = "select"
  /\ UNCHANGED <<client, backoff, shutdown, outside, ghosts>>

\* icecast_client.connect().await?
FirstConnectFails ==
  /\ mainPc = "connect" /\ mainPc' = "exit"
  /\ UNCHANGED <<connState, clients, sender, shutdown, outside, ghosts>>

BindApi ==
  /\ mainPc = "bind" /\ mainPc' = "serve"
  /\ UNCHANGED <<connState, clients, sender, shutdown, outside, ghosts>>

\* The address is taken: main returns, with the sender running.
BindApiFails ==
  /\ mainPc = "bind" /\ mainPc' = "exit"
  /\ UNCHANGED <<connState, clients, sender, shutdown, outside, ghosts>>
-----------------------------------------------------------------------------
\* When main returns the process ends, and every task with it.
Alive == mainPc # "exit"

\* The sender task: Goto(from, to) is one step of it.
Goto(from, to) == Alive /\ pc = from /\ pc' = to

\* output_rx.recv() gave a chunk.  oggmux fills gaps with silence, and what it
\* left in the channel is still received after it ended; how much that is,
\* Pipeline knows.
Receive ==
  /\ Goto("select", "check")
  /\ UNCHANGED <<connState, clients, client, backoff, program, outside, ghosts>>

\* The task ends, on shutdown or because oggmux closed its channel, and
\* drops its client; main still holds Original.
EndSender ==
  /\ shutdown \/ ~muxOpen
  /\ Goto("select", "done")
  /\ stream' = [stream EXCEPT ![Renewed] = FALSE]
  /\ socket' = [socket EXCEPT ![Renewed] = IF client = Renewed /\ stream[Renewed]
                                           THEN "dropped" ELSE @]
  /\ UNCHANGED <<connState, running, lock, client, backoff, program, outside, ghosts>>

\* send_data: is_running(), without the lock
CheckRunning ==
  /\ Goto("check", IF running[client] THEN "lock" ELSE "lost")
  /\ UNCHANGED <<connState, clients, client, backoff, program, outside, ghosts>>

\* The lock is taken.  It is kept over the write, given back at once when
\* there is no stream.
LockStream ==
  /\ lock[client] = "free"
  /\ Goto("lock", IF stream[client] THEN "write" ELSE "lost")
  /\ lock' = [lock EXCEPT ![client] = IF stream[client] THEN "sender" ELSE @]
  /\ UNCHANGED <<connState, running, stream, socket, client, backoff, program,
                 outside, ghosts>>

\* write_all ended: the kernel took the chunk, perhaps for a peer that left.
WriteChunk ==
  /\ Goto("write", "select")
  /\ lock' = [lock EXCEPT ![client] = "free"]
  /\ UNCHANGED <<connState, running, stream, socket, client, backoff, program,
                 outside, ghosts>>

\* Mutant: the dead stream stays in its cell.
WriteFails_KeepsStream ==
  /\ socket[client] = "broken"
  /\ Goto("write", "lost")
  /\ running' = [running EXCEPT ![client] = FALSE]
  /\ lock' = [lock EXCEPT ![client] = "free"]
  /\ UNCHANGED <<connState, stream, socket, client, backoff, program, outside, ghosts>>

\* write_all failed: not running, the socket dropped.
WriteFails ==
  /\ socket[client] = "broken"
  /\ Goto("write", "lost")
  /\ running' = [running EXCEPT ![client] = FALSE]
  /\ stream' = [stream EXCEPT ![client] = FALSE]
  /\ socket' = [socket EXCEPT ![client] = "dropped"]
  /\ lock' = [lock EXCEPT ![client] = "free"]
  /\ UNCHANGED <<connState, client, backoff, program, outside, ghosts>>
-----------------------------------------------------------------------------
\* The sender task, after send_data returned an error

MarkReconnecting ==
  /\ Goto("lost", "retry")
  /\ connState' = "Reconnecting"
  /\ UNCHANGED <<clients, client, backoff, program, outside, ghosts>>

\* Mutant: the retries do not look at the shutdown token.
CheckRetry_Ignored ==
  /\ Goto("retry", "sleep")
  /\ UNCHANGED <<connState, clients, client, backoff, program, outside, ghosts>>

\* if shutdown.is_cancelled() { break; }, else the sleep begins.
CheckRetry ==
  /\ Goto("retry", IF shutdown THEN "select" ELSE "sleep")
  /\ UNCHANGED <<connState, clients, client, backoff, program, outside, ghosts>>

\* Mutant: no limit.
DoubledBackoff_Unlimited == 2 * backoff

\* backoff = (backoff * 2).min(max_backoff)
DoubledBackoff == IF 2 * backoff < MaxBackoff THEN 2 * backoff ELSE MaxBackoff

\* The sleep is over and the next one made longer.
WakeUp ==
  /\ Goto("sleep", "connect")
  /\ backoff' = DoubledBackoff
  /\ UNCHANGED <<connState, clients, client, program, outside, ghosts>>

\* Mutant: the new client is connected, and dropped.
Reconnect_KeepsClient ==
  /\ Goto("connect", "select")
  /\ connState' = "Connected"
  /\ backoff' = InitialBackoff
  /\ failures' = 0 /\ refused' = FALSE
  /\ UNCHANGED <<clients, client, program, outside>>

\* Mutant: the backoff is not reset.
Reconnect_KeepsBackoff ==
  /\ Goto("connect", "select")
  /\ client' = Renewed
  /\ Connected(Renewed)
  /\ failures' = 0 /\ refused' = FALSE
  /\ UNCHANGED <<backoff, program, outside>>

\* Mutant: no break after the connection.
Reconnect_NoBreak ==
  /\ Goto("connect", "retry")
  /\ client' = Renewed
  /\ Connected(Renewed)
  /\ backoff' = InitialBackoff
  /\ failures' = 0 /\ refused' = FALSE
  /\ UNCHANGED <<program, outside>>

\* new_client.connect() succeeded: the old client is dropped.
Reconnect ==
  /\ Goto("connect", "select")
  /\ client' = Renewed
  /\ Connected(Renewed)
  /\ backoff' = InitialBackoff
  /\ failures' = 0 /\ refused' = FALSE
  /\ UNCHANGED <<program, outside>>

\* What doubling after each failure comes to, without the limit.
Wait[n \in Nat] == IF n = 0 THEN InitialBackoff ELSE 2 * Wait[n - 1]

OneMoreFailure ==
  failures' = IF Wait[failures] < MaxBackoff
              THEN failures + 1 ELSE failures

\* Mutant: the task ends when the server refuses the password.
ReconnectFails_GivesUp(auth) ==
  /\ Goto("connect", IF auth THEN "done" ELSE "retry")
  /\ OneMoreFailure /\ refused' = auth
  /\ UNCHANGED <<connState, clients, client, backoff, program, outside>>

\* Mutant: one attempt per chunk, no loop.
ReconnectFails_Once(auth) ==
  /\ Goto("connect", "select")
  /\ OneMoreFailure /\ refused' = auth
  /\ UNCHANGED <<connState, clients, client, backoff, program, outside>>

\* Refused TCP connection, timeout, unexpected status; auth: 401 or 403.
ReconnectFails(auth) ==
  /\ Goto("connect", "retry")
  /\ OneMoreFailure /\ refused' = auth
  /\ UNCHANGED <<connState, clients, client, backoff, program, outside>>
-----------------------------------------------------------------------------
\* main, from ctrl-c on

CtrlC ==
  /\ mainPc = "serve" /\ mainPc' = "grace"
  /\ shutdown' = TRUE
  /\ UNCHANGED <<connState, clients, sender, outside, ghosts>>

TasksEnded ==
  /\ mainPc = "grace" /\ mainPc' = "lock"
  /\ pc = "done" /\ othersEnded
  /\ UNCHANGED <<connState, clients, sender, shutdown, outside, ghosts>>

\* Mutant: the tasks are awaited without a time limit.
GraceTimeout_Unlimited == TasksEnded

\* The 5 s are over; the tasks that have not ended run on.
GraceTimeout ==
  /\ mainPc = "grace" /\ mainPc' = "lock"
  /\ UNCHANGED <<connState, clients, sender, shutdown, outside, ghosts>>

\* Mutant: the stream is taken without waiting for the lock.
LockOriginal_NoWait ==
  /\ mainPc = "lock"
  /\ lock' = [lock EXCEPT ![Original] = "main"]
  /\ stream' = [stream EXCEPT ![Original] = FALSE]
  /\ mainPc' = IF stream[Original] THEN "close" ELSE "clear"
  /\ UNCHANGED <<connState, running, socket, sender, shutdown, outside, ghosts>>

\* disconnect() of the client main started with: the lock, stream.take()
LockOriginal ==
  /\ mainPc = "lock" /\ lock[Original] = "free"
  /\ lock' = [lock EXCEPT ![Original] = "main"]
  /\ stream' = [stream EXCEPT ![Original] = FALSE]
  /\ mainPc' = IF stream[Original] THEN "close" ELSE "clear"
  /\ UNCHANGED <<connState, running, socket, sender, shutdown, outside, ghosts>>

CloseSocket ==
  /\ mainPc = "close" /\ mainPc' = "clear"
  /\ socket' = [socket EXCEPT ![Original] = "closed"]
  /\ UNCHANGED <<connState, running, stream, lock, sender, shutdown, outside, ghosts>>

ClearRunning ==
  /\ mainPc = "clear" /\ mainPc' = "exit"
  /\ running' = [running EXCEPT ![Original] = FALSE]
  /\ lock' = [lock EXCEPT ![Original] = "free"]
  /\ UNCHANGED <<connState, stream, socket, sender, shutdown, outside, ghosts>>
-----------------------------------------------------------------------------
\* External: the network, oggmux, and the two tasks modelled elsewhere

PeerLeaves ==
  /\ Alive
  /\ \E k \in Conn : /\ socket[k] = "open"
                     /\ socket' = [socket EXCEPT ![k] = "broken"]
  /\ UNCHANGED <<connState, running, stream, lock, sender, program, outside, ghosts>>

MuxEnds ==
  /\ Alive
  /\ muxOpen /\ muxOpen' = FALSE
  /\ UNCHANGED <<connState, clients, sender, program, othersEnded, ghosts>>

\* The player ends soon; the API server only when its last client has left,
\* and a client of /api/events may stay.
OthersEnd ==
  /\ Alive
  /\ shutdown /\ ~othersEnded /\ othersEnded' = TRUE
  /\ UNCHANGED <<connState, clients, sender, program, muxOpen, ghosts>>
-----------------------------------------------------------------------------
Write   == WriteChunk \/ WriteFails
Retry   == MarkReconnecting \/ CheckRetry \/ WakeUp \/ Reconnect
           \/ \E auth \in BOOLEAN : ReconnectFails(auth)
Sender  == Receive \/ EndSender \/ CheckRunning \/ LockStream \/ Write \/ Retry
Startup == FirstConnect \/ FirstConnectFails \/ BindApi \/ BindApiFails
Leave   == TasksEnded \/ GraceTimeout \/ LockOriginal \/ CloseSocket \/ ClearRunning

Next == Startup \/ CtrlC \/ Leave \/ Sender \/ PeerLeaves \/ MuxEnds \/ OthersEnd

Spec == Init /\ [][Next]_vars
-----------------------------------------------------------------------------
(***************************************************************************)
(* Fairness.  tokio polls every runnable task, timers fire, connect() ends *)
(* (each await in it has a limit, its own or the kernel's), and its mutex  *)
(* serves waiters in order.  Whether write_all ends is up to the peer.     *)
(***************************************************************************)
Fairness ==
  /\ WF_vars(pc # "write" /\ Sender)
  /\ WF_vars(Leave)
  /\ SF_vars(LockOriginal)

LiveSpec == Spec /\ Fairness

\* The peer reads, or the kernel finds out that it left.
PeerReads == WF_vars(Write)

\* A server that is tried again and again takes the source back some time.
ServerReturns == SF_vars(Reconnect)
=============================================================================
