-------------------------- MODULE SenderProperties --------------------------
(***************************************************************************)
(* What the sender task and the shutdown sequence promise, and where the   *)
(* documentation promises more.                                            *)
(***************************************************************************)
EXTENDS IcecastSender

\* Every variable has its type.
TypeOK ==
  /\ connState \in {"Disconnected", "Connected", "Reconnecting"}
  /\ running \in [Conn -> BOOLEAN] /\ stream \in [Conn -> BOOLEAN]
  /\ lock \in [Conn -> {"free", "sender", "main"}]
  /\ socket \in [Conn -> {"none", "open", "broken", "dropped", "closed"}]
  /\ client \in Conn /\ pc \in SenderPc
  /\ backoff \in InitialBackoff..MaxBackoff
  /\ mainPc \in MainPc /\ shutdown \in BOOLEAN
  /\ othersEnded \in BOOLEAN /\ muxOpen \in BOOLEAN
  /\ failures \in Nat /\ refused \in BOOLEAN

\* main is in disconnect(), or past it.
Disconnecting == mainPc \in {"close", "clear", "exit"} /\ shutdown

\* However often the connection was lost, at most one client holds a socket:
\* the stale client that main keeps for the shutdown never does once the
\* sender has moved on to another.
OneSocket == \A k \in Conn : stream[k] => /\ k = client
                                          /\ socket[k] \in {"open", "broken"}

\* What /ready and /health report is true: while they answer 200 and the
\* sender is at work, it has a running client with a stream, but for the
\* moment between a failed write and the news of it, and the shutdown.
ConnectedMeansStream ==
  Ready /\ pc \notin {"lost", "done"} /\ ~Disconnecting
    => running[client] /\ stream[client]

\* The sender writes on a socket nobody has taken from it, under the lock.
WriteHoldsStream ==
  pc = "write" => /\ lock[client] = "sender"
                  /\ stream[client] /\ socket[client] \in {"open", "broken"}

\* From a failed write until there is a connection again nothing is taken from
\* the channel: the sender has a chunk in hand only with a running client, its
\* stream in place, and an API that reports Connected.  So of the chunks that
\* send_data refuses an outage costs one, the one whose write failed.  Those
\* the kernel accepted for a peer that had left already are lost as well; how
\* many is up to the socket's buffer, and no property of the sender.
NothingTakenInOutage ==
  /\ pc \in {"check", "lock", "write", "lost"} /\ ~shutdown => Ready
  /\ pc \in {"check", "lock", "write"} /\ ~shutdown => running[client] /\ stream[client]

\* The n-th wait of an outage is 2^n times the first, up to MaxBackoff, and
\* the next outage starts over: only a connection resets the backoff.
BackoffDoubles ==
  /\ pc \in {"select", "check", "lock", "write"} /\ ~shutdown
       => backoff = InitialBackoff
  /\ pc \in {"retry", "sleep"}
       => LET nth == Wait[failures]
          IN  backoff = IF nth < MaxBackoff THEN nth ELSE MaxBackoff

\* After ctrl-c the process ends if the peer reads on, with the first
\* connection given back, even if a task of the 5 s never ends.
ShutdownEnds ==
  PeerReads =>
    (mainPc = "grace" ~>
       mainPc = "exit" /\ ~stream[Original] /\ lock[Original] = "free")

\* If the server takes the source back, a sender that lost its connection
\* writes chunks again, unless the station stops: the retries never end in a
\* state they cannot leave.
BroadcastResumes ==
  ServerReturns =>
    (pc = "lost" ~> pc = "write" \/ mainPc \notin {"bind", "serve"} \/ ~muxOpen)
-----------------------------------------------------------------------------
\* docs/ARCHITECTURE.md:277 "Circuit breaker: Stop retrying auth failures"
AuthFailureStops == refused => pc \notin {"sleep", "connect"}

\* main.rs:260 "Disconnect from Icecast", icecast.rs:174 "Properly close the
\* connection": once disconnect() closed what it had, the connection in use
\* has been closed.
DisconnectReachesServer ==
  mainPc = "clear" /\ Ready /\ pc # "lost"
    => socket[client] = "closed"

\* docs/ARCHITECTURE.md:286 "Detection: TCP keepalive + write timeouts":
\* a peer that stops reading does not keep the shutdown from ending.
ShutdownNeedsNoPeer == mainPc = "grace" ~> mainPc = "exit"
=============================================================================
