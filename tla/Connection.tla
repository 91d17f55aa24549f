----------------------------- MODULE Connection -----------------------------
(***************************************************************************)
(* The sender task and main of IcecastSender with the handshake they wait  *)
(* for, in place of the outcome IcecastSender gives connect().             *)
(*                                                                         *)
(* main connects before it starts the sender, so there is one attempt at a *)
(* time.  During an attempt of the sender the peer of the old connection,  *)
(* oggmux, the other tasks and main run on; when main ends the attempt     *)
(* ends with the process.                                                  *)
(***************************************************************************)
EXTENDS SenderProperties, Handshake

connVars == <<vars, hsVars>>

ConnInit == Init /\ HsInit

\* connect() has been called.
Connecting == mainPc = "connect" \/ (pc = "connect" /\ Alive)

Exchange == Connecting /\ Attempt /\ UNCHANGED vars

\* connect() returns to main, or to the sender.
Conclude ==
  /\ Return
  /\ \/ verdict = "accepted" /\ (FirstConnect \/ Reconnect)
     \/ verdict # "accepted" /\ (FirstConnectFails \/ ReconnectFails(verdict = "auth"))

\* Every step but the end of connect().
Meanwhile ==
  /\ \/ BindApi \/ BindApiFails \/ CtrlC \/ Leave
     \/ Receive \/ EndSender \/ CheckRunning \/ LockStream \/ Write
     \/ MarkReconnecting \/ CheckRetry \/ WakeUp
     \/ PeerLeaves \/ MuxEnds \/ OthersEnd
  /\ UNCHANGED hsVars

ConnNext == Exchange \/ Conclude \/ Meanwhile

ConnSpec == ConnInit /\ [][ConnNext]_connVars

(***************************************************************************)
(* Fairness.  As in IcecastSender, but that connect() ends is no longer    *)
(* assumed: it follows from the timer of each read.                        *)
(***************************************************************************)
LiveConnSpec ==
  /\ ConnSpec
  /\ WF_connVars(hsPc # "read" /\ Exchange)
  /\ WF_connVars(ReadTimeout /\ Exchange)
  /\ WF_connVars(Conclude)
  /\ WF_connVars(pc \notin {"write", "connect"} /\ Sender /\ UNCHANGED hsVars)
  /\ WF_connVars(Leave /\ UNCHANGED hsVars)
  /\ SF_connVars(LockOriginal /\ UNCHANGED hsVars)

\* The sender with the real handshake does what IcecastSender does, its
\* fairness included: every connect() returns, and returns one of the
\* outcomes the sender is modelled with.
ImplementsSender == LiveSpec
=============================================================================
