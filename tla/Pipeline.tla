------------------------------ MODULE Pipeline -------------------------------
(***************************************************************************)
(* The program of src/main.rs from the queue to the socket: the player     *)
(* task, oggmux, the sender task and main, joined by the two bounded       *)
(* channels input_tx and output_rx and by the shutdown token.              *)
(*                                                                         *)
(* The player is Player.tla, the sender and main are IcecastSender.tla.    *)
(* What those modules let the other side do at any time is done here by    *)
(* the other side itself: the channel has room when oggmux has made some,  *)
(* oggmux ends when its output has no receiver or its input is over, the   *)
(* tasks main waits for are the tasks.                                     *)
(*                                                                         *)
(* Abstractions: a channel is the number of chunks in it; add_track is one *)
(* step (Station has its interleavings); the grace period of 5 s is left   *)
(* out, because with it main ends whatever the tasks do.                   *)
(***************************************************************************)
EXTENDS Player

CONSTANTS
  InitialBackoff, MaxBackoff,
  InCap,    \* chunks that fit between the player and oggmux, 8192
  OutCap    \* chunks that fit between oggmux and the sender

ASSUME PipelineAssumption ==
  /\ {InCap, OutCap} \subseteq Nat \ {0}
  /\ InitialBackoff \in Nat \ {0} /\ MaxBackoff \in Nat
  /\ InitialBackoff <= MaxBackoff

VARIABLES
  connState, running, stream, lock, socket, client, sndPc, backoff, mainPc,
  othersEnded, failures, refused,   \* of IcecastSender; sndPc is its pc
  input,    \* chunks oggmux has still to take
  output,   \* chunks the sender has still to take
  entered,  \* tracks added so far
  asked     \* a status handler that waits for the queue's lock: what there
            \* was to read when it came, <<>> for no handler

Snd == INSTANCE IcecastSender WITH pc <- sndPc

\* shutdown and muxOpen are shared: the token, and the task of oggmux.
senderOnly == <<connState, running, stream, lock, socket, client, sndPc, backoff,
                mainPc, othersEnded, failures, refused>>
playerOnly == <<shared, events, records, locals, ghosts, entered>>
channels   == <<input, output>>
pipeVars   == <<senderOnly, playerOnly, outside, channels, asked>>

PipeInit == PlayerInit /\ Snd!Init /\ input = 0 /\ output = 0 /\ entered = 0
            /\ asked = <<>>

\* The tasks run from when main has spawned them to the end of the process.
Alive == Snd!Alive /\ mainPc # "connect"
-----------------------------------------------------------------------------
\* The player task, whose send awaits room in the channel.

Feed == SendChunk /\ input < InCap /\ input' = input + 1

PlayerStep ==
  /\ Alive
  /\ \/ Feed
     \/ RunPlayer /\ ~(pc = "send" /\ pc' = "stream") /\ UNCHANGED input
  /\ UNCHANGED <<senderOnly, entered, output, asked>>

\* add_track and skip_track, once the API serves
AddTrack ==
  /\ mainPc = "serve" /\ entered < MaxTracks
  /\ entered' = entered + 1
  /\ queue' = PushBack(queue, entered') /\ gauge' = Len(queue')
  /\ UNCHANGED <<nowPlaying, skipToken, cancelled, events, records, locals, ghosts,
                 senderOnly, outside, channels, asked>>

SkipTrack ==
  /\ mainPc = "serve"
  /\ Skip
  /\ UNCHANGED <<senderOnly, entered, channels, asked>>
-----------------------------------------------------------------------------
\* The sender task, whose recv awaits a chunk.

Receive == Snd!Receive /\ output > 0 /\ output' = output - 1

\* On shutdown, or on None: the receiver and what waits for it are dropped.
EndSender == Snd!EndSender /\ (shutdown \/ output = 0) /\ output' = 0

\* The reason an attempt fails for makes no difference here.
Retry == Snd!MarkReconnecting \/ Snd!CheckRetry \/ Snd!WakeUp \/ Snd!Reconnect
         \/ Snd!ReconnectFails(TRUE)

SenderStep ==
  /\ \/ Receive \/ EndSender
     \/ /\ Snd!CheckRunning \/ Snd!LockStream \/ Snd!Write \/ Retry
        /\ UNCHANGED output
  /\ UNCHANGED <<playerOnly, outside, input, asked>>
-----------------------------------------------------------------------------
\* External: oggmux.  It sends silence when it has nothing else.

MuxForward ==
  /\ Alive /\ muxOpen
  /\ output < OutCap /\ output' = output + 1
  /\ input' = IF input > 0 THEN input - 1 ELSE input
  /\ UNCHANGED <<senderOnly, playerOnly, outside, asked>>

\* Its output has no receiver, or its input is over: its task ends.
MuxEnds ==
  /\ Alive
  /\ sndPc = "done" \/ (pc = "done" /\ input = 0)
  /\ MuxStops /\ Snd!MuxEnds
  /\ input' = 0
  /\ UNCHANGED <<entered, output, asked>>

Mux == MuxForward \/ MuxEnds
-----------------------------------------------------------------------------
\* main

Startup == (Snd!Startup \/ Snd!PeerLeaves) /\ UNCHANGED <<playerOnly, outside, channels, asked>>

CtrlC == Snd!CtrlC /\ CancelShutdown /\ UNCHANGED <<entered, channels, asked>>

\* The player has ended, and the API server, all its clients gone.
OthersEnd ==
  /\ pc = "done"
  /\ Snd!OthersEnd
  /\ UNCHANGED <<playerOnly, outside, channels, asked>>

Leave ==
  /\ Snd!TasksEnded \/ Snd!LockOriginal \/ Snd!CloseSocket \/ Snd!ClearRunning
  /\ UNCHANGED <<playerOnly, outside, channels, asked>>
-----------------------------------------------------------------------------
\* GET /api/status: now_playing, then the queue, behind its lock.  The ids
\* stand for the number of tracks the answer gives.

StatusBegins ==
  /\ mainPc = "serve" /\ asked = <<>>
  /\ asked' = [nowPlaying |-> nowPlaying, queued |-> ToSet(queue)]
  /\ UNCHANGED <<senderOnly, playerOnly, outside, channels>>

\* Mutant: the queue is read first.
Status_QueueFirst == [nowPlaying |-> nowPlaying, queued |-> asked.queued]

Status == [nowPlaying |-> asked.nowPlaying, queued |-> ToSet(queue)]

StatusAnswers ==
  /\ Alive /\ asked # <<>> /\ asked' = <<>>
  /\ UNCHANGED <<senderOnly, playerOnly, outside, channels>>
-----------------------------------------------------------------------------
PipeNext == PlayerStep \/ AddTrack \/ SkipTrack \/ SenderStep \/ Mux
            \/ Startup \/ CtrlC \/ OthersEnd \/ Leave
            \/ StatusBegins \/ StatusAnswers

PipeSpec == PipeInit /\ [][PipeNext]_pipeVars

(***************************************************************************)
(* Fairness: as in Station and IcecastSender.  A select! that is polled    *)
(* again and again picks each ready branch some time.  oggmux is assumed   *)
(* to run, and the API server to see its last client leave.                *)
(***************************************************************************)
LivePipeSpec ==
  /\ PipeSpec
  /\ WF_pipeVars(PlayerStep)
  /\ SF_pipeVars(PlayerStep /\ SkipBranch)
  /\ SF_pipeVars(PlayerStep /\ ShutdownBranch)
  /\ WF_pipeVars(sndPc # "write" /\ SenderStep)
  /\ SF_pipeVars(SenderStep /\ EndSender)
  /\ WF_pipeVars(Mux)
  /\ WF_pipeVars(OthersEnd)
  /\ WF_pipeVars(Leave)
-----------------------------------------------------------------------------
\* An outage costs no track of the queue, however long it lasts: the channel
\* of the player fills up and is never closed under it, so that no track is
\* ended unplayed, unless the station stops.  It is about the order in which
\* the tasks of this program end: that oggmux ends only when its input is
\* over or its output dropped is assumed here.  A mux that dies by itself
\* empties the queue unplayed, whatever the tasks do.
OutageCostsNoTrack == ~muxOpen => shutdown

\* The answer of status never counts the track it shows as queued too.
StatusCountsOnce == [][StatusAnswers => Status.nowPlaying \notin Status.queued]_pipeVars

\* A skip ends the track even if it comes during an outage, with every
\* channel full and the player blocked: once the server takes the source
\* back and the peer reads.
SkipOutlastsOutage ==
  Snd!PeerReads /\ Snd!ServerReturns =>
    (pc \in {"stream", "send"} /\ track \in cancelled
       ~> pc \notin {"stream", "send"} \/ mainPc = "exit")

\* The tasks release each other: after ctrl-c each of them ends, and main
\* without its 5 s, even in an outage that never ends and with every channel
\* full, if the peer of an open connection reads.
ShutdownUnwinds ==
  Snd!PeerReads => (mainPc = "grace" ~> mainPc = "exit")
=============================================================================
