--------------------------- MODULE PipelineProofs ---------------------------
(***************************************************************************)
(* Proofs about the pipeline, for channels of every size and any number of *)
(* tracks.  It implements the sender of IcecastSender, so that what is     *)
(* proved of the sender holds in the pipeline, and the playlist.           *)
(*                                                                         *)
(* An outage costs no track because the tasks end in one order only: the   *)
(* channels are closed by tasks that end, and none ends before ctrl-c, for *)
(* each waits for another.  Status counts a track once because a track     *)
(* that left the queue never comes back to it, not even between the two    *)
(* reads of the handler.                                                   *)
(***************************************************************************)
EXTENDS Pipeline, DataProofs

\* The sender with what is proved of it, and the playlist.
SndProofs == INSTANCE SenderProofs WITH pc <- sndPc

PlOnAir == IF pc \in Holding \ Retiring THEN track ELSE NoTrack
PL == INSTANCE Playlist WITH
        Track <- Tracks, None <- NoTrack, known <- 1..entered,
        waiting <- queue, onAir <- PlOnAir, aired <- ended
-----------------------------------------------------------------------------
\* What the steps of the player leave alone.
LEMMA PlayerFrame ==
  ASSUME PlayerStep
  PROVE  UNCHANGED <<senderOnly, outside, entered, asked>>
  BY DEF PlayerStep, Feed, RunPlayer, StreamFile, CheckShutdown, PopFront, PopNone,
         ZeroGauge, WakeUp, SyncGauge, SetNowPlaying, SendTrackStarted, InstallToken,
         OpenFile, OpenFails, SkipBranch, ShutdownBranch, EndOfFile, ReadChunk,
         SendChunk, SendFails, StreamReturns, CountSkipped, SendTrackEnd, CountPlayed,
         RecordHistory, ClearNowPlaying

\* Every step of the pipeline is one of the sender, of main or of what they
\* see of the other tasks, or leaves them where they are.
THEOREM PipelineIsSender == PipeSpec => Snd!Spec
  <1>1. PipeInit => Snd!Init
    BY DEF PipeInit
  <1>2. [PipeNext]_pipeVars => [Snd!Next]_Snd!vars
    <2>. SUFFICES ASSUME [PipeNext]_pipeVars PROVE [Snd!Next]_Snd!vars
      OBVIOUS
    <2>1. UNCHANGED <<senderOnly, outside>> => UNCHANGED Snd!vars
      BY DEF senderOnly, outside, Snd!vars, Snd!clients, Snd!sender, Snd!program,
             Snd!outside, Snd!ghosts
    <2>2. CASE PlayerStep
      BY <2>1, <2>2, PlayerFrame
    <2>3. CASE AddTrack \/ SkipTrack \/ MuxForward \/ StatusBegins \/ StatusAnswers
               \/ UNCHANGED pipeVars
      BY <2>1, <2>3 DEF AddTrack, SkipTrack, Skip, MuxForward, StatusBegins,
         StatusAnswers,
                       pipeVars
    <2>4. CASE SenderStep
      BY <2>4 DEF SenderStep, Receive, EndSender, Retry, Snd!Next, Snd!Sender, Snd!Retry
    <2>5. CASE MuxEnds \/ Startup \/ CtrlC \/ OthersEnd \/ Leave
      BY <2>5 DEF MuxEnds, Startup, CtrlC, OthersEnd, Leave, Snd!Next, Snd!Leave
    <2>. QED
      BY <2>2, <2>3, <2>4, <2>5 DEF PipeNext, Mux
  <1>. QED
    BY <1>1, <1>2, PTL DEF PipeSpec, Snd!Spec

\* The two instances of IcecastSender are the same.
LEMMA SameSender == Snd!Spec => SndProofs!Spec
  <1>. USE DEF
    Snd!Connected, Snd!Alive, Snd!Goto, Snd!DoubledBackoff, Snd!Wait,
    Snd!OneMoreFailure, Snd!vars, Snd!clients, Snd!sender, Snd!program, Snd!outside,
    Snd!ghosts, Snd!Conn, Snd!Original, Snd!Renewed,
    SndProofs!Connected, SndProofs!Alive, SndProofs!Goto, SndProofs!DoubledBackoff,
    SndProofs!Wait, SndProofs!OneMoreFailure, SndProofs!vars, SndProofs!clients,
    SndProofs!sender, SndProofs!program, SndProofs!outside, SndProofs!ghosts,
    SndProofs!Conn, SndProofs!Original, SndProofs!Renewed
  <1>1. Snd!Init => SndProofs!Init
    BY DEF Snd!Init, SndProofs!Init
  <1>2. [Snd!Next]_Snd!vars => [SndProofs!Next]_SndProofs!vars
    <2>1. Snd!Startup => SndProofs!Startup
      BY DEF Snd!Startup, SndProofs!Startup, Snd!FirstConnect,
         SndProofs!FirstConnect, Snd!FirstConnectFails, SndProofs!FirstConnectFails,
         Snd!BindApi, SndProofs!BindApi, Snd!BindApiFails, SndProofs!BindApiFails
    <2>2. Snd!CtrlC \/ Snd!Leave => SndProofs!CtrlC \/ SndProofs!Leave
      BY DEF Snd!CtrlC, SndProofs!CtrlC, Snd!Leave, SndProofs!Leave, Snd!TasksEnded,
         SndProofs!TasksEnded, Snd!GraceTimeout, SndProofs!GraceTimeout,
         Snd!LockOriginal, SndProofs!LockOriginal, Snd!CloseSocket,
         SndProofs!CloseSocket, Snd!ClearRunning, SndProofs!ClearRunning
    <2>3. Snd!Retry => SndProofs!Retry
      BY DEF Snd!Retry, SndProofs!Retry, Snd!MarkReconnecting,
         SndProofs!MarkReconnecting, Snd!CheckRetry, SndProofs!CheckRetry,
         Snd!WakeUp, SndProofs!WakeUp, Snd!Reconnect, SndProofs!Reconnect,
         Snd!ReconnectFails, SndProofs!ReconnectFails
    <2>4. Snd!Sender => SndProofs!Sender
      BY <2>3 DEF Snd!Sender, SndProofs!Sender, Snd!Receive, SndProofs!Receive,
         Snd!EndSender, SndProofs!EndSender, Snd!CheckRunning,
         SndProofs!CheckRunning, Snd!LockStream, SndProofs!LockStream, Snd!Write,
         SndProofs!Write, Snd!WriteChunk, SndProofs!WriteChunk, Snd!WriteFails,
         SndProofs!WriteFails
    <2>5. Snd!PeerLeaves \/ Snd!MuxEnds \/ Snd!OthersEnd
          => SndProofs!PeerLeaves \/ SndProofs!MuxEnds \/ SndProofs!OthersEnd
      BY DEF Snd!PeerLeaves, SndProofs!PeerLeaves, Snd!MuxEnds, SndProofs!MuxEnds,
         Snd!OthersEnd, SndProofs!OthersEnd
    <2>. QED
      BY <2>1, <2>2, <2>4, <2>5 DEF Snd!Next, SndProofs!Next
  <1>. QED
    BY <1>1, <1>2, PTL DEF Snd!Spec, SndProofs!Spec

\* What the sender guarantees it guarantees here, with the tasks it shares
\* its channel and its token with: one connection at most, no write without
\* it, what /ready reports is true, nothing taken from the channel during an
\* outage, and waits that double.
SenderPromises ==
  /\ SndProofs!OneSocket /\ SndProofs!WriteHoldsStream
  /\ SndProofs!ConnectedMeansStream
  /\ SndProofs!NothingTakenInOutage
  /\ SndProofs!BackoffDoubles

\* run_player, oggmux and main change nothing of what the sender relies on.
THEOREM SenderSafeInPipeline == PipeSpec => []SenderPromises
  <1>1. InitialBackoff \in Nat \ {0} /\ MaxBackoff \in Nat /\ InitialBackoff <= MaxBackoff
    BY PipelineAssumption
  <1>2. SndProofs!Spec => []SndProofs!OneSocket
    BY <1>1, SndProofs!AtMostOneSocket, PTL
  <1>3. SndProofs!Spec => []SndProofs!WriteHoldsStream
    BY <1>1, SndProofs!WritesAreProtected, PTL
  <1>4. SndProofs!Spec => []SndProofs!ConnectedMeansStream
    BY <1>1, SndProofs!ConnectedIsTrue, PTL
  <1>5. SndProofs!Spec => []SndProofs!NothingTakenInOutage
    BY <1>1, SndProofs!NothingIsTakenInOutage, PTL
  <1>6. SndProofs!Spec => []SndProofs!BackoffDoubles
    BY <1>1, SndProofs!BackoffIsDoubled, PTL
  <1>. QED
    BY <1>2, <1>3, <1>4, <1>5, <1>6, PipelineIsSender, SameSender, PTL
       DEF SenderPromises
-----------------------------------------------------------------------------
\* Each task ends only after another one, and the first after ctrl-c.
StopInv ==
  /\ OutageCostsNoTrack
  /\ sndPc = "done" => shutdown
  /\ pc = "done" => shutdown

\* A failed write, a full channel and a retry that never ends close nothing:
\* as long as nobody pressed ctrl-c, send() of the player has its receiver.
THEOREM NoTrackLostToOutage == PipeSpec => []OutageCostsNoTrack
  <1>1. PipeInit => StopInv
    BY DEF PipeInit, PlayerInit, Snd!Init, StopInv, OutageCostsNoTrack
  <1>2. StopInv /\ [PipeNext]_pipeVars => StopInv'
    <2>. SUFFICES ASSUME StopInv, [PipeNext]_pipeVars PROVE StopInv'
      OBVIOUS
    <2>. USE DEF StopInv, OutageCostsNoTrack
    <2>1. CASE PlayerStep
      <3>1. UNCHANGED <<muxOpen, shutdown, sndPc>>
        BY <2>1, PlayerFrame DEF senderOnly, outside
      <3>2. pc' = "done" => shutdown
        BY <2>1 DEF PlayerStep, Feed, RunPlayer, StreamFile, CheckShutdown, PopFront,
           PopNone, ZeroGauge, WakeUp, SyncGauge, SetNowPlaying, SendTrackStarted,
           InstallToken, OpenFile, OpenFails, SkipBranch, ShutdownBranch, EndOfFile,
           ReadChunk, SendChunk, SendFails, StreamReturns, CountSkipped, SendTrackEnd,
           CountPlayed, RecordHistory, ClearNowPlaying, Goto
      <3>. QED
        BY <3>1, <3>2
    <2>2. CASE AddTrack \/ SkipTrack \/ MuxForward \/ StatusBegins \/ StatusAnswers
               \/ UNCHANGED pipeVars
      BY <2>2 DEF AddTrack, SkipTrack, Skip, MuxForward, StatusBegins, StatusAnswers,
                  pipeVars, senderOnly, playerOnly, outside, locals
    <2>3. CASE SenderStep
      <3>1. UNCHANGED <<muxOpen, shutdown, pc>>
        BY <2>3 DEF SenderStep, playerOnly, outside, locals
      <3>2. sndPc' = "done" => shutdown
        BY <2>3 DEF SenderStep, Receive, EndSender, Retry, Snd!Receive, Snd!EndSender,
           Snd!CheckRunning, Snd!LockStream, Snd!Write, Snd!WriteChunk, Snd!WriteFails,
           Snd!MarkReconnecting, Snd!CheckRetry, Snd!WakeUp, Snd!Reconnect,
           Snd!ReconnectFails, Snd!Goto
      <3>. QED
        BY <3>1, <3>2
    <2>4. CASE MuxEnds
      BY <2>4 DEF MuxEnds, MuxStops, Snd!MuxEnds, locals, Snd!sender
    <2>5. CASE CtrlC
      BY <2>5 DEF CtrlC, CancelShutdown, locals, Snd!CtrlC, Snd!sender
    <2>6. CASE Startup \/ OthersEnd \/ Leave
      BY <2>6 DEF Startup, OthersEnd, Leave, playerOnly, locals, outside, Snd!Startup,
         Snd!FirstConnect, Snd!FirstConnectFails, Snd!BindApi, Snd!BindApiFails,
         Snd!PeerLeaves, Snd!OthersEnd, Snd!TasksEnded, Snd!LockOriginal,
         Snd!CloseSocket, Snd!ClearRunning, Snd!sender
    <2>. QED
      BY <2>1, <2>2, <2>3, <2>4, <2>5, <2>6 DEF PipeNext, Mux
  <1>3. StopInv => OutageCostsNoTrack
    BY DEF StopInv
  <1>. QED
    BY <1>1, <1>2, <1>3, PTL DEF PipeSpec
-----------------------------------------------------------------------------
\* A track that was added and is not in the queue
Left(t) == t \in 0..entered /\ t \notin ToSet(queue)

QueueInv ==
  /\ entered \in 0..MaxTracks
  /\ queue \in Seq(Tracks) /\ IsInjective(queue) /\ ToSet(queue) \subseteq 1..entered

\* What the player holds, shows, and a handler read has left the queue.
LeftInv ==
  /\ pc \in Idling \cup Holding
  /\ IF pc \in Holding THEN track \in Tracks ELSE track = NoTrack
  /\ Left(track) /\ Left(nowPlaying)
  /\ wasSkipped \in BOOLEAN
  /\ asked # <<>> => Left(asked.nowPlaying)

TracksInv == QueueInv /\ LeftInv

\* Nothing was added yet.
LEMMA TracksInit == PipeInit => TracksInv
  <1>. SUFFICES ASSUME PipeInit PROVE TracksInv
    OBVIOUS
  <1>1. queue = <<>> /\ ToSet(queue) = {} /\ IsInjective(queue)
    BY DEF PipeInit, PlayerInit, ToSet, IsInjective
  <1>2. wasSkipped \in BOOLEAN
    BY DEF PipeInit, PlayerInit
  <1>. QED
    BY <1>1, <1>2, PlayerAssumption DEF PipeInit, PlayerInit, TracksInv, QueueInv, LeftInv,
       Left, Idling, Holding, NoTrack

\* The player moves the head of the queue to its own variable, and from there
\* to now_playing.
LEMMA PlayerKeepsTracks == TracksInv /\ PlayerStep => TracksInv'
  <1>. SUFFICES ASSUME TracksInv, PlayerStep PROVE TracksInv'
    OBVIOUS
  <1>. USE DEF TracksInv, QueueInv, LeftInv, Idling, Holding, Goto, shared, locals
  <1>1. UNCHANGED <<entered, asked>>
    BY PlayerFrame
  <1>2. CASE PopFront
    <2>1. /\ Head(queue) \in Tracks /\ Head(queue) \in ToSet(queue)
          /\ Tail(queue) \in Seq(Tracks) /\ ToSet(Tail(queue)) \subseteq ToSet(queue)
          /\ IsInjective(Tail(queue)) /\ Head(queue) \notin ToSet(Tail(queue))
      BY <1>2, PopFrontTakes DEF PopFront
    <2>2. /\ queue' = Tail(queue) /\ track' = Head(queue) /\ nowPlaying' = nowPlaying
          /\ pc' = "gauge" /\ wasSkipped' = wasSkipped
      BY <1>2 DEF PopFront
    <2>3. Left(track)' /\ Left(nowPlaying)'
      BY <1>1, <2>1, <2>2 DEF Left
    <2>. QED
      BY <1>1, <2>1, <2>2, <2>3 DEF Left
  <1>3. ASSUME queue' = queue, nowPlaying' \in {nowPlaying, track, NoTrack},
               pc' \in Idling \cup Holding,
               \/ track' = track /\ (pc' \in Holding <=> pc \in Holding)
               \/ track' = NoTrack /\ pc' \in Idling,
               wasSkipped' \in BOOLEAN
        PROVE  TracksInv'
    <2>1. Left(NoTrack)
      BY DEF Left, NoTrack, Tracks, ToSet
    <2>. QED
      BY <1>1, <1>3, <2>1 DEF Left
  <1>4. CASE CheckShutdown \/ PopNone \/ ZeroGauge \/ WakeUp \/ SyncGauge \/ SetNowPlaying
    BY <1>3, <1>4 DEF CheckShutdown, PopNone, ZeroGauge, WakeUp, SyncGauge, SetNowPlaying
  <1>5. CASE SendTrackStarted \/ InstallToken \/ CountSkipped \/ SendTrackEnd
             \/ CountPlayed \/ RecordHistory \/ ClearNowPlaying
    BY <1>3, <1>5 DEF SendTrackStarted, InstallToken, CountSkipped, SendTrackEnd,
                     CountPlayed, RecordHistory, ClearNowPlaying
  <1>6. CASE StreamFile
    BY <1>3, <1>6 DEF StreamFile, OpenFile, OpenFails, SkipBranch, ShutdownBranch,
                     EndOfFile, ReadChunk, SendChunk, SendFails, StreamReturns
  <1>. QED
    BY <1>2, <1>4, <1>5, <1>6 DEF PlayerStep, Feed, RunPlayer, StreamFile

\* A new track is none of those that left.
LEMMA TracksNext == TracksInv /\ [PipeNext]_pipeVars => TracksInv'
  <1>. SUFFICES ASSUME TracksInv, [PipeNext]_pipeVars PROVE TracksInv'
    OBVIOUS
  <1>. USE DEF TracksInv, QueueInv, LeftInv
  <1>1. CASE AddTrack
    <2>1. entered + 1 \in Tracks /\ entered + 1 \notin ToSet(queue)
      BY <1>1, PlayerAssumption DEF AddTrack, Tracks
    <2>2. /\ queue' \in Seq(Tracks) /\ IsInjective(queue')
          /\ ToSet(queue') = ToSet(queue) \cup {entered + 1}
      BY <1>1, <2>1, PushBackAdds DEF AddTrack
    <2>3. UNCHANGED <<pc, track, wasSkipped, nowPlaying, asked>> /\ entered' = entered + 1
      BY <1>1 DEF AddTrack, locals
    <2>4. ASSUME NEW t, Left(t) PROVE t \in 0..entered' /\ t \notin ToSet(queue')
      BY <2>2, <2>3, <2>4 DEF Left
    <2>5. entered' \in 0..MaxTracks /\ ToSet(queue') \subseteq 1..entered'
      BY <2>1, <2>2, <2>3 DEF Tracks
    <2>. QED
      BY <2>2, <2>3, <2>4, <2>5 DEF Left
  <1>2. CASE StatusBegins \/ StatusAnswers
    BY <1>2 DEF StatusBegins, StatusAnswers, playerOnly, shared, locals, Left
  <1>3. CASE SkipTrack \/ SenderStep \/ Mux \/ Startup \/ CtrlC \/ OthersEnd \/ Leave
             \/ UNCHANGED pipeVars
    <2>1. UNCHANGED <<queue, entered, pc, track, wasSkipped, nowPlaying, asked>>
      BY <1>3 DEF SkipTrack, Skip, SenderStep, Mux, MuxForward, MuxEnds, MuxStops,
         Startup, CtrlC, CancelShutdown, OthersEnd, Leave, pipeVars, playerOnly, shared, locals
    <2>. QED
      BY <2>1 DEF Left
  <1>. QED
    BY <1>1, <1>2, <1>3, PlayerKeepsTracks DEF PipeNext

\* The answer of status is put together from two reads, and the player may
\* start a track between them: it still counts no track twice.
THEOREM TracksCountedOnce == PipeSpec => StatusCountsOnce
  <1>1. TracksInv => [StatusAnswers => Status.nowPlaying \notin Status.queued]_pipeVars
    BY DEF TracksInv, LeftInv, Left, StatusAnswers, Status
  <1>. QED
    BY <1>1, TracksInit, TracksNext, PTL DEF PipeSpec, StatusCountsOnce

\* Whatever goes wrong behind the player, a track goes the way of the playlist:
\* it leaves the queue from the front, when no other is on air, and once only.
THEOREM PipelineIsPlaylist == PipeSpec => PL!Spec
  <1>1. PipeInit => PL!Init
    <2>1. 1..0 = {}
      OBVIOUS
    <2>. QED
      BY <2>1 DEF PipeInit, PlayerInit, PL!Init, PlOnAir, Holding
  <1>2. TracksInv /\ [PipeNext]_pipeVars => [PL!Next]_PL!vars
    <2>. SUFFICES ASSUME TracksInv, [PipeNext]_pipeVars PROVE [PL!Next]_PL!vars
      OBVIOUS
    <2>. USE DEF Holding, Retiring, Goto
    <2>1. CASE AddTrack
      <3>1. entered + 1 \in Tracks /\ entered + 1 \notin 1..entered
            /\ 1..(entered + 1) = (1..entered) \cup {entered + 1}
        BY <2>1, PlayerAssumption DEF TracksInv, QueueInv, AddTrack, Tracks
      <3>2. UNCHANGED <<PlOnAir, ended>> /\ entered' = entered + 1
            /\ queue' = Append(queue, entered + 1)
        BY <2>1 DEF AddTrack, PlOnAir, locals, events, PushBack
      <3>3. PL!Enter(entered + 1)
        BY <3>1, <3>2 DEF PL!Enter
      <3>. QED
        BY <3>1, <3>3 DEF PL!Next
    <2>2. CASE PlayerStep
      <3>. USE DEF shared, events, locals
      <3>1. entered' = entered
        BY <2>2, PlayerFrame
      <3>2. CASE PopFront
        <4>1. PL!Start
          BY <3>1, <3>2 DEF PopFront, PL!Start, PlOnAir
        <4>. QED
          BY <4>1 DEF PL!Next
      <3>3. CASE SendTrackEnd
        <4>1. track # NoTrack /\ wasSkipped \in BOOLEAN
          BY <3>3 DEF SendTrackEnd, TracksInv, LeftInv, NoTrack, Tracks
        <4>2. PL!Retire(wasSkipped)
          BY <3>1, <3>3, <4>1 DEF SendTrackEnd, PL!Retire, PlOnAir
        <4>. QED
          BY <4>1, <4>2 DEF PL!Next
      <3>4. CASE OpenFails \/ SkipBranch \/ ShutdownBranch \/ EndOfFile \/ SendFails
        BY <3>1, <3>4 DEF OpenFails, SkipBranch, ShutdownBranch, EndOfFile, SendFails,
           StreamReturns, PL!vars, PlOnAir
      <3>5. CASE CheckShutdown \/ PopNone \/ ZeroGauge \/ WakeUp \/ SyncGauge
                 \/ SetNowPlaying \/ SendTrackStarted \/ InstallToken \/ OpenFile
                 \/ ReadChunk \/ SendChunk \/ CountSkipped \/ CountPlayed
                 \/ RecordHistory \/ ClearNowPlaying
        BY <3>1, <3>5 DEF CheckShutdown, PopNone, ZeroGauge, WakeUp, SyncGauge,
           SetNowPlaying, SendTrackStarted, InstallToken, OpenFile, ReadChunk, SendChunk,
           CountSkipped, CountPlayed, RecordHistory, ClearNowPlaying, PL!vars, PlOnAir
      <3>. QED
        BY <2>2, <3>2, <3>3, <3>4, <3>5 DEF PlayerStep, Feed, RunPlayer, StreamFile
    <2>3. CASE SkipTrack \/ SenderStep \/ Mux \/ Startup \/ CtrlC \/ OthersEnd \/ Leave
               \/ StatusBegins \/ StatusAnswers \/ UNCHANGED pipeVars
      <3>1. UNCHANGED <<queue, ended, entered, pc, track>>
        BY <2>3 DEF SkipTrack, Skip, SenderStep, Mux, MuxForward, MuxEnds, MuxStops,
           Startup, CtrlC, CancelShutdown, OthersEnd, Leave, StatusBegins, StatusAnswers,
           pipeVars, playerOnly, shared, events, locals
      <3>. QED
        BY <3>1 DEF PL!vars, PlOnAir
    <2>. QED
      BY <2>1, <2>2, <2>3 DEF PipeNext
  <1>. QED
    BY <1>1, <1>2, TracksInit, TracksNext, PTL DEF PipeSpec, PL!Spec
=============================================================================
