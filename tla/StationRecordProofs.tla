------------------------ MODULE StationRecordProofs -------------------------
(***************************************************************************)
(* What the station tells of itself is so: the length of its queue, and    *)
(* its past.                                                               *)
(***************************************************************************)
EXTENDS StationProofs, FiniteSetTheorems
-----------------------------------------------------------------------------
(***************************************************************************)
(* The gauge and the QueueChanged events follow the queue's length, as     *)
(* long as no handler is dropped half way: GaugeSettled and                *)
(* AnnouncedCovers are inductive given the types.                          *)
(***************************************************************************)
LengthInv == GaugeSettled /\ AnnouncedCovers

USE DEF Holding, Idling

\* Shuffling and moving keep the length, and the gauge is not touched.
LEMMA EditsKeepLength ==
  ASSUME TypeOK, IsInjective(queue)
  PROVE  /\ ShuffleQueue => Len(queue') = Len(queue)
         /\ MoveTrack => Len(queue') = Len(queue)
         /\ RemoveTrack => Len(queue') \in Nat
<1>1. queue \in Seq(Tracks) /\ Len(queue) \in Nat
  BY DEF TypeOK, PlayerTypeOK
<1>2. ASSUME ShuffleQueue
      PROVE  Len(queue') = Len(queue)
  BY <1>1, <1>2, ShuffleKeeps DEF ShuffleQueue
<1>3. ASSUME MoveTrack
      PROVE  Len(queue') = Len(queue)
  <2>1. PICK id \in ToSet(queue), position \in 0..Len(queue) :
          queue' = MoveTo(queue, id, position)
    BY <1>3 DEF MoveTrack
  <2>2. position \in Nat
    BY <1>1
  <2> QED
    BY <1>1, <2>1, <2>2, MoveToKeeps
<1>4. ASSUME RemoveTrack
      PROVE  Len(queue') \in Nat
  <2>1. PICK id \in ToSet(queue) : queue' = RemoveId(queue, id)
    BY <1>4 DEF RemoveTrack
  <2>2. queue' \in Seq(Tracks)
    BY <1>1, <2>1, RemoveIdTakes
  <2> QED
    BY <2>2
<1> QED
  BY <1>2, <1>3, <1>4

\* The player shortens the queue before it sets the gauge, or sets it to 0.
LEMMA PlayerKeepsLength ==
  ASSUME TypeOK, LengthInv, PlayerStep
  PROVE  LengthInv'
<1> USE DEF Goto, shared, locals
<1>1. /\ BulkIdle' = BulkIdle /\ announced' = announced
      /\ \A c \in Clients : Unannounced(c)' = Unannounced(c)
  BY DEF PlayerStep, apiVars, BulkIdle, Unannounced
<1>2. queue \in Seq(Tracks) /\ Len(queue) \in Nat /\ announced \in Nat
  BY DEF TypeOK, PlayerTypeOK, ApiTypeOK
<1>3. CASE PopFront
  <2>1. queue # <<>> /\ queue' = Tail(queue) /\ pc' = "gauge"
    BY <1>3 DEF PopFront
  <2>2. Len(queue') = Len(queue) - 1
    BY <1>2, <2>1, PopFrontTakes
  <2> QED
    BY <1>1, <1>2, <2>1, <2>2 DEF LengthInv, GaugeSettled, AnnouncedCovers
<1>4. ASSUME UNCHANGED queue, GaugeSettled'
      PROVE  LengthInv'
  BY <1>1, <1>4 DEF LengthInv, AnnouncedCovers
<1>5. CASE CheckShutdown \/ PopNone \/ ZeroGauge \/ WakeUp
  BY <1>1, <1>4, <1>5 DEF CheckShutdown, PopNone, ZeroGauge, WakeUp, LengthInv,
     GaugeSettled
<1>6. CASE SyncGauge \/ SetNowPlaying \/ SendTrackStarted \/ InstallToken
  BY <1>1, <1>4, <1>6 DEF SyncGauge, SetNowPlaying, SendTrackStarted,
     InstallToken, LengthInv, GaugeSettled
<1>7. ASSUME NEW skip \in BOOLEAN, StreamReturns(skip), pc \in {"open", "stream", "send"}
      PROVE  LengthInv'
  BY <1>1, <1>4, <1>7 DEF StreamReturns, LengthInv, GaugeSettled
<1>8. CASE StreamFile
  <2>1. CASE OpenFile \/ ReadChunk \/ SendChunk
    BY <1>1, <1>4, <2>1 DEF OpenFile, ReadChunk, SendChunk, LengthInv, GaugeSettled
  <2> QED
    BY <1>7, <1>8, <2>1 DEF StreamFile, OpenFails, SkipBranch, ShutdownBranch,
       EndOfFile, SendFails
<1>9. CASE CountSkipped \/ SendTrackEnd \/ CountPlayed \/ RecordHistory \/ ClearNowPlaying
  BY <1>1, <1>4, <1>9 DEF CountSkipped, SendTrackEnd, CountPlayed, RecordHistory,
     ClearNowPlaying, LengthInv, GaugeSettled
<1> QED
  BY <1>3, <1>5, <1>6, <1>8, <1>9 DEF PlayerStep, RunPlayer

\* Handlers that are not dropped announce what they pushed and set the gauge.
LEMMA LengthNext ==
  ASSUME TypeOK, NoTrackTwice, LengthInv, [Next]_vars, ~ClientsMayDisconnect
  PROVE  LengthInv'
<1>0. /\ queue \in Seq(Tracks) /\ Len(queue) \in Nat /\ announced \in Nat
      /\ \A c \in Clients : req[c] \in Request
      /\ DOMAIN req = Clients
  BY DEF TypeOK, PlayerTypeOK, ApiTypeOK
\* the handler of c updates neither gauge nor queue, and hides nothing
<1>1. ASSUME NEW c \in Clients, UNCHANGED <<playerVars, announced>>,
             \A d \in Clients \ {c} : req'[d] = req[d],
             Unannounced(c) => Unannounced(c)',
             req[c].pc \in {"bulk", "bulkPush"} => req'[c].pc \in {"bulk", "bulkPush"}
      PROVE  LengthInv'
  <2>1. BulkIdle' => BulkIdle
    BY <1>1 DEF BulkIdle
  <2>2. (\A d \in Clients : ~Unannounced(d)') => (\A d \in Clients : ~Unannounced(d))
    BY <1>1 DEF Unannounced
  <2> QED
    BY <1>1, <2>1, <2>2 DEF LengthInv, GaugeSettled, AnnouncedCovers,
       playerVars, shared, locals
\* the gauge is exact, and the handler of c has still to announce
<1>2. ASSUME NEW c \in Clients, UNCHANGED playerOnly, gauge' = Len(queue'), Unannounced(c)'
      PROVE  LengthInv'
  BY <1>2 DEF LengthInv, GaugeSettled, AnnouncedCovers, playerOnly, locals
\* the gauge is exact and the length announced
<1>3. ASSUME UNCHANGED <<playerOnly, req>>, announced' = Len(queue'), Len(queue') \in Nat,
             \/ gauge' = Len(queue')
             \/ gauge' = gauge /\ Len(queue') = Len(queue)
      PROVE  LengthInv'
  <2>1. BulkIdle' = BulkIdle
    BY <1>3 DEF BulkIdle
  <2> QED
    BY <1>3, <2>1 DEF LengthInv, GaugeSettled, AnnouncedCovers, playerOnly, locals
<1>4. ASSUME NEW c \in Clients, AddTrack(c) \/ AddTrackNext(c) \/ BulkAccept(c)
             \/ BulkRefuse(c) \/ \E n \in 0..MaxBulk : AddTracksBulk(c, n)
      PROVE  LengthInv'
  <2>1. UNCHANGED <<playerVars, announced>> /\ \A d \in Clients \ {c} : req'[d] = req[d]
    BY <1>0, <1>4 DEF AddTrack, AddTrackNext, StartAdd, BulkAccept, BulkRefuse, AddTracksBulk
  <2>2. \/ req[c].pc = "idle"
        \/ req[c].pc = "bulk" /\ req'[c].pc = "bulk" /\ req'[c].added = req[c].added
        \/ req[c].pc = "bulk" /\ req'[c].pc = "bulkPush" /\ req'[c].added
    <3>1. CASE AddTrack(c) \/ AddTrackNext(c) \/ \E n \in 0..MaxBulk : AddTracksBulk(c, n)
      BY <3>1 DEF AddTrack, AddTrackNext, StartAdd, AddTracksBulk
    <3>2. CASE BulkAccept(c)
      BY <1>0, <3>2 DEF BulkAccept, Request
    <3>3. CASE BulkRefuse(c)
      BY <1>0, <3>3 DEF BulkRefuse, Request
    <3> QED
      BY <1>4, <3>1, <3>2, <3>3
  <2>3. Unannounced(c) => Unannounced(c)'
    BY <2>2 DEF Unannounced
  <2> QED
    BY <1>1, <2>1, <2>2, <2>3
<1>5. ASSUME NEW c \in Clients, PushTrack(c) \/ PushTrackNext(c)
      PROVE  LengthInv'
  <2>1. req'[c].pc = "announce"
    BY <1>0, <1>5 DEF PushTrack, PushTrackNext, Push, Request
  <2> QED
    BY <1>2, <1>5, <2>1 DEF PushTrack, PushTrackNext, Push, Unannounced
<1>6. ASSUME NEW c \in Clients, BulkPush(c)
      PROVE  LengthInv'
  <2>1. req'[c].pc = "bulk" /\ req'[c].added = req[c].added /\ req[c].added
    BY <1>0, <1>6 DEF BulkPush, Request
  <2>2. ~BulkIdle' /\ Unannounced(c)'
    BY <2>1 DEF BulkIdle, Unannounced
  <2> QED
    BY <2>2 DEF LengthInv, GaugeSettled, AnnouncedCovers
<1>7. ASSUME NEW c \in Clients, BulkGauge(c)
      PROVE  LengthInv'
  <2>1. UNCHANGED <<playerOnly, queue, announced>> /\ gauge' = Len(queue')
    BY <1>7 DEF BulkGauge
  <2>2. \/ req'[c].pc = "bulkAnnounce"
        \/ ~Unannounced(c) /\ \A d \in Clients \ {c} : req'[d] = req[d]
    BY <1>0, <1>7 DEF BulkGauge, Unannounced, Request
  <2>3. CASE req'[c].pc = "bulkAnnounce"
    BY <1>2, <2>1, <2>3 DEF Unannounced
  <2>4. CASE ~Unannounced(c) /\ \A d \in Clients \ {c} : req'[d] = req[d]
    <3>1. (\A d \in Clients : ~Unannounced(d)') => (\A d \in Clients : ~Unannounced(d))
      BY <2>4 DEF Unannounced
    <3> QED
      BY <2>1, <3>1 DEF LengthInv, GaugeSettled, AnnouncedCovers, playerOnly, locals
  <2> QED
    BY <2>2, <2>3, <2>4
<1>8. ASSUME NEW c \in Clients, SendQueueChanged(c)
      PROVE  LengthInv'
  <2>1. BulkIdle' => BulkIdle
    BY <1>0, <1>8 DEF SendQueueChanged, BulkIdle
  <2> QED
    BY <1>0, <1>8, <2>1 DEF SendQueueChanged, LengthInv, GaugeSettled,
       AnnouncedCovers, playerVars, shared, locals
<1>9. CASE ShuffleQueue \/ RemoveTrack \/ MoveTrack \/ ClearQueue
  <2>1. IsInjective(queue)
    BY DEF NoTrackTwice
  <2>2. CASE ShuffleQueue
    BY <1>0, <1>3, <2>1, <2>2, EditsKeepLength DEF ShuffleQueue
  <2>3. CASE RemoveTrack
    BY <1>0, <1>3, <2>1, <2>3, EditsKeepLength DEF RemoveTrack
  <2>4. CASE MoveTrack
    BY <1>0, <1>3, <2>1, <2>4, EditsKeepLength DEF MoveTrack
  <2>5. CASE ClearQueue
    BY <1>3, <2>5 DEF ClearQueue
  <2> QED
    BY <1>9, <2>2, <2>3, <2>4, <2>5
<1>10. ASSUME UNCHANGED <<queue, gauge, pc, req, announced>>
       PROVE  LengthInv'
  BY <1>10 DEF LengthInv, GaugeSettled, AnnouncedCovers, BulkIdle, Unannounced
<1>11. CASE SkipTrack \/ Environment \/ UNCHANGED vars
  BY <1>10, <1>11 DEF SkipTrack, Skip, Environment, CancelShutdown, MuxStops,
     vars, playerVars, apiVars, shared, locals
<1>12. ASSUME NEW c \in Clients
       PROVE  ~DropRequest(c)
  BY DEF DropRequest
<1> QED
  BY <1>4, <1>5, <1>6, <1>7, <1>8, <1>9, <1>11, <1>12, PlayerKeepsLength
  DEF Next, Handlers, Handler, Finish

\* The queue is empty and the gauge 0.
LEMMA LengthInit == Init => LengthInv
BY DEF Init, PlayerInit, LengthInv, GaugeSettled, AnnouncedCovers

\* If no client goes away half way, the gauge is right whenever no bulk
\* request is half done, up to the 0 the player sets between tracks.
THEOREM GaugeSettles ==
  ASSUME ~ClientsMayDisconnect
  PROVE  Spec => []GaugeSettled
<1> DEFINE Inv == TypeOK /\ NoTrackTwice /\ LengthInv
<1>1. Init => Inv
  BY TracksInit, LengthInit
<1>2. Inv /\ [Next]_vars => Inv'
  BY TracksNext, LengthNext
<1>3. Inv => GaugeSettled
  BY DEF LengthInv
<1> QED
  BY <1>1, <1>2, <1>3, PTL DEF Spec

\* Under the same condition, a listener of QueueChanged never believes the
\* queue shorter than it is once every change has been announced.
THEOREM AnnouncementsCover ==
  ASSUME ~ClientsMayDisconnect
  PROVE  Spec => []AnnouncedCovers
<1> DEFINE Inv == TypeOK /\ NoTrackTwice /\ LengthInv
<1>1. Init => Inv
  BY TracksInit, LengthInit
<1>2. Inv /\ [Next]_vars => Inv'
  BY TracksNext, LengthNext
<1>3. Inv => AnnouncedCovers
  BY DEF LengthInv
<1> QED
  BY <1>1, <1>2, <1>3, PTL DEF Spec
-----------------------------------------------------------------------------
(***************************************************************************)
(* A track is recorded as skipped only if a skip came while it was now     *)
(* playing.  The argument is about who owns the installed token: until a   *)
(* track's own token is installed, the installed one belongs to a track    *)
(* that has ended (or to none), and cancelling it is without effect.       *)
(***************************************************************************)
Dead == Ended \cup {NoTrack}

TokenOwner ==
  /\ IF pc \in Armed THEN skipToken = track ELSE skipToken \in Dead
  /\ cancelled \subseteq Dead \cup (IF pc \in Armed THEN {track} ELSE {})
  /\ pc \in Retiring => track \in Ended
  /\ pc \in Armed \cup {"start", "install"} => nowPlaying = track
  /\ pc \in Armed /\ track \in cancelled => track \in skipFor
  /\ pc \in {"countSkip", "sendEnd"} /\ wasSkipped => track \in skipFor

SkipInv == TokenOwner /\ SkippedOnRequest

USE DEF Armed, Unarmed, Retiring, Holding, Idling

\* The handlers other than skip touch neither tokens nor end events.
LEMMA SkipFrame ==
  ASSUME SkipInv,
         UNCHANGED <<pc, track, wasSkipped, skipToken, cancelled, nowPlaying,
                     ended, skipFor>>
  PROVE  SkipInv'
<1>1. Ended' = Ended /\ Dead' = Dead
  BY DEF Ended, Dead
<1> QED
  BY <1>1 DEF SkipInv, TokenOwner, SkippedOnRequest

\* The end event says skipped only of a track whose own token was seen
\* cancelled in the select.
LEMMA EndKeepsSkip ==
  ASSUME TypeOK, SkipInv, SendTrackEnd
  PROVE  SkipInv'
<1> DEFINE e == [track |-> track, skipped |-> wasSkipped]
<1>1. ended \in Seq(EndEntry) /\ DOMAIN ended = 1..Len(ended) /\ Len(ended) \in Nat
  BY DEF TypeOK, PlayerTypeOK
<1>2. /\ pc = "sendEnd" /\ ended' = Append(ended, e) /\ pc' = "count" /\ track' = track
      /\ UNCHANGED <<skipToken, cancelled, nowPlaying, skipFor>>
  BY DEF SendTrackEnd, Goto, shared, ghosts
<1>3. /\ DOMAIN ended' = 1..(Len(ended) + 1)
      /\ \A i \in 1..Len(ended) : ended'[i] = ended[i]
      /\ ended'[Len(ended) + 1] = e
  BY <1>1, <1>2
<1>4. Ended' = Ended \cup {track}
  BY <1>1, <1>3 DEF Ended
<1>5. TokenOwner'
  BY <1>2, <1>4 DEF SkipInv, TokenOwner, Dead
<1>6. SkippedOnRequest'
  <2>1. e.skipped => e.track \in skipFor
    BY <1>2 DEF SkipInv, TokenOwner
  <2>2. \A i \in 1..Len(ended) : ended[i].skipped => ended[i].track \in skipFor
    BY <1>1 DEF SkipInv, SkippedOnRequest
  <2> HIDE DEF e
  <2>3. \A i \in 1..(Len(ended) + 1) : i \in 1..Len(ended) \/ i = Len(ended) + 1
    BY <1>1
  <2> QED
    BY <1>2, <1>3, <2>1, <2>2, <2>3 DEF SkippedOnRequest
<1> QED
  BY <1>5, <1>6 DEF SkipInv

\* The player hands the token on: its owner is always dead or on air.
LEMMA PlayerKeepsSkip ==
  ASSUME TypeOK, NoTrackTwice, SkipInv, RunPlayer
  PROVE  SkipInv'
<1> USE DEF Goto, shared, events, locals, ghosts
<1>1. ASSUME UNCHANGED <<ended, skipFor>>, TokenOwner'
      PROVE  SkipInv'
  BY <1>1 DEF SkipInv, SkippedOnRequest
<1>2. UNCHANGED ended => Dead' = Dead /\ Ended' = Ended
  BY DEF Dead, Ended
<1>3. CASE CheckShutdown \/ PopFront \/ PopNone \/ ZeroGauge \/ WakeUp
  BY <1>1, <1>2, <1>3 DEF CheckShutdown, PopFront, PopNone, ZeroGauge, WakeUp,
     SkipInv, TokenOwner
<1>4. CASE SyncGauge \/ SetNowPlaying \/ SendTrackStarted
  BY <1>1, <1>2, <1>4 DEF SyncGauge, SetNowPlaying, SendTrackStarted, SkipInv, TokenOwner
<1>5. CASE InstallToken
  <2>1. track \notin Dead
    BY <1>5 DEF InstallToken, TypeOK, PlayerTypeOK, Dead, NoTrackTwice, OnAir,
       NoTrack, Tracks
  <2> QED
    BY <1>1, <1>2, <1>5, <2>1 DEF InstallToken, SkipInv, TokenOwner
<1>6. CASE OpenFile \/ ReadChunk \/ SendChunk
  BY <1>1, <1>2, <1>6 DEF OpenFile, ReadChunk, SendChunk, SkipInv, TokenOwner
<1>7. CASE OpenFails \/ SkipBranch \/ ShutdownBranch \/ EndOfFile \/ SendFails
  <2>1. ASSUME NEW skip \in BOOLEAN, StreamReturns(skip),
               pc \in {"open", "stream", "send"}, skip => track \in cancelled
        PROVE  SkipInv'
    BY <1>1, <1>2, <2>1 DEF StreamReturns, SkipInv, TokenOwner
  <2> QED
    BY <1>7, <2>1 DEF OpenFails, SkipBranch, ShutdownBranch, EndOfFile, SendFails
<1>8. CASE CountSkipped \/ CountPlayed \/ RecordHistory \/ ClearNowPlaying
  BY <1>1, <1>2, <1>8 DEF CountSkipped, CountPlayed, RecordHistory, ClearNowPlaying,
     SkipInv, TokenOwner, Dead
<1> QED
  BY <1>3, <1>4, <1>5, <1>6, <1>7, <1>8, EndKeepsSkip DEF RunPlayer, StreamFile

\* skip() itself remembers what was playing; the handlers change nothing here.
LEMMA SkipNext ==
  ASSUME TypeOK, NoTrackTwice, SkipInv, [Next]_vars
  PROVE  SkipInv'
<1> USE DEF events, locals, ghosts, shared
<1>1. CASE PlayerStep
  BY <1>1, PlayerKeepsSkip DEF PlayerStep
<1>2. CASE SkipTrack
  <2>1. /\ cancelled' = cancelled \cup {skipToken} /\ skipFor \subseteq skipFor'
        /\ nowPlaying # NoTrack => nowPlaying \in skipFor'
        /\ UNCHANGED <<pc, track, skipToken, nowPlaying, ended>>
    BY <1>2 DEF SkipTrack, Skip
  <2>2. Ended' = Ended /\ Dead' = Dead
    BY <2>1 DEF Ended, Dead
  <2>3. pc \in Armed => track # NoTrack
    BY DEF TypeOK, PlayerTypeOK, NoTrack, Tracks
  <2> QED
    BY <2>1, <2>2, <2>3 DEF SkipInv, TokenOwner, SkippedOnRequest
<1>3. ASSUME UNCHANGED playerOnly
      PROVE  SkipInv'
  BY <1>3, SkipFrame DEF playerOnly
<1>4. ASSUME UNCHANGED playerVars
      PROVE  SkipInv'
  BY <1>4, SkipFrame DEF playerVars
<1>5. CASE ShuffleQueue \/ RemoveTrack \/ MoveTrack \/ ClearQueue
  BY <1>3, <1>5 DEF ShuffleQueue, RemoveTrack, MoveTrack, ClearQueue
<1>6. ASSUME NEW c \in Clients, Handler(c)
      PROVE  SkipInv'
  BY <1>3, <1>4, <1>6 DEF Handler, AddTrack, AddTrackNext, StartAdd, Finish,
     PushTrack, PushTrackNext, Push, SendQueueChanged, BulkAccept, BulkRefuse,
     BulkPush, BulkGauge, DropRequest, AddTracksBulk
<1>7. CASE Environment
  BY <1>7, SkipFrame DEF Environment, CancelShutdown, MuxStops
<1>8. CASE UNCHANGED vars
  BY <1>4, <1>8 DEF vars
<1> QED
  BY <1>1, <1>2, <1>5, <1>6, <1>7, <1>8 DEF Next, Handlers

\* A skip never ends a track that was not playing when it was requested.
THEOREM SkipsAreRequested == Spec => []SkippedOnRequest
<1> DEFINE Inv == TypeOK /\ NoTrackTwice /\ SkipInv
<1>1. Init => Inv
  <2>1. Init => SkipInv
    BY DEF Init, PlayerInit, SkipInv, TokenOwner, SkippedOnRequest, Dead
  <2> QED
    BY <2>1, TracksInit
<1>2. Inv /\ [Next]_vars => Inv'
  BY TracksNext, SkipNext
<1>3. Inv => SkippedOnRequest
  BY DEF SkipInv
<1> QED
  BY <1>1, <1>2, <1>3, PTL DEF Spec
-----------------------------------------------------------------------------
(***************************************************************************)
(* The events, the history and the counters tell one story: from its start *)
(* event to its end event the track that is held is the last one started,  *)
(* and from its end event until it is recorded the last one that ended.    *)
(***************************************************************************)

\* The track that is held has been announced, and has no end event yet.
Open == pc \in {"install", "open", "stream", "send", "countSkip", "sendEnd"}

\* The skip of the track in hand is counted before its end event is sent.
Ahead == IF pc = "sendEnd" /\ wasSkipped THEN 1 ELSE 0

\* The end events whose track is in the history, and how many are kept there.
Recorded == Len(ended) - (IF pc \in {"count", "record"} THEN 1 ELSE 0)
KeptOf(n) == IF n < HistMax THEN n ELSE HistMax
Skipped  == {i \in DOMAIN ended : ended[i].skipped}

RecordInv ==
  /\ Len(started) = Len(ended) + (IF Open THEN 1 ELSE 0)
  /\ \A i \in 1..Len(ended) : ended[i].track = started[i]
  /\ Open => started[Len(ended) + 1] = track
  /\ pc \in {"count", "record"} =>
       Len(ended) > 0 /\ ended[Len(ended)] = [track |-> track, skipped |-> wasSkipped]
  /\ tracksPlayed = Len(ended) - (IF pc = "count" THEN 1 ELSE 0)
  /\ pc = "countSkip" => wasSkipped
  /\ IsFiniteSet(Skipped) /\ tracksSkipped = Cardinality(Skipped) + Ahead
  /\ Len(history) = KeptOf(Recorded)
  /\ \A i \in 1..Len(history) : history[i] = ended[Recorded - Len(history) + i]

\* The handlers touch neither the events nor the records.
LEMMA RecordFrame ==
  ASSUME RecordInv, UNCHANGED <<pc, track, wasSkipped, events, records>>
  PROVE  RecordInv'
<1>1. /\ Open' = Open /\ Recorded' = Recorded /\ Skipped' = Skipped
      /\ KeptOf(Recorded)' = KeptOf(Recorded) /\ Ahead' = Ahead
  BY DEF Open, Recorded, Skipped, KeptOf, Ahead, events
<1> QED
  BY <1>1 DEF RecordInv, events, records

\* An end event is about the track that was announced last.
LEMMA EndKeepsRecords ==
  ASSUME TypeOK, RecordInv, SendTrackEnd
  PROVE  RecordInv'
<1> DEFINE e == [track |-> track, skipped |-> wasSkipped]
           n == Len(ended)
<1>1. /\ ended \in Seq(EndEntry) /\ DOMAIN ended = 1..n /\ n \in Nat
      /\ started \in Seq(Tracks) /\ history \in Seq(EndEntry)
  BY DEF TypeOK, PlayerTypeOK
<1>2. /\ ended' = Append(ended, e) /\ pc = "sendEnd" /\ pc' = "count"
      /\ UNCHANGED <<track, wasSkipped, started, history, tracksPlayed, tracksSkipped>>
  BY DEF SendTrackEnd, Goto, records
<1>3. /\ DOMAIN ended' = 1..(n + 1) /\ Len(ended') = n + 1
      /\ \A i \in 1..n : ended'[i] = ended[i]
      /\ ended'[n + 1] = e
  BY <1>1, <1>2
<1>4. Open /\ ~Open' /\ Recorded = n /\ Recorded' = n
  <2>1. Open /\ ~Open'
    BY <1>2 DEF Open
  <2>2. Recorded = n
    <3>1. Recorded = n - 0
      BY <1>2 DEF Recorded
    <3> QED
      BY <1>1, <3>1
  <2>3. Recorded' = Len(ended') - 1
    BY <1>2 DEF Recorded
  <2> QED
    BY <1>1, <1>3, <2>1, <2>2, <2>3
<1>5. e.track = track /\ e.skipped = wasSkipped
  OBVIOUS
<1> HIDE DEF e
<1>6. IsFiniteSet(Skipped)' /\ (tracksSkipped = Cardinality(Skipped))'
  <2>1. /\ IsFiniteSet(Skipped)
        /\ tracksSkipped = Cardinality(Skipped) + (IF wasSkipped THEN 1 ELSE 0)
    BY <1>2 DEF RecordInv, Ahead
  <2>0. n + 1 \notin Skipped
    BY <1>1 DEF Skipped
  <2>2. CASE wasSkipped
    <3>1. Skipped' = Skipped \cup {n + 1}
      <4>1. ended'[n + 1].skipped
        BY <1>3, <1>5, <2>2
      <4>2. \A i \in 1..n : ended'[i].skipped <=> ended[i].skipped
        BY <1>3
      <4>3. 1..(n + 1) = 1..n \cup {n + 1}
        BY <1>1
      <4> QED
        BY <1>1, <1>3, <4>1, <4>2, <4>3 DEF Skipped
    <3>2. /\ IsFiniteSet(Skipped \cup {n + 1})
          /\ Cardinality(Skipped \cup {n + 1}) = Cardinality(Skipped) + 1
      BY <2>0, <2>1, FS_AddElement
    <3> QED
      BY <1>2, <2>1, <2>2, <3>1, <3>2
  <2>3. CASE ~wasSkipped
    <3>1. Skipped' = Skipped
      BY <1>1, <1>3, <1>5, <2>3 DEF Skipped
    <3> QED
      <4>1. Cardinality(Skipped) \in Nat
        BY <2>1, FS_CardinalityType
      <4> QED
        BY <1>2, <2>1, <2>3, <3>1, <4>1
  <2> QED
    BY <2>2, <2>3
<1>7. /\ Len(started) = n + 1 /\ started[n + 1] = track
      /\ \A i \in 1..n : ended[i].track = started[i]
      /\ tracksPlayed = n
  BY <1>4 DEF RecordInv, Open
<1>8. \A i \in 1..Len(ended') : ended'[i].track = started'[i]
  BY <1>1, <1>2, <1>3, <1>5, <1>7
<1>9. /\ Len(history') = KeptOf(n)
      /\ \A i \in 1..Len(history') : history'[i] = ended'[n - Len(history') + i]
  <2>1. /\ Len(history) = KeptOf(n) /\ Len(history) <= n /\ Len(history) \in Nat
        /\ \A i \in 1..Len(history) : history[i] = ended[n - Len(history) + i]
    <3>1. KeptOf(n) <= n
      BY <1>1, PlayerAssumption DEF KeptOf
    <3>2. Len(history) \in Nat
      BY <1>1
    <3> QED
      BY <1>4, <3>1, <3>2 DEF RecordInv
  <2>2. \A i \in 1..Len(history) : n - Len(history) + i \in 1..n
    BY <1>1, <2>1
  <2> QED
    BY <1>2, <1>3, <2>1, <2>2
<1>10. (tracksSkipped = Cardinality(Skipped) + Ahead)'
  <2>1. Cardinality(Skipped)' \in Nat
    BY <1>6, FS_CardinalityType
  <2> QED
    BY <1>2, <1>6, <2>1 DEF Ahead
<1> HIDE DEF e, n
<1> QED
  BY <1>2, <1>3, <1>4, <1>6, <1>7, <1>8, <1>9, <1>10 DEF RecordInv, KeptOf, e, n

\* The history takes the track that ended last, and drops its oldest entry
\* when it is full.
LEMMA HistoryStep ==
  ASSUME TypeOK, RecordInv, RecordHistory
  PROVE  RecordInv'
<1> DEFINE e == [track |-> track, skipped |-> wasSkipped]
           pushed == Append(history, e)
           excess == Len(pushed) - HistMax
           n == Len(ended)
           h == Len(history)
<1>1. /\ n \in Nat /\ h \in Nat /\ history \in Seq(EndEntry) /\ e \in EndEntry
      /\ HistMax \in Nat \ {0} /\ ended \in Seq(EndEntry)
  BY PlayerAssumption DEF TypeOK, PlayerTypeOK, RecordHistory, Goto, EndEntry
<1>2. /\ pc = "record" /\ pc' = "clear"
      /\ UNCHANGED <<started, ended, tracksPlayed, tracksSkipped, track, wasSkipped>>
      /\ history' = IF excess > 0 THEN SubSeq(pushed, excess + 1, Len(pushed)) ELSE pushed
  BY DEF RecordHistory, Goto, events
<1>3. /\ Recorded = n - 1 /\ Recorded' = n /\ ~Open /\ ~Open' /\ n > 0
      /\ ended[n] = e /\ h = KeptOf(n - 1)
      /\ \A i \in 1..h : history[i] = ended[n - 1 - h + i]
  BY <1>1, <1>2 DEF RecordInv, Recorded, Open
<1>4. /\ pushed \in Seq(EndEntry) /\ Len(pushed) = h + 1
      /\ \A i \in 1..h : pushed[i] = history[i]
      /\ pushed[h + 1] = e
  BY <1>1
<1> HIDE DEF e, pushed
<1>5. \A i \in 1..(h + 1) : pushed[i] = ended[n - 1 - h + i]
  <2>1. ASSUME NEW i \in 1..(h + 1)
        PROVE  pushed[i] = ended[n - 1 - h + i]
    <3>1. CASE i = h + 1
      <4>1. n - 1 - h + i = n
        BY <1>1, <3>1
      <4> QED
        BY <1>3, <1>4, <3>1, <4>1
    <3>2. CASE i # h + 1
      <4>1. i \in 1..h
        BY <1>1, <3>2
      <4> QED
        BY <1>3, <1>4, <4>1
    <3> QED
      BY <3>1, <3>2
  <2> QED
    BY <2>1
<1>6. /\ Len(history') = KeptOf(n)
      /\ \A i \in 1..Len(history') : history'[i] = ended[n - Len(history') + i]
  <2>1. CASE excess > 0
    <3>1. h = HistMax /\ excess = 1 /\ n > HistMax
      BY <1>1, <1>3, <1>4, <2>1 DEF KeptOf
    <3>2. history' = SubSeq(pushed, 2, h + 1)
      <4>1. excess + 1 = 2 /\ history' = SubSeq(pushed, excess + 1, Len(pushed))
        <5>1. history' = SubSeq(pushed, excess + 1, Len(pushed))
          BY <1>2, <2>1
        <5> HIDE DEF excess
        <5> QED
          BY <3>1, <5>1
      <4> QED
        BY <4>1, <1>4
    <3>3. Len(history') = h /\ \A i \in 1..h : history'[i] = pushed[i + 1]
      BY <1>1, <1>4, <3>2
    <3>4. \A i \in 1..h : pushed[i + 1] = ended[n - h + i]
      <4>1. ASSUME NEW i \in 1..h PROVE pushed[i + 1] = ended[n - h + i]
        <5>1. i + 1 \in 1..(h + 1) /\ n - 1 - h + (i + 1) = n - h + i
          BY <1>1
        <5> QED
          BY <1>5, <5>1
      <4> QED
        BY <4>1
    <3> QED
      BY <1>1, <3>1, <3>3, <3>4 DEF KeptOf
  <2>2. CASE ~(excess > 0)
    <3>1. h + 1 <= HistMax /\ h = n - 1
      BY <1>1, <1>3, <1>4, <2>2 DEF KeptOf
    <3>2. history' = pushed
      BY <1>2, <2>2
    <3> QED
      BY <1>1, <1>4, <1>5, <3>1, <3>2 DEF KeptOf
  <2> QED
    BY <2>1, <2>2
<1>7. Skipped' = Skipped /\ Ahead' = Ahead
  BY <1>2 DEF Skipped, Ahead
<1> HIDE DEF n, h
<1>8. tracksPlayed = n
  BY <1>2 DEF RecordInv, n
<1> QED
  BY <1>2, <1>3, <1>6, <1>7, <1>8 DEF RecordInv, n

\* One case per step of the player's loop.
LEMMA PlayerKeepsRecords ==
  ASSUME TypeOK, RecordInv, RunPlayer
  PROVE  RecordInv'
<1> USE DEF Goto
<1>0. /\ Len(ended) \in Nat /\ ended \in Seq(EndEntry) /\ started \in Seq(Tracks)
      /\ tracksPlayed \in Nat
  BY DEF TypeOK, PlayerTypeOK
<1>1. ASSUME UNCHANGED <<events, records, wasSkipped>>, ~Open, ~Open',
             pc \notin {"count", "record"}, pc' \notin {"count", "record"}
      PROVE  RecordInv'
  <2>1. Recorded' = Recorded /\ Skipped' = Skipped /\ Ahead' = Ahead
    BY <1>1 DEF Recorded, Skipped, Ahead, Open, events
  <2> QED
    BY <1>1, <2>1 DEF RecordInv, KeptOf, Open, events, records
<1>2. CASE CheckShutdown \/ PopFront \/ PopNone \/ ZeroGauge \/ WakeUp
  BY <1>1, <1>2 DEF CheckShutdown, PopFront, PopNone, ZeroGauge, WakeUp, Open
<1>3. CASE SyncGauge \/ SetNowPlaying \/ ClearNowPlaying
  <2>1. CASE SyncGauge \/ SetNowPlaying
    BY <1>1, <2>1 DEF SyncGauge, SetNowPlaying, Open
  <2>2. CASE ClearNowPlaying
    <3>1. /\ Recorded' = Recorded /\ Skipped' = Skipped /\ ~Open /\ ~Open'
          /\ Ahead' = Ahead
          /\ UNCHANGED <<events, records>> /\ pc = "clear" /\ pc' = "top"
      BY <2>2 DEF ClearNowPlaying, Recorded, Skipped, Ahead, events, Open
    <3> QED
      BY <3>1 DEF RecordInv, KeptOf, events, records
  <2> QED
    BY <1>3, <2>1, <2>2
<1>4. CASE SendTrackStarted
  <2>1. /\ started' = Append(started, track) /\ track \in Tracks
        /\ pc = "start" /\ pc' = "install"
        /\ UNCHANGED <<ended, records, track, wasSkipped>>
    BY <1>4 DEF SendTrackStarted, TypeOK, PlayerTypeOK
  <2>2. ~Open /\ Open' /\ Recorded' = Recorded /\ Skipped' = Skipped /\ Ahead' = Ahead
    BY <2>1 DEF Open, Recorded, Skipped, Ahead
  <2>3. /\ Len(started) = Len(ended) /\ Len(started') = Len(ended) + 1
        /\ \A i \in 1..Len(ended) : started'[i] = started[i]
        /\ started'[Len(ended) + 1] = track
    BY <1>0, <2>1, <2>2 DEF RecordInv
  <2> QED
    BY <2>1, <2>2, <2>3 DEF RecordInv, KeptOf, records
<1>5. CASE InstallToken \/ OpenFile \/ ReadChunk \/ SendChunk
  <2>1. /\ UNCHANGED <<events, records, track, wasSkipped>>
        /\ pc \in {"install", "open", "stream", "send"}
        /\ pc' \in {"install", "open", "stream", "send"}
    BY <1>5 DEF InstallToken, OpenFile, ReadChunk, SendChunk
  <2>2. Open /\ Open' /\ Recorded' = Recorded /\ Skipped' = Skipped /\ Ahead' = Ahead
    BY <2>1 DEF Open, Recorded, Skipped, Ahead, events
  <2> QED
    BY <2>1, <2>2 DEF RecordInv, KeptOf, events, records
<1>6. CASE OpenFails \/ SkipBranch \/ ShutdownBranch \/ EndOfFile \/ SendFails
  <2>1. PICK skip \in BOOLEAN : StreamReturns(skip) /\ pc \in {"open", "stream", "send"}
    BY <1>6 DEF OpenFails, SkipBranch, ShutdownBranch, EndOfFile, SendFails
  <2>2. /\ UNCHANGED <<events, records, track>>
        /\ pc' = (IF skip THEN "countSkip" ELSE "sendEnd") /\ wasSkipped' = skip
    BY <2>1 DEF StreamReturns
  <2>3. /\ Open /\ Open' /\ Recorded' = Recorded /\ Skipped' = Skipped
        /\ Ahead = 0 /\ Ahead' = 0 /\ pc' \notin {"count", "record"}
        /\ pc' = "countSkip" => wasSkipped'
    BY <2>1, <2>2 DEF Open, Recorded, Skipped, Ahead, events
  <2> QED
    BY <2>1, <2>2, <2>3 DEF RecordInv, KeptOf, events, records
<1>7. CASE CountPlayed
  <2>1. /\ pc = "count" /\ pc' = "record" /\ tracksPlayed' = tracksPlayed + 1
        /\ UNCHANGED <<events, history, tracksSkipped, track, wasSkipped>>
    BY <1>7 DEF CountPlayed
  <2>2. ~Open /\ ~Open' /\ Recorded' = Recorded /\ Skipped' = Skipped /\ Ahead' = Ahead
    BY <2>1 DEF Open, Recorded, Skipped, Ahead, events
  <2> QED
    BY <1>0, <2>1, <2>2 DEF RecordInv, KeptOf, events
<1>8. CASE RecordHistory
  BY <1>8, HistoryStep
<1>9. CASE CountSkipped
  <2>1. /\ pc = "countSkip" /\ pc' = "sendEnd" /\ tracksSkipped' = tracksSkipped + 1
        /\ UNCHANGED <<events, history, tracksPlayed, track, wasSkipped>>
    BY <1>9 DEF CountSkipped
  <2>2. Open /\ Open' /\ Recorded' = Recorded /\ Skipped' = Skipped
    BY <2>1 DEF Open, Recorded, Skipped, events
  <2>3. Ahead = 0 /\ Ahead' = 1
    BY <2>1 DEF Ahead, RecordInv
  <2>4. Cardinality(Skipped) \in Nat
    BY FS_CardinalityType DEF RecordInv
  <2> QED
    BY <1>0, <2>1, <2>2, <2>3, <2>4 DEF RecordInv, KeptOf, events
<1>10. CASE SendTrackEnd
  BY <1>10, EndKeepsRecords
<1> QED
  BY <1>2, <1>3, <1>4, <1>5, <1>6, <1>7, <1>8, <1>9, <1>10 DEF RunPlayer, StreamFile

LEMMA RecordNext ==
  ASSUME TypeOK, RecordInv, [Next]_vars
  PROVE  RecordInv'
<1> USE DEF locals, events, records
<1>1. CASE PlayerStep
  BY <1>1, PlayerKeepsRecords DEF PlayerStep
<1>2. ASSUME UNCHANGED playerOnly
      PROVE  RecordInv'
  BY <1>2, RecordFrame DEF playerOnly
<1>3. ASSUME UNCHANGED playerVars
      PROVE  RecordInv'
  BY <1>3, RecordFrame DEF playerVars
<1>4. CASE ShuffleQueue \/ RemoveTrack \/ MoveTrack \/ ClearQueue
  BY <1>2, <1>4 DEF ShuffleQueue, RemoveTrack, MoveTrack, ClearQueue
<1>5. ASSUME NEW c \in Clients, Handler(c)
      PROVE  RecordInv'
  BY <1>2, <1>3, <1>5 DEF Handler, AddTrack, AddTrackNext, StartAdd, Finish,
     PushTrack, PushTrackNext, Push, SendQueueChanged, BulkAccept, BulkRefuse,
     BulkPush, BulkGauge, DropRequest, AddTracksBulk
<1>6. CASE Environment \/ SkipTrack
  BY <1>6, RecordFrame DEF Environment, CancelShutdown, MuxStops, SkipTrack, Skip
<1>7. CASE UNCHANGED vars
  BY <1>3, <1>7 DEF vars
<1> QED
  BY <1>1, <1>4, <1>5, <1>6, <1>7 DEF Next, Handlers

\* The records invariant holds in every state.
LEMMA RecordsInvariant == Spec => [](TypeOK /\ RecordInv)
<1> DEFINE Inv == TypeOK /\ NoTrackTwice /\ RecordInv
<1>1. Init => Inv
  <2>1. Init => Skipped = {} /\ ~Open /\ Recorded = 0
    BY DEF Init, PlayerInit, Skipped, Open, Recorded
  <2>2. ASSUME Init
        PROVE  RecordInv
    <3>1. /\ Len(started) = 0 /\ Len(ended) = 0 /\ Len(history) = 0 /\ pc = "top"
          /\ tracksPlayed = 0 /\ tracksSkipped = 0
      BY <2>2 DEF Init, PlayerInit
    <3>2. IsFiniteSet(Skipped) /\ Cardinality(Skipped) = 0 /\ Ahead = 0
      BY <2>1, <2>2, <3>1, FS_EmptySet DEF Ahead
    <3>3. KeptOf(0) = 0
      BY PlayerAssumption DEF KeptOf
    <3> QED
      BY <2>1, <2>2, <3>1, <3>2, <3>3 DEF RecordInv
  <2> QED
    BY <2>2, TracksInit
<1>2. Inv /\ [Next]_vars => Inv'
  BY TracksNext, RecordNext
<1>3. Inv => TypeOK /\ RecordInv
  OBVIOUS
<1> QED
  BY <1>1, <1>2, <1>3, PTL DEF Spec

\* Start and end events come in pairs, in the same order.
THEOREM EventsArePaired == Spec => []EventsPaired
<1>1. ASSUME TypeOK, RecordInv
      PROVE  EventsPaired
  <2>1. DOMAIN ended = 1..Len(ended) /\ Open = (pc \in Holding \ (Retiring \cup {"gauge", "setNow", "start"}))
    BY <1>1 DEF TypeOK, PlayerTypeOK, Open
  <2> QED
    BY <1>1, <2>1 DEF RecordInv, EventsPaired
<1> QED
  BY <1>1, RecordsInvariant, PTL

\* The history is the last HistMax end events, and the counters count them,
\* up to the track in hand while its end is being recorded.
THEOREM RecordsTellOneStory == Spec => []RecordsAgree
<1>1. ASSUME TypeOK, RecordInv
      PROVE  RecordsAgree
  <2> DEFINE done == Recorded
             kept == KeptOf(done)
             last == SubSeq(ended, done - kept + 1, done)
  <2>1. /\ ended \in Seq(EndEntry) /\ Len(ended) \in Nat /\ history \in Seq(EndEntry)
        /\ HistMax \in Nat \ {0}
    BY <1>1, PlayerAssumption DEF TypeOK, PlayerTypeOK
  <2>2. done \in 0..Len(ended) /\ kept \in 0..done
    BY <1>1, <2>1 DEF RecordInv, Recorded, KeptOf
  <2>3. /\ Len(history) = kept
        /\ \A i \in 1..kept : history[i] = ended[done - kept + i]
    BY <1>1 DEF RecordInv
  <2> HIDE DEF done, kept
  <2>4. \A i \in (done - kept + 1)..done : ended[i] \in EndEntry
    BY <2>1, <2>2
  <2>5. /\ last \in Seq(EndEntry) /\ Len(last) = kept
        /\ \A i \in 1..kept : last[i] = ended[done - kept + i]
    BY <2>2, <2>4, SubSeqProperties
  <2>6. history = last
    BY <2>1, <2>3, <2>5, SeqEqual
  <2> QED
    BY <1>1, <2>6 DEF RecordInv, RecordsAgree, Skipped, Ahead, done, kept, Recorded, KeptOf
<1> QED
  BY <1>1, RecordsInvariant, PTL
=============================================================================
