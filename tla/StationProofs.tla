--------------------------- MODULE StationProofs ----------------------------
(***************************************************************************)
(* Proofs about the station, for any number of clients, tracks and history *)
(* entries: TypeOK, NoTrackTwice and NoTrackLost, and the playlist the     *)
(* station implements.  The first two are inductive together: an id below  *)
(* nextId is in at most one of four places, with a handler that has still  *)
(* to push it, in the queue, on air, or among the tracks that ended, and   *)
(* each action moves ids between places.  What the actions do to the queue *)
(* comes from DataProofs.                                                  *)
(***************************************************************************)
EXTENDS StationProperties, DataProofs

USE PlayerAssumption, StationAssumption DEF NoTrack, Tracks

\* A step of the player task keeps the types of what it touches.
LEMMA PlayerType ==
  ASSUME PlayerTypeOK, RunPlayer
  PROVE  PlayerTypeOK'
<1> USE DEF PlayerTypeOK, Idling, Holding, Goto, shared, events, records,
            outside, locals, ghosts
<1>1. CASE CheckShutdown
  BY <1>1 DEF CheckShutdown
<1>2. CASE PopFront
  <2>1. /\ Head(queue) \in Tracks /\ Tail(queue) \in Seq(Tracks)
    BY <1>2, PopFrontTakes DEF PopFront
  <2> QED
    BY <1>2, <2>1 DEF PopFront
<1>3. CASE PopNone
  BY <1>3 DEF PopNone
<1>4. CASE ZeroGauge
  BY <1>4 DEF ZeroGauge
<1>5. CASE WakeUp
  BY <1>5 DEF WakeUp
<1>6. CASE SyncGauge
  BY <1>6 DEF SyncGauge
<1>7. CASE SetNowPlaying
  BY <1>7 DEF SetNowPlaying
<1>8. CASE SendTrackStarted
  BY <1>8 DEF SendTrackStarted
<1>9. CASE InstallToken
  BY <1>9 DEF InstallToken
<1>10. CASE StreamFile
  <2>1. ASSUME NEW skip \in BOOLEAN, StreamReturns(skip), pc \in {"open", "stream", "send"}
        PROVE  PlayerTypeOK'
    BY <2>1 DEF StreamReturns
  <2>2. CASE OpenFile
    BY <2>2 DEF OpenFile
  <2>3. CASE ReadChunk
    BY <2>3 DEF ReadChunk
  <2>4. CASE SendChunk
    BY <2>4 DEF SendChunk
  <2>5. CASE OpenFails \/ SkipBranch \/ ShutdownBranch \/ EndOfFile \/ SendFails
    BY <2>1, <2>5 DEF OpenFails, SkipBranch, ShutdownBranch, EndOfFile, SendFails
  <2> QED
    BY <1>10, <2>2, <2>3, <2>4, <2>5 DEF StreamFile
<1>11. CASE CountPlayed
  BY <1>11 DEF CountPlayed
<1>12. CASE RecordHistory
  <2> DEFINE pushed == Append(history, [track |-> track, skipped |-> wasSkipped])
             excess == Len(pushed) - HistMax
  <2>1. pushed \in Seq(EndEntry)
    BY <1>12 DEF RecordHistory, EndEntry
  <2>2. history' = IF excess > 0 THEN SubSeq(pushed, excess + 1, Len(pushed))
                                 ELSE pushed
    BY <1>12 DEF RecordHistory
  <2> HIDE DEF pushed
  <2>3. history' \in Seq(EndEntry)
    BY <2>1, <2>2
  <2> QED
    BY <1>12, <2>3 DEF RecordHistory
<1>13. CASE ClearNowPlaying
  BY <1>13 DEF ClearNowPlaying
<1>14. CASE CountSkipped
  BY <1>14 DEF CountSkipped
<1>15. CASE SendTrackEnd
  <2>1. [track |-> track, skipped |-> wasSkipped] \in EndEntry
    BY <1>15 DEF SendTrackEnd, EndEntry
  <2> QED
    BY <1>15, <2>1 DEF SendTrackEnd
<1> QED
  BY <1>1, <1>2, <1>3, <1>4, <1>5, <1>6, <1>7, <1>8, <1>9, <1>10, <1>11,
     <1>12, <1>13, <1>14, <1>15 DEF RunPlayer

\* A handler disturbs the player's type only through the queue and the gauge.
LEMMA QueueFrame ==
  ASSUME PlayerTypeOK, UNCHANGED playerOnly, queue' \in Seq(Tracks), gauge' \in Nat
  PROVE  PlayerTypeOK'
BY DEF PlayerTypeOK, Idling, Holding, playerOnly, events, records, outside,
       locals, ghosts

\* A step that leaves every variable of the player alone keeps its types.
LEMMA PlayerFrame ==
  ASSUME PlayerTypeOK, UNCHANGED playerVars
  PROVE  PlayerTypeOK'
BY DEF PlayerTypeOK, Idling, Holding, playerVars, shared, events, records,
       outside, locals, ghosts

\* The type of what only the handlers touch, over one client's new record
LEMMA RequestType ==
  ASSUME ApiTypeOK, NEW c \in Clients, NEW r \in Request, req' = [req EXCEPT ![c] = r],
         nextId' \in 1..(MaxTracks + 1), announced' \in Nat
  PROVE  ApiTypeOK'
BY DEF ApiTypeOK

\* Every step of the station keeps the types: one case per action.
LEMMA StationType ==
  ASSUME TypeOK, IsInjective(queue), [Next]_vars
  PROVE  TypeOK'
<1> USE DEF TypeOK, ReqPc, Idle, Request
<1>1. CASE PlayerStep
  <2>1. PlayerTypeOK'
    BY <1>1, PlayerType DEF PlayerStep
  <2> QED
    BY <1>1, <2>1 DEF PlayerStep, apiVars, ApiTypeOK
<1>2. ASSUME NEW c \in Clients, NEW where \in {"pushBack", "pushFront"},
             StartAdd(c, where)
      PROVE  TypeOK'
  <2>1. PICK id \in Tracks :
          NewTrack(id) /\ req' = [req EXCEPT ![c].pc = where, ![c].id = id]
    BY <1>2 DEF StartAdd
  <2> DEFINE r == [req[c] EXCEPT !.pc = where, !.id = id]
  <2>2. req' = [req EXCEPT ![c] = r] /\ r \in Request
    BY <2>1 DEF ApiTypeOK
  <2>3. nextId' \in 1..(MaxTracks + 1) /\ announced' \in Nat
    BY <1>2, <2>1 DEF StartAdd, NewTrack, ApiTypeOK
  <2> HIDE DEF r
  <2>4. ApiTypeOK'
    BY <2>2, <2>3, RequestType
  <2> QED
    BY <1>2, <2>4, PlayerFrame DEF StartAdd
<1>3. ASSUME NEW c \in Clients, NEW from, NEW pushed \in Seq(Tracks),
             Push(c, from, pushed)
      PROVE  TypeOK'
  <2> DEFINE r == [req[c] EXCEPT !.pc = "announce", !.id = NoTrack]
  <2>1. req' = [req EXCEPT ![c] = r] /\ r \in Request
    BY <1>3 DEF Push, ApiTypeOK
  <2>2. nextId' \in 1..(MaxTracks + 1) /\ announced' \in Nat
    BY <1>3 DEF Push, ApiTypeOK
  <2> HIDE DEF r
  <2>3. ApiTypeOK'
    BY <2>1, <2>2, RequestType
  <2>4. PlayerTypeOK'
    BY <1>3, QueueFrame DEF Push
  <2> QED
    BY <2>3, <2>4
<1>4. ASSUME NEW c \in Clients, req' = [req EXCEPT ![c] = Idle],
             nextId' \in 1..(MaxTracks + 1), announced' \in Nat
      PROVE  ApiTypeOK'
  <2>1. Idle \in Request
    OBVIOUS
  <2> QED
    BY <1>4, <2>1, RequestType
<1>5. ASSUME NEW c \in Clients, SendQueueChanged(c) \/ DropRequest(c)
      PROVE  TypeOK'
  <2>1. Len(queue) \in Nat
    BY DEF PlayerTypeOK
  <2> QED
    BY <1>4, <1>5, <2>1, PlayerFrame DEF SendQueueChanged, DropRequest, ApiTypeOK
<1>6. ASSUME NEW c \in Clients, NEW n \in 0..MaxBulk, AddTracksBulk(c, n)
      PROVE  TypeOK'
  <2> DEFINE r == [req[c] EXCEPT !.pc = "bulk", !.left = n]
  <2>1. req' = [req EXCEPT ![c] = r] /\ r \in Request
    BY <1>6 DEF AddTracksBulk, ApiTypeOK
  <2>2. ApiTypeOK'
    BY <1>6, <2>1, RequestType DEF AddTracksBulk, ApiTypeOK
  <2> QED
    BY <1>6, <2>2, PlayerFrame DEF AddTracksBulk
<1>7. ASSUME NEW c \in Clients, BulkAccept(c)
      PROVE  TypeOK'
  <2>1. PICK id \in Tracks :
          /\ NewTrack(id)
          /\ req' = [req EXCEPT ![c].pc = "bulkPush", ![c].id = id, ![c].added = TRUE]
    BY <1>7 DEF BulkAccept
  <2> DEFINE r == [req[c] EXCEPT !.pc = "bulkPush", !.id = id, !.added = TRUE]
  <2>0. req[c] \in [pc : ReqPc, id : Tracks \cup {NoTrack}, left : 0..MaxBulk,
                    added : BOOLEAN]
        /\ req[c].left > 0
    BY <1>7 DEF ApiTypeOK, Request, BulkAccept
  <2>2. /\ req' = [req EXCEPT ![c] = r]
        /\ r \in [pc : ReqPc, id : Tracks \cup {NoTrack}, left : 0..MaxBulk, added : BOOLEAN]
        /\ r.id \in Tracks /\ r.left > 0 /\ r.added = TRUE
    <3>1. req' = [req EXCEPT ![c] = r]
      BY <2>1 DEF ApiTypeOK
    <3>2. r \in [pc : ReqPc, id : Tracks \cup {NoTrack}, left : 0..MaxBulk, added : BOOLEAN]
      BY <2>0, <2>1 DEF ReqPc
    <3>3. r.id \in Tracks /\ r.left > 0
      BY <2>0, <2>1
    <3>4. r.added = TRUE
      BY <2>0, <2>1
    <3> QED
      BY ONLY <3>1, <3>2, <3>3, <3>4
  <2> HIDE DEF r
  <2>3. nextId' \in 1..(MaxTracks + 1) /\ announced' \in Nat
    BY <1>7, <2>1 DEF BulkAccept, NewTrack, ApiTypeOK
  <2>4. r \in Request
    BY <2>2
  <2>5. ApiTypeOK'
    BY <2>2, <2>3, <2>4, RequestType
  <2> QED
    BY <1>7, <2>5, PlayerFrame DEF BulkAccept
<1>8. ASSUME NEW c \in Clients, BulkRefuse(c)
      PROVE  TypeOK'
  <2> DEFINE r == [req[c] EXCEPT !.left = @ - 1]
  <2>1. req' = [req EXCEPT ![c] = r] /\ r \in Request
    BY <1>8 DEF BulkRefuse, ApiTypeOK
  <2>2. ApiTypeOK'
    BY <1>8, <2>1, RequestType DEF BulkRefuse, ApiTypeOK
  <2> QED
    BY <1>8, <2>2, PlayerFrame DEF BulkRefuse
<1>9. ASSUME NEW c \in Clients, BulkPush(c)
      PROVE  TypeOK'
  <2>0. req[c].id \in Tracks
    BY <1>9 DEF BulkPush, ApiTypeOK
  <2>1. req[c].left - 1 \in 0..MaxBulk
    BY <1>9 DEF BulkPush, ApiTypeOK
  <2> DEFINE r == [req[c] EXCEPT !.pc = "bulk", !.id = NoTrack, !.left = @ - 1]
  <2>2. req' = [req EXCEPT ![c] = r] /\ r \in Request
    BY <1>9, <2>1 DEF BulkPush, ApiTypeOK
  <2>3. ApiTypeOK'
    BY <1>9, <2>2, RequestType DEF BulkPush, ApiTypeOK
  <2>4. queue' \in Seq(Tracks) /\ gauge' \in Nat
    BY <1>9, <2>0, PushBackAdds DEF BulkPush, PlayerTypeOK
  <2> QED
    BY <1>9, <2>3, <2>4, QueueFrame DEF BulkPush
<1>10. ASSUME NEW c \in Clients, BulkGauge(c)
       PROVE  TypeOK'
  <2> DEFINE r == IF req[c].added THEN [req[c] EXCEPT !.pc = "bulkAnnounce"] ELSE Idle
  <2>1. req' = [req EXCEPT ![c] = r] /\ r \in Request
    BY <1>10 DEF BulkGauge, ApiTypeOK
  <2>2. nextId' \in 1..(MaxTracks + 1) /\ announced' \in Nat
    BY <1>10 DEF BulkGauge, ApiTypeOK
  <2> HIDE DEF r
  <2>3. ApiTypeOK'
    BY <2>1, <2>2, RequestType
  <2>4. queue' \in Seq(Tracks) /\ gauge' \in Nat
    BY <1>10 DEF BulkGauge, PlayerTypeOK
  <2> QED
    BY <1>10, <2>3, <2>4, QueueFrame DEF BulkGauge
<1>11. ASSUME NEW c \in Clients, PushTrack(c) \/ PushTrackNext(c)
       PROVE  TypeOK'
  <2>1. req[c].id \in Tracks
    BY <1>11 DEF PushTrack, PushTrackNext, Push, ApiTypeOK
  <2>2. /\ PushBack(queue, req[c].id) \in Seq(Tracks)
        /\ PushFront(queue, req[c].id) \in Seq(Tracks)
    BY <2>1, PushBackAdds, PushFrontAdds DEF PlayerTypeOK
  <2> QED
    BY <1>3, <1>11, <2>2 DEF PushTrack, PushTrackNext
<1>12. ASSUME NEW c \in Clients, Handler(c)
       PROVE  TypeOK'
  BY <1>2, <1>5, <1>6, <1>7, <1>8, <1>9, <1>10, <1>11, <1>12
  DEF Handler, AddTrack, AddTrackNext, Finish
<1>13. ASSUME UNCHANGED <<playerOnly, req, nextId>>, queue' \in Seq(Tracks),
              gauge' \in Nat, announced' \in Nat
       PROVE  TypeOK'
  BY <1>13, QueueFrame DEF ApiTypeOK
<1>14. CASE ShuffleQueue
  <2>1. PICK q \in Shuffles(queue) : queue' = q
    BY <1>14 DEF ShuffleQueue
  <2>2. queue' \in Seq(Tracks) /\ Len(queue') \in Nat
    BY <2>1, ShuffleKeeps DEF PlayerTypeOK
  <2> QED
    BY <1>13, <1>14, <2>2 DEF ShuffleQueue, PlayerTypeOK
<1>15. CASE RemoveTrack
  <2>1. PICK id \in ToSet(queue) : queue' = RemoveId(queue, id)
    BY <1>15 DEF RemoveTrack
  <2>2. queue' \in Seq(Tracks) /\ Len(queue') \in Nat
    BY <2>1, RemoveIdTakes DEF PlayerTypeOK
  <2> QED
    BY <1>13, <1>15, <2>2 DEF RemoveTrack
<1>16. CASE MoveTrack
  <2>1. PICK id \in ToSet(queue), position \in 0..Len(queue) :
          queue' = MoveTo(queue, id, position)
    BY <1>16 DEF MoveTrack
  <2>2. queue \in Seq(Tracks) /\ position \in Nat
    BY DEF PlayerTypeOK
  <2>3. queue' \in Seq(Tracks) /\ Len(queue') \in Nat
    BY <2>1, <2>2, MoveToKeeps
  <2> QED
    BY <1>13, <1>16, <2>3 DEF MoveTrack, PlayerTypeOK
<1>17. CASE ClearQueue
  BY <1>13, <1>17 DEF ClearQueue
<1>18. CASE SkipTrack
  <2>1. PlayerTypeOK'
    BY <1>18 DEF SkipTrack, Skip, PlayerTypeOK, Idling, Holding, events,
                 records, outside, locals
  <2> QED
    BY <1>18, <2>1 DEF SkipTrack, apiVars, ApiTypeOK
<1>19. CASE Environment
  <2>1. PlayerTypeOK'
    BY <1>19 DEF Environment, CancelShutdown, MuxStops, PlayerTypeOK, Idling,
                 Holding, shared, events, records, locals, ghosts
  <2> QED
    BY <1>19, <2>1 DEF Environment, apiVars, ApiTypeOK
<1>20. CASE UNCHANGED vars
  <2>1. ApiTypeOK'
    BY <1>20 DEF vars, apiVars, ApiTypeOK
  <2> QED
    BY <1>20, <2>1, PlayerFrame DEF vars
<1> QED
  BY <1>1, <1>12, <1>14, <1>15, <1>16, <1>17, <1>18, <1>19, <1>20
  DEF Next, Handlers

-----------------------------------------------------------------------------
\* A step that leaves the requests alone and moves no track keeps NoTrackTwice.
LEMMA TracksStay ==
  ASSUME NoTrackTwice, UNCHANGED <<req, nextId, ended>>, IsInjective(queue'),
         ToSet(queue') \subseteq ToSet(queue), OnAir' \subseteq OnAir
  PROVE  NoTrackTwice'
<1>1. Pending' = Pending /\ Ended' = Ended
  BY DEF Pending, Pushing, Ended
<1>2. \A c \in Clients : Pushing(c)' = Pushing(c)
  BY DEF Pushing
<1> QED
  BY <1>1, <1>2 DEF NoTrackTwice

\* The player moves a track from the queue on air, and from there to the
\* tracks that ended.
LEMMA PlayerKeepsTracks ==
  ASSUME TypeOK, NoTrackTwice, PlayerStep
  PROVE  NoTrackTwice'
<1> USE DEF Holding, Retiring, Idling, Goto, shared, events, locals
<1>0. UNCHANGED <<req, nextId>> /\ queue \in Seq(Tracks)
  BY DEF PlayerStep, apiVars, TypeOK, PlayerTypeOK
<1>1. CASE PopFront
  <2>1. UNCHANGED ended /\ queue' = Tail(queue) /\ OnAir' = {Head(queue)} /\ queue # <<>>
    BY <1>1 DEF PopFront, OnAir
  <2>2. /\ IsInjective(queue') /\ ToSet(queue') \subseteq ToSet(queue)
        /\ Head(queue) \in ToSet(queue) /\ Head(queue) \notin ToSet(queue')
    BY <1>0, <2>1, PopFrontTakes DEF NoTrackTwice
  <2>3. Pending' = Pending /\ Ended' = Ended
    BY <1>0, <2>1 DEF Pending, Pushing, Ended
  <2>4. \A c \in Clients : Pushing(c)' = Pushing(c)
    BY <1>0 DEF Pushing
  <2> QED
    BY <1>0, <2>1, <2>2, <2>3, <2>4 DEF NoTrackTwice
<1>2. CASE SendTrackEnd
  <2> DEFINE e == [track |-> track, skipped |-> wasSkipped]
  <2>1. /\ UNCHANGED queue /\ OnAir = {track} /\ OnAir' = {}
        /\ ended' = Append(ended, e)
    BY <1>2 DEF SendTrackEnd, OnAir
  <2>2. ended \in Seq(EndEntry) /\ Len(ended) \in Nat /\ DOMAIN ended = 1..Len(ended)
    BY DEF TypeOK, PlayerTypeOK
  <2>3. /\ DOMAIN ended' = 1..(Len(ended) + 1)
        /\ \A i \in 1..Len(ended) : ended'[i] = ended[i]
        /\ ended'[Len(ended) + 1] = e
    BY <2>1, <2>2
  <2>4. \A i \in 1..Len(ended) : ended[i].track \in Ended
    BY <2>2 DEF Ended
  <2>5. track \notin Ended
    BY <2>1 DEF NoTrackTwice
  <2>6. ASSUME NEW i \in DOMAIN ended', NEW j \in DOMAIN ended',
               ended'[i].track = ended'[j].track
        PROVE  i = j
    <3>1. e.track = track
      OBVIOUS
    <3> HIDE DEF e
    <3>2. \A k, l \in 1..Len(ended) : ended[k].track = ended[l].track => k = l
      BY <2>2 DEF NoTrackTwice
    <3> QED
      BY <2>2, <2>3, <2>4, <2>5, <2>6, <3>1, <3>2
  <2>7. Ended' = Ended \cup {track}
    BY <2>2, <2>3 DEF Ended
  <2>8. Pending' = Pending /\ (\A c \in Clients : Pushing(c)' = Pushing(c))
    BY <1>0 DEF Pending, Pushing
  <2> QED
    BY <1>0, <2>1, <2>5, <2>6, <2>7, <2>8 DEF NoTrackTwice
<1>3. ASSUME UNCHANGED <<queue, ended>>, OnAir' = OnAir
      PROVE  NoTrackTwice'
  BY <1>0, <1>3, TracksStay DEF NoTrackTwice
<1>4. CASE OpenFails \/ SkipBranch \/ ShutdownBranch \/ EndOfFile \/ SendFails
  BY <1>3, <1>4 DEF OpenFails, SkipBranch, ShutdownBranch, EndOfFile, SendFails,
     StreamReturns, OnAir
<1>5. CASE CheckShutdown \/ PopNone \/ ZeroGauge \/ WakeUp
  BY <1>3, <1>5 DEF CheckShutdown, PopNone, ZeroGauge, WakeUp, OnAir
<1>6. CASE SyncGauge \/ SetNowPlaying \/ SendTrackStarted \/ InstallToken
  BY <1>3, <1>6 DEF SyncGauge, SetNowPlaying, SendTrackStarted, InstallToken, OnAir
<1>7. CASE OpenFile \/ ReadChunk \/ SendChunk
  BY <1>3, <1>7 DEF OpenFile, ReadChunk, SendChunk, OnAir
<1>8. CASE CountSkipped \/ CountPlayed \/ RecordHistory \/ ClearNowPlaying
  BY <1>3, <1>8 DEF CountSkipped, CountPlayed, RecordHistory, ClearNowPlaying, OnAir
<1> QED
  BY <1>1, <1>2, <1>4, <1>5, <1>6, <1>7, <1>8 DEF PlayerStep, RunPlayer, StreamFile

\* A handler takes a fresh id, pushes it or drops it; the others rearrange
\* the queue or take tracks from it.
LEMMA HandlersKeepTracks ==
  ASSUME TypeOK, NoTrackTwice, Handlers
  PROVE  NoTrackTwice'
<1>0. /\ queue \in Seq(Tracks) /\ nextId \in Nat
      /\ \A c \in Clients : req[c] \in Request
      /\ DOMAIN req = Clients
  BY DEF TypeOK, PlayerTypeOK, ApiTypeOK
<1>1. ASSUME UNCHANGED playerVars
      PROVE  UNCHANGED <<queue, ended>> /\ OnAir' = OnAir /\ Ended' = Ended
  BY <1>1 DEF playerVars, shared, events, locals, OnAir, Ended
<1>2. ASSUME UNCHANGED playerOnly
      PROVE  UNCHANGED ended /\ OnAir' = OnAir /\ Ended' = Ended
  BY <1>2 DEF playerOnly, events, locals, OnAir, Ended
\* a handler takes an id
<1>3. ASSUME NEW c \in Clients, ~Pushing(c), NewTrack(nextId),
             UNCHANGED playerVars, Pushing(c)', req'[c].id = nextId,
             \A d \in Clients \ {c} : req'[d] = req[d]
      PROVE  NoTrackTwice'
  <2>1. Pending' = Pending \cup {nextId}
    BY <1>3 DEF Pending, Pushing
  <2>2. \A d \in Clients \ {c} : (Pushing(d)' <=> Pushing(d)) /\ req'[d].id = req[d].id
    BY <1>3 DEF Pushing
  <2>3. \A d \in Clients : Pushing(d) => req[d].id \in Pending
    BY DEF Pending
  <2>4. Pending \cup ToSet(queue) \cup OnAir \cup Ended \subseteq 1..(nextId - 1)
    BY DEF NoTrackTwice
  <2>5. /\ nextId' = nextId + 1 /\ nextId \notin 1..(nextId - 1)
        /\ 1..(nextId' - 1) = 1..(nextId - 1) \cup {nextId}
    BY <1>0, <1>3 DEF NewTrack
  <2>6. ASSUME NEW a \in Clients, NEW b \in Clients, Pushing(a)', Pushing(b)',
               req'[a].id = req'[b].id
        PROVE  a = b
    BY <1>3, <2>2, <2>3, <2>4, <2>5, <2>6 DEF NoTrackTwice
  <2>7. /\ Pending' \cap (ToSet(queue') \cup OnAir' \cup Ended') = {}
        /\ ToSet(queue') \cap (OnAir' \cup Ended') = {}
        /\ OnAir' \cap Ended' = {}
    BY <1>1, <1>3, <2>1, <2>4, <2>5 DEF NoTrackTwice
  <2>8. Pending' \cup ToSet(queue') \cup OnAir' \cup Ended' \subseteq 1..(nextId' - 1)
    BY <1>1, <1>3, <2>1, <2>4, <2>5
  <2> QED
    BY <1>1, <1>3, <2>6, <2>7, <2>8 DEF NoTrackTwice
\* it pushes the id it took
<1>4. ASSUME NEW c \in Clients, Pushing(c), ~Pushing(c)', UNCHANGED <<playerOnly, nextId>>,
             \A d \in Clients \ {c} : req'[d] = req[d],
             queue' \in {PushBack(queue, req[c].id), PushFront(queue, req[c].id)}
      PROVE  NoTrackTwice'
  <2>1. req[c].id \in Tracks
    BY <1>0, <1>4 DEF Request, Pushing
  <2>2. req[c].id \in Pending
    BY <1>4 DEF Pending
  <2>3. IsInjective(queue') /\ ToSet(queue') = ToSet(queue) \cup {req[c].id}
    <3> DEFINE id == req[c].id
    <3>1. id \in Tracks /\ id \notin ToSet(queue) /\ IsInjective(queue)
      BY <2>1, <2>2 DEF NoTrackTwice
    <3>2. queue' \in {PushBack(queue, id), PushFront(queue, id)}
      BY <1>4
    <3> HIDE DEF id
    <3>3. \A q \in {PushBack(queue, id), PushFront(queue, id)} :
            IsInjective(q) /\ ToSet(q) = ToSet(queue) \cup {id}
      <4>1. /\ IsInjective(PushBack(queue, id))
            /\ ToSet(PushBack(queue, id)) = ToSet(queue) \cup {id}
        BY <1>0, <3>1, PushBackAdds
      <4>2. /\ IsInjective(PushFront(queue, id))
            /\ ToSet(PushFront(queue, id)) = ToSet(queue) \cup {id}
        BY <1>0, <3>1, PushFrontAdds
      <4> QED
        BY <4>1, <4>2
    <3> QED
      BY <3>2, <3>3 DEF id
  <2>4. \A d \in Clients \ {c} : (Pushing(d)' <=> Pushing(d)) /\ req'[d].id = req[d].id
    BY <1>4 DEF Pushing
  <2>5. Pending' \subseteq Pending \ {req[c].id}
    BY <1>4, <2>4 DEF Pending, NoTrackTwice
  <2>6. \A a, b \in Clients :
          Pushing(a)' /\ Pushing(b)' /\ req'[a].id = req'[b].id => a = b
    BY <1>4, <2>4 DEF NoTrackTwice
  <2> QED
    BY <1>2, <1>4, <2>2, <2>3, <2>5, <2>6 DEF NoTrackTwice
\* no handler gains an id, and no track enters the queue
<1>5. ASSUME UNCHANGED <<playerOnly, nextId>>, IsInjective(queue'),
             ToSet(queue') \subseteq ToSet(queue),
             \A d \in Clients : Pushing(d)' => Pushing(d) /\ req'[d].id = req[d].id
      PROVE  NoTrackTwice'
  <2>1. Pending' \subseteq Pending
    BY <1>5 DEF Pending
  <2> QED
    BY <1>2, <1>5, <2>1 DEF NoTrackTwice
<1>6. ASSUME NEW c \in Clients, AddTrack(c) \/ AddTrackNext(c)
      PROVE  NoTrackTwice'
  <2>1. PICK where \in {"pushBack", "pushFront"} : StartAdd(c, where)
    BY <1>6 DEF AddTrack, AddTrackNext
  <2>2. /\ NewTrack(nextId) /\ req[c].pc = "idle"
        /\ req' = [req EXCEPT ![c].pc = where, ![c].id = nextId]
    BY <2>1 DEF StartAdd, NewTrack
  <2>3. req'[c].pc = where /\ req'[c].id = nextId
    BY <1>0, <2>2 DEF Request
  <2> QED
    BY <1>0, <1>3, <2>1, <2>2, <2>3 DEF StartAdd, Pushing
<1>7. ASSUME NEW c \in Clients, BulkAccept(c)
      PROVE  NoTrackTwice'
  <2>1. /\ NewTrack(nextId) /\ req[c].pc = "bulk"
        /\ req' = [req EXCEPT ![c].pc = "bulkPush", ![c].id = nextId, ![c].added = TRUE]
    BY <1>7 DEF BulkAccept, NewTrack
  <2>2. req'[c].pc = "bulkPush" /\ req'[c].id = nextId
    BY <1>0, <2>1 DEF Request
  <2> QED
    BY <1>0, <1>3, <1>7, <2>1, <2>2 DEF BulkAccept, Pushing
<1>8. ASSUME NEW c \in Clients, PushTrack(c) \/ PushTrackNext(c) \/ BulkPush(c)
      PROVE  NoTrackTwice'
  <2>1. req'[c].pc \in {"announce", "bulk"}
    BY <1>0, <1>8 DEF PushTrack, PushTrackNext, Push, BulkPush, Request
  <2>2. /\ Pushing(c) /\ UNCHANGED <<playerOnly, nextId>>
        /\ queue' \in {PushBack(queue, req[c].id), PushFront(queue, req[c].id)}
    BY <1>8 DEF PushTrack, PushTrackNext, Push, BulkPush, Pushing, playerOnly
  <2>3. \A d \in Clients \ {c} : req'[d] = req[d]
    BY <1>0, <1>8 DEF PushTrack, PushTrackNext, Push, BulkPush
  <2> QED
    BY <1>0, <1>4, <2>1, <2>2, <2>3 DEF Pushing, playerOnly
<1>9. ASSUME NEW c \in Clients, SendQueueChanged(c) \/ DropRequest(c)
      PROVE  NoTrackTwice'
  <2>1. UNCHANGED <<queue, playerOnly, nextId>> /\ req' = [req EXCEPT ![c] = Idle]
    BY <1>9 DEF SendQueueChanged, DropRequest, playerVars, shared, playerOnly
  <2>2. \A d \in Clients : Pushing(d)' => Pushing(d) /\ req'[d].id = req[d].id
    BY <1>0, <2>1 DEF Pushing, Idle
  <2> QED
    BY <1>5, <2>1, <2>2 DEF NoTrackTwice
<1>10. ASSUME NEW c \in Clients, NEW n \in 0..MaxBulk,
              AddTracksBulk(c, n) \/ BulkRefuse(c) \/ BulkGauge(c)
       PROVE  NoTrackTwice'
  <2>1. UNCHANGED <<queue, playerOnly, nextId>>
    BY <1>10 DEF AddTracksBulk, BulkRefuse, BulkGauge, playerVars, shared, playerOnly
  <2>2. req'[c].pc \in {"bulk", "bulkAnnounce", "idle"}
    BY <1>0, <1>10 DEF AddTracksBulk, BulkRefuse, BulkGauge, Request, Idle
  <2>3. \A d \in Clients \ {c} : req'[d] = req[d]
    BY <1>0, <1>10 DEF AddTracksBulk, BulkRefuse, BulkGauge
  <2>4. \A d \in Clients : Pushing(d)' => Pushing(d) /\ req'[d].id = req[d].id
    BY <2>2, <2>3 DEF Pushing
  <2> QED
    BY <1>5, <2>1, <2>4 DEF NoTrackTwice
<1>11. ASSUME UNCHANGED <<playerOnly, req, nextId>>, IsInjective(queue'),
              ToSet(queue') \subseteq ToSet(queue)
       PROVE  NoTrackTwice'
  BY <1>5, <1>11 DEF Pushing
<1>12. CASE ShuffleQueue
  <2>1. PICK q \in Shuffles(queue) : queue' = q
    BY <1>12 DEF ShuffleQueue
  <2>2. IsInjective(queue') /\ ToSet(queue') = ToSet(queue)
    BY <1>0, <2>1, ShuffleKeeps DEF NoTrackTwice
  <2> QED
    BY <1>11, <1>12, <2>2 DEF ShuffleQueue
<1>13. CASE RemoveTrack
  <2>1. PICK id \in ToSet(queue) : queue' = RemoveId(queue, id)
    BY <1>13 DEF RemoveTrack
  <2>2. IsInjective(queue') /\ ToSet(queue') \subseteq ToSet(queue)
    BY <1>0, <2>1, RemoveIdTakes DEF NoTrackTwice
  <2> QED
    BY <1>11, <1>13, <2>2 DEF RemoveTrack
<1>14. CASE MoveTrack
  <2>1. PICK id \in ToSet(queue), position \in 0..Len(queue) :
          queue' = MoveTo(queue, id, position)
    BY <1>14 DEF MoveTrack
  <2>2. position \in Nat
    BY <1>0
  <2>3. IsInjective(queue') /\ ToSet(queue') = ToSet(queue)
    BY <1>0, <2>1, <2>2, MoveToKeeps DEF NoTrackTwice
  <2> QED
    BY <1>11, <1>14, <2>3 DEF MoveTrack
<1>15. CASE ClearQueue
  BY <1>11, <1>15 DEF ClearQueue, ToSet, IsInjective
<1>16. CASE SkipTrack
  <2>1. UNCHANGED <<queue, req, nextId, ended>> /\ OnAir' = OnAir
    BY <1>16 DEF SkipTrack, Skip, apiVars, events, locals, OnAir
  <2> QED
    BY <2>1, TracksStay DEF NoTrackTwice
<1> QED
  BY <1>6, <1>7, <1>8, <1>9, <1>10, <1>12, <1>13, <1>14, <1>15, <1>16
  DEF Handlers, Handler, Finish

-----------------------------------------------------------------------------
\* No id has been handed out.
LEMMA TracksInit == Init => TypeOK /\ NoTrackTwice
<1> SUFFICES ASSUME Init
             PROVE  TypeOK /\ NoTrackTwice
  OBVIOUS
<1>1. PlayerTypeOK
  <2>1. <<>> \in Seq(Tracks) /\ <<>> \in Seq(EndEntry)
    OBVIOUS
  <2>2. shutdown \in BOOLEAN /\ muxOpen \in BOOLEAN /\ wasSkipped \in BOOLEAN
    BY DEF Init, PlayerInit
  <2> QED
    BY <2>1, <2>2 DEF Init, PlayerInit, PlayerTypeOK, Idling, Holding
<1>2. ApiTypeOK
  <2>1. Idle \in Request
    BY DEF Idle, Request, ReqPc
  <2> QED
    BY <2>1 DEF Init, ApiTypeOK
<1>3. queue = <<>> /\ ended = <<>> /\ OnAir = {} /\ \A c \in Clients : ~Pushing(c)
  BY DEF Init, PlayerInit, OnAir, Holding, Pushing, Idle
<1>4. ToSet(queue) = {} /\ Ended = {} /\ Pending = {} /\ IsInjective(queue)
  BY <1>3 DEF ToSet, Ended, Pending, IsInjective
<1> QED
  BY <1>1, <1>2, <1>3, <1>4 DEF TypeOK, NoTrackTwice

\* Types and places are kept together by the player, the handlers and ctrl-c.
LEMMA TracksNext == TypeOK /\ NoTrackTwice /\ [Next]_vars => TypeOK' /\ NoTrackTwice'
<1> SUFFICES ASSUME TypeOK, NoTrackTwice, [Next]_vars
             PROVE  TypeOK' /\ NoTrackTwice'
  OBVIOUS
<1>1. TypeOK'
  BY StationType DEF NoTrackTwice
<1>2. ASSUME UNCHANGED <<queue, req, nextId, ended, pc, track>>
      PROVE  NoTrackTwice'
  BY <1>2, TracksStay DEF OnAir, NoTrackTwice
<1>3. CASE Environment
  BY <1>1, <1>2, <1>3 DEF Environment, CancelShutdown, MuxStops, apiVars, shared, events, locals
<1>4. CASE UNCHANGED vars
  BY <1>1, <1>2, <1>4 DEF vars, playerVars, apiVars, shared, events, locals
<1> QED
  BY <1>1, <1>3, <1>4, PlayerKeepsTracks, HandlersKeepTracks DEF Next

\* Every reachable state has the types of TypeOK.
THEOREM TypeCorrect == Spec => []TypeOK
<1>1. TypeOK /\ NoTrackTwice => TypeOK
  OBVIOUS
<1> QED
  BY <1>1, TracksInit, TracksNext, PTL DEF Spec

\* No track is in two places or twice in one, however many clients push,
\* move, shuffle, remove and skip while the player pops and plays.
THEOREM TracksOnlyOnce == Spec => []NoTrackTwice
BY TracksInit, TracksNext, PTL DEF Spec
-----------------------------------------------------------------------------
\* The player takes a track from the queue on air, and from there to the
\* tracks that ended.
LEMMA PlayerLosesNoTrack ==
  ASSUME TypeOK, PlayerStep
  PROVE  Places \subseteq Places'
<1> USE DEF Holding, Retiring, Idling, Goto, shared, events, locals, Places
<1>0. Pending' = Pending /\ queue \in Seq(Tracks)
  BY DEF PlayerStep, apiVars, Pending, Pushing, TypeOK, PlayerTypeOK
<1>1. CASE PopFront
  <2>1. /\ queue # <<>> /\ queue' = Tail(queue) /\ ended' = ended
        /\ OnAir = {} /\ OnAir' = {Head(queue)}
    BY <1>1 DEF PopFront, OnAir
  <2>2. ASSUME NEW t \in ToSet(queue)
        PROVE  t \in ToSet(queue') \cup {Head(queue)}
    <3>1. PICK i \in 1..Len(queue) : queue[i] = t
      BY <1>0 DEF ToSet
    <3>2. CASE i = 1
      BY <1>0, <2>1, <3>1, <3>2
    <3>3. CASE i # 1
      <4>1. i - 1 \in 1..Len(queue') /\ queue'[i - 1] = t
        BY <1>0, <2>1, <3>1, <3>3
      <4>2. DOMAIN queue' = 1..Len(queue')
        BY <1>0, <2>1
      <4> QED
        BY <4>1, <4>2 DEF ToSet
    <3> QED
      BY <3>2, <3>3
  <2>3. Ended' = Ended
    BY <2>1 DEF Ended
  <2> QED
    BY <1>0, <2>1, <2>2, <2>3
<1>2. CASE SendTrackEnd
  <2> DEFINE e == [track |-> track, skipped |-> wasSkipped]
  <2>1. ended' = Append(ended, e) /\ OnAir = {track} /\ queue' = queue
    BY <1>2 DEF SendTrackEnd, OnAir
  <2>2. /\ ended \in Seq(EndEntry) /\ Len(ended) \in Nat
        /\ DOMAIN ended = 1..Len(ended) /\ e.track = track
    BY DEF TypeOK, PlayerTypeOK
  <2>3. /\ DOMAIN ended' = 1..(Len(ended) + 1)
        /\ \A i \in 1..Len(ended) : ended'[i] = ended[i]
        /\ ended'[Len(ended) + 1] = e
    BY <2>1, <2>2
  <2> HIDE DEF e
  <2>4. Ended \cup {track} \subseteq Ended'
    BY <2>2, <2>3 DEF Ended
  <2> QED
    BY <1>0, <2>1, <2>4
<1>3. ASSUME UNCHANGED <<queue, ended>>, OnAir' = OnAir
      PROVE  Places \subseteq Places'
  BY <1>0, <1>3 DEF Ended
<1>4. CASE OpenFails \/ SkipBranch \/ ShutdownBranch \/ EndOfFile \/ SendFails
  BY <1>3, <1>4 DEF OpenFails, SkipBranch, ShutdownBranch, EndOfFile, SendFails,
     StreamReturns, OnAir
<1>5. CASE CheckShutdown \/ PopNone \/ ZeroGauge \/ WakeUp
  BY <1>3, <1>5 DEF CheckShutdown, PopNone, ZeroGauge, WakeUp, OnAir
<1>6. CASE SyncGauge \/ SetNowPlaying \/ SendTrackStarted \/ InstallToken
  BY <1>3, <1>6 DEF SyncGauge, SetNowPlaying, SendTrackStarted, InstallToken, OnAir
<1>7. CASE OpenFile \/ ReadChunk \/ SendChunk
  BY <1>3, <1>7 DEF OpenFile, ReadChunk, SendChunk, OnAir
<1>8. CASE CountSkipped \/ CountPlayed \/ RecordHistory \/ ClearNowPlaying
  BY <1>3, <1>8 DEF CountSkipped, CountPlayed, RecordHistory, ClearNowPlaying, OnAir
<1> QED
  BY <1>1, <1>2, <1>4, <1>5, <1>6, <1>7, <1>8 DEF PlayerStep, RunPlayer, StreamFile

\* A handler gives up its id only by pushing it, or by being dropped; the
\* others keep the queue's tracks but for the one a client removes.
LEMMA HandlersLoseNoTrack ==
  ASSUME TypeOK, NoTrackTwice, Handlers
  PROVE  TracksKept
<1>0. /\ queue \in Seq(Tracks) /\ IsInjective(queue) /\ nextId \in Nat
      /\ \A c \in Clients : req[c] \in Request
      /\ DOMAIN req = Clients
  BY DEF TypeOK, PlayerTypeOK, ApiTypeOK, NoTrackTwice
<1>1. UNCHANGED playerOnly => OnAir' = OnAir /\ Ended' = Ended
  BY DEF playerOnly, events, locals, OnAir, Ended
<1>2. UNCHANGED playerVars => UNCHANGED <<queue, playerOnly>>
  BY DEF playerVars, shared, playerOnly
\* the handler of c moves on, and what it held is in the queue
<1>3. ASSUME NEW c \in Clients, UNCHANGED playerOnly,
             \A d \in Clients \ {c} : req'[d] = req[d],
             ToSet(queue) \subseteq ToSet(queue'),
             Pushing(c) => req[c].id \in ToSet(queue')
      PROVE  TracksKept
  <2>1. Pending \subseteq Pending' \cup ToSet(queue')
    BY <1>3 DEF Pending, Pushing
  <2> QED
    BY <1>1, <1>3, <2>1 DEF TracksKept, Places
<1>4. ASSUME NEW c \in Clients, AddTrack(c) \/ AddTrackNext(c) \/ BulkAccept(c)
             \/ BulkRefuse(c) \/ \E n \in 0..MaxBulk : AddTracksBulk(c, n)
      PROVE  TracksKept
  <2>1. /\ UNCHANGED playerVars /\ ~Pushing(c)
        /\ \A d \in Clients \ {c} : req'[d] = req[d]
    BY <1>0, <1>4 DEF AddTrack, AddTrackNext, StartAdd, BulkAccept, BulkRefuse,
       AddTracksBulk, Pushing
  <2> QED
    BY <1>2, <1>3, <2>1
<1>5. ASSUME NEW c \in Clients, SendQueueChanged(c) \/ BulkGauge(c)
      PROVE  TracksKept
  <2>1. /\ UNCHANGED <<queue, playerOnly>> /\ ~Pushing(c)
        /\ \A d \in Clients \ {c} : req'[d] = req[d]
    BY <1>0, <1>2, <1>5 DEF SendQueueChanged, BulkGauge, Pushing
  <2> QED
    BY <1>3, <2>1
<1>6. ASSUME NEW c \in Clients, PushTrack(c) \/ PushTrackNext(c) \/ BulkPush(c)
      PROVE  TracksKept
  <2> DEFINE id == req[c].id
  <2>1. id \in Tracks
    BY <1>0, <1>6 DEF PushTrack, PushTrackNext, Push, BulkPush, Request
  <2>2. /\ UNCHANGED playerOnly
        /\ \A d \in Clients \ {c} : req'[d] = req[d]
        /\ queue' \in {PushBack(queue, id), PushFront(queue, id)}
    BY <1>0, <1>6 DEF PushTrack, PushTrackNext, Push, BulkPush, playerOnly
  <2> HIDE DEF id
  <2>3. ToSet(PushBack(queue, id)) = ToSet(queue) \cup {id}
    BY <1>0, <2>1, PushBackAdds
  <2>4. ToSet(PushFront(queue, id)) = ToSet(queue) \cup {id}
    BY <1>0, <2>1, PushFrontAdds
  <2>5. ToSet(queue') = ToSet(queue) \cup {id}
    BY <2>2, <2>3, <2>4
  <2> QED
    BY <1>3, <2>2, <2>5 DEF id
<1>7. ASSUME NEW c \in Clients, DropRequest(c)
      PROVE  TracksKept
  <2>1. /\ UNCHANGED <<queue, playerOnly>>
        /\ \A d \in Clients \ {c} : req'[d] = req[d]
    BY <1>0, <1>2, <1>7 DEF DropRequest
  <2>2. Pending \ Pending' \subseteq {req[c].id}
    BY <2>1 DEF Pending, Pushing
  <2> QED
    BY <1>1, <1>7, <2>1, <2>2 DEF TracksKept, Places
<1>8. ASSUME UNCHANGED <<playerOnly, req>>, ToSet(queue') = ToSet(queue)
      PROVE  TracksKept
  BY <1>1, <1>8 DEF TracksKept, Places, Pending, Pushing
<1>9. CASE ShuffleQueue
  BY <1>0, <1>8, <1>9, ShuffleKeeps DEF ShuffleQueue
<1>10. CASE MoveTrack
  <2>1. PICK id \in ToSet(queue), position \in 0..Len(queue) :
          queue' = MoveTo(queue, id, position)
    BY <1>10 DEF MoveTrack
  <2>2. position \in Nat
    BY <1>0
  <2> QED
    BY <1>0, <1>8, <1>10, <2>1, <2>2, MoveToKeeps DEF MoveTrack
<1>11. CASE RemoveTrack
  <2>1. PICK id \in ToSet(queue) : queue' = RemoveId(queue, id)
    BY <1>11 DEF RemoveTrack
  <2>2. Len(queue') = Len(queue) - 1
    BY <1>0, <2>1, RemoveIdTakes
  <2> QED
    BY <1>11, <2>2 DEF TracksKept
<1>12. CASE ClearQueue
  BY <1>12 DEF TracksKept
<1>13. CASE SkipTrack
  <2>1. UNCHANGED <<queue, req, ended, pc, track>>
    BY <1>13 DEF SkipTrack, Skip, apiVars, events, locals
  <2> QED
    BY <2>1 DEF TracksKept, Places, Pending, Pushing, OnAir, Ended
<1> QED
  BY <1>4, <1>5, <1>6, <1>7, <1>9, <1>10, <1>11, <1>12, <1>13
  DEF Handlers, Handler, Finish

\* A track disappears only when a client withdraws it, for any number of
\* clients, whether they wait for their answers or not.
THEOREM TracksAreKept == Spec => NoTrackLost
<1> DEFINE Inv == TypeOK /\ NoTrackTwice
<1>1. Inv /\ [Next]_vars => [TracksKept]_vars
  <2> SUFFICES ASSUME Inv, [Next]_vars
               PROVE  TracksKept \/ UNCHANGED vars
    OBVIOUS
  <2>1. CASE PlayerStep
    BY <2>1, PlayerLosesNoTrack DEF TracksKept
  <2>2. CASE Environment
    <3>1. UNCHANGED <<queue, req, ended, pc, track>>
      BY <2>2 DEF Environment, CancelShutdown, MuxStops, apiVars, shared, events, locals
    <3> QED
      BY <3>1 DEF TracksKept, Places, Pending, Pushing, OnAir, Ended
  <2> QED
    BY <2>1, <2>2, HandlersLoseNoTrack DEF Next
<1>2. Spec => []Inv
  BY TracksInit, TracksNext, PTL DEF Spec
<1> QED
  BY <1>1, <1>2, PTL DEF Spec, NoTrackLost
-----------------------------------------------------------------------------
\* What Playlist calls onAir and known.
PlOnAir == IF pc \in Holding \ Retiring THEN track ELSE NoTrack
PlKnown == (1..(nextId - 1)) \ Pending

\* The player starts the first track that waits, and retires the one on air.
LEMMA PlayerImplements ==
  ASSUME TypeOK, PlayerStep
  PROVE  [PL!Next]_(PL!vars)
<1> USE DEF Holding, Retiring, Idling, Goto, shared, events, locals
<1>0. Pending' = Pending /\ nextId' = nextId /\ PlKnown' = PlKnown
  BY DEF PlayerStep, apiVars, Pending, Pushing, PlKnown
<1>1. CASE PopFront
  <2>1. /\ queue # <<>> /\ queue' = Tail(queue) /\ UNCHANGED ended
        /\ PlOnAir = NoTrack /\ PlOnAir' = Head(queue)
    BY <1>1 DEF PopFront, PlOnAir
  <2>2. PL!Start
    BY <1>0, <2>1 DEF PL!Start, PlOnAir, PlKnown
  <2> QED
    BY <2>2 DEF PL!Next
<1>2. CASE SendTrackEnd
  <2>1. /\ UNCHANGED queue /\ wasSkipped \in BOOLEAN
        /\ ended' = Append(ended, [track |-> track, skipped |-> wasSkipped])
        /\ PlOnAir = track /\ PlOnAir' = NoTrack /\ track # NoTrack
    BY <1>2 DEF SendTrackEnd, PlOnAir, TypeOK, PlayerTypeOK
  <2>2. PL!Retire(wasSkipped)
    BY <1>0, <2>1 DEF PL!Retire, PlOnAir, PlKnown
  <2> QED
    BY <2>1, <2>2 DEF PL!Next
<1>3. ASSUME UNCHANGED <<queue, ended>>, PlOnAir' = PlOnAir
      PROVE  UNCHANGED PL!vars
  BY <1>0, <1>3 DEF PL!vars, PlOnAir, PlKnown
<1>4. CASE OpenFails \/ SkipBranch \/ ShutdownBranch \/ EndOfFile \/ SendFails
  BY <1>3, <1>4 DEF OpenFails, SkipBranch, ShutdownBranch, EndOfFile, SendFails,
     StreamReturns, PlOnAir
<1>5. CASE CheckShutdown \/ PopNone \/ ZeroGauge \/ WakeUp
  BY <1>3, <1>5 DEF CheckShutdown, PopNone, ZeroGauge, WakeUp, PlOnAir
<1>6. CASE SyncGauge \/ SetNowPlaying \/ SendTrackStarted \/ InstallToken
  BY <1>3, <1>6 DEF SyncGauge, SetNowPlaying, SendTrackStarted, InstallToken, PlOnAir
<1>7. CASE OpenFile \/ ReadChunk \/ SendChunk
  BY <1>3, <1>7 DEF OpenFile, ReadChunk, SendChunk, PlOnAir
<1>8. CASE CountSkipped \/ CountPlayed \/ RecordHistory \/ ClearNowPlaying
  BY <1>3, <1>8 DEF CountSkipped, CountPlayed, RecordHistory, ClearNowPlaying, PlOnAir
<1> QED
  BY <1>1, <1>2, <1>4, <1>5, <1>6, <1>7, <1>8 DEF PlayerStep, RunPlayer, StreamFile

\* A handler enters its track when it pushes it; the others withdraw or
\* reorder, and a handler that only takes an id does nothing yet.
LEMMA HandlersImplement ==
  ASSUME TypeOK, NoTrackTwice, Handlers, ~ClientsMayDisconnect
  PROVE  [PL!Next]_(PL!vars)
<1>0. /\ queue \in Seq(Tracks) /\ nextId \in Nat
      /\ \A c \in Clients : req[c] \in Request
      /\ DOMAIN req = Clients
  BY DEF TypeOK, PlayerTypeOK, ApiTypeOK
<1>1. ASSUME UNCHANGED <<playerOnly, queue>>, PlKnown' = PlKnown
      PROVE  UNCHANGED PL!vars
  BY <1>1 DEF PL!vars, PlKnown, playerOnly, events, locals
<1>2. ASSUME UNCHANGED playerVars
      PROVE  UNCHANGED <<playerOnly, queue>>
  BY <1>2 DEF playerVars, shared, playerOnly
\* a handler takes an id
<1>3. ASSUME NEW c \in Clients, ~Pushing(c), NewTrack(nextId), UNCHANGED playerVars,
             Pushing(c)', req'[c].id = nextId, \A d \in Clients \ {c} : req'[d] = req[d]
      PROVE  UNCHANGED PL!vars
  <2>1. Pending' = Pending \cup {nextId}
    BY <1>3 DEF Pending, Pushing
  <2>2. nextId' = nextId + 1 /\ 1..(nextId' - 1) = 1..(nextId - 1) \cup {nextId}
    BY <1>0, <1>3 DEF NewTrack
  <2>3. nextId \notin 1..(nextId - 1)
    BY <1>0
  <2>4. PlKnown' = PlKnown
    BY <2>1, <2>2, <2>3 DEF PlKnown
  <2> QED
    BY <1>1, <1>2, <1>3, <2>4
\* it pushes the id it took
<1>4. ASSUME NEW c \in Clients, Pushing(c), ~Pushing(c)', UNCHANGED <<playerOnly, nextId>>,
             \A d \in Clients \ {c} : req'[d] = req[d],
             queue' \in {PushBack(queue, req[c].id), PushFront(queue, req[c].id)}
      PROVE  PL!Next
  <2> DEFINE id == req[c].id
  <2>1. id \in Tracks
    BY <1>0, <1>4 DEF Request, Pushing
  <2>2. id \in Pending /\ id \in 1..(nextId - 1)
    BY <1>4 DEF Pending, NoTrackTwice
  <2>3. \A d \in Clients \ {c} : (Pushing(d)' <=> Pushing(d)) /\ req'[d].id = req[d].id
    BY <1>4 DEF Pushing
  <2>4. Pending' = Pending \ {id}
    BY <1>4, <2>3 DEF Pending, NoTrackTwice
  <2>5. id \notin PlKnown /\ PlKnown' = PlKnown \cup {id}
    BY <1>4, <2>2, <2>4 DEF PlKnown
  <2>6. queue' \in {Append(queue, id), <<id>> \o queue}
    BY <1>4 DEF PushBack, PushFront
  <2> HIDE DEF id
  <2>7. PL!Enter(id)
    BY <1>4, <2>5, <2>6 DEF PL!Enter, PlKnown, playerOnly, events, locals
  <2> QED
    BY <2>1, <2>7 DEF PL!Next
\* no handler pushes, and no handler has an id it had not before, or loses one
<1>5. ASSUME UNCHANGED nextId,
             \A d \in Clients : (Pushing(d)' <=> Pushing(d))
                                /\ (Pushing(d) => req'[d].id = req[d].id)
      PROVE  PlKnown' = PlKnown
  <2>1. Pending' = Pending
    BY <1>5 DEF Pending
  <2> QED
    BY <1>5, <2>1 DEF PlKnown
<1>6. ASSUME NEW c \in Clients, AddTrack(c) \/ AddTrackNext(c)
      PROVE  UNCHANGED PL!vars
  <2>1. PICK where \in {"pushBack", "pushFront"} : StartAdd(c, where)
    BY <1>6 DEF AddTrack, AddTrackNext
  <2>2. /\ NewTrack(nextId) /\ req[c].pc = "idle"
        /\ req' = [req EXCEPT ![c].pc = where, ![c].id = nextId]
    BY <2>1 DEF StartAdd, NewTrack
  <2>3. req'[c].pc = where /\ req'[c].id = nextId
    BY <1>0, <2>2 DEF Request
  <2> QED
    BY <1>0, <1>3, <2>1, <2>2, <2>3 DEF StartAdd, Pushing
<1>7. ASSUME NEW c \in Clients, BulkAccept(c)
      PROVE  UNCHANGED PL!vars
  <2>1. /\ NewTrack(nextId) /\ req[c].pc = "bulk"
        /\ req' = [req EXCEPT ![c].pc = "bulkPush", ![c].id = nextId, ![c].added = TRUE]
    BY <1>7 DEF BulkAccept, NewTrack
  <2>2. req'[c].pc = "bulkPush" /\ req'[c].id = nextId
    BY <1>0, <2>1 DEF Request
  <2> QED
    BY <1>0, <1>3, <1>7, <2>1, <2>2 DEF BulkAccept, Pushing
<1>8. ASSUME NEW c \in Clients, PushTrack(c) \/ PushTrackNext(c) \/ BulkPush(c)
      PROVE  PL!Next
  <2>1. req'[c].pc \in {"announce", "bulk"}
    BY <1>0, <1>8 DEF PushTrack, PushTrackNext, Push, BulkPush, Request
  <2>2. /\ Pushing(c) /\ UNCHANGED <<playerOnly, nextId>>
        /\ queue' \in {PushBack(queue, req[c].id), PushFront(queue, req[c].id)}
    BY <1>8 DEF PushTrack, PushTrackNext, Push, BulkPush, Pushing, playerOnly
  <2>3. \A d \in Clients \ {c} : req'[d] = req[d]
    BY <1>0, <1>8 DEF PushTrack, PushTrackNext, Push, BulkPush
  <2> QED
    BY <1>0, <1>4, <2>1, <2>2, <2>3 DEF Pushing, playerOnly
<1>9. ASSUME NEW c \in Clients, NEW n \in 0..MaxBulk,
             SendQueueChanged(c) \/ AddTracksBulk(c, n) \/ BulkRefuse(c) \/ BulkGauge(c)
      PROVE  UNCHANGED PL!vars
  <2>1. UNCHANGED <<queue, playerOnly, nextId>>
    BY <1>9 DEF SendQueueChanged, AddTracksBulk, BulkRefuse, BulkGauge, playerVars,
       shared, playerOnly
  <2>2. req[c].pc \in {"idle", "announce", "bulk", "bulkAnnounce"}
    BY <1>9 DEF SendQueueChanged, AddTracksBulk, BulkRefuse, BulkGauge
  <2>3. req'[c].pc \in {"bulk", "bulkAnnounce", "idle"}
    BY <1>0, <1>9 DEF SendQueueChanged, AddTracksBulk, BulkRefuse, BulkGauge, Request, Idle
  <2>4. \A d \in Clients \ {c} : req'[d] = req[d]
    BY <1>0, <1>9 DEF SendQueueChanged, AddTracksBulk, BulkRefuse, BulkGauge
  <2>5. PlKnown' = PlKnown
    BY <1>5, <2>1, <2>2, <2>3, <2>4 DEF Pushing
  <2> QED
    BY <1>1, <2>1, <2>5
<1>10. ASSUME NEW c \in Clients, Handler(c)
       PROVE  [PL!Next]_(PL!vars)
  <2>1. ~DropRequest(c)
    BY DEF DropRequest
  <2> QED
    BY <1>6, <1>7, <1>8, <1>9, <1>10, <2>1, 0 \in 0..MaxBulk DEF Handler, Finish
<1>11. ASSUME UNCHANGED <<playerOnly, req, nextId>>
       PROVE  /\ PlKnown' = PlKnown /\ PlOnAir' = PlOnAir /\ ended' = ended
  <2>1. PlKnown' = PlKnown
    BY <1>5, <1>11 DEF Pushing
  <2> QED
    BY <1>11, <2>1 DEF PlOnAir, playerOnly, events, locals
<1>12. CASE ShuffleQueue \/ MoveTrack
  <2>1. Len(queue') = Len(queue) /\ ToSet(queue') = ToSet(queue)
    <3>1. CASE ShuffleQueue
      BY <1>0, <3>1, ShuffleKeeps DEF ShuffleQueue
    <3>2. CASE MoveTrack
      <4>1. PICK id \in ToSet(queue), position \in 0..Len(queue) :
              queue' = MoveTo(queue, id, position)
        BY <3>2 DEF MoveTrack
      <4>2. position \in Nat
        BY <1>0
      <4> QED
        BY <1>0, <4>1, <4>2, MoveToKeeps DEF NoTrackTwice
    <3> QED
      BY <1>12, <3>1, <3>2
  <2>2. UNCHANGED <<playerOnly, req, nextId>>
    BY <1>12 DEF ShuffleQueue, MoveTrack
  <2>3. PlKnown' = PlKnown /\ PlOnAir' = PlOnAir /\ ended' = ended
    BY <1>11, <2>2
  <2>4. PL!Reorder
    BY <2>1, <2>3 DEF PL!Reorder, PlOnAir, PlKnown, ToSet, PL!ToSet
  <2> QED
    BY <2>4 DEF PL!Next
<1>13. CASE RemoveTrack
  <2>1. PICK id \in ToSet(queue) : queue' = RemoveId(queue, id)
    BY <1>13 DEF RemoveTrack
  <2> DEFINE i == Position(queue, id)
  <2>2. i \in DOMAIN queue
    BY <1>0, PositionFinds DEF NoTrackTwice
  <2>3. queue' = RemoveAt(queue, i)
    BY <2>1 DEF RemoveId
  <2> HIDE DEF i
  <2>4. PlKnown' = PlKnown /\ PlOnAir' = PlOnAir /\ ended' = ended
    BY <1>11, <1>13 DEF RemoveTrack
  <2>5. PL!Withdraw(i)
    BY <2>3, <2>4 DEF PL!Withdraw, PlOnAir, PlKnown, RemoveAt, PL!RemoveAt
  <2> QED
    BY <2>2, <2>5 DEF PL!Next
<1>14. CASE ClearQueue
  <2>1. PL!WithdrawAll
    BY <1>11, <1>14 DEF PL!WithdrawAll, ClearQueue, PlOnAir, PlKnown
  <2> QED
    BY <2>1 DEF PL!Next
<1>15. CASE SkipTrack
  <2>1. UNCHANGED <<queue, ended, pc, track>> /\ PlKnown' = PlKnown
    BY <1>15 DEF SkipTrack, Skip, apiVars, events, locals, PlKnown, Pending, Pushing
  <2> QED
    BY <2>1 DEF PL!vars, PlKnown
<1> QED
  BY <1>10, <1>12, <1>13, <1>14, <1>15 DEF Handlers

\* The station is a playlist, if its clients wait for their answers: an id
\* that a dropped handler had taken enters the playlist no more.
THEOREM StationIsPlaylist ==
  ASSUME ~ClientsMayDisconnect
  PROVE  Spec => ImplementsPlaylist
<1> DEFINE Inv == TypeOK /\ NoTrackTwice
<1>1. Init => PL!Init
  <2> SUFFICES ASSUME Init PROVE PL!Init
    OBVIOUS
  <2>1. /\ queue = <<>> /\ ended = <<>> /\ pc = "top" /\ nextId = 1
        /\ \A c \in Clients : ~Pushing(c)
    BY DEF Init, PlayerInit, Pushing, Idle
  <2>2. 1..(nextId - 1) = {}
    BY <2>1
  <2> QED
    BY <2>1, <2>2 DEF PL!Init, Holding
<1>2. Inv /\ [Next]_vars => [PL!Next]_(PL!vars)
  <2> SUFFICES ASSUME Inv, [Next]_vars PROVE [PL!Next]_(PL!vars)
    OBVIOUS
  <2>1. ASSUME UNCHANGED <<queue, ended, pc, track, req, nextId>>
        PROVE  UNCHANGED PL!vars
    BY <2>1 DEF PL!vars, Pending, Pushing
  <2>2. CASE Environment
    BY <2>1, <2>2 DEF Environment, CancelShutdown, MuxStops, apiVars, shared, events, locals
  <2>3. CASE UNCHANGED vars
    BY <2>1, <2>3 DEF vars, playerVars, apiVars, shared, events, locals
  <2> QED
    BY <2>2, <2>3, PlayerImplements, HandlersImplement DEF Next
<1>3. Spec => []Inv
  BY TracksInit, TracksNext, PTL DEF Spec
<1> QED
  BY <1>1, <1>2, <1>3, PTL DEF Spec, ImplementsPlaylist, PL!Spec
=============================================================================
