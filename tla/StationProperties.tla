------------------------- MODULE StationProperties --------------------------
(***************************************************************************)
(* What the station of Station.tla promises: one type invariant, what      *)
(* relates the queue, the player, the records and the gauge, the playlist  *)
(* it implements, and what must eventually happen.                         *)
(***************************************************************************)
EXTENDS Station

EndEntry == [track : Tracks, skipped : BOOLEAN]

PlayerTypeOK ==
  /\ queue \in Seq(Tracks) /\ gauge \in Nat
  /\ nowPlaying \in Tracks \cup {NoTrack}
  /\ skipToken \in Tracks \cup {NoTrack}
  /\ cancelled \subseteq Tracks \cup {NoTrack}
  /\ started \in Seq(Tracks) /\ ended \in Seq(EndEntry)
  /\ history \in Seq(EndEntry)
  /\ tracksPlayed \in Nat /\ tracksSkipped \in Nat
  /\ shutdown \in BOOLEAN /\ muxOpen \in BOOLEAN
  /\ pc \in Idling \cup Holding
  /\ wasSkipped \in BOOLEAN
  /\ IF pc \in Holding THEN track \in Tracks ELSE track = NoTrack
  /\ skipFor \subseteq Tracks /\ heard \subseteq Tracks

\* A handler that still has to push holds an id and, in a bulk request, a path.
Request == {r \in [pc : ReqPc, id : Tracks \cup {NoTrack}, left : 0..MaxBulk,
                   added : BOOLEAN] :
              /\ r.pc \in {"pushBack", "pushFront", "bulkPush"} => r.id \in Tracks
              /\ r.pc = "bulkPush" => r.left > 0 /\ r.added}

ApiTypeOK ==
  /\ req \in [Clients -> Request]
  /\ nextId \in 1..(MaxTracks + 1) /\ announced \in Nat

\* Every variable has its type: the queue, the tokens and the records hold
\* ids that Track::from_file can have handed out.
TypeOK == PlayerTypeOK /\ ApiTypeOK
-----------------------------------------------------------------------------
\* Where a track can be
Ended   == {ended[i].track : i \in DOMAIN ended}
OnAir   == IF pc \in Holding \ Retiring THEN {track} ELSE {}
Pending == {req[c].id : c \in {d \in Clients : Pushing(d)}}

\* No track is in two places, or twice in one: whatever the interleaving of
\* pushes, moves, shuffles and pops, a track that was handed an id is queued
\* at most once, plays at most once, and is never queued again afterwards.
NoTrackTwice ==
  /\ IsInjective(queue)
  /\ \A c, d \in Clients :
       Pushing(c) /\ Pushing(d) /\ req[c].id = req[d].id => c = d
  /\ \A i, j \in DOMAIN ended : ended[i].track = ended[j].track => i = j
  /\ Pending \cap (ToSet(queue) \cup OnAir \cup Ended) = {}
  /\ ToSet(queue) \cap (OnAir \cup Ended) = {}
  /\ OnAir \cap Ended = {}
  /\ Pending \cup ToSet(queue) \cup OnAir \cup Ended \subseteq 1..(nextId - 1)

Places == Pending \cup ToSet(queue) \cup OnAir \cup Ended

\* No track is lost: once it has an id it stays with its handler, in the
\* queue, on air or among those that ended, unless a client withdraws it,
\* one by a removal or by going away before its push, all that are queued by
\* clearing the queue.  No push, move, shuffle, pop or failed open drops one.
TracksKept ==
  \/ Places \subseteq Places'
  \/ ClearQueue
  \/ RemoveTrack /\ Len(queue') = Len(queue) - 1
  \/ \E c \in Clients : DropRequest(c) /\ Places \ Places' \subseteq {req[c].id}
NoTrackLost == [][TracksKept]_vars

\* The events of the player come in pairs: the k-th end event is about the
\* track of the k-th TrackStarted, and at most one track is open.
EventsPaired ==
  /\ Len(started) = Len(ended)
       + (IF pc \in Holding \ (Retiring \cup {"gauge", "setNow", "start"})
          THEN 1 ELSE 0)
  /\ \A i \in DOMAIN ended : ended[i].track = started[i]

\* The history, the counters and the events tell one story: the history is
\* the last HistMax tracks that ended, the counters count all of them.  Who
\* looks between two steps of the player may find TRACKS_SKIPPED one ahead
\* of the end events, TRACKS_PLAYED and the history one behind, and only for
\* the track in hand.
RecordsAgree ==
  LET done == Len(ended) - (IF pc \in {"count", "record"} THEN 1 ELSE 0)
      kept == IF done < HistMax THEN done ELSE HistMax
  IN  /\ tracksPlayed = Len(ended) - (IF pc = "count" THEN 1 ELSE 0)
      /\ tracksSkipped = Cardinality({i \in DOMAIN ended : ended[i].skipped})
                           + (IF pc = "sendEnd" /\ wasSkipped THEN 1 ELSE 0)
      /\ history = SubSeq(ended, done - kept + 1, done)

\* Only a track that was now playing when somebody called skip is recorded
\* as skipped: a late or an early skip never hits the next track.
SkippedOnRequest ==
  \A i \in DOMAIN ended : ended[i].skipped => ended[i].track \in skipFor

\* No bulk request is between its first push and its gauge update.
BulkIdle == \A c \in Clients : req[c].pc \notin {"bulk", "bulkPush"}

\* Once no bulk request is half done, QUEUE_LENGTH is the length of the
\* queue while a track plays.  Between tracks it may also be 0, because the
\* player sets 0 after it gave up the lock under which the queue was empty.
GaugeSettled ==
  BulkIdle =>
    /\ pc \in Holding \ {"gauge"} => gauge = Len(queue)
    /\ pc \in Idling => gauge \in {0, Len(queue)}

\* A handler has pushed, or is about to, and has still to announce it.
Unannounced(c) == \/ req[c].pc \in {"announce", "bulkAnnounce"}
                  \/ req[c].pc \in {"bulk", "bulkPush"} /\ req[c].added

\* When no handler has still to announce its change, the last QueueChanged
\* covers the queue: what pops took since is the only difference.
AnnouncedCovers ==
  (\A c \in Clients : ~Unannounced(c)) => Len(queue) <= announced
-----------------------------------------------------------------------------
PL == INSTANCE Playlist WITH
        Track <- Tracks, None <- NoTrack,
        known <- (1..(nextId - 1)) \ Pending,
        waiting <- queue,
        onAir <- IF pc \in Holding \ Retiring THEN track ELSE NoTrack,
        aired <- ended

\* The station implements the playlist: every step of the player and of the
\* handlers is one step of Playlist or none.
ImplementsPlaylist == PL!Spec
-----------------------------------------------------------------------------
\* After ctrl-c the player ends, even in the middle of an endless file.
ShutdownStopsPlayer == shutdown ~> pc = "done"

\* A skip that cancelled the token of the track that plays ends that track,
\* even in the middle of an endless file.
SkipTakesEffect ==
  \A t \in Tracks : nowPlaying = t /\ t \in cancelled ~> nowPlaying # t

\* If files end, the player takes one track after another for as long as
\* there are any and the station runs.  This is all a client can rely on: it
\* is not promised that its own track comes up, because other clients may
\* push before it, with /api/queue/next, and move others ahead, for ever.
QueueAdvances ==
  FilesEnd =>
    \A n \in 0..MaxTracks :
      Len(started) = n /\ queue # <<>>
        ~> Len(started) > n \/ queue = <<>> \/ shutdown
-----------------------------------------------------------------------------
(***************************************************************************)
(* What the documentation says and the code does not keep.                 *)
(***************************************************************************)

\* README.md:18 "Skip control: Skip the currently playing track at any
\* time": the token a skip cancels is the one of the track that is playing.
SkipNotLost == skipFor \subseteq cancelled

\* metrics.rs:92 "Current number of tracks in the queue": with no request in
\* flight and the player asleep, QUEUE_LENGTH is the length of the queue.
GaugeWhileAsleep ==
  pc = "sleep" /\ (\A c \in Clients : req[c] = Idle) => gauge = Len(queue)

\* metrics.rs:82 "Total number of tracks played", README.md:15 "Playback
\* history: Track what was played, when, and for how long": what the history
\* shows as played, and not skipped, was sent to the mux at least in part.
HistoryListsOnlyHeard ==
  \A i \in DOMAIN history : history[i].skipped \/ history[i].track \in heard
=============================================================================
