------------------------------ MODULE Station -------------------------------
(***************************************************************************)
(* The station: the player task of Player.tla together with the HTTP       *)
(* handlers of src/api.rs that change what it shares, and the shutdown of  *)
(* src/main.rs.  A handler is a process of its own (axum spawns one per    *)
(* request), with one action per critical section or await:                *)
(*   add_track, add_track_next   id, push + gauge, QueueChanged            *)
(*   add_tracks_bulk             per path: id, push; then gauge, event     *)
(*   shuffle, remove, move, clear, skip   one critical section each        *)
(* A request that is refused before it touches the state (validation,      *)
(* authorisation, unknown track) changes nothing and is left out, except   *)
(* a refused path in the middle of a bulk request.                         *)
(***************************************************************************)
EXTENDS Player

CONSTANTS
  Clients,              \* API clients, each with at most one request in flight
  MaxBulk,              \* bound of the model: paths in one bulk request
  ClientsMayDisconnect  \* axum drops a handler, at an await, when its
                        \* client goes away; FALSE: clients wait

ASSUME StationAssumption == MaxBulk \in Nat /\ ClientsMayDisconnect \in BOOLEAN

VARIABLES
  req,        \* per client: where its handler is, and the handler's locals
  nextId,     \* NEXT_TRACK_ID
  announced   \* length carried by the last QueueChanged event

apiVars == <<req, nextId, announced>>
vars    == <<playerVars, apiVars>>

ReqPc == {"idle", "pushBack", "pushFront", "announce",
          "bulk", "bulkPush", "bulkAnnounce"}
Idle  == [pc |-> "idle", id |-> NoTrack, left |-> 0, added |-> FALSE]

\* Handlers that have taken an id and still wait for the queue's lock
Pushing(c) == req[c].pc \in {"pushBack", "pushFront", "bulkPush"}

Init ==
  /\ PlayerInit
  /\ req = [c \in Clients |-> Idle]
  /\ nextId = 1
  /\ announced = 0

\* What the handlers never touch
playerOnly == <<nowPlaying, skipToken, cancelled, events, records, outside,
                locals, ghosts>>

\* Mutant: the id is derived from the queue, not from the counter.
NewTrack_FromLength(id) ==
  nextId \in Tracks /\ id = Len(queue) + 1 /\ nextId' = nextId + 1

\* Track::from_file: NEXT_TRACK_ID.fetch_add, before any lock is taken
NewTrack(id) == nextId \in Tracks /\ id = nextId /\ nextId' = nextId + 1
-----------------------------------------------------------------------------
\* add_track and add_track_next

StartAdd(c, where) ==
  /\ req[c].pc = "idle"
  /\ \E id \in Tracks : /\ NewTrack(id)
                        /\ req' = [req EXCEPT ![c].pc = where, ![c].id = id]
  /\ UNCHANGED <<playerVars, announced>>

AddTrack(c)     == StartAdd(c, "pushBack")
AddTrackNext(c) == StartAdd(c, "pushFront")

\* Under the write lock: push and set the gauge.
Push(c, from, pushed) ==
  /\ req[c].pc = from
  /\ queue' = pushed
  /\ gauge' = Len(queue')
  /\ req' = [req EXCEPT ![c].pc = "announce", ![c].id = NoTrack]
  /\ UNCHANGED <<playerOnly, nextId, announced>>

PushTrack(c)     == Push(c, "pushBack", PushBack(queue, req[c].id))
PushTrackNext(c) == Push(c, "pushFront", PushFront(queue, req[c].id))

\* Mutant: the event carries the gauge instead of the queue's length.
SendQueueChanged_Gauge(c) ==
  /\ req[c].pc \in {"announce", "bulkAnnounce"}
  /\ announced' = gauge
  /\ req' = [req EXCEPT ![c] = Idle]
  /\ UNCHANGED <<playerVars, nextId>>

\* QueueChanged is sent while the read guard of its length is still held.
SendQueueChanged(c) ==
  /\ req[c].pc \in {"announce", "bulkAnnounce"}
  /\ announced' = Len(queue)
  /\ req' = [req EXCEPT ![c] = Idle]
  /\ UNCHANGED <<playerVars, nextId>>
-----------------------------------------------------------------------------
\* add_tracks_bulk

AddTracksBulk(c, n) ==
  /\ req[c].pc = "idle"
  /\ req' = [req EXCEPT ![c].pc = "bulk", ![c].left = n]
  /\ UNCHANGED <<playerVars, nextId, announced>>

\* validate_ogg_file accepts the path
BulkAccept(c) ==
  /\ req[c].pc = "bulk" /\ req[c].left > 0
  /\ \E id \in Tracks :
       /\ NewTrack(id)
       /\ req' = [req EXCEPT ![c].pc = "bulkPush", ![c].id = id, ![c].added = TRUE]
  /\ UNCHANGED <<playerVars, announced>>

\* ... or refuses it
BulkRefuse(c) ==
  /\ req[c].pc = "bulk" /\ req[c].left > 0
  /\ req' = [req EXCEPT ![c].left = @ - 1]
  /\ UNCHANGED <<playerVars, nextId, announced>>

\* state.queue.write().await.push_back(track): the gauge has to wait.
BulkPush(c) ==
  /\ req[c].pc = "bulkPush"
  /\ queue' = PushBack(queue, req[c].id)
  /\ req' = [req EXCEPT ![c].pc = "bulk", ![c].id = NoTrack, ![c].left = @ - 1]
  /\ UNCHANGED <<gauge, playerOnly, nextId, announced>>

\* Mutant: the gauge is not updated after the paths.
BulkGauge_Forgotten(c) ==
  /\ req[c].pc = "bulk" /\ req[c].left = 0
  /\ req' = [req EXCEPT ![c] = IF req[c].added THEN [@ EXCEPT !.pc = "bulkAnnounce"]
                                               ELSE Idle]
  /\ UNCHANGED <<playerVars, nextId, announced>>

\* After the last path, the gauge; a request that added nothing ends here.
BulkGauge(c) ==
  /\ req[c].pc = "bulk" /\ req[c].left = 0
  /\ gauge' = Len(queue)
  /\ req' = [req EXCEPT ![c] = IF req[c].added THEN [@ EXCEPT !.pc = "bulkAnnounce"]
                                               ELSE Idle]
  /\ UNCHANGED <<queue, playerOnly, nextId, announced>>
-----------------------------------------------------------------------------
\* Handlers that are one critical section: a client is as it was before.

ShuffleQueue ==
  /\ \E q \in Shuffles(queue) : queue' = q
  /\ announced' = Len(queue')
  /\ UNCHANGED <<gauge, playerOnly, req, nextId>>

RemoveTrack ==
  /\ \E id \in ToSet(queue) : queue' = RemoveId(queue, id)
  /\ gauge' = Len(queue')
  /\ announced' = Len(queue')
  /\ UNCHANGED <<playerOnly, req, nextId>>

\* Positions past the end are clamped, so one past the end stands for all.
MoveTrack ==
  /\ \E id \in ToSet(queue), position \in 0..Len(queue) :
       queue' = MoveTo(queue, id, position)
  /\ announced' = Len(queue')
  /\ UNCHANGED <<gauge, playerOnly, req, nextId>>

ClearQueue ==
  /\ queue' = <<>>
  /\ gauge' = 0
  /\ announced' = 0
  /\ UNCHANGED <<playerOnly, req, nextId>>

SkipTrack == Skip /\ UNCHANGED apiVars

\* The client goes away while its handler awaits a lock.  Between two paths
\* a bulk request awaits nothing.
DropRequest(c) ==
  /\ ClientsMayDisconnect
  /\ req[c].pc # "idle"
  /\ req[c].pc = "bulk" => req[c].left = 0
  /\ req' = [req EXCEPT ![c] = Idle]
  /\ UNCHANGED <<playerVars, nextId, announced>>
-----------------------------------------------------------------------------
PlayerStep == RunPlayer /\ UNCHANGED apiVars

Finish(c) == PushTrack(c) \/ PushTrackNext(c) \/ SendQueueChanged(c)
             \/ BulkAccept(c) \/ BulkRefuse(c) \/ BulkPush(c) \/ BulkGauge(c)

Handler(c) ==
  \/ AddTrack(c) \/ AddTrackNext(c) \/ Finish(c) \/ DropRequest(c)
  \/ \E n \in 0..MaxBulk : AddTracksBulk(c, n)

Handlers == \/ \E c \in Clients : Handler(c)
            \/ ShuffleQueue \/ RemoveTrack \/ MoveTrack \/ ClearQueue \/ SkipTrack

Environment == (CancelShutdown \/ MuxStops) /\ UNCHANGED apiVars

Next == PlayerStep \/ Handlers \/ Environment

Spec == Init /\ [][Next]_vars
-----------------------------------------------------------------------------
(***************************************************************************)
(* Fairness: tokio polls a runnable task again and again, and tokio's      *)
(* select! picks among its ready branches at random, so a branch that is   *)
(* ready at every poll is not passed over for ever.  OpenFails, SendFails  *)
(* and the end of the file are not assumed.                                *)
(***************************************************************************)
Fairness ==
  /\ WF_vars(PlayerStep)
  /\ SF_vars(SkipBranch /\ UNCHANGED apiVars)
  /\ SF_vars(ShutdownBranch /\ UNCHANGED apiVars)

LiveSpec == Spec /\ Fairness

\* Every file ends, so a poll that reads it comes to its end.
FilesEnd == SF_vars(EndOfFile /\ UNCHANGED apiVars)
=============================================================================
