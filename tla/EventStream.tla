----------------------------- MODULE EventStream -----------------------------
(***************************************************************************)
(* GET /api/events of src/api.rs: the tokio broadcast channel of           *)
(* PlayerHandle (src/player.rs), the stream made of a receiver of it, and  *)
(* a page that subscribes, asks GET /api/status what is playing, and then  *)
(* follows the events.                                                     *)
(*                                                                         *)
(* The channel keeps the last Cap events.  A receiver that falls behind    *)
(* gets Err(Lagged), goes on with the oldest event kept, and the filter    *)
(* swallows the error: the page is not told.  The player is as much of     *)
(* run_player as decides what it sends and what status sees, in its order. *)
(***************************************************************************)
EXTENDS Integers, Sequences

CONSTANTS
  Subscribers,  \* the pages
  Cap,          \* events the channel keeps, 64
  MaxEvents     \* bound of the model: events sent in one run

ASSUME EventStreamAssumption == Cap \in Nat \ {0} /\ MaxEvents \in Nat

Off == 0     \* no event, no track, no receiver

Event == [kind : {"started", "ended"}, track : Nat \ {0}]
         \cup [kind : {"queue_changed"}]

VARIABLES
  phase,      \* where run_player is in its loop
  track,      \* the track it took last, numbered from 1
  nowPlaying, \* PlayerHandle.now_playing
  sent,       \* every event sent
  next,       \* the event a receiver gets next, Off without a receiver
  view,       \* the track a page shows
  source,     \* what it got that from: nothing yet, status, the events
  since,      \* ghost: the first event after the page subscribed
  last,       \* ghost: the last event of a track, Off before there is one
  phantom     \* ghost: pages told by status of a track whose end event had
              \* been sent before they subscribed

channel    == <<sent, last>>
player     == <<phase, track, nowPlaying>>
pages      == <<next, view, source, since, phantom>>
streamVars == <<channel, player, pages>>

StreamInit ==
  /\ phase = "idle" /\ track = 0 /\ nowPlaying = Off
  /\ sent = <<>> /\ last = Off
  /\ next = [s \in Subscribers |-> Off] /\ view = [s \in Subscribers |-> Off]
  /\ source = [s \in Subscribers |-> "none"]
  /\ since = [s \in Subscribers |-> Off] /\ phantom = {}
-----------------------------------------------------------------------------
\* run_player, as far as its events go, and send_event

Send(event) == Len(sent) < MaxEvents /\ sent' = Append(sent, event)

SetNowPlaying ==
  /\ phase = "idle" /\ phase' = "announce"
  /\ track' = track + 1 /\ nowPlaying' = track + 1
  /\ UNCHANGED <<channel, pages>>

SendStarted ==
  /\ phase = "announce" /\ phase' = "play"
  /\ Send([kind |-> "started", track |-> track]) /\ last' = Len(sent) + 1
  /\ UNCHANGED <<track, nowPlaying, pages>>

SendEnded ==
  /\ phase = "play" /\ phase' = "retire"
  /\ Send([kind |-> "ended", track |-> track]) /\ last' = Len(sent) + 1
  /\ UNCHANGED <<track, nowPlaying, pages>>

ClearNowPlaying ==
  /\ phase = "retire" /\ phase' = "idle"
  /\ nowPlaying' = Off
  /\ UNCHANGED <<track, channel, pages>>

\* Any handler that changes the queue, at any time.
SendQueueChanged ==
  /\ Send([kind |-> "queue_changed"])
  /\ UNCHANGED <<last, player, pages>>
-----------------------------------------------------------------------------
\* One page

\* events_sse: event_tx.subscribe()
Subscribe(s) ==
  /\ next[s] = Off
  /\ next' = [next EXCEPT ![s] = Len(sent) + 1]
  /\ since' = [since EXCEPT ![s] = Len(sent) + 1]
  /\ view' = [view EXCEPT ![s] = Off] /\ source' = [source EXCEPT ![s] = "none"]
  /\ phantom' = phantom \ {s}
  /\ UNCHANGED <<channel, player>>

\* The answer of GET /api/status, with now_playing() as it was: a page that
\* has had the event of a track already knows better.
AskStatus(s) ==
  /\ next[s] # Off /\ source[s] = "none"
  /\ source' = [source EXCEPT ![s] = "status"]
  /\ view' = [view EXCEPT ![s] = nowPlaying]
  /\ phantom' = IF phase = "retire" /\ last < since[s] THEN phantom \cup {s} ELSE phantom
  /\ UNCHANGED <<channel, player, next, since>>

\* Still in the channel.
Kept(i) == i > Len(sent) - Cap

Told(event) == IF event.kind = "started" THEN event.track ELSE Off

Waiting(s) == next[s] \in 1..Len(sent)

\* Ok(event)
Deliver(s) ==
  /\ Waiting(s) /\ Kept(next[s])
  /\ next' = [next EXCEPT ![s] = @ + 1]
  /\ IF sent[next[s]].kind = "queue_changed"
     THEN UNCHANGED <<view, source, phantom>>
     ELSE /\ view' = [view EXCEPT ![s] = Told(sent[next[s]])]
          /\ source' = [source EXCEPT ![s] = "events"]
          /\ phantom' = phantom \ {s}
  /\ UNCHANGED <<channel, player, since>>

\* Mutant: a receiver that lagged goes on with what comes next.
Lagged_ToNewest(s) ==
  /\ Waiting(s) /\ ~Kept(next[s])
  /\ next' = [next EXCEPT ![s] = Len(sent) + 1]
  /\ UNCHANGED <<channel, player, view, source, since, phantom>>

\* Err(Lagged(n)) => None: the receiver is now at the oldest event kept.
Lagged(s) ==
  /\ Waiting(s) /\ ~Kept(next[s])
  /\ next' = [next EXCEPT ![s] = Len(sent) - Cap + 1]
  /\ UNCHANGED <<channel, player, view, source, since, phantom>>

\* The page is closed, or its connection lost.
Leave(s) ==
  /\ next[s] # Off
  /\ next' = [next EXCEPT ![s] = Off] /\ since' = [since EXCEPT ![s] = Off]
  /\ view' = [view EXCEPT ![s] = Off] /\ source' = [source EXCEPT ![s] = "none"]
  /\ phantom' = phantom \ {s}
  /\ UNCHANGED <<channel, player>>

StreamNext ==
  \/ SetNowPlaying \/ SendStarted \/ SendEnded \/ ClearNowPlaying \/ SendQueueChanged
  \/ \E s \in Subscribers : Subscribe(s) \/ AskStatus(s) \/ Deliver(s) \/ Lagged(s) \/ Leave(s)

StreamSpec == StreamInit /\ [][StreamNext]_streamVars
-----------------------------------------------------------------------------
\* A page that has its answer and every event there is to receive.
UpToDate(s) == source[s] # "none" /\ next[s] = Len(sent) + 1

\* What the events say is playing.
Announced == IF last = Off THEN Off ELSE Told(sent[last])

\* A page that subscribed before it asked for the status, and has caught up,
\* shows what the events or status say, whatever it missed, if fewer than
\* Cap events followed the last one of a track.  Not so the page that came
\* between the end event of a track and the clearing of now_playing: it
\* shows that track until the next one starts.
ViewRight ==
  \A s \in Subscribers :
    UpToDate(s) /\ (last < since[s] \/ Kept(last)) /\ s \notin phantom
      => view[s] \in {Announced, nowPlaying}
=============================================================================
