------------------------------- MODULE Player -------------------------------
(***************************************************************************)
(* src/player.rs: the task run_player, the state it shares with the API    *)
(* handlers (PlayerHandle, the queue behind its tokio RwLock, the gauge)   *)
(* and PlayerHandle::skip.                                                 *)
(*                                                                         *)
(* A critical section of a lock holds no await, so it is one atomic step;  *)
(* between two steps anything else may run.  The task is written as a      *)
(* program counter pc with one action per step of the loop body.           *)
(*                                                                         *)
(* Abstractions: a track is its id; a CancellationToken is the id of the   *)
(* track it was created for (NoTrack for the one of PlayerHandle::new); a  *)
(* file is as many reads as it takes to reach its end; the time stamps     *)
(* started_at and duration_secs are left out.                              *)
(***************************************************************************)
EXTENDS TrackQueue

CONSTANTS
  MaxTracks,   \* bound of the model: track ids handed out in one run
  HistMax      \* entries the history keeps (1000 in the code)

ASSUME PlayerAssumption == MaxTracks \in Nat /\ HistMax \in Nat \ {0}

NoTrack == 0                 \* NEXT_TRACK_ID starts at 1
Tracks  == 1..MaxTracks

VARIABLES
  queue,          \* PlayerHandle.queue
  gauge,          \* metrics::QUEUE_LENGTH
  nowPlaying,     \* PlayerHandle.now_playing, NoTrack for None
  skipToken,      \* PlayerHandle.skip_token: whose token is installed
  cancelled,      \* tokens on which cancel() was called
  started,        \* TrackStarted events sent so far
  ended,          \* TrackFinished / TrackSkipped events sent so far
  history,        \* PlayerHandle.history
  tracksPlayed,   \* metrics::TRACKS_PLAYED
  tracksSkipped,  \* metrics::TRACKS_SKIPPED
  shutdown,       \* the shutdown token is cancelled
  muxOpen,        \* the receiver of input_tx (oggmux) is alive
  pc, track, wasSkipped,   \* locals of run_player and stream_file
  skipFor,        \* ghost: tracks that were now playing when a skip came
  heard           \* ghost: tracks of which oggmux got at least one chunk

shared  == <<queue, gauge, nowPlaying, skipToken, cancelled>>
events  == <<started, ended>>
records == <<history, tracksPlayed, tracksSkipped>>
outside == <<shutdown, muxOpen>>
locals  == <<pc, track, wasSkipped>>
ghosts  == <<skipFor, heard>>
playerVars == <<shared, events, records, outside, locals, ghosts>>

\* pc values between two tracks, and while the local variable track is one
Idling  == {"top", "pop", "empty", "sleep", "done"}
Holding == {"gauge", "setNow", "start", "install", "open", "stream", "send",
            "countSkip", "sendEnd", "count", "record", "clear"}
\* ... of Holding, before and after the track's own token is installed
Unarmed == {"gauge", "setNow", "start", "install"}
Armed   == Holding \ Unarmed
\* ... of Armed, after the end event
Retiring == {"count", "record", "clear"}

PlayerInit ==
  /\ queue = <<>> /\ gauge = 0 /\ nowPlaying = NoTrack
  /\ skipToken = NoTrack /\ cancelled = {}
  /\ started = <<>> /\ ended = <<>>
  /\ history = <<>> /\ tracksPlayed = 0 /\ tracksSkipped = 0
  /\ shutdown = FALSE /\ muxOpen = TRUE
  /\ pc = "top" /\ track = NoTrack /\ wasSkipped = FALSE
  /\ skipFor = {} /\ heard = {}

Goto(from, to) == pc = from /\ pc' = to
-----------------------------------------------------------------------------
\* run_player

\* Mutant: the loop never looks at the shutdown token.
CheckShutdown_Ignored ==
  /\ Goto("top", "pop")
  /\ UNCHANGED <<shared, events, records, outside, track, wasSkipped, ghosts>>

\* if shutdown.is_cancelled() { break; }
CheckShutdown ==
  /\ Goto("top", IF shutdown THEN "done" ELSE "pop")
  /\ UNCHANGED <<shared, events, records, outside, track, wasSkipped, ghosts>>

\* The queue's write lock is taken, the front popped, the lock released.
PopFront ==
  /\ queue # <<>>
  /\ Goto("pop", "gauge")
  /\ track' = Head(queue)
  /\ queue' = Tail(queue)
  /\ UNCHANGED <<gauge, nowPlaying, skipToken, cancelled, events, records,
                 outside, wasSkipped, ghosts>>

\* Mutant: while let Some(track), the task ends on an empty queue.
PopNone_Ends ==
  /\ queue = <<>>
  /\ Goto("pop", "done")
  /\ UNCHANGED <<shared, events, records, outside, track, wasSkipped, ghosts>>

PopNone ==
  /\ queue = <<>>
  /\ Goto("pop", "empty")
  /\ UNCHANGED <<shared, events, records, outside, track, wasSkipped, ghosts>>

\* None => QUEUE_LENGTH.set(0), without the lock under which it was empty.
ZeroGauge ==
  /\ Goto("empty", "sleep")
  /\ gauge' = 0
  /\ UNCHANGED <<queue, nowPlaying, skipToken, cancelled, events, records,
                 outside, track, wasSkipped, ghosts>>

WakeUp ==
  /\ Goto("sleep", "top")
  /\ UNCHANGED <<shared, events, records, outside, track, wasSkipped, ghosts>>

\* Mutant: QUEUE_LENGTH.dec() instead of set.
SyncGauge_Decrement ==
  /\ Goto("gauge", "setNow")
  /\ gauge' = gauge - 1
  /\ UNCHANGED <<queue, nowPlaying, skipToken, cancelled, events, records,
                 outside, track, wasSkipped, ghosts>>

\* QUEUE_LENGTH.set(q.len()) under the read lock
SyncGauge ==
  /\ Goto("gauge", "setNow")
  /\ gauge' = Len(queue)
  /\ UNCHANGED <<queue, nowPlaying, skipToken, cancelled, events, records,
                 outside, track, wasSkipped, ghosts>>

SetNowPlaying ==
  /\ Goto("setNow", "start")
  /\ nowPlaying' = track
  /\ UNCHANGED <<queue, gauge, skipToken, cancelled, events, records,
                 outside, track, wasSkipped, ghosts>>

SendTrackStarted ==
  /\ Goto("start", "install")
  /\ started' = Append(started, track)
  /\ UNCHANGED <<shared, ended, records, outside, track, wasSkipped, ghosts>>

\* A fresh token for this track replaces the one skip() would cancel.
InstallToken ==
  /\ Goto("install", "open")
  /\ skipToken' = track
  /\ UNCHANGED <<queue, gauge, nowPlaying, cancelled, events, records,
                 outside, track, wasSkipped, ghosts>>
-----------------------------------------------------------------------------
\* stream_file

\* stream_file returns: run_player has its result, and the file is closed.
StreamReturns(skip) ==
  /\ pc' = IF skip THEN "countSkip" ELSE "sendEnd"
  /\ wasSkipped' = skip
  /\ UNCHANGED <<shared, events, records, outside, track, ghosts>>

OpenFile ==
  /\ Goto("open", "stream")
  /\ UNCHANGED <<shared, events, records, outside, track, wasSkipped, ghosts>>

\* Mutant: the loop body is left early, without an end event.
OpenFails_Continue ==
  /\ Goto("open", "clear")
  /\ UNCHANGED <<shared, events, records, outside, track, wasSkipped, ghosts>>

\* Mutant: the track is put back to be tried again.
OpenFails_Retry ==
  /\ Goto("open", "count")
  /\ queue' = PushFront(queue, track)
  /\ UNCHANGED <<gauge, nowPlaying, skipToken, cancelled, events, records,
                 outside, track, wasSkipped, ghosts>>

\* The file vanished or became unreadable since it was validated.
OpenFails == pc = "open" /\ StreamReturns(FALSE)

\* Mutant: one token for all tracks, never renewed.
SkipBranch_SharedToken == pc = "stream" /\ cancelled # {} /\ StreamReturns(TRUE)

\* Mutant: the token is only looked at before the first chunk.
SkipBranch_CheckedOnce ==
  pc = "stream" /\ track \in cancelled \ heard /\ StreamReturns(TRUE)

SkipBranch == pc = "stream" /\ track \in cancelled /\ StreamReturns(TRUE)

ShutdownBranch == pc = "stream" /\ shutdown /\ StreamReturns(FALSE)

\* Ok(0), or an error reading the file
EndOfFile == pc = "stream" /\ StreamReturns(FALSE)

\* Ok(n): the chunk is copied; from here on only the channel is awaited.
ReadChunk ==
  /\ Goto("stream", "send")
  /\ UNCHANGED <<shared, events, records, outside, track, wasSkipped, ghosts>>

SendChunk ==
  /\ muxOpen
  /\ Goto("send", "stream")
  /\ heard' = heard \cup {track}
  /\ UNCHANGED <<shared, events, records, outside, track, wasSkipped, skipFor>>

SendFails == pc = "send" /\ ~muxOpen /\ StreamReturns(FALSE)
-----------------------------------------------------------------------------
\* run_player, after stream_file

\* if was_skipped: TRACKS_SKIPPED.inc(), before the event
CountSkipped ==
  /\ Goto("countSkip", "sendEnd")
  /\ tracksSkipped' = tracksSkipped + 1
  /\ UNCHANGED <<shared, events, history, tracksPlayed, outside, track,
                 wasSkipped, ghosts>>

\* TrackSkipped or TrackFinished
SendTrackEnd ==
  /\ Goto("sendEnd", "count")
  /\ ended' = Append(ended, [track |-> track, skipped |-> wasSkipped])
  /\ UNCHANGED <<shared, started, records, outside, track, wasSkipped, ghosts>>

CountPlayed ==
  /\ Goto("count", "record")
  /\ tracksPlayed' = tracksPlayed + 1
  /\ UNCHANGED <<shared, events, history, tracksSkipped, outside, track,
                 wasSkipped, ghosts>>

\* Mutant: a full history keeps its oldest entries.
RecordHistory_KeepsOldest ==
  /\ Goto("record", "clear")
  /\ history' = IF Len(history) < HistMax
                THEN Append(history, [track |-> track, skipped |-> wasSkipped])
                ELSE history
  /\ UNCHANGED <<shared, events, tracksPlayed, tracksSkipped, outside, track,
                 wasSkipped, ghosts>>

\* history.push, then drain all but the last HistMax
RecordHistory ==
  /\ Goto("record", "clear")
  /\ LET pushed == Append(history, [track |-> track, skipped |-> wasSkipped])
         excess == Len(pushed) - HistMax
     IN  history' = IF excess > 0 THEN SubSeq(pushed, excess + 1, Len(pushed))
                                  ELSE pushed
  /\ UNCHANGED <<shared, events, tracksPlayed, tracksSkipped, outside, track,
                 wasSkipped, ghosts>>

ClearNowPlaying ==
  /\ Goto("clear", "top")
  /\ nowPlaying' = NoTrack
  /\ track' = NoTrack /\ wasSkipped' = FALSE      \* out of scope
  /\ UNCHANGED <<queue, gauge, skipToken, cancelled, events, records,
                 outside, ghosts>>
-----------------------------------------------------------------------------
\* PlayerHandle::skip, called by the handler of POST /api/skip
Skip ==
  /\ cancelled' = cancelled \cup {skipToken}
  /\ skipFor' = IF nowPlaying = NoTrack THEN skipFor ELSE skipFor \cup {nowPlaying}
  /\ UNCHANGED <<queue, gauge, nowPlaying, skipToken, events, records,
                 outside, locals, heard>>

\* ctrl_c in main: shutdown.cancel()
CancelShutdown ==
  /\ ~shutdown
  /\ shutdown' = TRUE
  /\ UNCHANGED <<shared, events, records, muxOpen, locals, ghosts>>

\* The mux task ends and drops its receiver (external: its code is oggmux).
MuxStops ==
  /\ muxOpen
  /\ muxOpen' = FALSE
  /\ UNCHANGED <<shared, events, records, shutdown, locals, ghosts>>

StreamFile == OpenFile \/ OpenFails \/ SkipBranch \/ ShutdownBranch
              \/ EndOfFile \/ ReadChunk \/ SendChunk \/ SendFails

RunPlayer == CheckShutdown \/ PopFront \/ PopNone \/ ZeroGauge \/ WakeUp
             \/ SyncGauge \/ SetNowPlaying \/ SendTrackStarted \/ InstallToken
             \/ StreamFile \/ CountSkipped \/ SendTrackEnd
             \/ CountPlayed \/ RecordHistory \/ ClearNowPlaying
=============================================================================
