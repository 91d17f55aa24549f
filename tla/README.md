# A verification project for Snowboot

Snowboot (`src/`) is an Icecast source client: a player task takes Ogg files
from a queue that an HTTP API edits, the external crate `oggmux` turns them into
one stream, and a sender task writes that stream to an Icecast server and
reconnects when the connection is lost. This directory holds TLA+ models of
it, TLC configurations, and TLAPS proofs. File names below are relative to the
repository; `player.rs:116` is line 116 of `src/player.rs`.

## 1. The system

| component | state | operations | what is hard |
|---|---|---|---|
| Track queue, `queue.rs` | `VecDeque<Track>` behind a tokio `RwLock`; the id counter `NEXT_TRACK_ID` | push_back, push_front, pop_front, remove, clear, move_track, shuffle | ids are taken before the lock; positions are clamped |
| Player task, `player.rs` | the track in hand, `now_playing`, `skip_token`, history, broadcast events, gauge and counters | `run_player`, `stream_file`, `skip` | it publishes five pieces of state one after the other while handlers read and change them; two cancellations race a read that is always ready |
| Queue and playback API, `api.rs` | none of its own | add, add next, bulk, shuffle, remove, move, clear, skip | a handler awaits between its steps and is dropped there if its client goes away |
| Sender task and shutdown, `main.rs`, `connection.rs` | its client, the backoff, the connection state the API reports | receive a chunk, send it, reconnect; ctrl-c, 5 s of grace, disconnect | main keeps the *first* client, the sender replaces its own; the limit of the shutdown does not cover the disconnect |
| Icecast client, `icecast.rs` | `running`, and the socket behind a tokio mutex | connect, send_data, disconnect | the flag is read before the lock is awaited; the lock is held over a write without a time limit |
| HTTP handshake, `icecast.rs` | a buffer | connect, read_http_response, parse_http_status | the limit of 5 s is per read; the answer comes in pieces of any size |
| Event stream, `api.rs:410` | a receiver of a channel of 64 events | subscribe, next event | a slow subscriber loses events silently; a page learns of the current track from `status` only |
| Read-only API: list, status, history, health, ready, metrics | none | | `status` is three reads, not one snapshot |
| Vorbis comments, `queue.rs:57` | a cursor | read_vorbis_comments | lengths come from the file |
| Directory scan, path checks, authentication, `api.rs` | none | scan_directory | symbolic links; a file may vanish after its check |
| Metrics, `metrics.rs` | counters and gauges | | set by several tasks |
| Configuration, `config.rs`, `validation.rs` | a `Config` | from_file, apply_env_vars, validate, parse_host_port | environment applied after validation; each limit exists twice; `Config` is not used by `main` |
| Errors, command line, logging | none | | |
| oggmux | external | a bounded channel in, a channel out | back-pressure: a player that waits in `send` sees neither skip nor shutdown |

**Interaction.** Handlers and player share the queue through its lock, the skip
token through another, `now_playing` and history through `std` locks, and the
metrics without any. Player → mux → sender are joined by channels. The sender and
main share the client of the first connection. `connection_state` is a copy of
what the sender believes, and is what `status`, `/health` and `/ready` report.
The shutdown token is seen by the player, the sender and the API server.

What makes each part correct, in a sentence. *Queue and handlers*: no track is
lost, doubled or played twice by any interleaving, and gauge and events follow
the queue. *Player*: every start has its end, history, counters and events tell
one story, a skip hits the track it was meant for and no other, skip and
shutdown take effect. *Sender*: at most one socket, a truthful status, retries
that back off, reset and find a server that returns, and a shutdown that ends.
*Handshake*: an attempt ends, and its verdict depends on the answer and not on
how it is cut. *Composition*: a blocked task is released when the outage ends or
the station stops. *Parsers*: no index out of bounds, bounded time. *Event
stream*: a page that has caught up shows what plays. *Configuration*: what is
wrong with a configuration in use came from the environment, the two copies of the
limits agree, and a layer overrides those below (which it does not, for one field).

The hazards, each at its line, with the property that covers it or the reason
why none does, are the list `hazards` of `PROJECT.json`.

## 2. The modules

```
TrackQueue        pure operations of queue.rs
Player            run_player, stream_file, skip           EXTENDS TrackQueue
Station           player + handlers + ctrl-c, Spec        EXTENDS Player
Playlist          abstract specification of the station
StationProperties what is checked of Station              INSTANCE Playlist
MCStation         symmetry, the module TLC runs
DataProofs        lemmas the proofs share: induction, recursion, the queue operations
StationProofs     TypeCorrect, TracksOnlyOnce, TracksAreKept, StationIsPlaylist
StationRecordProofs  GaugeSettles, AnnouncementsCover, SkipsAreRequested,
                  EventsArePaired, RecordsTellOneStory
IcecastSender     sender task, IcecastClient, start-up and shutdown of main
SenderProperties  what is checked of it
MCSender          the module TLC runs for what the documentation says of it
SenderProofs      SenderSafe and its consequences, BackoffIsDoubled
Handshake         IcecastClient::connect, read by read
Connection        sender, main and handshake       EXTENDS SenderProperties, Handshake
MCConnection      answers of every shape, the module TLC runs
HandshakeProofs   Connection implements IcecastSender; the handshake's invariants
Pipeline          player, oggmux, sender, main and status, joined by channels
                  EXTENDS Player, INSTANCE IcecastSender
MCPipeline        the module TLC runs
PipelineProofs    Pipeline implements IcecastSender and Playlist; its invariants
VorbisComments    read_vorbis_comments
EventStream       /api/events and a page on it
Configuration     config.rs, validation.rs
DirectoryScan     scan_directory
MCStandalone      inputs of the last four, the module TLC runs
StandaloneProofs  the invariants of VorbisComments, Configuration, EventStream
ScanProofs        the invariants of DirectoryScan
```

### Station: queue, player and handlers

A critical section that awaits nothing is one action; between two actions
anything else may run. The player's program counter `pc` names where it is:

| `pc` | code | actions |
|---|---|---|
| top | `player.rs:86` | CheckShutdown |
| pop | :90 | PopFront, PopNone |
| empty, sleep | :98, :99 | ZeroGauge, WakeUp |
| gauge, setNow, start, install | :104, :111, :113, :116 | SyncGauge, SetNowPlaying, SendTrackStarted, InstallToken |
| open | :165 | OpenFile, OpenFails |
| stream | :176, a `select!` | SkipBranch, ShutdownBranch, EndOfFile, ReadChunk |
| send | :188 | SendChunk, SendFails |
| countSkip | :122 | CountSkipped |
| sendEnd | :123 or :129 | SendTrackEnd |
| count, record, clear | :135, :138, :153 | CountPlayed, RecordHistory, ClearNowPlaying |

`StreamReturns` is the return of `stream_file` to line 118, with its answer in
`wasSkipped`; it is part of each action that leaves `stream_file`. A `CancellationToken` is the id of the track it was made for; `cancelled`
is the set of tokens on which `cancel()` was called. Two ghosts record history
the code does not keep: `skipFor`, the tracks that were playing when a skip
came, and `heard`, those of which the mux got a chunk. Neither is read by an
action that models code.

A request is a record `req[c]` per client: where its handler is, the id it
took, the paths left, whether it added any. `add_track` is AddTrack (id), PushTrack
(push and gauge), SendQueueChanged; `add_tracks_bulk` loops over BulkAccept and
BulkPush, or BulkRefuse, then BulkGauge and SendQueueChanged. The other handlers
are one critical section each. `DropRequest` is axum dropping the handler at an
await; it does not happen between two paths of a bulk request, where nothing is
awaited. Requests refused before they touch anything change nothing and are left
out. After ctrl-c the API server takes no new requests; the model lets clients
go on, which only adds behaviours.

`Playlist` says what the station is for, without tasks, tokens or requests: a
track enters once, waits in an order clients may change, goes on air when
nothing is, and is retired before the next starts. The refinement maps `waiting`
to `queue`, `onAir` to the track between its pop and its end event, `aired` to
the end events, and `known` to the ids that were handed out and are not held by
a handler that has still to push. An id whose handler was dropped becomes known
without entering; the only run of the refinement therefore has clients that wait.

### IcecastSender: sender, client and shutdown

A client is the pair `running`, `stream` with the mutex `lock` of the latter;
`socket` is what became of its TCP connection. Two clients are enough:
`Original`, which main keeps for the final `disconnect()`, and `Renewed`, the
latest replacement, which only the sender holds; an earlier replacement is
dropped when it is replaced. `pc` follows the sender: select, check
(`is_running`), lock, write, lost (an error was returned), retry, sleep,
connect, done. `mainPc` follows main: connect, bind, serve, grace, lock, close,
clear, exit. When main returns the process ends and nothing moves any more
(`Alive`). The HTTP exchange of `connect()` is its outcome: connected, refused
with 401 or 403, or any other failure; `Connection` puts the exchange itself in
its place.

The 5 s of grace are not measured: they may end before or after the tasks do
(GraceTimeout, TasksEnded). The player and the API server are one flag,
`othersEnded`, without fairness, because a client of `/api/events` can keep the
API server from ending. The backoff is the code's, in seconds. The ghost
`failures` counts failed attempts since the last connection for as long as they
make the backoff longer; `refused` says that the last attempt was a 401 or 403.

### Handshake and Connection: connect() step by step

`hsPc` is where `connect()` is: tcp, request, read, judge, end. What the server
sends is a record: how long the part up to the first blank line is, which of the
classes of status `httparse` finds in it, and after how many bytes what was read
so far is not UTF-8. A read takes any number of bytes up to `ReadMax`; `AfterRead`
is the two tests after it, the blank line before the limit. What follows the
header in the same read is part of `got`, as it is of the string the code parses.
A server that closes, fails or is silent can do so at any read.

`Connection` runs it wherever the sender or main waits for `connect()`: between
its steps, the peer of the old connection, oggmux, the other tasks and ctrl-c
move on. `Conclude` hands the verdict over. `ImplementsSender` is the
specification of `IcecastSender` with its fairness: that the one-step `connect()`
of that module, and the assumption that it returns, stand for the code.

### Pipeline: the program from queue to socket

The player is `Player` and the sender `IcecastSender`, as they are. What those
modules let their surroundings do at any time is done here by the other side: the
player's `send` needs room in `input_tx`, the sender's `recv` a chunk, oggmux
makes one and takes the other (MuxForward) and ends when its input is over or its
output dropped (MuxEnds), and `othersEnded` needs a player that has ended. A
channel is the number of its chunks. The 5 s of grace are left out on purpose:
with them main ends whatever the tasks do, and the question is whether the tasks
release each other. `status` is its two reads with the wait for the queue's lock
between them.

### The components that stand alone

`VorbisComments` has the cursor, each slice taken and each early return of the
parser. A packet is what the parser makes of it: its size, the vendor's length,
the count, and for each comment the length and the key found there; the lengths
may lead anywhere.

`EventStream` has the four phases of `run_player` that decide what a page sees
(now_playing set, start sent, end sent, now_playing cleared), the channel that
keeps the last `Cap` events, and for each page the event it gets next, the track
it shows and where it learnt of it. `phantom` is a ghost: the pages that were told
by `status` of a track whose end had been sent before they subscribed.

`Configuration` layers defaults, file and environment over ten fields, among them
every field that has a limit, a special parse, or a table that must be complete,
and has the checks of `validation.rs` beside those of `Config::validate`.

`DirectoryScan` walks a tree of directories, songs, other files, unreadable
directories and symbolic links to directories; a link to a file, which `is_file`
takes for that file, is left out. A step is one call of the recursive function
(ScanDirectory), up to the calls it makes; those are kept in `calls`, with the
path, the directory it leads to and the links on it, and any of them may be next,
because `read_dir` has no order. `Return` is the outermost call's sort. The sorts
of the inner calls are left out: what they sort is sorted again. The limit on
links in a path is the kernel's.

## 3. The runs

| run | instance | checks | states |
|---|---|---|---|
| clients | 2 clients that wait, 2 tracks, 2 paths per bulk request, history 1; clients symmetric | TypeOK, NoTrackTwice, NoTrackLost, GaugeSettled, AnnouncedCovers, EventsPaired, RecordsAgree, SkippedOnRequest, ImplementsPlaylist | 1.9 M |
| live | 1 client that may vanish, 2 tracks, 1 path, fairness | ShutdownStopsPlayer, SkipTakesEffect, QueueAdvances | 0.30 M |
| connection | backoff 1 to 3, header limit 4, reads of 1 or 2 bytes, 37 answers, fairness | TypeOK, OneSocket, ConnectedMeansStream, WriteHoldsStream, NothingTakenInOutage, BackoffDoubles, AttemptBounded, SegmentationHarmless, VerdictEarned, ShutdownEnds, BroadcastResumes, ImplementsSender | 0.26 M |
| pipeline | 1 track, channels of one chunk, backoff 1, fairness | OutageCostsNoTrack, StatusCountsOnce, SkipOutlastsOutage, ShutdownUnwinds | 0.22 M |
| standalone | one component per behaviour, inputs below | SlicesInBounds, WorkBounded, LastCompleteWins, ViewRight, InvalidOnlyFromEnv, LimitsAgree, WalkBounded, ScanComplete | 0.26 M |
| skip_lost, gauge_asleep, unheard, auth_retry, stale_disconnect, stalled_peer, env_overrides | the same instances or smaller | one sentence of the documentation each, which does not hold | |

**Bounds.** `MaxTracks` bounds the ids handed out in a run, and with them
everything else in Station: the queue, the events and the counters. Two tracks
are enough for two handlers to race each other and the player over order,
gauge and events, and to have the token of a track that ended still installed
while the next one is announced. `HistMax` is 1000 in the code; what matters is
that it is reached, and that an entry is pushed out. Bulk requests of two paths
can be half done. The safety properties of `clients` are theorems too, for any
number of tracks and clients and any history; those that do not need clients
that wait (TypeOK, NoTrackTwice, NoTrackLost, EventsPaired, RecordsAgree,
SkippedOnRequest) are proved for clients that vanish as well.

A bound on the ids could make a liveness property true that the code does not
have: with finitely many pushes every queued track comes up in the end, while in
the code a client that keeps posting to `/api/queue/next` (`api.rs:248`), or keeps
moving tracks ahead, makes another wait for ever. `QueueAdvances` therefore says
nothing of a track in particular, only that the player takes another one while
the queue is not empty. It is about one step of the player's loop, and does not
lean on `MaxTracks`.

The backoff of `connection` is 1, 2, 3: it doubles, is capped off the powers of
two and stays at the cap, as 1 to 60 does. The header limit of 4 with reads of 2
has what 16384 with 1024 has: headers that end before, at and just behind the
limit, in one read or several, and a read that passes the limit. The three runs
of `MCSender` have the code's own backoff. Nothing else in IcecastSender is
bounded but the ghost `failures`.

Channels of one chunk in `pipeline` are full after one step, which is the case
that matters; a bigger channel only delays it. One track is enough to be played,
skipped or left in the queue while everything behind it is blocked.

In `standalone`, packets are cut at every byte from the magic to the end of
the third comment, with lengths and counts that fit, that just do not, and that are the
largest a u32 can be (20 here, longer than any packet). The channel keeps 2 of up
to 6 events, so that a page can lag, lag again and come late. Every field of the
configuration is set to values on either side of its limits, alone and in pairs, in
file and environment. The trees are all those of two directories with at most two names
each, with links to themselves and to each other, and paths with up to 2 links.

**Properties worth explaining.**

* `GaugeSettled` excuses two things the code does: the gauge of a bulk request
  is set after its last path, and the player writes 0 between tracks after it
  released the lock. `gauge_asleep` shows the second is visible: with a push in
  between, the gauge stays 0 with a queued track until the next change. It also
  needs clients that wait: a bulk request dropped half way leaves its pushes
  uncounted until the next update.
* `SkippedOnRequest` is the safety half of a skip: it never hits the wrong
  track. `skip_lost` shows the other half fails in the window between
  `now_playing` and the token (`player.rs:111-116`).
* `NoTrackLost` is the other half of `NoTrackTwice`: whoever has a track in hand
  passes it on. Only a client takes one away: by removing it, by clearing the
  queue, or by going away before its push. A move that drops what it moves
  is a withdrawal to `Playlist`, so the refinement would not object; this does.
* `RecordsAgree` ties the history to the *last* `HistMax` end events and both
  counters to all of them. They are written one after the other: between two
  steps TRACKS_SKIPPED may be ahead of the end events by one (`player.rs:122`,
  :123), TRACKS_PLAYED and the history behind by one (:135, :138), and the
  property says where, and that it is by the track in hand.
* `QueueAdvances`: if files end, the player goes on from track to track while
  there are any. No client is promised that its own track comes up.
* `OneSocket` says the stale client of main never holds a socket beside the
  sender's, because a failed write gives its socket up before the retry.
* `ConnectedMeansStream` excepts the step between a failed write and the news
  of it, the shutdown, and a sender that ended because oggmux closed its
  channel: there the state stays Connected although nothing is sent any more.
* `ShutdownEnds` holds if the peer reads; `stalled_peer` shows the process does
  not end if it does not, because `disconnect()` waits for the mutex after
  the 5 s are over.

* `NothingTakenInOutage` says that the sender has a chunk in hand only with a
  running client, its stream in place and Connected reported: from a failed write
  until the next connection, what was not taken waits in the channel. Of the chunks
  `send_data` refuses an outage costs one. It does *not* say how much audio is lost:
  writes to a peer that has left may succeed any number of times before one fails,
  and the model has those runs. It excepts the shutdown, which breaks the retry loop
  and not the loop around it (`main.rs:162`).
* `OutageCostsNoTrack` is its consequence at the other end: the player's channel is
  not closed under it, so no queued track is ended unplayed. It is about the order in
  which three tasks may end, and rests on oggmux ending only when its input is over
  or its output dropped; a mux that dies by itself makes the player pop and retire
  every queued track (`player.rs:188`), which no property here excludes.
* `ViewRight` is what a page that subscribes, asks for the status and follows the
  events can rely on: once it has caught up it shows what plays, although lost
  events are not reported, as long as fewer than `Cap` events followed the last
  one of a track. It excepts the page that came between the end event and the
  clearing of `now_playing` (`player.rs:122-153`): the code leaves it with a
  track that has ended until the next one starts.
* `StatusCountsOnce`: reading `now_playing` before the queue may lose a track that
  is on its way between them, but never shows it twice; the other order would.
* `SegmentationHarmless` and `VerdictEarned` are the two halves of a handshake:
  an answer gets its verdict however it is cut, and no verdict without its answer.
* `EnvOverrides` is `docs/DEPLOYMENT.md:115` and, below the command line,
  `docs/ARCHITECTURE.md:47`. It does not hold: of SNOWBOOT_LOG_FORMAT only "json" is
  looked at (`config.rs:198`), so that "text" cannot undo a file's json. A flag that
  does not parse turns TLS off, where a number that does not parse changes nothing;
  no document says what should become of it. The command line is above neither:
  `main` reads no file and no variable, and `Config` is used by its own tests only.
* `WalkBounded` is why a walk through a cycle of links ends at all: a call is made
  on a path, not on a directory, and the kernel counts the links of a whole path.
* `ScanComplete` and `LastCompleteWins` compare a walk, and a parse, with a
  reference definition that resolves every path, and measures every comment. That a
  walk returns no path twice is not claimed as a result: `read_dir` gives a name once.

Each property of a passing run has a mutant of the code's definition, kept beside
it with the comment "Mutant", that breaks it.

**Fairness.** tokio polls every runnable task, so the player's and the sender's
steps are weakly fair. `select!` picks among ready branches at random, so a
branch that is ready at every poll is taken some time: strong fairness of
SkipBranch, ShutdownBranch and, where a property says so (`FilesEnd`), of the
end of the file. Weak fairness of the player includes SendChunk: the mux is
assumed to take the chunk, or to close. In the sender a write is *not* fair; the
properties that need the peer to read (`PeerReads`) or to take the source back
(`ServerReturns`) have that as their premise. The mutex of tokio serves waiters
in order: strong fairness of LockOriginal. `IcecastSender` assumes that
`connect()` ends; `Connection` does not, but has the timer of each read instead
(weak fairness of ReadTimeout) and weak fairness of the steps that await nothing
from the server, and shows the rest with `ImplementsSender`. TCP connect and the
write of the request have no limit in the code; that they end is the kernel's.
In `Pipeline`, oggmux is assumed to run and the API server to see its last client
leave; the write to the socket stays without fairness. Nobody is forced to press
ctrl-c.

CHECK_DEADLOCK is off where the process really ends (sender, connection,
pipeline) and where a run is over when its input is used up (standalone).

## 4. What is proved

Every invariant and action property that a passing run checks is also a theorem,
for every value of the constants: any number of clients, tracks and pages, any
history, channels of any size, any backoff with 0 < initial <= maximum, every
packet, configuration and tree.

**Station.**

* `TypeCorrect`, `TracksOnlyOnce` (StationProofs). TypeOK /\ NoTrackTwice is
  inductive. NoTrackTwice alone is not: that a handler's fresh id is in no other
  place needs the ids in use to lie below `nextId`, which is its last conjunct,
  and that the queue holds ids at all, which is TypeOK; and type correctness of
  `remove` and `move_track` needs that no id is queued twice. What the queue
  operations do comes from DataProofs, proved from the sequence theorems: each
  adds, takes or keeps exactly its ids, once each.
* `TracksAreKept` (StationProofs), for clients that wait and for those that vanish.
  It follows step by step from the invariant before it: a handler's id is in the
  queue after its push, and the queue operations keep the ids they do not take away.
* `StationIsPlaylist` (StationProofs), assuming `~ClientsMayDisconnect`: under the
  mapping of section 2, the initial state maps to an initial state of `Playlist`,
  and every action to one of its steps or a stutter. The invariants above are
  what it needs: an id about to be pushed is new to the playlist because it is in
  no other place.
* `GaugeSettles`, `AnnouncementsCover` (StationRecordProofs), assuming
  `~ClientsMayDisconnect`: the two are inductive with the types.
* `SkipsAreRequested` (StationRecordProofs). The strengthening is about who owns
  the installed token: before a track's own token is installed, the installed one is
  of a track that ended or of none, so that cancelling it is without effect;
  afterwards it is the track's, which is then the one now playing, and so the one
  for which the skip is recorded.
* `EventsArePaired`, `RecordsTellOneStory` (StationRecordProofs). RecordInv says
  how far the records are ahead of the end events or behind them at each `pc`: a
  started track is open until its end is sent, the skip counter comes one step
  before that, the other counter one step after it and the history two, and the
  history's entries are the last end events by position.

**Sender and handshake.**

* `SenderTypes`, `NothingIsTakenInOutage`, `AtMostOneSocket`, `ConnectedIsTrue`,
  `WritesAreProtected` (SenderProofs). The inductive invariant SenderInv adds what
  each phase knows: a sender that retries has a client without a stream and has
  reported it; one that takes or writes a chunk has a running client; a stream
  implies the running flag; main, from taking the stream of `Original`, holds
  its lock.
* `BackoffIsDoubled` (SenderProofs). `Wait[n]` is the initial backoff doubled `n`
  times. BackoffDoubles says nothing of the phases in between, so it is not
  inductive: WaitInv adds that the backoff is doubled once more between the end of
  a wait and the outcome of the attempt after it, and that a sender that works has
  no failures behind it. That `Wait` satisfies its recursive definition comes from
  the lemmas on recursion in DataProofs.
* `ConnectionIsSender` (HandshakeProofs): the steps of the handshake are stutters
  of IcecastSender and `Conclude` is one of its outcomes, so everything proved of
  the sender holds with the handshake in place (`ConnectionSafe`).
* `AttemptsAreBounded`, `SegmentationIsHarmless`, `VerdictsAreEarned`
  (HandshakeProofs), for every limit, size of a read and set of answers. HsInv
  adds that a loop that goes on is within the limit, and that there are no more
  reads than bytes.

**Pipeline** (PipelineProofs).

* `PipelineIsSender`: a step of the player, of oggmux or of main is a step of what
  IcecastSender calls its surroundings, or a stutter. `SenderSafeInPipeline` draws
  the consequence: the theorems of the sender, with player and mux beside it.
* `PipelineIsPlaylist`: the pipeline implements the abstract playlist, whatever
  goes wrong behind the player.
* `NoTrackLostToOutage`. The strengthening is the order in which tasks may end:
  sender and player end only after ctrl-c, oggmux only after one of them.
* `TracksCountedOnce`: a track that left the queue, whether the player holds it,
  `now_playing` shows it or a handler has read it, is never in the queue again;
  so the second read of `status` cannot find it there.

**The components that stand alone.**

* `SlicesStayInBounds`, `ParserWorkBounded` (StandaloneProofs), for every packet.
  What each stage knows of the cursor: only where the vendor string was jumped
  over can it be beyond the packet, and there the next test comes before the next
  slice. `LastCompleteCommentWins`: the cursor is where the reference, which
  measures every comment from the start of the packet, puts the end of the last
  comment read, and what was found so far is the last of each key among those.
* `InvalidComesFromEnv`, `BothLimitsAgree` (StandaloneProofs): SettingsInv says what
  the configuration is after each layer, in terms of the layers below it (`Layered`,
  which describes what the code does and is no promise), and that it is valid until
  the environment is applied.
* `PagesShowWhatPlays` (StandaloneProofs), for any number of pages and any
  capacity. The strengthening ties a page to the last event of a track: a page past
  it that could still receive it shows it, and one that came after it shows what
  `status` said, which the phase of the player makes right but for the phantoms.
* `WalkIsBounded`, `WalkFindsTheSongs` (ScanProofs), for every finite tree and any
  limit. ScanInv: a call has the place to which the kernel resolves its path, and a
  path that names a song is either found or lies below a call still to be made. A
  walk ends within `Longest` because each directory on a path is lower in the tree
  than the one before, or uses up a link. That sorting gives each path once,
  in order, is a lemma about any finite set of paths.

**Assumptions.** Those named in the modules (BackoffAssumption, PlayerAssumption,
PipelineAssumption, HandshakeAssumption, PacketAssumption, EventStreamAssumption,
ConfigurationAssumption, ScanAssumption), and evaluated by TLC in every run that
has the module: sizes are natural numbers, limits are ordered, a packet is no longer
than an allocation can be, a file or an environment sets fields of the
configuration, a tree without its links is a tree.

**Induction over data.** The induction theorems of the library take an operator,
which the installed provers cannot instantiate. DataProofs states what is needed
about *sets* instead: a set of numbers that is not empty has a least element, a set
that holds 0 and the successor of each of its numbers holds all, and a function
given by its first value and a step exists. Induction over the comments of a
packet, the failures of an outage, the names of a path and the size of a set of
paths is done with these.

**Only model-checked**: everything that needs fairness, which is out of the prover's
reach, as ENABLED is: ShutdownStopsPlayer, SkipTakesEffect, QueueAdvances,
ShutdownEnds, BroadcastResumes, SkipOutlastsOutage, ShutdownUnwinds, and the
fairness half of ImplementsSender. With clients that vanish, GaugeSettled,
AnnouncedCovers and the refinement to Playlist do not hold, and are not claimed.

## 5. What is not modelled, and the plan

Done in this order, most important first: Station, Playlist and the station's
proofs; IcecastSender; Handshake and Connection; VorbisComments, EventStream,
Configuration and DirectoryScan; Pipeline; the proofs of the refinement, of the
records, and of the new modules; then every invariant that was only checked, and
the two refinements of Pipeline.

What a continuation would take up: a version of AnnouncedCovers and of the
refinement to Playlist that holds, and can be proved, with clients that vanish;
and two tracks and channels of two chunks in the liveness half of the pipeline's
run, which TLC does not finish in reasonable time with fairness. The safety half
was checked with two tracks, and is proved for any number.

Not modelled, and why:

* the time stamps of a track (`player.rs:112-119`): one subtraction, which
  underflows when the clock is set back; no interleaving makes it better or worse;
* what oggmux does with pages and headers, and when it calls the metadata
  callback (`main.rs:133`): outside the repository. Two hazards stay without a
  property for that reason;
* `list_queue`, `history`, the metrics text: one read each, nothing to go wrong
  in between; RECONNECT_COUNT and CONNECTION_FAILURES, which nothing else reads;
* authentication and `validate_ogg_file`: stateless filters before a handler; a
  refused request changes nothing. `validate_fifo`: nothing calls it;
* changes of the file system during a directory walk: a file that
  vanishes after it is the case OpenFails of the player.

Left out for good: logging, the texts and codes of errors, the command line, and
the inside of oggmux, axum, hyper and tokio.
