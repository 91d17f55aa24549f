----------------------------- MODULE TrackQueue -----------------------------
(***************************************************************************)
(* The pure operations of src/queue.rs: Queue is a VecDeque<Track>, here a *)
(* sequence of tracks.  A track is its id (Track::from_file gives every    *)
(* track a fresh one); path, title and artist never influence the queue.   *)
(* The module declares no RECURSIVE operator: DataProofs proves what       *)
(* each operation keeps.                                                   *)
(***************************************************************************)
EXTENDS SequencesExt, Integers

\* Queue::push_back
PushBack(q, t) == Append(q, t)

\* Queue::push_front
PushFront(q, t) == <<t>> \o q

\* self.tracks.iter().position(|t| t.id == id), for an id that is queued.
Position(q, id) == CHOOSE i \in DOMAIN q :
                      q[i] = id /\ \A j \in DOMAIN q : q[j] = id => i <= j

\* The Some branch of Queue::remove, for an id that is queued.
RemoveId(q, id) == RemoveAt(q, Position(q, id))

\* Mutant: a position past the end is refused, with the track taken out.
MoveTo_Refused(q, id, position) ==
  LET rest == RemoveId(q, id)
  IN  IF position <= Len(rest) THEN InsertAt(rest, position + 1, id) ELSE rest

\* Queue::move_track, for an id that is queued: the target position counts
\* from 0 in the queue without the track, and is clamped to its length.
MoveTo(q, id, position) ==
  LET rest == RemoveId(q, id)
      clamped == IF position <= Len(rest) THEN position ELSE Len(rest)
  IN  InsertAt(rest, clamped + 1, id)

\* Queue::shuffle: every order the random generator can produce.
Shuffles(q) == {[i \in DOMAIN q |-> q[p[i]]] : p \in Bijection(DOMAIN q, DOMAIN q)}
=============================================================================
