------------------------------ MODULE Playlist ------------------------------
(***************************************************************************)
(* What the station promises about its tracks, without tasks, locks,       *)
(* tokens or requests: tracks wait in an order the clients may change, the *)
(* first of them goes on air when nothing is, and a track on air is        *)
(* retired, played to its end or skipped, before the next one starts.  A   *)
(* track enters once, is on air at most once, and never comes back.        *)
(***************************************************************************)
EXTENDS SequencesExt, Integers

CONSTANTS Track, None

VARIABLES
  known,    \* tracks that ever entered
  waiting,  \* sequence of tracks still to be played
  onAir,    \* the track being played, or None
  aired     \* sequence of [track, skipped], in the order of retirement

vars == <<known, waiting, onAir, aired>>

Init == known = {} /\ waiting = <<>> /\ onAir = None /\ aired = <<>>

Enter(t) ==
  /\ t \notin known
  /\ known' = known \cup {t}
  /\ waiting' \in {Append(waiting, t), <<t>> \o waiting}
  /\ UNCHANGED <<onAir, aired>>

Withdraw(i) ==
  /\ waiting' = RemoveAt(waiting, i)
  /\ UNCHANGED <<known, onAir, aired>>

WithdrawAll ==
  /\ waiting' = <<>>
  /\ UNCHANGED <<known, onAir, aired>>

Reorder ==
  /\ Len(waiting') = Len(waiting) /\ ToSet(waiting') = ToSet(waiting)
  /\ UNCHANGED <<known, onAir, aired>>

Start ==
  /\ onAir = None /\ waiting # <<>>
  /\ onAir' = Head(waiting) /\ waiting' = Tail(waiting)
  /\ UNCHANGED <<known, aired>>

Retire(skipped) ==
  /\ onAir # None
  /\ aired' = Append(aired, [track |-> onAir, skipped |-> skipped])
  /\ onAir' = None
  /\ UNCHANGED <<known, waiting>>

Next == \/ \E t \in Track : Enter(t)
        \/ \E i \in DOMAIN waiting : Withdraw(i)
        \/ WithdrawAll \/ Reorder \/ Start
        \/ \E skipped \in BOOLEAN : Retire(skipped)

Spec == Init /\ [][Next]_vars
=============================================================================
