----------------------------- MODULE MCStation ------------------------------
(* Small instances of the station for TLC. *)
EXTENDS StationProperties

\* Clients differ only in name.  Used by the runs without liveness.
ClientSymmetry == Permutations(Clients)
=============================================================================
