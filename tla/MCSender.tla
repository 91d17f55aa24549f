------------------------------ MODULE MCSender ------------------------------
(* The sender for TLC, with the backoff of the code: 1 s, at most 60 s. *)
EXTENDS SenderProperties
=============================================================================
