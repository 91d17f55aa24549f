---------------------------- MODULE MCConnection ----------------------------
(***************************************************************************)
(* Connection for TLC.  A read gives at most 2 bytes and the limit is 4:   *)
(* as in the code a header may take more than one read to reach the limit, *)
(* end on either side of it, or pass it within one read.                   *)
(***************************************************************************)
EXTENDS Connection

MCNever == Limit + ReadMax + 1

\* Every header length with every status; answers that are not UTF-8 from a
\* byte of the header on, from one after it, or within one character.
MCAnswers ==
  {[header |-> h, code |-> c, notUtf8 |-> {}] : h \in 1..(MCNever - 1), c \in Codes}
  \cup {[header |-> MCNever, code |-> "other", notUtf8 |-> {}]}
  \cup {[header |-> h, code |-> c, notUtf8 |-> bad] :
          h \in {3, 5}, c \in {"continue", "unauthorized"},
          bad \in {2..MCNever, 6..MCNever, {4}}}
=============================================================================
