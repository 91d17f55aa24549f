------------------------------ MODULE Handshake ------------------------------
(***************************************************************************)
(* IcecastClient::connect of src/icecast.rs: the TCP connection, the PUT   *)
(* request, the loop that reads the answer and the judgement on it.        *)
(*                                                                         *)
(* The answer is a stream of bytes of which the client sees, at each read, *)
(* from one byte to ReadMax.  What is in it is a record: the length of the *)
(* part that ends with the first blank line (Never if there is none), what *)
(* httparse makes of that part, and the lengths at which the bytes so far  *)
(* are not UTF-8 (all from a wrong byte on; one if a read may end inside a *)
(* character).  The server may close, fail or fall silent at any byte.     *)
(***************************************************************************)
EXTENDS Integers

CONSTANTS
  Answers,   \* the answers considered
  Never,     \* length of the header of an answer without a blank line
  Limit,     \* bytes read before an endless header is given up: 16384
  ReadMax    \* bytes a read may give, the size of temp: 1024

Codes == {"continue", "unauthorized", "other", "unparsable"}

\* No answer yet.
NoAnswer == [header |-> Never, code |-> "none", notUtf8 |-> {}]

ASSUME HandshakeAssumption ==
  /\ Limit \in Nat /\ ReadMax \in Nat \ {0}
  /\ Never \in Nat /\ Never > Limit + ReadMax
  /\ Answers \subseteq [header : 1..Never, code : Codes, notUtf8 : SUBSET (0..Never)]

VARIABLES
  hsPc,     \* where connect() is
  answer,   \* what the server sends, in this attempt
  got,      \* bytes in buffer
  verdict,  \* how connect() ends
  reads     \* ghost: reads that gave bytes

hsVars == <<hsPc, answer, got, verdict, reads>>

HsPc     == {"idle", "tcp", "request", "read", "judge", "end"}
Verdicts == {"none", "accepted", "auth", "unexpected", "malformed", "tooLarge",
             "closed", "failed", "timeout"}

HsInit ==
  /\ hsPc = "idle" /\ answer = NoAnswer
  /\ got = 0 /\ verdict = "none" /\ reads = 0

End(how) == hsPc' = "end" /\ verdict' = how

\* connect() is called.
Begin ==
  /\ hsPc = "idle" /\ hsPc' = "tcp"
  /\ UNCHANGED <<answer, got, verdict, reads>>

\* TcpStream::connect, set_nodelay
TcpConnects ==
  /\ hsPc = "tcp" /\ hsPc' = "request"
  /\ UNCHANGED <<answer, got, verdict, reads>>

TcpFails == hsPc = "tcp" /\ End("failed") /\ UNCHANGED <<answer, got, reads>>

\* write_all(request); the server makes up its answer.
SendRequest ==
  /\ hsPc = "request" /\ hsPc' = "read"
  /\ answer' \in Answers
  /\ UNCHANGED <<got, verdict, reads>>

RequestFails == hsPc = "request" /\ End("failed") /\ UNCHANGED <<answer, got, reads>>
-----------------------------------------------------------------------------
\* read_http_response

HeaderComplete(bytes) == bytes >= answer.header

\* Mutant: nothing limits the buffer.
AfterRead_Unlimited(bytes) ==
  IF HeaderComplete(bytes) THEN hsPc' = "judge" /\ UNCHANGED verdict
                           ELSE UNCHANGED <<hsPc, verdict>>

\* Mutant: the limit is checked before the header.
AfterRead_LimitFirst(bytes) ==
  IF bytes > Limit THEN End("tooLarge")
  ELSE /\ hsPc' = IF HeaderComplete(bytes) THEN "judge" ELSE "read"
       /\ UNCHANGED verdict

\* The header is complete, or too long, or the loop goes on.
AfterRead(bytes) ==
  \/ /\ HeaderComplete(bytes)
     /\ hsPc' = "judge" /\ UNCHANGED verdict
  \/ /\ ~HeaderComplete(bytes) /\ bytes > Limit
     /\ End("tooLarge")
  \/ /\ ~HeaderComplete(bytes) /\ bytes <= Limit
     /\ UNCHANGED <<hsPc, verdict>>

\* Ok(Ok(n)), n > 0
Read ==
  /\ hsPc = "read"
  /\ \E n \in 1..ReadMax :
       /\ got' = got + n
       /\ AfterRead(got + n)
  /\ reads' = reads + 1
  /\ UNCHANGED answer

\* Mutant: break at the end of the answer, as if the header were complete.
ReadClosed_Judges ==
  /\ hsPc = "read" /\ hsPc' = "judge"
  /\ UNCHANGED <<answer, got, verdict, reads>>

\* n == 0: the server closed the connection.
ReadClosed == hsPc = "read" /\ End("closed") /\ UNCHANGED <<answer, got, reads>>

\* Mutant: a read is awaited for as long as it takes.
ReadTimeout_Unlimited == FALSE

\* The 5 s of this read are over.
ReadTimeout == hsPc = "read" /\ End("timeout") /\ UNCHANGED <<answer, got, reads>>

\* An error of the socket.
ReadFails == hsPc = "read" /\ End("failed") /\ UNCHANGED <<answer, got, reads>>

\* from_utf8 of all that was read, parse_http_status, and the status.
Judgement ==
  IF got \in answer.notUtf8 THEN "malformed"
  ELSE CASE answer.code = "continue"     -> "accepted"
         [] answer.code = "unauthorized" -> "auth"
         [] answer.code = "other"        -> "unexpected"
         [] answer.code = "unparsable"   -> "malformed"

Judge == hsPc = "judge" /\ End(Judgement) /\ UNCHANGED <<answer, got, reads>>

\* The caller has the result of connect().
Return ==
  /\ hsPc = "end" /\ hsPc' = "idle"
  /\ answer' = NoAnswer /\ got' = 0 /\ verdict' = "none" /\ reads' = 0

Attempt == Begin \/ TcpConnects \/ TcpFails \/ SendRequest \/ RequestFails
           \/ Read \/ ReadClosed \/ ReadTimeout \/ ReadFails \/ Judge

HsNext == Attempt \/ Return

HsSpec == HsInit /\ [][HsNext]_hsVars
-----------------------------------------------------------------------------
\* An attempt takes a bounded number of reads, each with its limit of 5 s,
\* and a bounded buffer, whatever the server sends and however slowly.
AttemptBounded == got <= Limit + ReadMax /\ reads <= Limit + 1

\* An answer whose header keeps the limit and which is UTF-8 gets the
\* verdict its status deserves or none: how it is cut into reads, and what
\* follows the header in the same read, does not matter.
SegmentationHarmless ==
  answer.header <= Limit + 1 /\ answer.notUtf8 = {}
    => verdict \in {"none", "closed", "failed", "timeout", Judgement}

\* A connection is only saved for a server that said 100 or 200 in a whole
\* header, the password only called wrong by one that said 401 or 403, and a
\* header only called too large when it is.
VerdictEarned ==
  /\ verdict \in {"accepted", "auth", "unexpected", "malformed"} => HeaderComplete(got)
  /\ verdict = "accepted" => answer.code = "continue"
  /\ verdict = "auth" => answer.code = "unauthorized"
  /\ verdict = "tooLarge" => answer.header > Limit + 1
=============================================================================
