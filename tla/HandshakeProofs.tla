--------------------------- MODULE HandshakeProofs ---------------------------
(***************************************************************************)
(* Proofs about connect() and the sender that waits for it, for every set  *)
(* of answers, every limit and every size of a read.                       *)
(*                                                                         *)
(* Connection implements Handshake on one side and IcecastSender on the    *)
(* other, so what is proved of each holds of the two together.  HsInv is   *)
(* inductive: the loop goes on only below the limit, every read gives at   *)
(* least a byte, and the judgement is of a whole header.                   *)
(***************************************************************************)
EXTENDS Connection, SenderProofs

HsTypeOK ==
  /\ hsPc \in HsPc /\ verdict \in Verdicts
  /\ got \in Nat /\ reads \in Nat
  /\ answer \in Answers \cup {NoAnswer}

ReadInv ==
  /\ reads <= got /\ AttemptBounded
  /\ hsPc = "read" => got <= Limit
  /\ hsPc \in {"idle", "tcp", "request"} => got = 0

VerdictInv ==
  /\ hsPc # "end" => verdict = "none"
  /\ hsPc = "judge" => HeaderComplete(got)
  /\ hsPc \in {"read", "judge"} => answer \in Answers

HsInv == HsTypeOK /\ ReadInv /\ VerdictInv /\ VerdictEarned /\ SegmentationHarmless
-----------------------------------------------------------------------------
LEMMA HsInitInv == HsInit => HsInv
  BY HandshakeAssumption
     DEF HsInit, HsInv, HsTypeOK, ReadInv, VerdictInv, VerdictEarned, SegmentationHarmless,
         AttemptBounded, HsPc, Verdicts

\* What an answer is.
LEMMA AnswerFacts ==
  ASSUME HsTypeOK
  PROVE  /\ answer.header \in Nat /\ Limit \in Nat /\ ReadMax \in Nat
         /\ answer \in Answers => answer.code \in Codes
  BY HandshakeAssumption DEF HsTypeOK, NoAnswer

\* A read: the buffer was below the limit, and grows by at most ReadMax.
LEMMA ReadStep ==
  ASSUME HsInv, Read
  PROVE  HsInv'
  <1>1. PICK n \in 1..ReadMax : got' = got + n /\ AfterRead(got + n)
    BY DEF Read
  <1>2. /\ hsPc = "read" /\ reads' = reads + 1 /\ UNCHANGED answer
        /\ got \in Nat /\ reads \in Nat /\ reads <= got /\ got <= Limit
        /\ verdict = "none"
    BY DEF Read, HsInv, HsTypeOK, ReadInv, VerdictInv
  <1>3. /\ n \in Nat \ {0} /\ n <= ReadMax /\ Limit \in Nat /\ ReadMax \in Nat
        /\ answer.header \in Nat
    BY AnswerFacts, HandshakeAssumption DEF HsInv
  <1>4. /\ got' \in Nat /\ reads' \in Nat /\ reads' <= got' /\ AttemptBounded'
    BY <1>1, <1>2, <1>3 DEF AttemptBounded
  <1>5. CASE HeaderComplete(got') /\ hsPc' = "judge" /\ UNCHANGED verdict
    <2>2. HsTypeOK' /\ ReadInv' /\ VerdictInv'
      BY <1>2, <1>4, <1>5
         DEF HsInv, HsTypeOK, ReadInv, VerdictInv, HsPc, HeaderComplete
    <2>3. VerdictEarned' /\ SegmentationHarmless'
      BY <1>2, <1>5 DEF VerdictEarned, SegmentationHarmless
    <2>. QED
      BY <2>2, <2>3 DEF HsInv
  <1>6. CASE ~HeaderComplete(got') /\ got' > Limit /\ End("tooLarge")
    <2>1. got' < answer.header /\ answer.header > Limit + 1
      BY <1>1, <1>2, <1>3, <1>4, <1>6 DEF HeaderComplete
    <2>2. HsTypeOK' /\ ReadInv' /\ VerdictInv'
      BY <1>2, <1>4, <1>6
         DEF HsInv, HsTypeOK, ReadInv, VerdictInv, HsPc, Verdicts, End
    <2>3. VerdictEarned' /\ SegmentationHarmless'
      BY <1>2, <1>3, <1>6, <2>1 DEF VerdictEarned, SegmentationHarmless, End
    <2>. QED
      BY <2>2, <2>3 DEF HsInv
  <1>7. CASE ~HeaderComplete(got') /\ got' <= Limit /\ UNCHANGED <<hsPc, verdict>>
    <2>1. HsTypeOK' /\ ReadInv' /\ VerdictInv'
      BY <1>2, <1>4, <1>7 DEF HsInv, HsTypeOK, ReadInv, VerdictInv
    <2>2. VerdictEarned' /\ SegmentationHarmless'
      BY <1>2, <1>7 DEF VerdictEarned, SegmentationHarmless
    <2>. QED
      BY <2>1, <2>2 DEF HsInv
  <1>. QED
    BY <1>1, <1>5, <1>6, <1>7 DEF AfterRead, HeaderComplete

\* The judgement is of a whole header, and what it should be.
LEMMA JudgeStep ==
  ASSUME HsInv, Judge
  PROVE  HsInv'
  <1>1. /\ hsPc = "judge" /\ hsPc' = "end" /\ verdict' = Judgement
        /\ UNCHANGED <<answer, got, reads>>
    BY DEF Judge, End
  <1>2. HeaderComplete(got) /\ answer \in Answers /\ answer.code \in Codes
    BY <1>1, AnswerFacts DEF HsInv, VerdictInv
  <1>3. /\ Judgement \in {"malformed", "accepted", "auth", "unexpected"}
        /\ Judgement = "accepted" => answer.code = "continue"
        /\ Judgement = "auth" => answer.code = "unauthorized"
        /\ Judgement' = Judgement
    BY <1>1, <1>2 DEF Judgement, Codes
  <1>. HIDE DEF Judgement
  <1>4. HsTypeOK' /\ ReadInv' /\ VerdictInv'
    BY <1>1, <1>3
       DEF HsInv, HsTypeOK, ReadInv, VerdictInv, AttemptBounded, HsPc, Verdicts
  <1>5. VerdictEarned' /\ SegmentationHarmless'
    BY <1>1, <1>2, <1>3 DEF VerdictEarned, SegmentationHarmless, HeaderComplete
  <1>. QED
    BY <1>4, <1>5 DEF HsInv

\* An attempt that fails before there is a header.
LEMMA EndStep ==
  ASSUME HsInv, TcpFails \/ RequestFails \/ ReadClosed \/ ReadTimeout \/ ReadFails
  PROVE  HsInv'
  <1>1. PICK how \in {"failed", "closed", "timeout"} : End(how)
    BY DEF TcpFails, RequestFails, ReadClosed, ReadTimeout, ReadFails
  <1>2. UNCHANGED <<answer, got, reads>> /\ hsPc \in {"tcp", "request", "read"}
    BY DEF TcpFails, RequestFails, ReadClosed, ReadTimeout, ReadFails
  <1>. QED
    BY <1>1, <1>2
       DEF End, HsInv, HsTypeOK, ReadInv, VerdictInv, AttemptBounded, VerdictEarned,
           SegmentationHarmless, HsPc, Verdicts

\* The inductive invariant of connect().
LEMMA HsInvariant == HsSpec => []HsInv
  <1>1. HsInv /\ [HsNext]_hsVars => HsInv'
    <2>. SUFFICES ASSUME HsInv, [HsNext]_hsVars PROVE HsInv'
      OBVIOUS
    <2>. USE DEF HsInv, HsTypeOK, ReadInv, VerdictInv, AttemptBounded, VerdictEarned,
                 SegmentationHarmless, HsPc
    <2>1. CASE Begin \/ TcpConnects
      BY <2>1 DEF Begin, TcpConnects
    <2>2. CASE SendRequest
      BY <2>2, HandshakeAssumption DEF SendRequest
    <2>3. CASE Read
      BY <2>3, ReadStep
    <2>4. CASE Judge
      BY <2>4, JudgeStep
    <2>5. CASE TcpFails \/ RequestFails \/ ReadClosed \/ ReadTimeout \/ ReadFails
      BY <2>5, EndStep
    <2>6. CASE Return
      BY <2>6, HandshakeAssumption DEF Return, Verdicts
    <2>7. CASE UNCHANGED hsVars
      BY <2>7 DEF hsVars, HeaderComplete, Judgement
    <2>. QED
      BY <2>1, <2>2, <2>3, <2>4, <2>5, <2>6, <2>7 DEF HsNext, Attempt
  <1>. QED
    BY <1>1, HsInitInv, PTL DEF HsSpec
-----------------------------------------------------------------------------
\* The sender with the real handshake is a sender: each of its steps is one
\* of IcecastSender, or leaves the sender where it is.
THEOREM ConnectionIsSender == ConnSpec => Spec
  <1>1. ConnInit => Init
    BY DEF ConnInit
  <1>2. [ConnNext]_connVars => [Next]_vars
    <2>1. Conclude => Next
      BY DEF Conclude, Next, Startup, Sender, Retry
    <2>2. Meanwhile => Next
      BY DEF Meanwhile, Next, Startup, Sender, Write, Retry
    <2>. QED
      BY <2>1, <2>2 DEF ConnNext, Exchange, connVars
  <1>. QED
    BY <1>1, <1>2, PTL DEF ConnSpec, Spec

\* And its attempts are those of Handshake.
THEOREM ConnectionIsHandshake == ConnSpec => HsSpec
  <1>1. ConnInit => HsInit
    BY DEF ConnInit
  <1>2. [ConnNext]_connVars => [HsNext]_hsVars
    BY DEF ConnNext, Exchange, Conclude, Meanwhile, connVars, HsNext
  <1>. QED
    BY <1>1, <1>2, PTL DEF ConnSpec, HsSpec

\* What is proved of the sender holds with the real handshake.
THEOREM ConnectionSafe == ConnSpec => [](SenderInv /\ BackoffDoubles)
  BY ConnectionIsSender, SenderSafe, BackoffIsDoubled, PTL

\* However slow or long the answer, an attempt is bounded in reads and bytes.
THEOREM AttemptsAreBounded == ConnSpec => []AttemptBounded
  <1>1. HsInv => AttemptBounded
    BY DEF HsInv, ReadInv
  <1>. QED
    BY <1>1, ConnectionIsHandshake, HsInvariant, PTL

\* How an answer is cut into reads does not change its verdict.
THEOREM SegmentationIsHarmless == ConnSpec => []SegmentationHarmless
  <1>1. HsInv => SegmentationHarmless
    BY DEF HsInv
  <1>. QED
    BY <1>1, ConnectionIsHandshake, HsInvariant, PTL

\* A verdict is of a whole header, and the one it deserves.
THEOREM VerdictsAreEarned == ConnSpec => []VerdictEarned
  <1>1. HsInv => VerdictEarned
    BY DEF HsInv
  <1>. QED
    BY <1>1, ConnectionIsHandshake, HsInvariant, PTL
=============================================================================
