-------------------------- MODULE StandaloneProofs ---------------------------
(***************************************************************************)
(* Proofs about the components that work alone: the parser of comment      *)
(* packets, the settings and the event stream, each for every input,       *)
(* capacity and length of its run.  They share nothing but this module.    *)
(***************************************************************************)
EXTENDS VorbisComments, EventStream, Configuration, DataProofs
-----------------------------------------------------------------------------
(***************************************************************************)
(* The parser.  For every packet, cut anywhere and with any lengths and    *)
(* counts in it, no slice leaves it and the loop is bounded by its bytes.  *)
(*                                                                         *)
(* ParseInv says what each stage knows of the cursor: only while the count *)
(* is looked for can it be beyond the packet; in the loop it is inside,    *)
(* and four bytes further for each comment whose length was read.          *)
(***************************************************************************)

\* The cursor and the number of rounds, by stage.
CursorInv ==
  /\ stage = "magic"  => pos = 0
  /\ stage = "vendor" => pos = Magic /\ Magic <= packet.size
  /\ stage = "count"  => Magic <= pos /\ pos <= packet.size + WordMax
  /\ stage = "length" => Magic + Word * round <= pos /\ pos <= packet.size
  /\ stage = "text"   => /\ round \in 1..Len(packet.lens)
                         /\ Magic + Word * round <= pos /\ pos <= packet.size
  /\ stage \in {"magic", "vendor", "count"} => round = 0

ParseInv ==
  /\ packet \in Packets /\ stage \in Stages
  /\ pos \in Nat /\ round \in Nat /\ slice \in Nat \X Nat
  /\ CursorInv /\ WorkBounded
  /\ slice[1] <= slice[2] /\ slice[2] <= packet.size

\* What is known of a packet.
LEMMA PacketFacts ==
  ASSUME NEW p \in Packets
  PROVE  /\ p.size \in Nat /\ p.vendor \in 0..WordMax /\ p.count \in 0..WordMax
         /\ Len(p.lens) \in Nat /\ p.size <= Word * Len(p.lens)
         /\ \A i \in 1..Len(p.lens) : p.lens[i] \in 0..WordMax
         /\ p.size + Word + WordMax <= UsizeMax
         /\ WordMax \in Nat /\ UsizeMax \in Nat
  <1>1. p \in Packet
    BY PacketAssumption
  <1>2. p.lens \in Seq(0..WordMax)
    BY <1>1 DEF Packet
  <1>3. p.size \in Nat /\ p.vendor \in 0..WordMax /\ p.count \in 0..WordMax
    BY <1>1 DEF Packet
  <1>. QED
    BY <1>2, <1>3, PacketAssumption

LEMMA ParseInitInv == ParseInit => ParseInv
  <1>. SUFFICES ASSUME ParseInit PROVE ParseInv
    OBVIOUS
  <1>1. packet.size \in Nat
    BY PacketFacts DEF ParseInit
  <1>. QED
    BY <1>1 DEF ParseInit, ParseInv, CursorInv, WorkBounded, Stages, Magic, Word

LEMMA ParseNextInv == ParseInv /\ [ParseNext]_parseVars => ParseInv'
  <1>. SUFFICES ASSUME ParseInv, [ParseNext]_parseVars PROVE ParseInv'
    OBVIOUS
  <1>0. /\ packet.size \in Nat /\ packet.vendor \in 0..WordMax
        /\ packet.count \in 0..WordMax
        /\ Len(packet.lens) \in Nat /\ packet.size <= Word * Len(packet.lens)
        /\ \A i \in 1..Len(packet.lens) : packet.lens[i] \in 0..WordMax
        /\ WordMax \in Nat
    BY PacketFacts DEF ParseInv
  <1>. USE <1>0 DEF ParseInv, CursorInv, WorkBounded, Stages, Magic, Word, Fits, Take
  <1>1. CASE RejectPacket \/ Truncated
    BY <1>1 DEF RejectPacket, Truncated, GiveUp
  <1>2. CASE AcceptMagic
    BY <1>2 DEF AcceptMagic
  <1>3. CASE ReadVendor
    BY <1>3 DEF ReadVendor
  <1>4. CASE ReadCount
    BY <1>4 DEF ReadCount
  <1>5. CASE ReadLength
    <2>1. /\ packet' = packet /\ stage' = "text" /\ round' = round + 1
          /\ pos' = pos + 4 /\ pos + 4 <= packet.size
          /\ 7 + 4 * round <= pos /\ slice' = <<pos, pos + 4>>
      BY <1>5 DEF ReadLength
    <2>2. round' \in 1..Len(packet.lens)
      BY <2>1
    <2>. QED
      BY <2>1, <2>2
  <1>6. CASE NoMoreComments \/ TextTruncated
    BY <1>6 DEF NoMoreComments, TextTruncated, Enough
  <1>7. CASE ReadText
    <2>1. packet.lens[round] \in 0..WordMax
      BY <1>7 DEF ReadText
    <2>2. /\ packet' = packet /\ stage' = "length" /\ round' = round
          /\ pos' = pos + packet.lens[round] /\ pos + packet.lens[round] <= packet.size
          /\ 7 + 4 * round <= pos /\ slice' = <<pos, pos + packet.lens[round]>>
          /\ pos \in Nat /\ round \in Nat
      BY <1>7 DEF ReadText
    <2>3. PICK len \in Nat : len = packet.lens[round]
      BY <2>1
    <2>4. \A a, b, l \in Nat : /\ b + l \in Nat
                             /\ 7 + 4 * a <= b => b <= b + l /\ 7 + 4 * a <= b + l
      OBVIOUS
    <2>5. pos + len \in Nat
      <3>1. pos \in Nat
        BY <2>2
      <3>. QED
        BY <3>1
    <2>6. pos <= pos + len /\ 7 + 4 * round <= pos + len
      BY <2>2, <2>3, <2>4
    <2>7. slice' \in Nat \X Nat /\ slice'[1] <= slice'[2] /\ slice'[2] <= packet.size
      BY <2>2, <2>3, <2>5, <2>6
    <2>8. CursorInv' /\ WorkBounded'
      BY <2>2, <2>3, <2>5, <2>6
    <2>. QED
      BY <2>2, <2>3, <2>5, <2>7, <2>8
  <1>8. CASE UNCHANGED parseVars
    BY <1>8 DEF parseVars
  <1>. QED
    BY <1>1, <1>2, <1>3, <1>4, <1>5, <1>6, <1>7, <1>8 DEF ParseNext

\* The invariant of the parser, for every packet.
THEOREM ParserInvariant == ParseSpec => []ParseInv
  BY ParseInitInv, ParseNextInv, PTL DEF ParseSpec

\* Whatever lengths a packet holds, every slice read_vorbis_comments takes
\* lies in the packet, and the cursor never leaves usize.
THEOREM SlicesStayInBounds == ParseSpec => []SlicesInBounds
  <1>1. ParseInv => SlicesInBounds
    <2>. SUFFICES ASSUME ParseInv PROVE SlicesInBounds
      OBVIOUS
    <2>1. /\ packet.size \in Nat /\ WordMax \in Nat /\ UsizeMax \in Nat
          /\ packet.size + Word + WordMax <= UsizeMax
          /\ \A i \in 1..Len(packet.lens) : packet.lens[i] \in 0..WordMax
      BY PacketFacts DEF ParseInv
    <2>2. stage = "text" => pos + packet.lens[round] <= UsizeMax
      BY <2>1 DEF ParseInv, CursorInv, Word
    <2>. QED
      BY <2>1, <2>2 DEF ParseInv, CursorInv, SlicesInBounds, Word
  <1>. QED
    BY <1>1, ParserInvariant, PTL

\* The loop over a count read from the file takes no more rounds than the
\* packet has room for lengths.
THEOREM ParserWorkBounded == ParseSpec => []WorkBounded
  <1>1. ParseInv => WorkBounded
    BY DEF ParseInv
  <1>. QED
    BY <1>1, ParserInvariant, PTL
-----------------------------------------------------------------------------
(***************************************************************************)
(* That the last complete comment of a key wins rests on where the cursor  *)
(* is: at the end of the comment read last, which EndOfComment says.       *)
(***************************************************************************)

\* EndOfComment satisfies its recursion.
LEMMA EndsDefined ==
  ASSUME NEW p \in Packets
  PROVE  /\ EndOfComment(p)[0] = Magic + Word + p.vendor + Word
         /\ \A i \in 0..Len(p.lens) : EndOfComment(p)[i] \in Nat
         /\ \A i \in 1..Len(p.lens) :
              EndOfComment(p)[i] = EndOfComment(p)[i - 1] + Word + p.lens[i]
  <1>. DEFINE first == Magic + Word + p.vendor + Word
              size  == Len(p.lens)
              Defines(e) == e = [i \in 0..size |->
                                   IF i = 0 THEN first ELSE e[i - 1] + Word + p.lens[i]]
  <1>0. /\ first \in Nat /\ size \in Nat
        /\ \A i \in 1..size : p.lens[i] \in Nat
    BY PacketFacts DEF Magic, Word
  <1>1. \E e : Defines(e)
    <2>. DEFINE advance == [n \in Nat |-> [w \in Nat |->
                              IF n < size THEN w + Word + p.lens[n + 1] ELSE w]]
    <2>1. advance \in [Nat -> [Nat -> Nat]]
      <3>1. ASSUME NEW n \in Nat, NEW w \in Nat
            PROVE  (IF n < size THEN w + Word + p.lens[n + 1] ELSE w) \in Nat
        <4>1. CASE n < size
          <5>1. n + 1 \in 1..size
            BY <1>0, <4>1
          <5>2. p.lens[n + 1] \in Nat
            BY <1>0, <5>1
          <5>. HIDE DEF size
          <5>. QED
            BY <4>1, <5>2 DEF Word
        <4>. QED
          BY <4>1
      <3>. QED
        BY <3>1
    <2>2. PICK g : Iterates(g, Nat, first, advance)
      <3>. HIDE DEF advance, first
      <3>. QED
        BY <1>0, <2>1, RecursionExists
    <2>3. \A n \in Nat : n < size => g[n + 1] = g[n] + Word + p.lens[n + 1]
      <3>. HIDE DEF size
      <3>. QED
        BY <2>2 DEF Iterates
    <2>. DEFINE e == [i \in 0..size |-> g[i]]
    <2>4. ASSUME NEW i \in 0..size
          PROVE  e[i] = IF i = 0 THEN first ELSE e[i - 1] + Word + p.lens[i]
      <3>. HIDE DEF size, first
      <3>1. CASE i = 0
        BY <1>0, <2>2, <3>1 DEF Iterates
      <3>2. CASE i # 0
        <4>1. i - 1 \in Nat /\ i - 1 < size /\ (i - 1) + 1 = i /\ i - 1 \in 0..size
          BY <1>0, <3>2
        <4>2. g[i] = g[i - 1] + Word + p.lens[i]
          BY <2>3, <4>1
        <4>. QED
          BY <3>2, <4>1, <4>2
      <3>. QED
        BY <3>1, <3>2
    <2>5. Defines(e)
      <3>1. e = [i \in 0..size |-> IF i = 0 THEN first ELSE e[i - 1] + Word + p.lens[i]]
        <4>1. e = [i \in 0..size |-> e[i]]
          OBVIOUS
        <4>. HIDE DEF e, size, first
        <4>. QED
          BY <4>1, <2>4
      <3>. QED
        BY <3>1
    <2>. HIDE DEF Defines, e
    <2>. QED
      BY <2>5
  <1>2. Defines(EndOfComment(p))
    <2>. HIDE DEF Defines
    <2>1. Defines(CHOOSE e : Defines(e))
      BY <1>1
    <2>. QED
      BY <2>1 DEF EndOfComment, Defines
  <1>. DEFINE E == EndOfComment(p)
  <1>3. \A i \in 0..size : E[i] = IF i = 0 THEN first ELSE E[i - 1] + Word + p.lens[i]
    <2>. HIDE DEF size, first
    <2>. QED
      BY <1>2
  <1>. HIDE DEF E, first, size
  <1>4. E[0] = first
    BY <1>0, <1>3
  <1>5. \A i \in 1..size : E[i] = E[i - 1] + Word + p.lens[i]
    <2>1. \A i \in 1..size : i \in 0..size /\ i # 0
      BY <1>0
    <2>. QED
      BY <1>3, <2>1
  <1>. DEFINE Typed == {n \in Nat : n <= size => E[n] \in Nat}
  <1>6. \A n \in Nat : n \in Typed
    <2>1. 0 \in Typed
      BY <1>0, <1>4
    <2>2. ASSUME NEW n \in Nat, n \in Typed, n + 1 <= size
          PROVE  E[n + 1] \in Nat
      <3>1. n + 1 \in 1..size /\ (n + 1) - 1 = n /\ E[n] \in Nat
        BY <1>0, <2>2
      <3>. QED
        BY <1>0, <1>5, <3>1 DEF Word
    <2>3. \A n \in Nat : n \in Typed => n + 1 \in Typed
      BY <2>2
    <2>. HIDE DEF Typed
    <2>. QED
      BY <2>1, <2>3, SetInduction
  <1>. QED
    BY <1>0, <1>4, <1>5, <1>6 DEF E, first, size

\* A comment ends before the next one begins.
LEMMA EndsIncrease ==
  ASSUME NEW p \in Packets, NEW i \in 0..Len(p.lens), NEW j \in 0..Len(p.lens), i <= j
  PROVE  /\ EndOfComment(p)[i] <= EndOfComment(p)[j]
         /\ i < j => EndOfComment(p)[i] + Word <= EndOfComment(p)[j]
  <1>. DEFINE size == Len(p.lens)
              E == EndOfComment(p)
  <1>0. /\ size \in Nat /\ \A k \in 1..size : p.lens[k] \in Nat
        /\ \A k \in 0..size : E[k] \in Nat
        /\ \A k \in 1..size : E[k] = E[k - 1] + Word + p.lens[k]
        /\ i \in Nat /\ j \in Nat /\ i <= j /\ j <= size
    BY PacketFacts, EndsDefined
  <1>. HIDE DEF size, E
  <1>. DEFINE Later == {n \in Nat : i + n <= size =>
                          E[i] <= E[i + n] /\ (n # 0 => E[i] + Word <= E[i + n])}
  <1>1. 0 \in Later
    BY <1>0
  <1>2. ASSUME NEW n \in Nat, n \in Later, i + (n + 1) <= size
        PROVE  E[i] <= E[i + (n + 1)] /\ E[i] + Word <= E[i + (n + 1)]
    <2>1. /\ i + n \in 0..size /\ i + (n + 1) \in 1..size /\ (i + (n + 1)) - 1 = i + n
          /\ i \in 0..size
      BY <1>0, <1>2
    <2>2. E[i] <= E[i + n]
      BY <1>0, <1>2, <2>1
    <2>3. E[i + (n + 1)] = E[i + n] + Word + p.lens[i + (n + 1)]
      BY <1>0, <2>1
    <2>4. E[i] \in Nat /\ E[i + n] \in Nat /\ p.lens[i + (n + 1)] \in Nat
      BY <1>0, <2>1
    <2>5. \A a, b, l \in Nat : a <= b => a <= b + 4 + l /\ a + 4 <= b + 4 + l
      OBVIOUS
    <2>. QED
      BY <2>2, <2>3, <2>4, <2>5 DEF Word
  <1>3. \A n \in Nat : n \in Later
    <2>1. \A n \in Nat : n \in Later => n + 1 \in Later
      BY <1>2
    <2>. HIDE DEF Later
    <2>. QED
      BY <1>1, <2>1, SetInduction
  <1>4. j - i \in Nat /\ i + (j - i) = j /\ (i < j => j - i # 0)
    BY <1>0
  <1>. QED
    BY <1>0, <1>3, <1>4 DEF E

Keys == {"title", "artist"}

\* The comments read to their end.
ReadSoFar == IF stage = "text" THEN round - 1 ELSE round

\* found holds the last comment of each key among those.
FoundInv ==
  /\ found \in [title : Nat, artist : Nat]
  /\ \A key \in Keys :
       /\ found[key] # 0 => found[key] \in 1..ReadSoFar /\ packet.texts[found[key]] = key
       /\ \A i \in 1..ReadSoFar : packet.texts[i] = key => i <= found[key]

\* The cursor is where the reference says.
PositionInv ==
  /\ stage = "vendor" => pos = Magic
  /\ stage = "count"  => pos = Magic + Word + packet.vendor
  /\ stage = "length" => pos = EndOfComment(packet)[round]
  /\ stage = "text"   => pos = EndOfComment(packet)[round - 1] + Word
  /\ stage \in {"length", "text"} =>
       /\ ReadSoFar \in 0..Len(packet.lens) /\ round <= packet.count
       /\ EndOfComment(packet)[ReadSoFar] <= packet.size

CommentInv ==
  /\ PositionInv
  /\ stage \notin {"none", "done"} => FoundInv
  /\ LastCompleteWins

LEMMA CommentInitInv == ParseInit => CommentInv
  BY DEF ParseInit, CommentInv, PositionInv, FoundInv, LastCompleteWins, ReadSoFar,
         NoComment, Keys

\* When all comments but those up to ReadSoFar are incomplete, found is right.
LEMMA FoundIsLast ==
  ASSUME ParseInv, FoundInv, ReadSoFar \in 0..Len(packet.lens),
         ReadSoFar <= packet.count,
         EndOfComment(packet)[ReadSoFar] <= packet.size,
         \A i \in Complete : i <= ReadSoFar
  PROVE  found = [title |-> LastWith("title"), artist |-> LastWith("artist")]
  <1>1. /\ packet \in Packets /\ Len(packet.lens) \in Nat /\ packet.count \in Nat
        /\ packet.size \in Nat /\ DOMAIN packet.lens = 1..Len(packet.lens)
        /\ \A i \in 0..Len(packet.lens) : EndOfComment(packet)[i] \in Nat
    BY PacketFacts, PacketAssumption, EndsDefined DEF ParseInv, Packet
  <1>2. Complete = 1..ReadSoFar
    <2>1. ASSUME NEW i \in 1..ReadSoFar
          PROVE  i \in Complete
      <3>1. /\ i \in 0..Len(packet.lens) /\ i \in 1..Len(packet.lens)
            /\ i <= ReadSoFar /\ i <= packet.count
        BY <1>1
      <3>2. EndOfComment(packet)[i] <= EndOfComment(packet)[ReadSoFar]
        BY <1>1, <3>1, EndsIncrease
      <3>3. EndOfComment(packet)[i] <= packet.size
        BY <1>1, <3>1, <3>2
      <3>. QED
        BY <1>1, <3>1, <3>3 DEF Complete
    <2>2. Complete \subseteq 1..ReadSoFar
      BY <1>1 DEF Complete
    <2>. QED
      BY <2>1, <2>2
  <1>3. ASSUME NEW key \in Keys
        PROVE  found[key] = LastWith(key)
    <2>. DEFINE with == {i \in Complete : packet.texts[i] = key}
    <2>1. found[key] \in Nat
      BY DEF FoundInv, Keys
    <2>2. \A i \in with : i \in Nat /\ 1 <= i /\ i <= found[key]
      BY <1>2 DEF FoundInv
    <2>3. found[key] # 0 => found[key] \in with
      BY <1>2 DEF FoundInv
    <2>4. LastWith(key) = IF with = {} THEN 0 ELSE CHOOSE i \in with : \A j \in with : j <= i
      BY DEF LastWith
    <2>. HIDE DEF with
    <2>5. CASE found[key] = 0
      <3>1. with = {}
        BY <2>2, <2>5
      <3>. QED
        BY <2>4, <2>5, <3>1
    <2>6. CASE found[key] # 0
      <3>. DEFINE last_ == CHOOSE i \in with : \A j \in with : j <= i
      <3>1. found[key] \in with /\ \A j \in with : j <= found[key]
        BY <2>2, <2>3, <2>6
      <3>2. last_ \in with /\ \A j \in with : j <= last_
        BY <3>1
      <3>. HIDE DEF last_
      <3>3. last_ = found[key]
        BY <2>1, <2>2, <3>1, <3>2
      <3>. QED
        BY <2>4, <3>1, <3>3 DEF last_
    <2>. QED
      BY <2>5, <2>6
  <1>. QED
    BY <1>3 DEF FoundInv, Keys

LEMMA CommentNextInv ==
  ParseInv /\ ParseInv' /\ CommentInv /\ [ParseNext]_parseVars => CommentInv'
  <1>. SUFFICES ASSUME ParseInv, ParseInv', CommentInv, [ParseNext]_parseVars
                PROVE  CommentInv'
    OBVIOUS
  <1>. DEFINE E == EndOfComment(packet)
              size == Len(packet.lens)
  <1>0. /\ packet \in Packets /\ packet.size \in Nat /\ packet.vendor \in Nat
        /\ packet.count \in Nat /\ size \in Nat /\ packet.size <= 4 * size
        /\ pos \in Nat /\ round \in Nat
        /\ \A i \in 1..size : packet.lens[i] \in Nat
        /\ E[0] = 7 + 4 + packet.vendor + 4
        /\ \A i \in 0..size : E[i] \in Nat
        /\ \A i \in 1..size : E[i] = E[i - 1] + 4 + packet.lens[i]
    <2>1. packet \in Packets /\ pos \in Nat /\ round \in Nat
      BY DEF ParseInv
    <2>2. /\ packet.size \in Nat /\ packet.vendor \in Nat /\ packet.count \in Nat
          /\ size \in Nat /\ packet.size <= 4 * size
          /\ \A i \in 1..size : packet.lens[i] \in Nat
      BY <2>1, PacketFacts DEF Word
    <2>3. /\ E[0] = 7 + 4 + packet.vendor + 4
          /\ \A i \in 0..size : E[i] \in Nat
          /\ \A i \in 1..size : E[i] = E[i - 1] + 4 + packet.lens[i]
      BY <2>1, EndsDefined DEF Magic, Word
    <2>. QED
      BY <2>1, <2>2, <2>3
  <1>1. CASE RejectPacket \/ Truncated
    BY <1>1 DEF RejectPacket, Truncated, GiveUp, CommentInv, PositionInv, LastCompleteWins
  <1>2. CASE AcceptMagic
    BY <1>2 DEF AcceptMagic, CommentInv, PositionInv, FoundInv, LastCompleteWins, ReadSoFar
  <1>3. CASE ReadVendor
    BY <1>3 DEF ReadVendor, CommentInv, PositionInv, FoundInv, LastCompleteWins, ReadSoFar,
                Magic, Word
  <1>4. CASE ReadCount
    <2>1. /\ packet' = packet /\ stage' = "length" /\ pos' = pos + 4 /\ round' = round
          /\ found' = found /\ pos + 4 <= packet.size /\ stage = "count"
      BY <1>4 DEF ReadCount, Fits, Word
    <2>2. round = 0 /\ pos = 7 + 4 + packet.vendor
      BY <2>1 DEF ParseInv, CursorInv, CommentInv, PositionInv, Magic, Word
    <2>3. PositionInv'
      BY <1>0, <2>1, <2>2 DEF PositionInv, ReadSoFar
    <2>. QED
      BY <2>1, <2>2, <2>3 DEF CommentInv, FoundInv, LastCompleteWins, ReadSoFar
  <1>5. CASE ReadLength
    <2>1. /\ packet' = packet /\ stage' = "text" /\ pos' = pos + 4 /\ round' = round + 1
          /\ found' = found /\ pos + 4 <= packet.size /\ stage = "length"
          /\ round < packet.count
      BY <1>5 DEF ReadLength, Fits, Word
    <2>2. ReadSoFar' = ReadSoFar /\ ReadSoFar = round /\ (round + 1) - 1 = round
      BY <1>0, <2>1 DEF ReadSoFar
    <2>3. PositionInv'
      BY <1>0, <2>1, <2>2 DEF CommentInv, PositionInv, Word
    <2>4. FoundInv'
      BY <2>1, <2>2 DEF CommentInv, FoundInv
    <2>. QED
      BY <2>1, <2>3, <2>4 DEF CommentInv, LastCompleteWins
  <1>6. CASE NoMoreComments
    <2>1. /\ stage = "length" /\ stage' = "done"
          /\ UNCHANGED <<packet, pos, round, found>>
          /\ round >= packet.count \/ pos + 4 > packet.size
      BY <1>0, <1>6 DEF NoMoreComments, Enough, Fits, Word
    <2>2. /\ ReadSoFar = round /\ pos = E[round] /\ round \in 0..size
          /\ round <= packet.count /\ E[round] <= packet.size /\ FoundInv
      BY <2>1 DEF CommentInv, PositionInv, ReadSoFar
    <2>3. ASSUME NEW i \in Complete
          PROVE  i <= round
      <3>1. i \in 0..size /\ i <= packet.count /\ E[i] <= packet.size
        BY <1>0 DEF Complete
      <3>2. CASE round >= packet.count
        BY <1>0, <3>1, <3>2
      <3>3. CASE pos + 4 > packet.size /\ i > round
        <4>1. E[round] + 4 <= E[i]
          BY <1>0, <2>2, <3>1, <3>3, EndsIncrease DEF Word
        <4>. QED
          BY <1>0, <2>2, <3>1, <3>3, <4>1
      <3>. QED
        BY <1>0, <2>1, <3>1, <3>2, <3>3
    <2>4. found = [title |-> LastWith("title"), artist |-> LastWith("artist")]
      BY <2>2, <2>3, FoundIsLast
    <2>. QED
      BY <2>1, <2>4 DEF CommentInv, PositionInv, LastCompleteWins, LastWith, Complete
  <1>7. CASE TextTruncated
    <2>1. /\ stage = "text" /\ stage' = "done"
          /\ UNCHANGED <<packet, pos, round, found>>
          /\ ~(pos + packet.lens[round] <= packet.size)
      BY <1>7 DEF TextTruncated, Enough, Fits
    <2>2. /\ ReadSoFar = round - 1 /\ pos = E[round - 1] + 4 /\ round - 1 \in 0..size
          /\ round <= packet.count /\ E[round - 1] <= packet.size /\ FoundInv
          /\ round \in 1..size
      BY <2>1 DEF CommentInv, PositionInv, ReadSoFar, ParseInv, CursorInv, Word
    <2>3. E[round] > packet.size
      <3>1. E[round] = E[round - 1] + 4 + packet.lens[round]
        BY <1>0, <2>2
      <3>2. E[round - 1] \in Nat /\ packet.lens[round] \in Nat /\ packet.size \in Nat
        BY <1>0, <2>2
      <3>. HIDE DEF E
      <3>. QED
        BY <2>1, <2>2, <3>1, <3>2
    <2>4. ASSUME NEW i \in Complete
          PROVE  i <= round - 1
      <3>1. i \in 0..size /\ i <= packet.count /\ E[i] <= packet.size
        BY <1>0 DEF Complete
      <3>2. ASSUME i >= round PROVE FALSE
        <4>1. E[round] <= E[i]
          BY <1>0, <2>2, <3>1, <3>2, EndsIncrease
        <4>. QED
          BY <1>0, <2>2, <2>3, <3>1, <4>1
      <3>. QED
        BY <1>0, <3>1, <3>2
    <2>5. found = [title |-> LastWith("title"), artist |-> LastWith("artist")]
      BY <1>0, <2>2, <2>4, FoundIsLast
    <2>. QED
      BY <2>1, <2>5 DEF CommentInv, PositionInv, LastCompleteWins, LastWith, Complete
  <1>8. CASE ReadText
    <2>. DEFINE key == packet.texts[round]
    <2>1. /\ packet' = packet /\ stage' = "length" /\ stage = "text" /\ round' = round
          /\ pos' = pos + packet.lens[round] /\ pos + packet.lens[round] <= packet.size
          /\ found' = IF key \in DOMAIN found THEN [found EXCEPT ![key] = round] ELSE found
      BY <1>8 DEF ReadText, Fits
    <2>2. /\ ReadSoFar = round - 1 /\ ReadSoFar' = round /\ pos = E[round - 1] + 4
          /\ round \in 1..size /\ round <= packet.count /\ FoundInv
      BY <2>1 DEF CommentInv, PositionInv, ReadSoFar, ParseInv, CursorInv, Word
    <2>3. PositionInv'
      <3>1. pos' = E[round]
        BY <1>0, <2>1, <2>2
      <3>. QED
        BY <1>0, <2>1, <2>2, <3>1 DEF PositionInv
    <2>4. FoundInv'
      <3>. HIDE DEF key
      <3>1. found \in [title : Nat, artist : Nat] /\ DOMAIN found = Keys
        BY <2>2 DEF FoundInv, Keys
      <3>2. found' \in [title : Nat, artist : Nat]
        BY <1>0, <2>1, <3>1 DEF Keys
      <3>3. ASSUME NEW k \in Keys
            PROVE  /\ found'[k] # 0 => found'[k] \in 1..round /\ packet.texts[found'[k]] = k
                   /\ \A i \in 1..round : packet.texts[i] = k => i <= found'[k]
        <4>1. CASE k = key
          <5>1. found'[k] = round
            BY <2>1, <3>1, <4>1
          <5>. QED
            BY <2>2, <4>1, <5>1 DEF key
        <4>2. CASE k # key
          <5>1. found'[k] = found[k]
            BY <2>1, <3>1, <4>2
          <5>2. \A i \in 1..round : packet.texts[i] = k => i \in 1..(round - 1)
            BY <2>2, <4>2 DEF key
          <5>. QED
            BY <2>2, <5>1, <5>2 DEF FoundInv
        <4>. QED
          BY <4>1, <4>2
      <3>. QED
        BY <2>1, <2>2, <3>2, <3>3 DEF FoundInv
    <2>. QED
      BY <2>1, <2>3, <2>4 DEF CommentInv, LastCompleteWins
  <1>9. CASE UNCHANGED parseVars
    BY <1>9 DEF parseVars, CommentInv, PositionInv, FoundInv, LastCompleteWins, ReadSoFar,
                LastWith, Complete
  <1>. QED
    BY <1>1, <1>2, <1>3, <1>4, <1>5, <1>6, <1>7, <1>8, <1>9 DEF ParseNext

\* Whatever the packet, and wherever it is cut, a track is shown with the last
\* complete TITLE and ARTIST of its file.
THEOREM LastCompleteCommentWins == ParseSpec => []LastCompleteWins
  <1>1. CommentInv => LastCompleteWins
    BY DEF CommentInv
  <1>. QED
    BY <1>1, CommentInitInv, CommentNextInv, ParserInvariant, PTL DEF ParseSpec
-----------------------------------------------------------------------------
(***************************************************************************)
(* The settings.  What a variable changes of a configuration, and what it  *)
(* leaves alone, is Layered: it describes what apply_env_vars does with    *)
(* every text, the cases where it does not do what EnvOverrides asks       *)
(* included, and is there because InvalidOnlyFromEnv rests on it.  It is   *)
(* inductive together with what each step of the way there knows: nothing  *)
(* has been taken, or a valid file.                                        *)
(***************************************************************************)
Layered ==
  step \in {"env", "layered"} =>
    \A f \in Fields :
      LET set   == f \in DOMAIN env
          below == IF step = "layered" /\ f \in DOMAIN file THEN file[f] ELSE Default[f]
      IN  config[f] = CASE set /\ f = "format" -> IF env[f] = "json" THEN "json" ELSE below
                        [] set /\ f = "use_tls" /\ env[f] = Malformed -> FALSE
                        [] set /\ f # "format" /\ env[f] # Malformed -> env[f]
                        [] OTHER -> below

SettingsInv ==
  /\ file \in Files /\ env \in Envs
  /\ step \in {"start", "loaded", "env", "layered", "main", "failed"}
  /\ step = "start" => config = Default
  /\ step = "loaded" => config = Over(file, Default)
  /\ step \in {"loaded", "layered"} => ConfigValid(Over(file, Default))
  /\ step = "main" => /\ HostnameValid(config.host) /\ PortValid(config.port)
                      /\ \A f \in Fields \ {"host", "port"} : config[f] = Default[f]
  /\ Layered

\* The defaults are within every limit.
LEMMA DefaultValid == ConfigValid(Default) /\ AllValid(Default)
  BY DEF ConfigValid, AllValid, Default, Outside, PortValid, HostnameValid, SampleRateValid,
         BitrateValid, BufferSizeValid

\* A field of a valid configuration is valid by itself.
LEMMA FieldsOfValid ==
  ASSUME NEW c, ConfigValid(c), NEW f \in Fields
  PROVE  ConfigValid([Default EXCEPT ![f] = c[f]])
  <1>1. CASE f \in Numbers
    BY <1>1, DefaultValid DEF ConfigValid, Default, Numbers
  <1>2. CASE f \notin Numbers
    BY <1>2, DefaultValid DEF ConfigValid, Default, Numbers, Strings, Fields
  <1>. QED
    BY <1>1, <1>2

\* Four fields have no limits.
LEMMA FieldsWithoutLimit ==
  ASSUME NEW v, NEW f \in {"use_tls", "format", "bind", "level"}
  PROVE  ConfigValid([Default EXCEPT ![f] = v])
  BY DefaultValid DEF ConfigValid, Default

LEMMA SettingsInitInv == SettingsInit => SettingsInv
  BY DEF SettingsInit, SettingsInv, Layered

\* What apply_env_vars makes of each field.
LEMMA EnvStep ==
  ASSUME SettingsInv, ApplyEnvVars
  PROVE  Layered'
  <1>1. /\ step' = IF step = "loaded" THEN "layered" ELSE "env"
        /\ config' = [f \in Fields |-> IF f \in DOMAIN env THEN Taken(f) ELSE config[f]]
        /\ step \in {"start", "loaded"} /\ UNCHANGED <<file, env>>
    BY DEF ApplyEnvVars, Over
  <1>. DEFINE below(f) == IF step = "loaded" /\ f \in DOMAIN file THEN file[f] ELSE Default[f]
  <1>2. \A f \in Fields : config[f] = below(f)
    BY <1>1 DEF SettingsInv, Over
  <1>3. \A f \in DOMAIN env \cap Strings : env[f] # Malformed
    BY ConfigurationAssumption DEF SettingsInv
  <1>4. ASSUME NEW f \in Fields
        PROVE  config'[f] = CASE f \in DOMAIN env /\ f = "format"
                                   -> IF env[f] = "json" THEN "json" ELSE below(f)
                              [] f \in DOMAIN env /\ f = "use_tls" /\ env[f] = Malformed -> FALSE
                              [] f \in DOMAIN env /\ f # "format" /\ env[f] # Malformed -> env[f]
                              [] OTHER -> below(f)
    <2>. HIDE DEF below
    <2>1. config'[f] = IF f \in DOMAIN env THEN Taken(f) ELSE below(f)
      BY <1>1, <1>2
    <2>2. CASE f \notin DOMAIN env
      BY <2>1, <2>2
    <2>3. CASE f \in DOMAIN env /\ f \in Numbers
      <3>1. f # "format" /\ f # "use_tls" /\ f \notin Strings
        BY <2>3 DEF Numbers, Strings
      <3>2. Taken(f) = IF env[f] = Malformed THEN config[f] ELSE env[f]
        BY <2>3, <3>1 DEF Taken
      <3>. QED
        BY <2>1, <2>3, <3>1, <3>2, <1>2
    <2>4. CASE f \in DOMAIN env /\ f \in Strings
      BY <2>1, <2>4, <1>3 DEF Taken, Numbers, Strings
    <2>5. CASE f \in DOMAIN env /\ f = "use_tls"
      BY <2>1, <2>5 DEF Taken, Numbers, Strings
    <2>6. CASE f \in DOMAIN env /\ f = "format"
      BY <2>1, <2>6, <1>2 DEF Taken, Numbers, Strings
    <2>. QED
      BY <2>2, <2>3, <2>4, <2>5, <2>6 DEF Fields
  <1>. QED
    BY <1>1, <1>4 DEF Layered

LEMMA SettingsNextInv == SettingsInv /\ [SettingsNext]_settingsVars => SettingsInv'
  <1>. SUFFICES ASSUME SettingsInv, [SettingsNext]_settingsVars PROVE SettingsInv'
    OBVIOUS
  <1>1. CASE FromFile
    BY <1>1 DEF FromFile, SettingsInv, Layered
  <1>2. CASE FromFileFails
    BY <1>2 DEF FromFileFails, SettingsInv, Layered
  <1>3. CASE ApplyEnvVars
    <2>1. step' = (IF step = "loaded" THEN "layered" ELSE "env") /\ UNCHANGED <<file, env>>
      BY <1>3 DEF ApplyEnvVars
    <2>2. Layered'
      BY <1>3, EnvStep
    <2>. QED
      BY <2>1, <2>2 DEF SettingsInv
  <1>4. CASE ParseHostPort
    <2>1. CASE step' = "failed"
      BY <1>4, <2>1 DEF ParseHostPort, SettingsInv, Layered
    <2>2. CASE step' # "failed"
      <3>. DEFINE host == hostArg[1]
                  port == IF Len(hostArg) = 1 THEN 8000 ELSE hostArg[2]
      <3>1. /\ step' = "main" /\ config = Default
            /\ HostnameValid(host) /\ PortValid(port)
            /\ config' = Over([host |-> host, port |-> port], config)
            /\ UNCHANGED <<file, env>>
        BY <1>4, <2>2 DEF ParseHostPort, SettingsInv
      <3>. HIDE DEF host, port
      <3>2. /\ config'.host = host /\ config'.port = port
            /\ \A f \in Fields \ {"host", "port"} : config'[f] = Default[f]
        BY <3>1 DEF Over, Fields, Numbers, Strings
      <3>. QED
        BY <3>1, <3>2 DEF SettingsInv, Layered
    <2>. QED
      BY <2>1, <2>2
  <1>5. CASE UNCHANGED settingsVars
    BY <1>5 DEF settingsVars, SettingsInv, Layered
  <1>. QED
    BY <1>1, <1>2, <1>3, <1>4, <1>5 DEF SettingsNext

THEOREM SettingsInvariant == SettingsSpec => []SettingsInv
  BY SettingsInitInv, SettingsNextInv, PTL DEF SettingsSpec

\* What is wrong with a configuration in use came from a variable that did
\* parse: a file or an argument that is wrong is never used.
THEOREM InvalidComesFromEnv == SettingsSpec => []InvalidOnlyFromEnv
  <1>1. SettingsInv => InvalidOnlyFromEnv
    <2>. SUFFICES ASSUME SettingsInv PROVE InvalidOnlyFromEnv
      OBVIOUS
    <2>1. CASE step = "loaded"
      <3>1. Offending = {}
        BY <2>1, FieldsOfValid DEF SettingsInv, Offending
      <3>. QED
        BY <2>1, <3>1 DEF InvalidOnlyFromEnv
    <2>2. CASE step = "main"
      <3>1. ConfigValid(config)
        BY <2>2, DefaultValid DEF SettingsInv, ConfigValid, Default, HostnameValid, PortValid,
                                    Fields, Numbers, Strings
      <3>2. Offending = {}
        BY <3>1, FieldsOfValid DEF Offending
      <3>. QED
        BY <2>2, <3>2 DEF InvalidOnlyFromEnv
    <2>3. CASE step \in {"env", "layered"}
      <3>. DEFINE below == IF step = "layered" THEN Over(file, Default) ELSE Default
      <3>1. ConfigValid(below)
        BY <2>3, DefaultValid DEF SettingsInv
      <3>2. \A f \in Fields : below[f] = IF step = "layered" /\ f \in DOMAIN file
                                         THEN file[f] ELSE Default[f]
        BY DEF Over
      <3>3. ASSUME NEW f \in Fields, f \notin DOMAIN env \/ env[f] = Malformed
            PROVE  ConfigValid([Default EXCEPT ![f] = config[f]])
        <4>1. CASE f \in {"use_tls", "format", "bind", "level"}
          BY <4>1, FieldsWithoutLimit
        <4>2. CASE f \notin {"use_tls", "format", "bind", "level"}
          <5>1. config[f] = below[f]
            <6>. HIDE DEF below
            <6>. QED
              BY <2>3, <3>2, <3>3, <4>2 DEF SettingsInv, Layered
          <5>. QED
            BY <3>1, <5>1, FieldsOfValid
        <4>. QED
          BY <4>1, <4>2
      <3>. QED
        BY <2>3, <3>3 DEF InvalidOnlyFromEnv, Offending
    <2>4. CASE step \notin {"loaded", "main", "env", "layered"}
      BY <2>4 DEF InvalidOnlyFromEnv
    <2>. QED
      BY <2>1, <2>2, <2>3, <2>4
  <1>. QED
    BY <1>1, SettingsInvariant, PTL

\* The two copies of the limits agree on every configuration, and main uses
\* no host or port that either refuses.
THEOREM BothLimitsAgree == SettingsSpec => []LimitsAgree
  <1>. USE DEF ConfigValid, AllValid, PortValid, HostnameValid, SampleRateValid,
               BitrateValid, BufferSizeValid
  <1>1. SettingsInv => LimitsAgree
    <2>. SUFFICES ASSUME SettingsInv PROVE LimitsAgree
      OBVIOUS
    <2>1. CASE step = "main"
      <3>1. /\ config.host \notin {"empty", "control", "long"} /\ config.port # 0
            /\ \A f \in Fields \ {"host", "port"} : config[f] = Default[f]
        BY <2>1 DEF SettingsInv
      <3>2. ConfigValid(config) /\ AllValid(config)
        BY <3>1, DefaultValid DEF Default, Fields, Numbers, Strings
      <3>. QED
        BY <3>2 DEF LimitsAgree
    <2>2. CASE step # "main"
      BY <2>2 DEF LimitsAgree
    <2>. QED
      BY <2>1, <2>2
  <1>. QED
    BY <1>1, SettingsInvariant, PTL
-----------------------------------------------------------------------------
(***************************************************************************)
(* The event stream: a page that caught up shows what is playing           *)
(* (ViewRight).                                                            *)
(*                                                                         *)
(* ViewRight speaks of pages that caught up; the invariant speaks of all.  *)
(* A page that is past the last event of a track either took it from it,   *)
(* or skipped it and then Cap events followed it.  A page that subscribed  *)
(* after that event still shows what status told it, which is right until  *)
(* the next event of a track, unless the track was over already.           *)
(***************************************************************************)

StreamTypeOK ==
  /\ phase \in {"idle", "announce", "play", "retire"}
  /\ track \in Nat /\ nowPlaying \in Nat
  /\ sent \in Seq(Event) /\ last \in 0..Len(sent)
  /\ next \in [Subscribers -> Nat] /\ since \in [Subscribers -> Nat]
  /\ view \in [Subscribers -> Nat]
  /\ source \in [Subscribers -> {"none", "status", "events"}]
  /\ phantom \subseteq Subscribers

\* last is the last event of a track.
LastInv ==
  /\ last # Off => sent[last].kind # "queue_changed"
  /\ \A i \in 1..Len(sent) : i > last => sent[i].kind = "queue_changed"

\* What status and the events say, by phase.
PhaseInv ==
  /\ phase = "idle" => nowPlaying = Off
  /\ phase # "idle" => nowPlaying = track /\ track # Off
  /\ Announced = IF phase = "play" THEN track ELSE Off

PageInv(s) ==
  /\ next[s] = Off => source[s] = "none"
  /\ next[s] # Off => 1 <= since[s] /\ since[s] <= next[s] /\ next[s] <= Len(sent) + 1
  /\ source[s] = "events" => since[s] <= last
  /\ next[s] # Off /\ since[s] <= last /\ last < next[s] /\ Kept(last)
       => source[s] = "events" /\ view[s] = Announced
  /\ source[s] = "status" /\ last < since[s] /\ s \notin phantom
       => /\ phase # "retire"
          /\ view[s] = nowPlaying \/ (phase = "announce" /\ view[s] = Off)

StreamInv == StreamTypeOK /\ LastInv /\ PhaseInv /\ \A s \in Subscribers : PageInv(s)
-----------------------------------------------------------------------------
LEMMA StreamInitInv == StreamInit => StreamInv
  BY DEF StreamInit, StreamInv, StreamTypeOK, LastInv, PhaseInv, PageInv, Announced, Off,
         Event

\* A step of the player that sends nothing leaves the channel alone.
LEMMA QuietStep ==
  ASSUME StreamInv, SetNowPlaying \/ ClearNowPlaying
  PROVE  StreamInv'
  <1>. USE DEF StreamInv, StreamTypeOK, LastInv, PhaseInv, PageInv, Announced, Off, Kept,
               channel, pages
  <1>1. CASE SetNowPlaying
    BY <1>1 DEF SetNowPlaying
  <1>2. CASE ClearNowPlaying
    BY <1>2 DEF ClearNowPlaying
  <1>. QED
    BY <1>1, <1>2

\* One more event: those before it stay where they are.
LEMMA SendFacts ==
  ASSUME StreamTypeOK, NEW event \in Event, Send(event)
  PROVE  /\ sent' \in Seq(Event) /\ Len(sent') = Len(sent) + 1
         /\ \A i \in 1..Len(sent) : sent'[i] = sent[i]
         /\ sent'[Len(sent) + 1] = event
  BY DEF StreamTypeOK, Send

\* The event of a track: every page is before it.
LEMMA TrackEventStep ==
  ASSUME StreamInv, SendStarted \/ SendEnded
  PROVE  StreamInv'
  <1>. DEFINE kind  == IF phase = "announce" THEN "started" ELSE "ended"
              event == [kind |-> kind, track |-> track]
  <1>1. /\ phase \in {"announce", "play"} /\ Send(event) /\ last' = Len(sent) + 1
        /\ phase' = IF phase = "announce" THEN "play" ELSE "retire"
        /\ UNCHANGED <<track, nowPlaying, pages>>
    BY DEF SendStarted, SendEnded
  <1>2. track \in Nat \ {0} /\ nowPlaying = track
    BY <1>1 DEF StreamInv, StreamTypeOK, PhaseInv, Off
  <1>3. event \in Event
    BY <1>2 DEF Event
  <1>4. /\ sent' \in Seq(Event) /\ Len(sent') = Len(sent) + 1
        /\ sent'[Len(sent) + 1] = event
    BY <1>1, <1>3, SendFacts DEF StreamInv
  <1>5. StreamTypeOK'
    BY <1>1, <1>4 DEF StreamInv, StreamTypeOK, pages
  <1>6. LastInv'
    BY <1>1, <1>4 DEF LastInv, StreamInv, StreamTypeOK, Off
  <1>7. PhaseInv'
    BY <1>1, <1>2, <1>4 DEF PhaseInv, Announced, Told, Off, StreamInv, StreamTypeOK
  <1>8. ASSUME NEW s \in Subscribers PROVE PageInv(s)'
    <2>1. PageInv(s) /\ Len(sent) \in Nat
      BY DEF StreamInv, StreamTypeOK
    <2>2. next[s] \in Nat /\ since[s] \in Nat
      BY DEF StreamInv, StreamTypeOK
    <2>. QED
      BY <1>1, <1>4, <2>1, <2>2 DEF PageInv, Kept, pages, Off
  <1>. QED
    BY <1>5, <1>6, <1>7, <1>8 DEF StreamInv

LEMMA QueueChangedStep ==
  ASSUME StreamInv, SendQueueChanged, EventStreamAssumption
  PROVE  StreamInv'
  <1>. DEFINE event == [kind |-> "queue_changed"]
  <1>1. event \in Event /\ Send(event) /\ UNCHANGED <<last, player, pages>>
    BY DEF Event, SendQueueChanged
  <1>2. /\ sent' \in Seq(Event) /\ Len(sent') = Len(sent) + 1
        /\ \A i \in 1..Len(sent) : sent'[i] = sent[i]
        /\ sent'[Len(sent) + 1] = event
    BY <1>1, SendFacts DEF StreamInv
  <1>3. StreamTypeOK'
    BY <1>1, <1>2 DEF StreamInv, StreamTypeOK, player, pages
  <1>4. LastInv'
    <2>1. last' # Off => sent'[last'].kind # "queue_changed"
      BY <1>1, <1>2 DEF LastInv, StreamInv, StreamTypeOK, Off
    <2>2. ASSUME NEW i \in 1..Len(sent'), i > last'
          PROVE  sent'[i].kind = "queue_changed"
      <3>1. CASE i = Len(sent) + 1
        BY <3>1, <1>2
      <3>2. CASE i # Len(sent) + 1
        <4>1. i \in 1..Len(sent) /\ i > last
          BY <2>2, <3>2, <1>1, <1>2 DEF StreamInv, StreamTypeOK
        <4>. QED
          BY <4>1, <1>2 DEF LastInv, StreamInv
      <3>. QED
        BY <3>1, <3>2
    <2>. QED
      BY <2>1, <2>2 DEF LastInv
  <1>5. Announced' = Announced
    BY <1>1, <1>2 DEF Announced, StreamInv, StreamTypeOK, Off, Told
  <1>6. PhaseInv'
    BY <1>1, <1>5 DEF PhaseInv, StreamInv, player
  <1>7. ASSUME NEW s \in Subscribers PROVE PageInv(s)'
    <2>1. PageInv(s) /\ Len(sent) \in Nat /\ last \in Nat
      BY DEF StreamInv, StreamTypeOK
    <2>2. Kept(last)' => Kept(last)
      BY <1>1, <1>2, <2>1 DEF Kept, EventStreamAssumption
    <2>3. next[s] \in Nat /\ since[s] \in Nat
      BY DEF StreamInv, StreamTypeOK
    <2>4. /\ next'[s] = next[s] /\ since'[s] = since[s] /\ source'[s] = source[s]
          /\ view'[s] = view[s] /\ phantom' = phantom /\ last' = last
          /\ phase' = phase /\ nowPlaying' = nowPlaying
      BY <1>1 DEF player, pages
    <2>. HIDE DEF event
    <2>. QED
      BY <1>2, <1>5, <2>1, <2>2, <2>3, <2>4 DEF PageInv
  <1>. QED
    BY <1>3, <1>4, <1>6, <1>7 DEF StreamInv

\* A step of one page leaves the others as they are.
LEMMA OtherPages ==
  ASSUME StreamInv, NEW s \in Subscribers, NEW t \in Subscribers, t # s,
         Subscribe(s) \/ AskStatus(s) \/ Deliver(s) \/ Lagged(s) \/ Leave(s)
  PROVE  PageInv(t)'
  <1>1. PageInv(t)
    BY DEF StreamInv
  <1>2. /\ next'[t] = next[t] /\ since'[t] = since[t] /\ source'[t] = source[t]
        /\ view'[t] = view[t] /\ (t \in phantom' <=> t \in phantom)
    BY DEF StreamInv, StreamTypeOK, Subscribe, AskStatus, Deliver, Lagged, Leave
  <1>3. /\ last' = last /\ sent' = sent /\ phase' = phase /\ nowPlaying' = nowPlaying
    BY DEF Subscribe, AskStatus, Deliver, Lagged, Leave, channel, player
  <1>4. Announced' = Announced /\ Kept(last)' = Kept(last)
    BY <1>3 DEF Announced, Kept, Told
  <1>. QED
    BY <1>1, <1>2, <1>3, <1>4 DEF PageInv

\* The page itself: one case per thing it does.
LEMMA OwnPage ==
  ASSUME StreamInv, EventStreamAssumption, NEW s \in Subscribers,
         Subscribe(s) \/ AskStatus(s) \/ Deliver(s) \/ Lagged(s) \/ Leave(s)
  PROVE  PageInv(s)'
  <1>1. PageInv(s) /\ LastInv /\ PhaseInv
    BY DEF StreamInv
  <1>2. /\ Len(sent) \in Nat /\ last \in 0..Len(sent) /\ sent \in Seq(Event)
        /\ next[s] \in Nat /\ since[s] \in Nat /\ Cap \in Nat \ {0}
    BY DEF StreamInv, StreamTypeOK, EventStreamAssumption
  <1>3. /\ last' = last /\ sent' = sent /\ phase' = phase /\ nowPlaying' = nowPlaying
    BY DEF Subscribe, AskStatus, Deliver, Lagged, Leave, channel, player
  <1>4. Announced' = Announced /\ Kept(last)' = Kept(last)
    BY <1>3 DEF Announced, Kept, Told
  <1>5. CASE Subscribe(s)
    <2>1. /\ next'[s] = Len(sent) + 1 /\ since'[s] = Len(sent) + 1
          /\ source'[s] = "none"
      BY <1>5 DEF Subscribe, StreamInv, StreamTypeOK
    <2>. QED
      BY <1>2, <1>3, <2>1 DEF PageInv, Off
  <1>6. CASE AskStatus(s)
    <2>1. /\ next'[s] = next[s] /\ since'[s] = since[s] /\ next[s] # Off
          /\ source[s] = "none" /\ source'[s] = "status" /\ view'[s] = nowPlaying
          /\ (s \in phantom' <=> s \in phantom \/ (phase = "retire" /\ last < since[s]))
      BY <1>6 DEF AskStatus, StreamInv, StreamTypeOK
    <2>. QED
      BY <1>1, <1>2, <1>3, <1>4, <2>1 DEF PageInv, Off
  <1>7. CASE Deliver(s)
    <2>1. /\ next[s] \in 1..Len(sent) /\ next'[s] = next[s] + 1 /\ since'[s] = since[s]
      BY <1>7 DEF Deliver, Waiting, StreamInv, StreamTypeOK
    <2>2. CASE sent[next[s]].kind = "queue_changed"
      <3>1. source'[s] = source[s] /\ view'[s] = view[s] /\ phantom' = phantom
        BY <1>7, <2>2 DEF Deliver
      <3>2. last # next[s]
        BY <1>1, <1>2, <2>1, <2>2 DEF LastInv, Off
      <3>. QED
        BY <1>1, <1>2, <1>3, <1>4, <2>1, <3>1, <3>2 DEF PageInv, Off
    <2>3. CASE sent[next[s]].kind # "queue_changed"
      <3>1. source'[s] = "events" /\ view'[s] = Told(sent[next[s]])
        BY <1>7, <2>3 DEF Deliver, StreamInv, StreamTypeOK
      <3>2. next[s] <= last
        BY <1>1, <1>2, <2>1, <2>3 DEF LastInv
      <3>3. last = next[s] => view'[s] = Announced
        BY <2>1, <3>1 DEF Announced, Off
      <3>. QED
        BY <1>1, <1>2, <1>3, <1>4, <2>1, <3>1, <3>2, <3>3 DEF PageInv, Off
    <2>. QED
      BY <2>2, <2>3
  <1>8. CASE Lagged(s)
    <2>1. /\ next[s] \in 1..Len(sent) /\ next[s] <= Len(sent) - Cap
          /\ next'[s] = Len(sent) - Cap + 1 /\ since'[s] = since[s]
          /\ source'[s] = source[s] /\ view'[s] = view[s] /\ phantom' = phantom
      BY <1>2, <1>8 DEF Lagged, Waiting, Kept, StreamInv, StreamTypeOK
    <2>2. last < next'[s] => ~Kept(last)
      BY <1>2, <2>1 DEF Kept
    <2>. QED
      BY <1>1, <1>2, <1>3, <1>4, <2>1, <2>2 DEF PageInv, Off
  <1>9. CASE Leave(s)
    <2>1. next'[s] = Off /\ source'[s] = "none" /\ since'[s] = Off
      BY <1>9 DEF Leave, StreamInv, StreamTypeOK
    <2>. QED
      BY <2>1 DEF PageInv, Off
  <1>. QED
    BY <1>5, <1>6, <1>7, <1>8, <1>9

LEMMA PageStep ==
  ASSUME StreamInv, EventStreamAssumption, NEW s \in Subscribers,
         Subscribe(s) \/ AskStatus(s) \/ Deliver(s) \/ Lagged(s) \/ Leave(s)
  PROVE  StreamInv'
  <1>1. UNCHANGED <<phase, track, nowPlaying, sent, last>>
    BY DEF Subscribe, AskStatus, Deliver, Lagged, Leave, channel, player
  <1>2. StreamTypeOK'
    <2>. USE DEF StreamInv, StreamTypeOK
    <2>1. CASE Subscribe(s)
      BY <1>1, <2>1 DEF Subscribe, Off
    <2>2. CASE AskStatus(s)
      BY <1>1, <2>2 DEF AskStatus
    <2>3. CASE Deliver(s)
      <3>1. next' \in [Subscribers -> Nat] /\ since' \in [Subscribers -> Nat]
        BY <2>3 DEF Deliver
      <3>2. CASE sent[next[s]].kind = "queue_changed"
        BY <1>1, <2>3, <3>1, <3>2 DEF Deliver
      <3>3. CASE sent[next[s]].kind # "queue_changed"
        <4>1. sent[next[s]] \in Event
          BY <2>3 DEF Deliver, Waiting
        <4>2. Told(sent[next[s]]) \in Nat
          BY <4>1 DEF Told, Event, Off
        <4>. QED
          BY <1>1, <2>3, <3>1, <3>3, <4>2 DEF Deliver
      <3>. QED
        BY <3>2, <3>3
    <2>4. CASE Lagged(s)
      <3>1. Len(sent) - Cap + 1 \in Nat
        BY <2>4 DEF Lagged, Waiting, Kept, EventStreamAssumption
      <3>. QED
        BY <1>1, <2>4, <3>1 DEF Lagged
    <2>5. CASE Leave(s)
      BY <1>1, <2>5 DEF Leave, Off
    <2>. QED
      BY <2>1, <2>2, <2>3, <2>4, <2>5
  <1>3. LastInv' /\ PhaseInv'
    BY <1>1 DEF LastInv, PhaseInv, Announced, Told, StreamInv
  <1>4. \A t \in Subscribers : PageInv(t)'
    BY OtherPages, OwnPage
  <1>. QED
    BY <1>2, <1>3, <1>4 DEF StreamInv

\* The invariant is inductive.
THEOREM StreamInvariant == StreamSpec => []StreamInv
  <1>1. StreamInv /\ [StreamNext]_streamVars => StreamInv'
    <2>. SUFFICES ASSUME StreamInv, [StreamNext]_streamVars PROVE StreamInv'
      OBVIOUS
    <2>1. CASE SetNowPlaying \/ ClearNowPlaying
      BY <2>1, QuietStep
    <2>2. CASE SendStarted \/ SendEnded
      BY <2>2, TrackEventStep
    <2>3. CASE SendQueueChanged
      BY <2>3, QueueChangedStep, EventStreamAssumption
    <2>4. CASE \E s \in Subscribers : \/ Subscribe(s) \/ AskStatus(s) \/ Deliver(s)
                                     \/ Lagged(s) \/ Leave(s)
      BY <2>4, PageStep, EventStreamAssumption
    <2>5. CASE UNCHANGED streamVars
      BY <2>5 DEF streamVars, channel, player, pages, StreamInv, StreamTypeOK, LastInv,
                  PhaseInv, PageInv, Announced, Told, Kept
    <2>. QED
      BY <2>1, <2>2, <2>3, <2>4, <2>5 DEF StreamNext
  <1>. QED
    BY <1>1, StreamInitInv, PTL DEF StreamSpec

\* A page that has caught up shows what plays, whatever it missed.
THEOREM PagesShowWhatPlays == StreamSpec => []ViewRight
  <1>1. StreamInv => ViewRight
    <2>. SUFFICES ASSUME StreamInv, NEW s \in Subscribers, UpToDate(s),
                         last < since[s] \/ Kept(last), s \notin phantom
                  PROVE  view[s] \in {Announced, nowPlaying}
      BY DEF ViewRight
    <2>1. /\ PageInv(s) /\ PhaseInv /\ last \in 0..Len(sent) /\ Len(sent) \in Nat
          /\ next[s] = Len(sent) + 1 /\ since[s] \in Nat
          /\ source[s] \in {"status", "events"}
      BY DEF StreamInv, StreamTypeOK, UpToDate
    <2>2. CASE last < since[s]
      BY <2>1, <2>2 DEF PageInv, PhaseInv
    <2>3. CASE ~(last < since[s])
      BY <2>1, <2>3 DEF PageInv, Off
    <2>. QED
      BY <2>2, <2>3
  <1>. QED
    BY <1>1, StreamInvariant, PTL
=============================================================================
