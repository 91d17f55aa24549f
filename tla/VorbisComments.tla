--------------------------- MODULE VorbisComments ---------------------------
(***************************************************************************)
(* read_vorbis_comments of src/queue.rs: the parser that moves a cursor    *)
(* through the comment packet of an Ogg file by lengths it reads from that *)
(* packet.                                                                 *)
(*                                                                         *)
(* Of the bytes the parser sees only their number, the magic, the lengths  *)
(* and counts it decodes, and what each comment says.  A packet is that    *)
(* description: lens[i] is the number found where the i-th length is       *)
(* read, texts[i] what the bytes after it say.  Every byte string has one  *)
(* description, wherever its lengths lead.  A value is named by the number *)
(* of its comment; without a TITLE, 0, Track::from_file takes the stem of  *)
(* the file's name.                                                        *)
(***************************************************************************)
EXTENDS Sequences, Integers

CONSTANTS
  Packets,   \* the packets considered
  WordMax,   \* largest u32
  UsizeMax   \* largest usize

Magic == 7      \* b"\x03vorbis"
Word  == 4      \* bytes of a u32

Text == {"title", "artist", "other"}   \* other: another key, or not UTF-8

Packet == [size : Nat, magic : BOOLEAN, vendor : 0..WordMax, count : 0..WordMax,
           lens : Seq(0..WordMax), texts : Seq(Text)]

\* A packet is no longer than a slice can be, and every length it can hold
\* at all is described.
ASSUME PacketAssumption ==
  /\ WordMax \in Nat /\ UsizeMax \in Nat
  /\ \A p \in Packets :
       /\ p \in Packet
       /\ p.size <= Word * Len(p.lens) /\ Len(p.texts) = Len(p.lens)
       /\ p.size + Word + WordMax <= UsizeMax

VARIABLES
  packet,   \* the file
  stage,    \* where the parser is
  pos,      \* its cursor
  round,    \* comments whose length has been read
  found,    \* the map it builds: the comment that gave each value
  slice     \* ghost: the range of the last slice taken from the packet

parseVars == <<packet, stage, pos, round, found, slice>>

Stages    == {"magic", "vendor", "count", "length", "text", "none", "done"}
NoComment == [title |-> 0, artist |-> 0]

ParseInit ==
  /\ packet \in Packets
  /\ stage = "magic" /\ pos = 0 /\ round = 0
  /\ found = NoComment /\ slice = <<0, 0>>

Fits(n) == pos + n <= packet.size
Take(n) == slice' = <<pos, pos + n>>

\* None, of which Track::from_file makes a track without comments.
GiveUp == stage' = "none" /\ found' = NoComment /\ UNCHANGED <<packet, pos, round, slice>>

\* Some(comments)
Enough == stage' = "done" /\ UNCHANGED <<packet, pos, round, found, slice>>
-----------------------------------------------------------------------------
\* No file, no Ogg, an error reading it, or not a comment packet: None.
RejectPacket == stage = "magic" /\ GiveUp

AcceptMagic ==
  /\ stage = "magic"
  /\ packet.size >= Magic /\ packet.magic
  /\ stage' = "vendor" /\ pos' = Magic /\ slice' = <<0, Magic>>
  /\ UNCHANGED <<packet, round, found>>

\* The vendor string is jumped over unread: the cursor may leave the packet.
ReadVendor ==
  /\ stage = "vendor" /\ Fits(Word)
  /\ Take(Word)
  /\ stage' = "count" /\ pos' = pos + Word + packet.vendor
  /\ UNCHANGED <<packet, round, found>>

ReadCount ==
  /\ stage = "count" /\ Fits(Word)
  /\ Take(Word)
  /\ stage' = "length" /\ pos' = pos + Word
  /\ UNCHANGED <<packet, round, found>>

\* if pos + 4 > data.len() { return None; }
Truncated == stage \in {"vendor", "count"} /\ ~Fits(Word) /\ GiveUp

\* for _ in 0..count: the length of the next comment
ReadLength ==
  /\ stage = "length" /\ round < packet.count /\ Fits(Word)
  /\ Take(Word)
  /\ stage' = "text" /\ pos' = pos + Word /\ round' = round + 1
  /\ UNCHANGED <<packet, found>>

\* Mutant: continue instead of break, for as long as count says.
NoMoreComments_Continue ==
  /\ stage = "length"
  /\ IF round < packet.count
     THEN /\ ~Fits(Word)
          /\ round' = round + 1
          /\ UNCHANGED <<packet, stage, pos, found, slice>>
     ELSE Enough

\* All comments read, or the packet ends first: what was found is kept.
NoMoreComments ==
  /\ stage = "length"
  /\ round >= packet.count \/ ~Fits(Word)
  /\ Enough

\* Mutant: the text is not compared with the end of the packet.
ReadText_Unchecked ==
  /\ stage = "text"
  /\ Take(packet.lens[round])
  /\ stage' = "length" /\ pos' = pos + packet.lens[round]
  /\ UNCHANGED <<packet, round, found>>

\* Mutant: the first value of a key is kept.
ReadText_FirstWins ==
  /\ stage = "text" /\ Fits(packet.lens[round])
  /\ Take(packet.lens[round])
  /\ found' = LET key == packet.texts[round]
              IN  IF key \in DOMAIN found /\ found[key] = 0
                  THEN [found EXCEPT ![key] = round] ELSE found
  /\ stage' = "length" /\ pos' = pos + packet.lens[round]
  /\ UNCHANGED <<packet, round>>

\* from_utf8, split_once('='), insert: a later value replaces an earlier.
ReadText ==
  /\ stage = "text" /\ Fits(packet.lens[round])
  /\ Take(packet.lens[round])
  /\ found' = LET key == packet.texts[round]
              IN  IF key \in DOMAIN found THEN [found EXCEPT ![key] = round] ELSE found
  /\ stage' = "length" /\ pos' = pos + packet.lens[round]
  /\ UNCHANGED <<packet, round>>

TextTruncated == stage = "text" /\ ~Fits(packet.lens[round]) /\ Enough

ParseNext == RejectPacket \/ AcceptMagic \/ ReadVendor \/ ReadCount \/ Truncated
             \/ ReadLength \/ NoMoreComments \/ ReadText \/ TextTruncated

ParseSpec == ParseInit /\ [][ParseNext]_parseVars
-----------------------------------------------------------------------------
\* Whatever the lengths say, every slice lies in the packet and no sum of
\* the cursor and a length leaves usize.
SlicesInBounds ==
  /\ slice[1] <= slice[2] /\ slice[2] <= packet.size
  /\ stage \in {"count", "length"} => pos + Word <= UsizeMax
  /\ stage = "text" => pos + packet.lens[round] <= UsizeMax

\* A packet that promises four thousand million comments takes no more
\* rounds than it has bytes for.
WorkBounded == Magic + Word * round <= packet.size \/ round = 0

\* Reference: where each comment of a packet ends, which are complete, and
\* the last complete one with that key.
EndOfComment(p) ==
  LET end[i \in 0..Len(p.lens)] == IF i = 0 THEN Magic + Word + p.vendor + Word
                                            ELSE end[i - 1] + Word + p.lens[i]
  IN  end

Complete == {i \in DOMAIN packet.lens :
               i <= packet.count /\ EndOfComment(packet)[i] <= packet.size}

LastWith(key) == LET with == {i \in Complete : packet.texts[i] = key}
                 IN  IF with = {} THEN 0 ELSE CHOOSE i \in with : \A j \in with : j <= i

\* A track is shown with the last complete TITLE and ARTIST of its file: a
\* packet cut short costs its last comments and nothing else.
LastCompleteWins ==
  stage = "done" => found = [title |-> LastWith("title"), artist |-> LastWith("artist")]
=============================================================================
