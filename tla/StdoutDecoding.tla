--------------------------- MODULE StdoutDecoding ---------------------------
(***************************************************************************)
(* The stdout 'data' handler at the byte level.  The child writes UTF-8;   *)
(* the pipe hands the bytes to the handler in chunks whose boundaries the  *)
(* code does not choose; the handler runs `buffer += data.toString()`,     *)
(* decoding each chunk on its own, and then splits the buffer into lines   *)
(* (SplitLines of CodexEvents).  'close' hands a non-empty rest to         *)
(* JSON.parse as a last line.  A character is a model value standing for   *)
(* its class: an ASCII letter, the newline, a 2-byte and a 3-byte one.     *)
(***************************************************************************)
EXTENDS CodexEvents
LOCAL INSTANCE SequencesExt

CONSTANTS
  Writes,     \* the texts the child may write in one call
  MaxChunk   \* the largest chunk the pipe delivers

Chars == {"a", NL, "e2", "z3"}
ASSUME DecodingAssumption ==
  /\ Writes \subseteq Seq(Chars)
  /\ MaxChunk \in Nat \ {0}

\* The bytes of a character: "A" ASCII, "LF" 0x0A, "L2"/"L3" lead bytes of
\* a 2-/3-byte sequence, "C" a continuation byte.
Bytes == {"A", "LF", "L2", "L3", "C"}
Encode(ch) ==
  CASE ch = "a"  -> <<"A">>
    [] ch = NL   -> <<"LF">>
    [] ch = "e2" -> <<"L2", "C">>
    [] ch = "z3" -> <<"L3", "C", "C">>

EncodeText(t) == FlattenSeq([i \in DOMAIN t |-> Encode(t[i])])

\* U+FFFD, which the decoder puts in place of an ill-formed sequence.
Replacement == "fffd"

-----------------------------------------------------------------------------
(* Buffer.prototype.toString("utf8"): the WHATWG decoder, one replacement  *)
(* character per maximal ill-formed subpart, and one for a sequence the    *)
(* chunk ends in the middle of.  `lead` is the lead byte of the sequence   *)
(* being read, `got` how many continuation bytes it has.                   *)
DecoderInit == [out |-> << >>, lead |-> "none", got |-> 0]
Needed(lead) == IF lead = "L2" THEN 1 ELSE 2
CharOf(lead) == IF lead = "L2" THEN "e2" ELSE "z3"

StartByte(st, b) ==
  CASE b = "A"  -> [st EXCEPT !.out = Append(@, "a")]
    [] b = "LF" -> [st EXCEPT !.out = Append(@, NL)]
    [] b = "C"  -> [st EXCEPT !.out = Append(@, Replacement)]
    [] OTHER    -> [st EXCEPT !.lead = b, !.got = 0]

FeedByte(st, b) ==
  IF st.lead = "none" THEN StartByte(st, b)
  ELSE IF b # "C"
       THEN StartByte([out |-> Append(st.out, Replacement), lead |-> "none", got |-> 0], b)
  ELSE IF st.got + 1 = Needed(st.lead)
       THEN [out |-> Append(st.out, CharOf(st.lead)), lead |-> "none", got |-> 0]
  ELSE [st EXCEPT !.got = @ + 1]

\* Variant that maps every byte to a character of its own (a latin1 read).
DecodeLatin1(bs) == bs

Decode(bs) ==
  LET st == FoldLeft(FeedByte, DecoderInit, bs)
  IN  IF st.lead = "none" THEN st.out ELSE Append(st.out, Replacement)

-----------------------------------------------------------------------------
VARIABLES
  text,     \* what the child writes
  sent,     \* how many of its bytes the handler has been given
  cuts,     \* the byte positions where a chunk ended
  buffer,   \* the decoded text after the last newline
  lines,    \* the lines handed to JSON.parse, in order
  closed    \* 'close' has run

vars == <<text, sent, cuts, buffer, lines, closed>>

Stream == EncodeText(text)

Init ==
  /\ text \in Writes
  /\ sent = 0
  /\ cuts = {}
  /\ buffer = << >>
  /\ lines = << >>
  /\ closed = FALSE

\* Variant that resets the buffer instead of keeping the incomplete line.
DataDropsRest(k) ==
  LET split == SplitLines(buffer \o Decode(SubSeq(Stream, sent + 1, sent + k)))
  IN  /\ ~closed
      /\ sent + k <= Len(Stream)
      /\ sent' = sent + k
      /\ cuts' = cuts \cup {sent + k}
      /\ lines' = lines \o split.lines
      /\ buffer' = << >>
      /\ UNCHANGED <<text, closed>>

\* One 'data' event with the next k bytes: decode, append, split, keep the
\* text after the last newline.
Data(k) ==
  LET split == SplitLines(buffer \o Decode(SubSeq(Stream, sent + 1, sent + k)))
  IN  /\ ~closed
      /\ sent + k <= Len(Stream)
      /\ sent' = sent + k
      /\ cuts' = cuts \cup {sent + k}
      /\ lines' = lines \o split.lines
      /\ buffer' = split.rest
      /\ UNCHANGED <<text, closed>>

\* 'close' after the last chunk: `if (buffer.trim())` the rest is one more
\* line.  (No character of Chars is white space, and the buffer never holds
\* a newline.)
Close ==
  /\ ~closed
  /\ sent = Len(Stream)
  /\ closed' = TRUE
  /\ lines' = IF buffer # << >> THEN Append(lines, buffer) ELSE lines
  /\ UNCHANGED <<text, sent, cuts, buffer>>

Next == (\E k \in 1..MaxChunk : Data(k)) \/ Close

Spec == Init /\ [][Next]_vars

-----------------------------------------------------------------------------
\* The lines of the text taken as a whole, as the child wrote them.
WholeLines ==
  LET split == SplitLines(text)
  IN  IF split.rest = << >> THEN split.lines ELSE Append(split.lines, split.rest)

\* A cut inside a character: the byte after it is a continuation byte.
CharCut(p) == p < Len(Stream) /\ Stream[p + 1] = "C"

\* The line (counted from 1) that byte p + 1 belongs to.
LineAfter(p) == Cardinality({i \in 1..p : Stream[i] = "LF"}) + 1

\* The lines the handler has completed so far.
LinesDelivered == Cardinality({i \in 1..sent : Stream[i] = "LF"})
                  + (IF closed /\ buffer # << >> THEN 1 ELSE 0)

TypeOK ==
  /\ text \in Writes
  /\ sent \in 0..Len(Stream) /\ cuts \subseteq 1..Len(Stream)
  /\ buffer \in Seq(Chars \cup {Replacement})
  /\ lines \in Seq(Seq(Chars \cup {Replacement}))
  /\ closed \in BOOLEAN

\* Chunking damages only the lines a chunk boundary falls inside a
\* character of: the handler hands JSON.parse one line per newline the
\* child wrote, and every line no boundary splits a character of is
\* exactly the line the child wrote (the decoder never swallows a newline,
\* and the data handler keeps the incomplete line across chunks).
DamageConfined ==
  /\ Len(lines) = LinesDelivered
  /\ \A k \in 1..Len(lines) :
       (\A p \in cuts : CharCut(p) => LineAfter(p) # k) => lines[k] = WholeLines[k]

\* spec §4 (Line Reassembler): the lines are the same whatever the chunk
\* boundaries, a boundary inside a multi-byte character included.  The
\* handler decodes each chunk on its own (`data.toString()`), so this fails.
ChunkingInvisible == closed => lines = WholeLines
=============================================================================
