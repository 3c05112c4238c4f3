------------------------------- MODULE Chunker -------------------------------
(***************************************************************************)
(* How the text of one file becomes chunks (internal/chunker), and which   *)
(* of them are stored (indexUnit).  A text is a sequence of bytes of six   *)
(* classes; a chunk is the interval of the text it shows, the size of its  *)
(* content, which may also hold a prefix and doubled line ends, and the    *)
(* lines it names.  One step takes a line, a piece or a window.            *)
(***************************************************************************)
EXTENDS Naturals, FiniteSets, Sequences

CONSTANTS
  Texts,       \* contents of files: none is blank, all are valid UTF-8
  Outlines,    \* what the analyzer may find: sets of symbols <<first line, last line>>
  MaxChars,    \* maxChunkChars: 4000
  Overlap,     \* MaxChars \div 10
  Prefix,      \* the length of "[kind] name" and its line end
  MaxToken,    \* bufio.MaxScanTokenSize: 65536
  MaxPerFile   \* maxChunksPerFile: 32

Bytes == {"x",    \* a letter
          "c",    \* a sign that begins a comment
          "b",    \* a blank
          "n",    \* a line end
          "u",    \* the first byte of a longer rune
          "v"}    \* another byte of it

\* A rune has at most four bytes.
Valid(t) == \A i \in DOMAIN t : t[i] = "v" =>
              \E s \in DOMAIN t : s < i /\ i <= s + 3 /\ t[s] = "u" /\ \A m \in (s + 1) .. i : t[m] = "v"

ASSUME TextsAssumption == Texts \subseteq Seq(Bytes) /\ \A t \in Texts : Valid(t)
ASSUME OutlinesAssumption == \A o \in Outlines : o \subseteq (Nat \X Nat) /\ IsFiniteSet(o)
ASSUME SizesAssumption ==
  /\ MaxChars \in Nat /\ MaxChars >= 4 /\ Overlap \in Nat /\ Prefix \in 0 .. (MaxChars - 1)
  /\ MaxToken \in Nat /\ MaxPerFile \in Nat

VARIABLES
  text,
  stage,     \* what is to be done
  next,      \* the first and the last line still to be taken,
  last,
  source,    \*   where from: "file" (chunkCode) or "gap" (chunkLines)
  pend,      \* codeAccumulator: interval, size and lines of the pending chunk
  left,      \* the symbols still to come
  lastLine,  \* the lines before it have been dealt with
  pos,       \* where the next piece or window begins
  line,      \* the line it is said to be on
  chunks

chunkerVars == <<text, stage, next, last, source, pend, left, lastLine, pos, line, chunks>>

Blanks == {"b", "n"}
Wide == {"u", "v"}
Kinds == {"run", "cut", "window", "symbol", "piece"}
Chunks == [from : Nat, to : Nat, size : Nat, first : Nat, last : Nat, kind : Kinds]
NonePending == [from |-> 0, to |-> 0, size |-> 0, first |-> 0, last |-> 0]

ChunkTypeOK ==
  /\ text \in Seq(Bytes)
  /\ stage \in {"off", "begin", "lines", "cuts", "symbols", "emit", "pieces", "prose", "cap", "kept"}
  /\ next \in Nat /\ last \in Nat /\ source \in {"file", "gap"}
  /\ pend \in [from : Nat, to : Nat, size : Nat, first : Nat, last : Nat]
  /\ left \in Seq(Nat \X Nat)
  /\ lastLine \in Nat /\ pos \in Nat /\ line \in Nat
  /\ chunks \in Seq(Chunks)

------------------------------------------------------------------------------
(* Lines and pieces of the text. *)
Newlines == {i \in DOMAIN text : text[i] = "n"}
Least(S) == CHOOSE i \in S : \A j \in S : i <= j
Greatest(S) == CHOOSE i \in S : \A j \in S : j <= i
LineEnds(a, b) == Cardinality(Newlines \cap (a .. b))

\* lineOf: the line of an offset.
LineOf(i) == 1 + LineEnds(1, i - 1)
LineCount == 1 + Cardinality(Newlines)
LineFirst(k) == IF k = 1 THEN 1 ELSE 1 + Least({i \in Newlines : LineOf(i) = k - 1})
LineLast(k) == IF k = LineCount THEN Len(text) ELSE Least({i \in Newlines : LineOf(i) = k}) - 1
LineLen(k) == LineLast(k) + 1 - LineFirst(k)

NonBlank(a, b) == {i \in a .. b : text[i] \notin Blanks}
RuneStart(i) == text[i] # "v"

\* A chunk of a..b, trimmed if trim says so; extra bytes do not come from the text.
Trimmed(a, b) == IF NonBlank(a, b) = {} THEN <<a, a - 1>>
                 ELSE <<Least(NonBlank(a, b)), Greatest(NonBlank(a, b))>>
Chunk(a, b, extra, f, l, kind) ==
  [from |-> a, to |-> b, size |-> b + 1 - a + extra, first |-> f, last |-> l, kind |-> kind]
TrimmedChunk(a, b, doubled, f, l, kind) ==
  LET t == Trimmed(a, b)
  IN Chunk(t[1], t[2], IF doubled THEN LineEnds(t[1], t[2]) ELSE 0, f, l, kind)

\* splitRunes: where the piece that begins at a ends, in a..b.
RuneCut(a, b) ==
  IF b + 1 - a <= MaxChars THEN b
  ELSE LET whole == {e \in (a + 1) .. (a + MaxChars) : RuneStart(e)}
       IN IF whole # {} THEN Greatest(whole) - 1
          ELSE Least({e \in (a + MaxChars) .. b : e = b \/ RuneStart(e + 1)})

------------------------------------------------------------------------------
(* The accumulator of lines.  A line taken by chunkCode brings its own line   *)
(* end and gets another.                                                      *)
Doubled == source = "file"
TokenLen(k) == LineLen(k) + (IF Doubled /\ k < LineCount THEN 1 ELSE 0)

Flushed(p) ==
  IF p.size = 0 THEN chunks
  ELSE Append(chunks, TrimmedChunk(p.from, p.to, Doubled, p.first, p.last, "run"))

Overflows(k) == pend.size > 0 /\ pend.size + TokenLen(k) + 1 > MaxChars

Appended(k) ==
  IF pend.size = 0 \/ Overflows(k)
  THEN [from |-> LineFirst(k), to |-> LineLast(k), size |-> TokenLen(k) + 1, first |-> k, last |-> k]
  ELSE [pend EXCEPT !.to = LineLast(k), !.size = @ + TokenLen(k) + 1, !.last = k]

IsBlank(k) == NonBlank(LineFirst(k), LineLast(k)) = {}

------------------------------------------------------------------------------
Feed(from, to, how) ==
  /\ stage' = "lines" /\ next' = from /\ last' = to /\ source' = how
  /\ pend' = NonePending

Start(t) ==
  /\ text = t /\ stage = "begin"
  /\ next = 0 /\ last = 0 /\ source = "file" /\ pend = NonePending
  /\ left = <<>> /\ lastLine = 0 /\ pos = 0 /\ line = 0 /\ chunks = <<>>

\* The order of the symbols: by first line, otherwise any.
Orders(S) == {o \in [1 .. Cardinality(S) -> S] :
                /\ {o[i] : i \in DOMAIN o} = S
                /\ \A i, j \in DOMAIN o : i < j => o[i][1] <= o[j][1]}
Describes(S) == \A s \in S : 1 <= s[1] /\ s[1] <= s[2] /\ s[1] <= LineCount /\ ~IsBlank(s[1])

ChunkFile ==
  /\ stage = "begin"
  /\ \/ /\ stage' = "prose" /\ pos' = 1
        /\ UNCHANGED <<next, last, source, pend, left>>
     \/ /\ Feed(1, IF LineLen(LineCount) = 0 THEN LineCount - 1 ELSE LineCount, "file")
        /\ UNCHANGED <<pos, left>>
     \/ /\ \E S \in Outlines : S # {} /\ Describes(S) /\ left' \in Orders(S)
        /\ stage' = "symbols"
        /\ UNCHANGED <<next, last, source, pend, pos>>
  /\ UNCHANGED <<text, lastLine, line, chunks>>

\* chunkCode and chunkLines: one line.  The scanner of chunkCode gives up at a
\* line that does not fit into its buffer, and reports nothing.
TooLong(k) == Doubled /\ LineLen(k) >= MaxToken
Ended == IF next > last THEN TRUE ELSE TooLong(next)
Taking == stage = "lines" /\ ~Ended

TakeBlank ==
  /\ Taking /\ IsBlank(next) /\ pend.size > 0
  /\ chunks' = Flushed(pend) /\ pend' = NonePending
  /\ next' = next + 1
  /\ UNCHANGED <<text, stage, last, source, left, lastLine, pos, line>>

\* appendOversizedLine: the lines before it, and its pieces one by one.
Oversized == Taking /\ ~(IsBlank(next) /\ pend.size > 0) /\ TokenLen(next) > MaxChars

\* Mutant of TakeOversized: the lines before an oversized one are dropped.
TakeOversizedAlone ==
  /\ Oversized
  /\ pend' = NonePending
  /\ stage' = "cuts" /\ pos' = LineFirst(next)
  /\ UNCHANGED <<text, next, last, source, left, lastLine, line, chunks>>

TakeOversized ==
  /\ Oversized
  /\ chunks' = Flushed(pend) /\ pend' = NonePending
  /\ stage' = "cuts" /\ pos' = LineFirst(next)
  /\ UNCHANGED <<text, next, last, source, left, lastLine, line>>

TakeCut ==
  /\ stage = "cuts"
  /\ LET e == RuneCut(pos, LineLast(next))
     IN /\ chunks' = IF NonBlank(pos, e) = {} THEN chunks
                     ELSE Append(chunks, TrimmedChunk(pos, e, FALSE, next, next, "cut"))
        /\ pos' = e + 1
        /\ IF e = LineLast(next) THEN stage' = "lines" /\ next' = next + 1
           ELSE UNCHANGED <<stage, next>>
  /\ UNCHANGED <<text, last, source, pend, left, lastLine, line>>

TakeLine ==
  /\ Taking /\ ~(IsBlank(next) /\ pend.size > 0) /\ TokenLen(next) <= MaxChars
  /\ chunks' = IF Overflows(next) THEN Flushed(pend) ELSE chunks
  /\ pend' = Appended(next)
  /\ next' = next + 1
  /\ UNCHANGED <<text, stage, last, source, left, lastLine, pos, line>>

\* The last flush; a file of which nothing came is prose, a gap is followed by
\* its symbol and a tail by nothing.
EndLines ==
  /\ stage = "lines" /\ Ended
  /\ chunks' = Flushed(pend) /\ pend' = NonePending
  /\ stage' = IF Doubled THEN (IF chunks' = <<>> THEN "prose" ELSE "cap")
              ELSE (IF left = <<>> THEN "cap" ELSE "emit")
  /\ pos' = 1
  /\ UNCHANGED <<text, next, last, source, left, lastLine, line>>

------------------------------------------------------------------------------
(* chunkText. *)
WindowEnd(a) ==
  IF a + MaxChars > Len(text) THEN Len(text)
  ELSE LET ends == {i \in Newlines : i >= a /\ i < a + MaxChars}
       IN IF ends # {} /\ (Greatest(ends) - a) > (MaxChars \div 2) THEN Greatest(ends)
          ELSE Greatest({e \in (a - 1) .. (a + MaxChars - 1) : e = a - 1 \/ RuneStart(e + 1)})
WindowStart(a, e) ==
  LET starts == {i \in (a + 1) .. (e + 1 - Overlap) : i > Len(text) \/ RuneStart(i)}
  IN IF starts = {} THEN e + 1 ELSE Greatest(starts)

TakeWhole ==
  /\ stage = "prose" /\ Len(text) <= MaxChars
  /\ chunks' = <<TrimmedChunk(1, Len(text), FALSE, 1, LineOf(Len(text) + 1), "window")>>
  /\ stage' = "cap"
  /\ UNCHANGED <<text, next, last, source, pend, left, lastLine, pos, line>>

TakeWindow ==
  /\ stage = "prose" /\ Len(text) > MaxChars
  /\ LET e == WindowEnd(pos)
     IN /\ chunks' = Append(chunks, TrimmedChunk(pos, e, FALSE, LineOf(pos), LineOf(e), "window"))
        /\ IF e >= Len(text) THEN stage' = "cap" /\ pos' = pos
           ELSE stage' = stage /\ pos' = WindowStart(pos, e)
  /\ UNCHANGED <<text, next, last, source, pend, left, lastLine, line>>

------------------------------------------------------------------------------
(* ChunkFileAST: the lines before a symbol, the symbol with the comment above *)
(* it, and the lines after the last one.                                      *)
IsComment(k) == ~IsBlank(k) /\ text[Least(NonBlank(LineFirst(k), LineLast(k)))] = "c"
DocStart(f) == Least({k \in 1 .. f : k = f \/ (k > lastLine /\ \A j \in k .. (f - 1) : IsComment(j))})
Lesser(a, b) == IF a < b THEN a ELSE b
First == DocStart(Head(left)[1])
End == Lesser(Head(left)[2], LineCount)
From == LineFirst(First)
To == LineLast(End)
GapIsBlank(a, b) == a > b \/ NonBlank(LineFirst(a), LineLast(b)) = {}

TakeGap ==
  /\ stage = "symbols" /\ left # <<>>
  /\ IF GapIsBlank(lastLine + 1, First - 1)
     THEN stage' = "emit" /\ UNCHANGED <<next, last, source, pend>>
     ELSE Feed(lastLine + 1, First - 1, "gap")
  /\ UNCHANGED <<text, left, lastLine, pos, line, chunks>>

TakeTail ==
  /\ stage = "symbols" /\ left = <<>>
  /\ IF GapIsBlank(lastLine + 1, LineCount)
     THEN stage' = "cap" /\ UNCHANGED <<next, last, source, pend>>
     ELSE Feed(lastLine + 1, LineCount, "gap")
  /\ UNCHANGED <<text, left, lastLine, pos, line, chunks>>

SymbolTaken == left' = Tail(left) /\ lastLine' = End /\ stage' = "symbols"

EmitSymbol ==
  /\ stage = "emit" /\ Prefix + (To + 1 - From) <= MaxChars
  /\ chunks' = Append(chunks, Chunk(From, To, Prefix, First, End, "symbol"))
  /\ SymbolTaken
  /\ UNCHANGED <<text, next, last, source, pend, pos, line>>

SplitSymbol ==
  /\ stage = "emit" /\ Prefix + (To + 1 - From) > MaxChars
  /\ pos' = From /\ line' = First /\ stage' = "pieces"
  /\ UNCHANGED <<text, next, last, source, pend, left, lastLine, chunks>>

\* cutSymbolPiece: what is left if it fits; else up to a late line end; else
\* without the bytes of longer runes at its end; else MaxChars bytes.
Space == MaxChars - Prefix
RoughEnd(a) ==
  LET ends == {i \in Newlines : i >= a /\ i < a + Space}
  IN IF ends # {} /\ (Greatest(ends) - a) > (Space \div 2) THEN Greatest(ends) - 1 ELSE a + Space - 1
Plain(a) == {i \in a .. RoughEnd(a) : text[i] \notin Wide}

PieceEnd(a, to) ==
  IF to + 1 - a <= Space THEN to
  ELSE IF Plain(a) # {} THEN Greatest(Plain(a))
  ELSE Lesser(a + MaxChars - 1, to)

TakePiece ==
  /\ stage = "pieces" /\ pos <= To
  /\ LET e == PieceEnd(pos, To)
         count == LineEnds(pos, e) + 1
     IN /\ chunks' = Append(chunks, Chunk(pos, e, Prefix, line, line + count - 1, "piece"))
        /\ pos' = e + 1 /\ line' = line + count
  /\ UNCHANGED <<text, stage, next, last, source, pend, left, lastLine>>

SymbolDone ==
  /\ stage = "pieces" /\ pos > To
  /\ SymbolTaken
  /\ UNCHANGED <<text, next, last, source, pend, pos, line, chunks>>

------------------------------------------------------------------------------
\* indexUnit and embedOneFile store the first MaxPerFile chunks.
Cap ==
  /\ stage = "cap" /\ stage' = "kept"
  /\ chunks' = SubSeq(chunks, 1, Lesser(Len(chunks), MaxPerFile))
  /\ UNCHANGED <<text, next, last, source, pend, left, lastLine, pos, line>>

ChunkStep ==
  \/ ChunkFile
  \/ TakeBlank \/ TakeOversized \/ TakeCut \/ TakeLine \/ EndLines
  \/ TakeWhole \/ TakeWindow
  \/ TakeGap \/ TakeTail \/ EmitSymbol \/ SplitSymbol \/ TakePiece \/ SymbolDone
  \/ Cap

ChunkInit == \E t \in Texts : Start(t)
ChunkSpec == ChunkInit /\ [][ChunkStep]_chunkerVars /\ WF_chunkerVars(ChunkStep)

------------------------------------------------------------------------------
(* Properties. *)
Covers(c, i) == c.from <= i /\ i <= c.to
Beyond(i) == \E k \in 1 .. LineOf(i) : LineLen(k) >= MaxToken

\* Every byte of a file that is not blank is in a chunk before the file's
\* chunks are limited ("so nothing is lost", chunker_ast.go:23), unless it
\* stands on or after a line the scanner of chunkCode cannot read.
NothingLost ==
  stage = "cap" =>
    \A i \in NonBlank(1, Len(text)) :
      \/ \E k \in DOMAIN chunks : Covers(chunks[k], i)
      \/ left = <<>> /\ lastLine = 0 /\ Beyond(i)

\* A chunk is at most MaxChars long (chunker.go:121) and begins and ends
\* between two runes, except a piece of a symbol whose first half is all bytes
\* of longer runes, which cutSymbolPiece cuts anywhere; and the lines a chunk
\* names hold its text, so that a result points at it, or, for a later piece of
\* a symbol that was split, begin no earlier than its text does.
Unsplittable(c) ==
  /\ c.kind = "piece" /\ c.from + (Space \div 2) <= c.to
  /\ \A i \in c.from .. (c.from + (Space \div 2)) : text[i] \in Wide
WellCut(k) ==
  LET c == chunks[k]
  IN \/ /\ c.size <= MaxChars
        /\ c.from <= c.to => RuneStart(c.from) /\ (c.to = Len(text) \/ RuneStart(c.to + 1))
     \/ Unsplittable(c)
     \/ k > 1 /\ Unsplittable(chunks[k - 1])
LinesTrue(c) ==
  c.from <= c.to =>
    IF c.kind = "piece" THEN LineOf(c.from) <= c.first
    ELSE c.first <= LineOf(c.from) /\ LineOf(c.to) <= c.last
ChunksFit == \A k \in DOMAIN chunks : WellCut(k) /\ LinesTrue(chunks[k])

\* The chunks of a file together hold its text, each within the size and at the
\* lines it names.
ChunksFaithful == NothingLost /\ ChunksFit
==============================================================================
