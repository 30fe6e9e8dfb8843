--------------------------------- MODULE Text ---------------------------------
(* The text algorithms of the runtime: UTF-8 validation and truncation         *)
(* (oran-core/str.cpp), the splitting of replies and of their formatting       *)
(* (oran-channel/protocol.cpp, apps/telegram/format.cpp), line windows         *)
(* (oran-io/file.cpp, oran-tool/file_read.cpp) and exact replacement           *)
(* (oran-tool/file_edit.cpp).  A text is a sequence of bytes; positions are    *)
(* 1-based here where the code counts from 0.  Every algorithm is checked      *)
(* against a definition of its own over all the bounded inputs.                *)
EXTENDS Integers, Sequences, SequencesExt, FiniteSets, TLC

CONSTANTS
  TextBytes,   \* representatives of the byte classes UTF-8 tells apart
  TextLength,  \* length of the byte texts that are enumerated
  CodePoints,  \* code points from which valid texts are built
  Runs         \* number of code points, lines or spans in such a text

VARIABLE input \* the text, or the text and the formatting, under consideration

NoCount == -1
NewLine == 10

\* Number of bytes the byte announces, 0 when it cannot start a code point.
lead_length(b) ==
  CASE b < 128 -> 1 [] b < 194 -> 0 [] b < 224 -> 2 [] b < 240 -> 3 [] b < 245 -> 4 [] OTHER -> 0

first_continuation_range(lead) ==
  CASE lead = 224 -> 160 .. 191 [] lead = 237 -> 128 .. 159
    [] lead = 240 -> 144 .. 191 [] lead = 244 -> 128 .. 143 [] OTHER -> 128 .. 191

\* Length of the well-formed code point at i, or 0.
CodePointAt(t, i) ==
  LET n == lead_length(t[i]) IN
  IF \/ n = 0
     \/ i + n - 1 > Len(t)
     \/ n >= 2 /\ t[i + 1] \notin first_continuation_range(t[i])
     \/ \E k \in 2 .. n - 1 : t[i + k] \notin 128 .. 191
  THEN 0 ELSE n

count_code_points(t) ==
  LET count[i \in 1 .. Len(t) + 1] ==
        IF i > Len(t) THEN 0
        ELSE LET n == CodePointAt(t, i) IN
             IF n = 0 \/ count[i + n] = NoCount THEN NoCount ELSE 1 + count[i + n]
  IN count[1]

is_valid_utf8(t) == count_code_points(t) # NoCount

\* The longest prefix that fits and splits no announced sequence.
truncate_to_code_point(t, max) ==
  LET boundary[i \in 0 .. Len(t)] ==
        IF i = Len(t) THEN i
        ELSE LET n == lead_length(t[i + 1])
                 step == IF n = 0 THEN 1 ELSE n
             IN IF i + step > max \/ i + step > Len(t) THEN i ELSE boundary[i + step]
  IN IF Len(t) <= max THEN t ELSE SubSeq(t, 1, boundary[0])

\* The parts of a reply; <<>> stands for the refusal of a text that is not
\* UTF-8 or of a limit that could not hold a code point.
split_text(t, limit) ==
  LET split[i \in 0 .. Len(t)] ==
        IF i = Len(t) THEN <<>>
        ELSE LET part == truncate_to_code_point(SubSeq(t, i + 1, Len(t)), limit)
             IN <<part>> \o split[i + Len(part)]
  IN IF limit < 4 \/ ~is_valid_utf8(t) THEN <<>> ELSE split[0]

-------------------------------------------------------------------------------
(* Formatting: entities over the UTF-16 units of a text.                       *)

utf16_size(t) ==
  FoldLeft(LAMBDA n, b : n + (IF b < 128 \/ b >= 192 THEN IF b >= 240 THEN 2 ELSE 1 ELSE 0), 0, t)

IsCode(e) == e.type \in {"code", "pre"}

\* What remains of an entity between the code ranges it crosses, and within the
\* text: other entities must not contain code.
normalize_entity(e, code, textEnd) ==
  LET end == IF e.stop < textEnd THEN e.stop ELSE textEnd
      cuts == IF IsCode(e) THEN <<>>
              ELSE SelectSeq(code, LAMBDA c : c.stop >= e.start /\ c.start < end)
      starts == FoldLeft(LAMBDA s, c : Append(s, IF c.stop > Last(s) THEN c.stop ELSE Last(s)), <<e.start>>, cuts)
      pieces == [k \in 1 .. Len(starts) |->
                   [e EXCEPT !.start = starts[k],
                             !.stop = IF k <= Len(cuts) /\ cuts[k].start < end THEN cuts[k].start ELSE end]]
  IN SelectSeq(pieces, LAMBDA p : p.start < p.stop)

normalize_entities(entities, textEnd) ==
  LET code == SortSeq(SelectSeq(entities, IsCode), LAMBDA a, b : a.start < b.start)
      all == FoldLeft(LAMBDA s, e : s \o normalize_entity(e, code, textEnd), <<>>, entities)
  IN SortSeq(all, LAMBDA a, b : IF a.start = b.start THEN a.stop > b.stop ELSE a.start < b.start)

\* The entities of the part that covers the units from..to - 1, in its own units.
\* (mutant: an entity that began in an earlier part is dropped)
part_entities_starting(entities, from, to) ==
  LET inside == SelectSeq(entities, LAMBDA e : e.start < to /\ e.start >= from)
  IN [k \in 1 .. Len(inside) |->
        [inside[k] EXCEPT !.start = @ - from, !.stop = (IF @ < to THEN @ ELSE to) - from]]

part_entities(entities, from, to) ==
  LET inside == SelectSeq(entities, LAMBDA e : e.start < to /\ e.stop > from)
  IN [k \in 1 .. Len(inside) |->
        [inside[k] EXCEPT !.start = (IF @ > from THEN @ ELSE from) - from,
                          !.stop = (IF @ < to THEN @ ELSE to) - from]]

split_formatted(t, entities, limit) ==
  LET parts == split_text(t, limit)
      ends == FoldLeft(LAMBDA s, p : Append(s, Last(s) + utf16_size(p)), <<0>>, parts)
  IN [k \in 1 .. Len(parts) |->
        [text |-> parts[k], entities |-> part_entities(entities, ends[k], ends[k + 1])]]

-------------------------------------------------------------------------------
(* Line windows and exact replacement.                                         *)

IsContinuation(b) == b \in 128 .. 191

\* The part of a buffer between the code points it cuts.
align_to_utf8_boundaries(t) ==
  LET head == CHOOSE h \in 0 .. Len(t) :
                /\ \A i \in 1 .. h : IsContinuation(t[i])
                /\ h = Len(t) \/ ~IsContinuation(t[h + 1])
      end[c \in head .. Len(t)] ==
        IF c = Len(t) THEN c
        ELSE LET n == lead_length(t[c + 1]) IN
             IF n = 0 \/ c + n > Len(t) THEN c ELSE end[c + n]
  IN SubSeq(t, head + 1, end[head])

\* One byte of the scan of read_lines; r.stop holds once the cap was hit.
read_line_byte(r, b, start, count, max) ==
  LET inRange == r.line >= start /\ r.emitted < count
      full == inRange /\ Len(r.text) >= max
      ends == b = NewLine /\ ~full
  IN IF r.truncated THEN r
     ELSE [line |-> r.line + (IF ends THEN 1 ELSE 0),
           emitted |-> r.emitted + (IF ends /\ inRange THEN 1 ELSE 0),
           text |-> IF inRange /\ ~full THEN Append(r.text, b) ELSE r.text,
           truncated |-> full]

read_lines(t, start, count, max) ==
  LET r == FoldLeft(LAMBDA acc, b : read_line_byte(acc, b, start, count, max),
                    [line |-> 1, emitted |-> 0, text |-> <<>>, truncated |-> FALSE], t)
      open == r.text # <<>> /\ Last(r.text) # NewLine /\ r.emitted < count
  IN [text |-> IF r.truncated THEN align_to_utf8_boundaries(r.text) ELSE r.text,
      truncated |-> r.truncated,
      endLine |-> start + r.emitted - (IF open THEN 0 ELSE 1)]

\* What the header of FileRead tells the model to do next: the offset of the
\* following window, or 0 at the end of the file or for an incomplete window.
next_offset(r, start, count) ==
  IF r.truncated \/ r.endLine < start \/ r.endLine - start + 1 < count THEN 0 ELSE r.endLine + 1

find_occurrences(t, old) ==
  LET scan[i \in 1 .. Len(t) + 1] ==
        IF i + Len(old) - 1 > Len(t) THEN <<>>
        ELSE IF SubSeq(t, i, i + Len(old) - 1) = old
             THEN <<i>> \o scan[i + Len(old)] ELSE scan[i + 1]
  IN scan[1]

\* Size of the output, or NoCount when it would not fit in a size_t.
replacement_size(size, oldSize, newSize, count, sizeMax) ==
  IF newSize <= oldSize THEN size - (oldSize - newSize) * count
  ELSE IF count > (sizeMax - size) \div (newSize - oldSize) THEN NoCount
       ELSE size + (newSize - oldSize) * count

apply_replacements(t, old, new, positions) ==
  LET r == FoldLeft(LAMBDA acc, p : [out |-> acc.out \o SubSeq(t, acc.cursor, p - 1) \o new,
                                     cursor |-> p + Len(old)],
                    [out |-> <<>>, cursor |-> 1], positions)
  IN r.out \o SubSeq(t, r.cursor, Len(t))

-------------------------------------------------------------------------------
(* Reference definitions and the properties that compare them.                 *)

UpTo(S, n) == UNION {[1 .. k -> S] : k \in 0 .. n}
NoInput == [kind |-> "none"]

\* UTF-8 as the standard defines it: the encoding of a scalar value.
Encode(c) ==
  LET Six(v) == 128 + (v % 64) IN
  CASE c < 128 -> <<c>>
    [] c < 2048 -> <<192 + (c \div 64), Six(c)>>
    [] c < 65536 -> <<224 + (c \div 4096), Six(c \div 64), Six(c)>>
    [] OTHER -> <<240 + (c \div 262144), Six(c \div 4096), Six(c \div 64), Six(c)>>

\* The value a lead byte and its continuations would carry.
Decoded(u) ==
  LET lead == CASE Len(u) = 1 -> u[1] [] Len(u) = 2 -> u[1] - 192 [] Len(u) = 3 -> u[1] - 224 [] OTHER -> u[1] - 240
  IN FoldLeft(LAMBDA v, b : v * 64 + (b - 128), lead, Tail(u))

IsScalar(c) == c \in 0 .. 1114111 /\ c \notin 55296 .. 57343

IsEncoding(u) == LET c == Decoded(u) IN c >= 0 /\ IsScalar(c) /\ Encode(c) = u

\* The number of scalar values a text encodes, from its first boundary on.
ReferenceCount(t) ==
  LET from[i \in 1 .. Len(t) + 1] ==
        IF i > Len(t) THEN 0
        ELSE LET ns == {n \in 1 .. 4 : i + n - 1 <= Len(t) /\ IsEncoding(SubSeq(t, i, i + n - 1))}
             IN IF \E n \in ns : from[i + n] # NoCount
                THEN 1 + from[i + CHOOSE n \in ns : from[i + n] # NoCount] ELSE NoCount
  IN from[1]

EncodedTexts == {FlattenSeq([k \in DOMAIN cs |-> Encode(cs[k])]) : cs \in UpTo(CodePoints, Runs)}

Letters == UpTo({97, 98}, Runs + 1)

Spans(n) == {[type |-> ty, start |-> a, stop |-> b] : ty \in {"bold", "code"}, a \in 0 .. n, b \in 1 .. n + 1}
\* Entities as format_markdown leaves them: ranges are not empty, code does not
\* overlap code, and a range may reach past the text once trailing newlines are cut.
MarkdownEntities(n) ==
  {es \in UpTo(Spans(n), Runs - 1) :
     /\ \A k \in DOMAIN es : es[k].start < es[k].stop
     /\ \A j, k \in DOMAIN es : j # k /\ IsCode(es[j]) /\ IsCode(es[k]) =>
                                  es[j].stop <= es[k].start \/ es[k].stop <= es[j].start}

TextInputs ==
  {[kind |-> "bytes", text |-> t] : t \in UpTo(TextBytes, TextLength)} \cup
  {[kind |-> "text", text |-> t] : t \in EncodedTexts} \cup
  {[kind |-> "letters", text |-> t] : t \in Letters}

Styles(entities, u) == {e.type : e \in {f \in Range(entities) : f.start <= u /\ u < f.stop}}

\* However a formatted reply is cut to the size of a message, the parts are the
\* text, each part fits, is whole UTF-8 and takes all the code points that fit,
\* and every UTF-16 unit keeps its style: its own entities, or code alone where
\* code is (format.cpp:24-64, 175-197, protocol.cpp:19-31).  What passes for UTF-8
\* there is exactly a sequence of encoded scalar values: no overlong form, no
\* surrogate, nothing above U+10FFFF (str.cpp:67-120).
SplitKeepsText ==
  LET t == input.text IN
  /\ input.kind = "bytes" => count_code_points(t) = ReferenceCount(t)
  /\ input.kind = "text" =>
       /\ \A limit \in 4 .. 6 :
            LET parts == split_text(t, limit) IN
            /\ FlattenSeq(parts) = t
            /\ \A k \in DOMAIN parts :
                 /\ Len(parts[k]) \in 1 .. limit /\ is_valid_utf8(parts[k])
                 /\ k < Len(parts) => Len(parts[k]) + CodePointAt(parts[k + 1], 1) > limit
       /\ \A es \in MarkdownEntities(utf16_size(t)) :
            LET parts == split_formatted(t, normalize_entities(es, utf16_size(t)), 4)
                begin[k \in 1 .. Len(parts)] ==
                  IF k = 1 THEN 0 ELSE begin[k - 1] + utf16_size(parts[k - 1].text)
            IN \A k \in DOMAIN parts :
                 /\ \A e \in Range(parts[k].entities) :
                      0 <= e.start /\ e.start < e.stop /\ e.stop <= utf16_size(parts[k].text)
                 /\ \A u \in 0 .. utf16_size(parts[k].text) - 1 :
                      LET was == Styles(es, begin[k] + u)
                      IN Styles(parts[k].entities, u) = IF "code" \in was THEN {"code"} ELSE was

\* The windows a reader meets by following the offsets of the headers, none of
\* them truncated, from the first line on.
Windows(t, count) ==
  LET window(start) == read_lines(t, start, count, Len(t))
      follow[start \in 1 .. Len(t) + 2] ==
        LET next == next_offset(window(start), start, count)
        IN <<window(start).text>> \o IF next = 0 THEN <<>> ELSE follow[next]
  IN follow[1]

\* Following the offsets FileRead announces reads every byte of the file exactly
\* once, whatever the window, whether or not the last line ends in a newline; and
\* a window cut by max_bytes is said to be truncated, is a prefix of the window
\* and cuts no code point (file.cpp:166-219, file_read.cpp:136-145).
WindowsTile ==
  input.kind = "text" =>
    \A count \in 1 .. Runs :
      /\ FlattenSeq(Windows(input.text, count)) = input.text
      /\ \A start \in 1 .. Runs : \A max \in 1 .. 4 :
           LET whole == read_lines(input.text, start, count, Len(input.text)).text
               cut == read_lines(input.text, start, count, max)
           IN /\ IsPrefix(cut.text, whole) /\ is_valid_utf8(cut.text) /\ Len(cut.text) <= max
              /\ cut.truncated <=> Len(whole) > max

\* The matches a left-to-right scan must choose.
IsLeftmost(t, old, ps) ==
  /\ \A k \in DOMAIN ps : SubSeq(t, ps[k], ps[k] + Len(old) - 1) = old
  /\ \A k \in DOMAIN ps : k > 1 => ps[k] >= ps[k - 1] + Len(old)
  /\ \A i \in 1 .. Len(t) - Len(old) + 1 :
       SubSeq(t, i, i + Len(old) - 1) = old =>
         \E k \in DOMAIN ps : ps[k] <= i /\ i < ps[k] + Len(old)

\* FileEdit replaces the leftmost non-overlapping matches and nothing else: the
\* output put back together with the old string is the input, its size is the one
\* checked against max_bytes beforehand, and a size that would overflow is refused
\* (file_edit.cpp:56-99).
EditExact ==
  input.kind = "letters" =>
    /\ \A old \in UpTo({97, 98}, 2) \ {<<>>} : \A new \in UpTo({97, 98}, 2) \ {old} :
         LET t == input.text
             ps == find_occurrences(t, old)
             out == apply_replacements(t, old, new, ps)
             moved == [k \in DOMAIN ps |-> ps[k] + (k - 1) * (Len(new) - Len(old))]
         IN /\ IsLeftmost(t, old, ps)
            /\ Len(out) = replacement_size(Len(t), Len(old), Len(new), Len(ps), 2^16 - 1)
            /\ apply_replacements(out, new, old, moved) = t
    /\ \A o \in 1 .. 3 : \A n \in 0 .. 4 : \A count \in 0 .. Len(input.text) \div o :
         LET exact == Len(input.text) + (n - o) * count
         IN replacement_size(Len(input.text), o, n, count, Runs + 1) = IF exact > Runs + 1 THEN NoCount ELSE exact

\* Text is cut into messages and windows and edited without losing any of it.
TextExact == SplitKeepsText /\ WindowsTile /\ EditExact
===============================================================================
