------------------------------ MODULE Chunking ------------------------------
(***************************************************************************)
(* How a document is cut into chunks before it is embedded: prose by a     *)
(* sliding window that looks back for a good break, source code by units   *)
(* of whole lines that are packed together.  Characters are reduced to     *)
(* their class and lines of code to what the splitters read off them.      *)
(* Positions count from 0, as in the code.                                 *)
(***************************************************************************)
EXTENDS Integers, Sequences

CONSTANTS
    MaxChars,     \* bound: characters of a text
    MaxLines,     \* bound: lines of a source file
    MaxLine,      \* bound: characters of a line, its newline included
    MaxSize       \* bound: chunk_size

ASSUME ChunkingConstants ==
    {MaxChars, MaxLines, MaxLine, MaxSize} \subseteq Nat /\ MaxLine > 0

\* Letter, blank, newline, full stop.
Chars == {"x", " ", "n", "."}
IsWhitespace(c) == c \in {" ", "n"}

\* A line of code: what brace_delta makes of it, up to two braces either way, and
\* whether it ends in a brace or semicolon ("inner" closes one and does not, as in
\* "})"), or what py_top_def sees in it.
BraceLines  == {"open", "open2", "close", "close2", "inner", "stmt", "plain", "blank"}
PythonLines == {"def", "decorator", "plain", "blank"}

Line(kinds) == [kind : kinds, len : 1 .. MaxLine]

\* Sequences of at most n elements of S.
UpTo(n, S) == UNION {[1 .. k -> S] : k \in 0 .. n}

VARIABLES
    lang,     \* lang_for: "prose", "Braces" or "Python"
    input,    \* characters of a page, or lines of a file
    size, overlap,
    pos,      \* the loop's position in the input
    cur,      \* lines of the unit being collected
    depth,    \* nesting depth of braces
    units,    \* units of code, as sequences of line numbers
    buf,      \* line numbers of the units packed so far
    out,      \* the chunks: <<from, to>> in a text, line numbers in code
    pc

chunkvars == << lang, input, size, overlap, pos, cur, depth, units, buf, out, pc >>

----------------------------------------------------------------------------
(* chunk_text. *)
Elem(i) == input[i + 1]

Larger(a, b)  == IF a > b THEN a ELSE b
Smaller(a, b) == IF a < b THEN a ELSE b
Last(S)       == CHOOSE i \in S : \A k \in S : k <= i

Blank(from, to) == \A i \in from .. to - 1 : IsWhitespace(Elem(i))

EffectiveSize == Larger(size, 1)
EffectiveOverlap == Smaller(overlap, EffectiveSize - 1)

\* Breaks of three kinds within the window's last part, the last one wins.
Paragraphs(start, window) ==
    {i \in window : Elem(i) = "n" /\ i > start /\ Elem(i - 1) = "n"}
Sentences(window) ==
    {i \in window : Elem(i) = "." /\ (i + 1 < Len(input) => IsWhitespace(Elem(i + 1)))}
Blanks(window) == {i \in window : IsWhitespace(Elem(i))}

find_break(start, hard_end) ==
    LET window == start + ((hard_end - start) * 6) \div 10 .. hard_end - 1
    IN IF Paragraphs(start, window) # {} THEN Last(Paragraphs(start, window)) + 1
       ELSE IF Sentences(window) # {} THEN Last(Sentences(window)) + 1
       ELSE IF Blanks(window) # {} THEN Last(Blanks(window)) + 1
       ELSE hard_end

PieceEnd(start) ==
    LET hard_end == Smaller(start + EffectiveSize, Len(input))
    IN IF hard_end = Len(input) THEN hard_end ELSE find_break(start, hard_end)

\* Mutant: the window always slides back by the overlap.
NextStartBack(start, end) == Larger(end - EffectiveOverlap, 0)

\* Slide back by the overlap, unless that would not advance.
NextStart(start, end) ==
    LET next == Larger(end - EffectiveOverlap, 0)
    IN IF next > start THEN next ELSE end

ChunkNext ==
    /\ lang = "prose" /\ pc = "cut" /\ pos < Len(input)
    /\ LET end == PieceEnd(pos)
       IN /\ out' = IF Blank(pos, end) THEN out ELSE Append(out, << pos, end >>)
          /\ pc' = IF end >= Len(input) THEN "done" ELSE "cut"
          /\ pos' = NextStart(pos, end)
    /\ UNCHANGED << lang, input, size, overlap, cur, depth, units, buf >>

\* An empty text has no chunk.
ChunkNothing ==
    /\ lang = "prose" /\ pc = "cut" /\ pos >= Len(input) /\ pc' = "done"
    /\ UNCHANGED << lang, input, size, overlap, pos, cur, depth, units, buf, out >>

----------------------------------------------------------------------------
(* Units of code: one line per step. *)
brace_delta(line) ==
    CASE line.kind = "open" -> 1 [] line.kind = "open2" -> 2
      [] line.kind \in {"close", "inner"} -> -1 [] line.kind = "close2" -> -2
      [] OTHER -> 0

\* A stray closing brace does not.
Nested(line) == Larger(depth + brace_delta(line), 0)

EndsUnit(line) == line.kind \in {"close", "close2", "stmt"}

AllBlank(ls) == \A k \in 1 .. Len(ls) : input[ls[k]].kind = "blank"

push_unit(us, c) == IF AllBlank(c) THEN us ELSE Append(us, c)

brace_units ==
    /\ lang = "Braces" /\ pc = "units" /\ pos < Len(input)
    /\ LET line == Elem(pos)
           here == Append(cur, pos + 1)
           d    == Nested(line)
       IN /\ depth' = d
          /\ IF d = 0 /\ EndsUnit(line)
               THEN units' = push_unit(units, here) /\ cur' = << >>
               ELSE cur' = here /\ UNCHANGED units
    /\ pos' = pos + 1
    /\ UNCHANGED << lang, input, size, overlap, buf, out, pc >>

\* A decorator stays with its definition.
py_top_def(line) == line.kind \in {"def", "decorator"}

python_units ==
    /\ lang = "Python" /\ pc = "units" /\ pos < Len(input)
    /\ LET prev_decorator == pos > 0 /\ Elem(pos - 1).kind = "decorator"
       IN IF py_top_def(Elem(pos)) /\ ~prev_decorator /\ ~AllBlank(cur)
            THEN units' = push_unit(units, cur) /\ cur' = << pos + 1 >>
            ELSE cur' = Append(cur, pos + 1) /\ UNCHANGED units
    /\ pos' = pos + 1
    /\ UNCHANGED << lang, input, size, overlap, depth, buf, out, pc >>

\* The last unit has no end of its own.
LastUnit ==
    /\ pc = "units" /\ pos >= Len(input)
    /\ units' = push_unit(units, cur) /\ cur' = << >>
    /\ pc' = "pack" /\ pos' = 0
    /\ UNCHANGED << lang, input, size, overlap, depth, buf, out >>

----------------------------------------------------------------------------
(* chunk_code: pack units into chunks of at most size characters. *)
Length(ls) ==
    LET upTo[k \in 0 .. Len(ls)] == IF k = 0 THEN 0 ELSE upTo[k - 1] + input[ls[k]].len
    IN upTo[Len(ls)]

mk_chunk(o, b) == IF AllBlank(b) THEN o ELSE Append(o, [lines |-> b, split |-> FALSE])

\* Mutant: a unit that does not fit replaces what was packed.
PackUnitDrops ==
    /\ pc = "pack" /\ pos < Len(units)
    /\ LET unit == units[pos + 1]
       IN IF Length(unit) > size
            THEN /\ out' = Append(out, [lines |-> unit, split |-> TRUE])
                 /\ buf' = << >>
            ELSE IF buf # << >> /\ Length(buf) + Length(unit) > size
            THEN out' = Append(out, [lines |-> buf, split |-> FALSE]) /\ buf' = unit
            ELSE buf' = buf \o unit /\ UNCHANGED out
    /\ pos' = pos + 1
    /\ UNCHANGED << lang, input, size, overlap, cur, depth, units, pc >>

\* A unit above the size goes to chunk_text on its own.
PackUnit ==
    /\ pc = "pack" /\ pos < Len(units)
    /\ LET unit == units[pos + 1]
       IN IF Length(unit) > size
            THEN /\ out' = Append(mk_chunk(out, buf), [lines |-> unit, split |-> TRUE])
                 /\ buf' = << >>
            ELSE IF buf # << >> /\ Length(buf) + Length(unit) > size
            THEN out' = Append(out, [lines |-> buf, split |-> FALSE]) /\ buf' = unit
            ELSE buf' = buf \o unit /\ UNCHANGED out
    /\ pos' = pos + 1
    /\ UNCHANGED << lang, input, size, overlap, cur, depth, units, pc >>

PackRest ==
    /\ pc = "pack" /\ pos >= Len(units)
    /\ out' = mk_chunk(out, buf) /\ buf' = << >> /\ pc' = "done"
    /\ UNCHANGED << lang, input, size, overlap, pos, cur, depth, units >>

----------------------------------------------------------------------------
ChunkInit ==
    /\ size \in 0 .. MaxSize
    /\ \/ /\ lang = "prose" /\ pc = "cut" /\ overlap \in 0 .. size
          /\ input \in UpTo(MaxChars, Chars)
       \/ /\ pc = "units" /\ overlap = 0
          /\ \/ lang = "Braces" /\ input \in UpTo(MaxLines, Line(BraceLines))
             \/ lang = "Python" /\ input \in UpTo(MaxLines, Line(PythonLines))
    /\ pos = 0 /\ cur = << >> /\ depth = 0 /\ units = << >> /\ buf = << >> /\ out = << >>

ChunkingNext == \/ ChunkNext \/ ChunkNothing \/ brace_units \/ python_units \/ LastUnit
        \/ PackUnit \/ PackRest

\* One sequential computation: it goes on while it can.
ChunkSpec == ChunkInit /\ [][ChunkingNext]_chunkvars /\ WF_chunkvars(ChunkingNext)

----------------------------------------------------------------------------
\* Every variable holds a value of the kind the code gives it: positions stay
\* within the input, and the braces' depth is never negative.
ChunkTypeOK ==
    /\ pc \in {"cut", "units", "pack", "done"} /\ depth \in 0 .. 2 * MaxLines
    /\ pc # "done" => pos \in 0 .. Larger(Len(input), Len(units))
    /\ lang = "prose" => \A k \in 1 .. Len(out) :
                           0 <= out[k][1] /\ out[k][1] < out[k][2] /\ out[k][2] <= Len(input)

\* A finished document has every character that is not white space, and every
\* line of code that is not blank, in some chunk: nothing is lost to the search
\* for a break, to the packing of units or to unbalanced braces.
NothingLost ==
    pc = "done" =>
      IF lang = "prose"
        THEN \A i \in 0 .. Len(input) - 1 :
               IsWhitespace(Elem(i)) \/ \E k \in 1 .. Len(out) : out[k][1] <= i /\ i < out[k][2]
        ELSE \A n \in 1 .. Len(input) :
               \/ input[n].kind = "blank"
               \/ \E k \in 1 .. Len(out) : \E m \in 1 .. Len(out[k].lines) :
                    out[k].lines[m] = n

\* No chunk is longer than chunk_size characters (1 if that is 0), but for a
\* unit of code that is handed on to the prose splitter.
WithinSize ==
    IF lang = "prose"
      THEN \A k \in 1 .. Len(out) : out[k][2] - out[k][1] <= EffectiveSize
      ELSE \A k \in 1 .. Len(out) : out[k].split \/ Length(out[k].lines) <= size

\* Cutting ends, whatever the overlap and wherever the breaks are.
ChunkingEnds == <>(pc = "done")

\* What is stored of a document is all of it, in pieces an embedding can take.
ChunksSound == ChunkTypeOK /\ NothingLost /\ WithinSize
=============================================================================
