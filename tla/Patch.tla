------------------------------- MODULE Patch -------------------------------
(***************************************************************************)
(* The pure half of the edit tools (src/amop/sandbox/tools.py): what part  *)
(* of a file a read has shown, which lines a diff claims to replace, what  *)
(* patch_file checks before it hands the diff to git, and where git puts   *)
(* it.                                                                     *)
(*                                                                         *)
(* A file is a sequence of lines, each of so many characters (bytes count  *)
(* as characters).  A diff is one hunk                                     *)
(*                                                                         *)
(*    [start, new, body, also]   @@ -start +new @@  and marked lines       *)
(*                                                                         *)
(* the counts of its header left out (git apply is called with --recount), *)
(* and so are its two path headers, which patch_file rewrites.  also are   *)
(* the paths in sections behind it that rename other files: they have no   *)
(* "@@" and no marked lines, and nothing looks at them.  (The header of a  *)
(* section with a hunk of its own counts as a line of the hunk before it,  *)
(* so most of those are refused; the others edit other files just so.)     *)
(***************************************************************************)
EXTENDS Integers, Sequences, FiniteSets, FiniteSetsExt

CONSTANTS
    Chars,                      \* [lines -> how many characters each has]
    NoteLines,                  \* the lines that begin with "[NOTE:"
    SCOPED_READ_THRESHOLD,      \* a longer read is not returned whole
    SCOPED_READ_DEFAULT_LINES,  \* but cut down to this many lines
    LARGE_FILE_NOTICE_THRESHOLD, \* a longer file is returned with a warning
    Unbounded                   \* the end of a read that gave none

ASSUME ReadLimits ==
    /\ Chars \in [DOMAIN Chars -> Nat]
    /\ NoteLines \subseteq DOMAIN Chars
    /\ SCOPED_READ_THRESHOLD \in Nat
    /\ SCOPED_READ_DEFAULT_LINES \in Nat \ {0}
    /\ LARGE_FILE_NOTICE_THRESHOLD \in Nat
    /\ Unbounded \in Nat

Least(x, y) == IF x < y THEN x ELSE y
Greatest(x, y) == IF x > y THEN x ELSE y
Distance(x, y) == IF x < y THEN y - x ELSE x - y

-----------------------------------------------------------------------------
(* Reading.  first and last are the arguments start_line and end_line; 0   *)
(* is an argument that was not given.                                      *)

WholeFile(first, last) == first = 0 /\ last = 0

LastWanted(content, last) ==
    IF last = 0 THEN Len(content) ELSE Least(Len(content), last)

\* A range that starts beyond the file, or is empty, is an error.
RangeIsValid(content, first, last) ==
    \/ WholeFile(first, last)
    \/ /\ Greatest(1, first) <= Len(content)
       /\ Greatest(1, first) <= LastWanted(content, last)

\* len of the lines, and of the numbers "N: " in front of them.
Size(content, lines) == MapThenSumSet(LAMBDA i : Chars[content[i]], lines)

Digits[n \in Nat] == IF n < 10 THEN 1 ELSE 1 + Digits[n \div 10]
Prefixes(lines) == MapThenSumSet(LAMBDA i : Digits[i] + 2, lines)

NumberedSize(content, lines, numbered) ==
    Size(content, lines) + IF numbered THEN Prefixes(lines) ELSE 0

\* Too much to be returned: the answer is cut, and starts with a notice.  The
\* numbers count in a part of a file only.
Truncated(content, first, last, numbered) ==
    NumberedSize(content, Greatest(1, first) .. LastWanted(content, last),
                 numbered /\ ~ WholeFile(first, last)) > SCOPED_READ_THRESHOLD

\* The lines that the answer really holds.
ShownLines(content, first, last, numbered) ==
    LET lo == Greatest(1, first)
        hi == LastWanted(content, last)
    IN  IF Truncated(content, first, last, numbered)
        THEN lo .. Least(hi, lo + SCOPED_READ_DEFAULT_LINES - 1)
        ELSE lo .. hi

\* The line numbers are in the answer when they were asked for, and always
\* when a whole file was cut.
ShownNumbered(content, first, last, numbered) ==
    \/ numbered
    \/ WholeFile(first, last) /\ Truncated(content, first, last, numbered)

\* Otherwise: crediting what was asked for.
RequestedRange(content, first, last, numbered) ==
    [lo |-> Greatest(1, first), hi |-> IF last = 0 THEN Unbounded ELSE last]

\* A whole file, returned whole, behind a notice that it is long.
Noticed(content, first, last, numbered) ==
    /\ WholeFile(first, last)
    /\ NumberedSize(content, 1 .. Len(content), numbered) > LARGE_FILE_NOTICE_THRESHOLD

\* The answer starts with the text of the file, and that with "[NOTE:".
LooksLikeANotice(content, first, numbered) ==
    /\ ~ numbered
    /\ Greatest(1, first) \in DOMAIN content
    /\ content[Greatest(1, first)] \in NoteLines

\* read_file_effective_range: what the read is taken to have shown.  An answer
\* that starts with "[NOTE:", whatever has put that there, is taken for one
\* that was cut, and for one of so many lines.
EffectiveRange(content, first, last, numbered) ==
    LET lo == Greatest(1, first)
    IN  IF \/ Truncated(content, first, last, numbered)
           \/ Noticed(content, first, last, numbered)
           \/ LooksLikeANotice(content, first, numbered)
        THEN [lo |-> lo, hi |-> lo + SCOPED_READ_DEFAULT_LINES - 1]
        ELSE [lo |-> lo, hi |-> IF last = 0 THEN Unbounded ELSE last]

-----------------------------------------------------------------------------
(* The diff.                                                               *)

Marked(body, marks) == SelectSeq(body, LAMBDA l : l.mark \in marks)

LinesOf(body, marks) ==
    LET sel == Marked(body, marks) IN [i \in DOMAIN sel |-> sel[i].text]

OldSide(diff) == LinesOf(diff.body, {"context", "minus"})
NewSide(diff) == LinesOf(diff.body, {"context", "plus"})

\* A line without a marker, or an empty one, inside the hunk.
FormatDefect(diff) == \E i \in DOMAIN diff.body : diff.body[i].mark = "none"

\* The lines of the old file that the hunk says it touches.  An insertion
\* touches the line it is anchored at.
DiffTargetRange(diff) ==
    [lo |-> diff.start,
     hi |-> Greatest(diff.start + Len(OldSide(diff)) - 1, diff.start)]

ReadCoversTarget(read, target) == read.lo <= target.lo /\ target.hi <= read.hi

\* Some line differs from what the file has at the place the diff claims.  A
\* line claimed beyond the end of the file differs from nothing.
ContextMismatch(diff, content) ==
    LET old == OldSide(diff)
    IN  \E i \in DOMAIN old :
            /\ diff.start + i - 1 \in DOMAIN content
            /\ content[diff.start + i - 1] # old[i]

MatchesAt(seq, content, p) ==
    /\ p + Len(seq) - 1 <= Len(content)
    /\ \A i \in DOMAIN seq : content[p + i - 1] = seq[i]

SequenceAppears(seq, content) ==
    \E p \in 1 .. Len(content) + 1 : MatchesAt(seq, content, p)

\* Otherwise: the same check for every reader, that the lines are somewhere.
ContentDefectLenient(diff, content, position_trustworthy) ==
    ~ SequenceAppears(OldSide(diff), content)

\* Checked position by position when the reader was shown the numbers, and
\* anywhere in the file when not.
ContentDefect(diff, content, position_trustworthy) ==
    IF position_trustworthy
    THEN ContextMismatch(diff, content)
    ELSE ~ SequenceAppears(OldSide(diff), content)

-----------------------------------------------------------------------------
(* git apply (external): a hunk that says it starts at line 1 must match    *)
(* there, one without context after its changes must match at the end of   *)
(* the file, and any other goes to the match nearest to its second number. *)

EndsInContext(diff) == diff.body[Len(diff.body)].mark = "context"

Candidates(diff, content) ==
    {p \in 1 .. Len(content) + 1 :
        /\ MatchesAt(OldSide(diff), content, p)
        /\ diff.start <= 1 => p = 1
        /\ ~ EndsInContext(diff) => p + Len(OldSide(diff)) - 1 = Len(content)}

Landings(diff, content) ==
    {p \in Candidates(diff, content) :
        \A q \in Candidates(diff, content) :
            Distance(p, diff.new) <= Distance(q, diff.new)}

\* The file with the hunk applied at line p.
Spliced(content, p, diff) ==
    SubSeq(content, 1, p - 1) \o NewSide(diff)
        \o SubSeq(content, p + Len(OldSide(diff)), Len(content))

\* The diffs whose claimed position git looks at first: both numbers of the
\* header agree, context follows the changes, and the lines are in the file.
Anchored(diff, content) ==
    /\ diff.new = diff.start
    /\ EndsInContext(diff)
    /\ diff.start + Len(OldSide(diff)) - 1 <= Len(content)
=============================================================================
