------------------------------- MODULE Paths -------------------------------
(***************************************************************************)
(* From the lines of `zfs diff` to the count: the escape format of the     *)
(* paths, the filter on PATH_PREFIX, and the counters (zfspath.go, zfs.go, *)
(* config.go, run.go in internal/watch).                                   *)
(*                                                                         *)
(* A path is a sequence of bytes, a byte a number.  A text grows byte by   *)
(* byte, or the output of `zfs diff` line by line; the invariants speak    *)
(* about every one within the bounds.                                      *)
(***************************************************************************)
EXTENDS Integers, SequencesExt

CONSTANTS
    Alphabets,      \* sets of bytes; a text is written in one of them
    MaxText,        \* bound: the length of a text
    DiffLines,      \* the lines `zfs diff` may print
    MaxLines,       \* bound: the lines of one diff
    PathPrefixes        \* what PATH_PREFIX may be after filepath.Clean; empty is not set

Byte == 0 .. 255

ASSUME PathsAssumption ==
    /\ \A bytes \in Alphabets : bytes \subseteq Byte
    /\ DiffLines \subseteq [mark : STRING, kind : STRING, raw : Seq(Byte)]
    /\ PathPrefixes \subseteq Seq(Byte)

VARIABLES
    text,           \* the bytes of a file name, or a text zfs never printed
    output,         \* the lines of `zfs diff` so far
    pathPrefix      \* PATH_PREFIX

(***************************************************************************)
(* The escape format.                                                      *)
(***************************************************************************)

Backslash == 92
Slash == 47
OctalDigit == 48 .. 55

\* stream_bytes of zfs, and the test in EncodeZfsPath.
Literal(c) == c > 32 /\ c # Backslash /\ c < 127

\* Mutant of Escape: as many digits as it takes.
EscapeShort(c) ==
    IF c < 64 THEN <<Backslash, 48, 48 + c \div 8, 48 + (c % 8)>>
    ELSE <<Backslash, 48, 48 + c \div 64, 48 + ((c \div 8) % 8), 48 + (c % 8)>>

\* "\%04o": a backslash and four octal digits.
Escape(c) == <<Backslash, 48, 48 + c \div 64, 48 + ((c \div 8) % 8), 48 + (c % 8)>>

\* A byte as it is printed.
Printed(c) == IF Literal(c) THEN <<c>> ELSE Escape(c)

\* EncodeZfsPath, which is what zfs itself prints for a file of that name.
EncodeZfsPath(bytes) ==
    LET written[k \in 0 .. Len(bytes)] ==
            IF k = 0 THEN <<>> ELSE written[k - 1] \o Printed(bytes[k])
    IN  written[Len(bytes)]

NotDecodable == [ok |-> FALSE, path |-> <<>>]

\* The value of four octal digits.
Octal(d) == (((d[1] - 48) * 8 + (d[2] - 48)) * 8 + (d[3] - 48)) * 8 + (d[4] - 48)

\* The four characters after a backslash are a byte of a file name.
IsByte(digits) == ToSet(digits) \subseteq OctalDigit /\ Octal(digits) \in 1 .. 255

\* One turn of the loop in DecodeZfsPath: a backslash must be followed by four octal
\* digits of a byte that is not NUL; any other character stands for itself.
DecodeTurn(raw, st) ==
    LET c == raw[st.at]
        digits == SubSeq(raw, st.at + 1, st.at + 4)
    IN  IF ~st.ok \/ st.at > Len(raw) THEN st
        ELSE IF c # Backslash THEN [st EXCEPT !.path = Append(@, c), !.at = @ + 1]
        ELSE IF st.at + 4 > Len(raw) \/ ~IsByte(digits) THEN [st EXCEPT !.ok = FALSE]
        ELSE [st EXCEPT !.path = Append(@, Octal(digits)), !.at = @ + 5]

DecodeStart == [ok |-> TRUE, path |-> <<>>, at |-> 1]

\* DecodeZfsPath.  A turn takes a character at least.
DecodeZfsPath(raw) ==
    LET st[k \in 0 .. Len(raw)] ==
            IF k = 0 THEN DecodeStart ELSE DecodeTurn(raw, st[k - 1])
        last == st[Len(raw)]
    IN  IF last.ok THEN [ok |-> TRUE, path |-> last.path] ELSE NotDecodable

\* containsControlChar: ASCII controls and DEL, and the C1 range as UTF-8, whose
\* first byte is 194; a lone byte of that range does not count.
ContainsControlChar(bytes) ==
    \E i \in DOMAIN bytes :
        \/ bytes[i] < 32 \/ bytes[i] = 127
        \/ i < Len(bytes) /\ bytes[i] = 194 /\ bytes[i + 1] \in 128 .. 159

\* Mutant of RoundTripZfsPath: what can be decoded is taken.
DecodeOnly(raw) == DecodeZfsPath(raw)

\* RoundTripZfsPath: decode, encode again and compare.
RoundTripZfsPath(raw) ==
    LET decoded == DecodeZfsPath(raw)
    IN  IF decoded.ok /\ EncodeZfsPath(decoded.path) = raw /\ ~ContainsControlChar(decoded.path)
        THEN decoded ELSE NotDecodable

(***************************************************************************)
(* The count.                                                              *)
(***************************************************************************)

\* Mutant of WithinPathPrefix: the beginning of a name is enough.
WithinByName(prefix, path) == prefix = <<>> \/ IsPrefix(prefix, path)

\* withinPathPrefix: the directory itself, or what lies below it.
WithinPathPrefix(prefix, path) ==
    prefix = <<>> \/ path = prefix \/ IsPrefix(Append(prefix, Slash), path)

\* A line: what happened ("-", "+", "M", "R" or an unknown mark), to what kind of
\* thing, and the path as printed; or one that is empty or not of this shape.
Empty == [mark |-> "", kind |-> "", raw |-> <<>>]
Garbled == [mark |-> "garbled", kind |-> "", raw |-> <<>>]

Zero == [deleted |-> <<>>, dirs |-> 0, other |-> 0, renamed |-> 0, added |-> 0,
         modified |-> 0, skipped |-> 0, unparsed |-> 0]

\* DeletedFile: a path that cannot be decoded stays as it was printed.
DeletedFile(raw) ==
    LET tried == RoundTripZfsPath(raw)
    IN  [raw |-> raw, path |-> IF tried.ok THEN tried.path ELSE raw, decodable |-> tried.ok]

Deletion(res, kind, file) ==
    CASE kind = "F" -> [res EXCEPT !.deleted = Append(@, file)]
      [] kind = "/" -> [res EXCEPT !.dirs = @ + 1]
      [] OTHER -> [res EXCEPT !.other = @ + 1]

\* A line that lies within PATH_PREFIX, by its mark.
Counted(res, line, file) ==
    CASE line.mark = "-" -> Deletion(res, line.kind, file)
      [] line.mark = "+" -> [res EXCEPT !.added = @ + 1]
      [] line.mark = "M" -> [res EXCEPT !.modified = @ + 1]
      [] line.mark = "R" -> [res EXCEPT !.renamed = @ + 1]
      [] OTHER -> [res EXCEPT !.unparsed = @ + 1]

\* Mutant of ParseLine: a path that cannot be decoded is passed over.
ParseLineDecodable(res, line) ==
    LET file == DeletedFile(line.raw)
    IN  IF line = Empty THEN res
        ELSE IF line = Garbled THEN [res EXCEPT !.unparsed = @ + 1]
        ELSE IF ~file.decodable THEN res
        ELSE IF ~WithinPathPrefix(pathPrefix, file.path) THEN [res EXCEPT !.skipped = @ + 1]
        ELSE Counted(res, line, file)

\* One turn of the loop in parseDiff.
ParseLine(res, line) ==
    LET file == DeletedFile(line.raw)
    IN  IF line = Empty THEN res
        ELSE IF line = Garbled THEN [res EXCEPT !.unparsed = @ + 1]
        ELSE IF ~WithinPathPrefix(pathPrefix, file.path) THEN [res EXCEPT !.skipped = @ + 1]
        ELSE Counted(res, line, file)

\* The order of Go strings: byte by byte.
Smaller(a, b) ==
    \/ a # b /\ IsPrefix(a, b)
    \/ \E i \in DOMAIN a \cap DOMAIN b :
        a[i] < b[i] /\ \A j \in 1 .. i - 1 : a[j] = b[j]

\* Mutant of Earlier: by path only, in the order of the lines when equal.
EarlierByPath(a, b) == Smaller(a.path, b.path)

\* The order of the deleted files: a path that was not decoded may equal one that
\* was, so that the printed form decides.
Earlier(a, b) == IF a.path = b.path THEN Smaller(a.raw, b.raw) ELSE Smaller(a.path, b.path)

\* sort.SliceStable at the end of parseDiff: a file comes after those that equal it.
SortFiles(files) ==
    LET sorted[k \in 0 .. Len(files)] ==
            IF k = 0 THEN <<>>
            ELSE LET sooner == {i \in DOMAIN sorted[k - 1] : ~Earlier(files[k], sorted[k - 1][i])}
                 IN  InsertAt(sorted[k - 1], Cardinality(sooner) + 1, files[k])
    IN  sorted[Len(files)]

ParseDiff(lines) ==
    LET after[k \in 0 .. Len(lines)] ==
            IF k = 0 THEN Zero ELSE ParseLine(after[k - 1], lines[k])
        res == after[Len(lines)]
    IN  [res EXCEPT !.deleted = SortFiles(@)]

\* recognizedLines and diffUnusable.
RecognizedLines(res) ==
    Len(res.deleted) + res.dirs + res.other + res.renamed + res.added + res.modified

DiffUnusable(res) == RecognizedLines(res) = 0 /\ res.unparsed > 0

(***************************************************************************)
(* The inputs.                                                             *)
(***************************************************************************)

\* zfs prints a name as EncodeZfsPath does: a path that says a name at all is the one
\* form of it.
ASSUME FormatAssumption ==
    \A line \in DiffLines :
        LET name == DecodeZfsPath(line.raw)
        IN  name.ok => EncodeZfsPath(name.path) = line.raw

PathsInit == text = <<>> /\ output = <<>> /\ pathPrefix \in PathPrefixes

AddByte(c) ==
    /\ Len(text) < MaxText
    /\ \E bytes \in Alphabets : ToSet(text) \cup {c} \subseteq bytes
    /\ text' = Append(text, c)
    /\ UNCHANGED <<output, pathPrefix>>

PrintLine(line) ==
    /\ Len(output) < MaxLines
    /\ output' = Append(output, line)
    /\ UNCHANGED <<text, pathPrefix>>

PathsNext ==
    \/ \E c \in UNION Alphabets : AddByte(c)
    \/ \E line \in DiffLines : PrintLine(line)

PathsSpec == PathsInit /\ [][PathsNext]_<<text, output, pathPrefix>>

(***************************************************************************)
(* Properties.                                                             *)
(***************************************************************************)

\* What zfs prints for a file name leads back to exactly that name, or to nothing
\* when a control character is in it; and a text leads to a name only if zfs would
\* print it for that name.  So no two files are ever taken for one another, and the
\* restore script never names a file that was not deleted (zfspath.go).
RoundTripIsExact ==
    /\ 0 \notin ToSet(text) =>
        RoundTripZfsPath(EncodeZfsPath(text)) =
            IF ContainsControlChar(text) THEN NotDecodable ELSE [ok |-> TRUE, path |-> text]
    /\ RoundTripZfsPath(text).ok => EncodeZfsPath(RoundTripZfsPath(text).path) = text

\* Every line that is not empty ends up in exactly one number.  So "not a single line
\* was counted" (diffUnusable) is said when some lines were not understood and all
\* the others lie outside PATH_PREFIX; a day on which all of them do is no failure.
EveryLineCounts ==
    LET res == ParseDiff(output)
        lines == Cardinality({i \in DOMAIN output : output[i] # Empty})
    IN  /\ RecognizedLines(res) + res.skipped + res.unparsed = lines
        /\ DiffUnusable(res) <=> res.unparsed > 0 /\ res.skipped + res.unparsed = lines

\* `zfs diff` gives no guaranteed order: examples, sample and report depend on what
\* was deleted and not on the order of the lines.
OrderDoesNotMatter ==
    \A i \in 1 .. Len(output) - 1 :
        ParseDiff(output) = ParseDiff([output EXCEPT ![i] = output[i + 1], ![i + 1] = output[i]])

\* The file a line is printed for, by the bytes of its name.
NameOf(raw) == DecodeZfsPath(raw)

\* A path and the directories it lies in.
AndDirectories(path) ==
    {path} \cup {SubSeq(path, 1, i - 1) : i \in {k \in DOMAIN path : path[k] = Slash}}

\* A deleted file counts exactly when it lies below PATH_PREFIX, whatever its name,
\* unless it cannot be decoded because of a control character: then only what was
\* printed is compared with the prefix.
CountsWhatIsWithin ==
    \A i \in DOMAIN output :
        LET line == output[i]
            name == NameOf(line.raw)
            counted == \E k \in DOMAIN ParseDiff(output).deleted :
                            ParseDiff(output).deleted[k].raw = line.raw
        IN  line.mark = "-" /\ line.kind = "F" /\ name.ok /\ ~ContainsControlChar(name.path)
                => (counted <=> pathPrefix \in AndDirectories(name.path) \cup {<<>>})

\* zfs.go:51: "sorting, filtering and counting then work for *all* files", those
\* with a path that cannot be decoded included.
FilterWorksForAll ==
    \A i \in DOMAIN output :
        LET line == output[i]
            name == NameOf(line.raw)
        IN  /\ line.mark = "-" /\ line.kind = "F" /\ name.ok
            /\ pathPrefix \in AndDirectories(name.path) \cup {<<>>}
            => \E k \in DOMAIN ParseDiff(output).deleted :
                    ParseDiff(output).deleted[k].raw = line.raw
=============================================================================
