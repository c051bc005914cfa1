----------------------------- MODULE DiffLines -----------------------------
(***************************************************************************)
(* packages/diff/src: what the review makes of a unified diff.  A diff is  *)
(* a sequence of files, a file a sequence of hunks, a hunk the line number *)
(* it starts at in the new file and the sequence of its lines.  Of a line  *)
(* only its kind counts, the suppression markers it carries, whether a     *)
(* secret pattern matches it, and whether its text begins with its own     *)
(* sign twice (an added line "++i", shown in the diff as "+++i").          *)
(*                                                                         *)
(* A path is a number; paths sort as their numbers do.                     *)
(***************************************************************************)
EXTENDS Ordering, SequencesExt

CONSTANTS
    MergeGap,   \* mergeGap: hunks that are no further apart share a chunk
    MaxChars    \* maxChars: how large a chunk of several hunks may get

ASSUME DiffAssumption == MergeGap \in Nat /\ MaxChars \in Nat

\* The sum of a sequence of numbers.
Total(ns) == FoldLeft(LAMBDA sum, n : sum + n, 0, ns)

-----------------------------------------------------------------------------
(* Lines and hunks.                                                        *)

IsSequence(s) == s \in Seq(ToSet(s))

\* A file of a parsed diff.
IsFile(f) ==
    /\ f.path \in Int /\ IsSequence(f.hunks)
    /\ \A h \in ToSet(f.hunks) : h.at \in Nat /\ h.size \in Nat /\ IsSequence(h.lines)

\* A line of the new file: added, or context.
NewSide(line) == line.kind \in {"+", " "}

\* The line of the new file that the i-th line of hunk h is.
LineNumber(h, i) == h.at + Cardinality({k \in 1 .. i - 1 : NewSide(h.lines[k])})

\* newEndLine; a hunk that only deletes ends where it starts.
HunkEnd(h) == Max({h.at, LineNumber(h, Len(h.lines) + 1) - 1})

\* The added lines of a hunk, as positions in it.
AddedIn(h) == {i \in DOMAIN h.lines : h.lines[i].kind = "+"}

-----------------------------------------------------------------------------
(* Which files are reviewed.                                               *)

\* isIgnored(): of the rules that match the path the last one decides.
IsIgnored(path, rules) ==
    LET matching == {i \in DOMAIN rules : path \in rules[i].paths}
    IN  matching # {} /\ ~rules[Max(matching)].negate

\* countChangedLines(); a line whose text begins with its sign twice is taken
\* for a file header.
ChangedLines(file) ==
    LET Changed(h) == {i \in DOMAIN h.lines : h.lines[i].kind \in {"+", "-"} /\ ~h.lines[i].doubled}
    IN  Total([k \in DOMAIN file.hunks |-> Cardinality(Changed(file.hunks[k]))])

\* selectReviewableFiles(): the first reason that applies.
SkipReason(file, limits) ==
    CASE file.binary -> "binary"
      [] file.hunks = <<>> -> "no-hunks"
      [] file.generated /\ ~limits.includeGenerated -> "generated"
      [] file.bytes > limits.maxBytes -> "oversize-bytes"
      [] ChangedLines(file) > limits.maxLines -> "oversize-lines"
      [] OTHER -> "none"

\* filterIgnored(), then selectReviewableFiles().
Reviewable(files, rules, limits) ==
    Selected(files, {i \in DOMAIN files : /\ ~IsIgnored(files[i].path, rules)
                                          /\ SkipReason(files[i], limits) = "none"})

-----------------------------------------------------------------------------
(* Chunks: what one call of an agent sees.                                 *)

Size(hunks) == Total([k \in DOMAIN hunks |-> hunks[k].size])

\* A hunk joins the group before it when it is near and the group stays small.
Joins(group, h) ==
    /\ h.at - HunkEnd(Last(group)) <= MergeGap
    /\ Size(group) + h.size <= MaxChars

Groups(file) ==
    FoldLeft(LAMBDA gs, h : IF gs # <<>> /\ Joins(Last(gs), h)
                            THEN [gs EXCEPT ![Len(gs)] = Append(@, h)]
                            ELSE Append(gs, <<h>>),
             <<>>, file.hunks)

\* chunkFile()
ChunkFile(file) ==
    LET groups == Groups(file)
    IN  [g \in DOMAIN groups |->
            [path |-> file.path, hunks |-> groups[g],
             first |-> Head(groups[g]).at, last |-> HunkEnd(Last(groups[g]))]]

Chunks(files) == FoldLeft(LAMBDA cs, f : cs \o ChunkFile(f), <<>>, files)

\* The lines of a chunk, hunk after hunk.
Body(chunk) == FoldLeft(LAMBDA ls, h : ls \o h.lines, <<>>, chunk.hunks)

\* scanSecrets(): added lines that a secret pattern matches, by the number the
\* scan gives them.  It counts on from the first line of the chunk over all its
\* hunks, header lines and lines that look like one left out: in a second hunk,
\* and after a line "+++", the number is too low.
SecretLines(chunk) ==
    LET body == Body(chunk)
        counted == {i \in DOMAIN body : NewSide(body[i]) /\ ~(body[i].kind = "+" /\ body[i].doubled)}
    IN  {chunk.first - 1 + Cardinality({k \in counted : k <= i}) :
            i \in {k \in counted : body[k].kind = "+" /\ body[k].secret}}

-----------------------------------------------------------------------------
(* What the posting side reads from the diff.                              *)

\* commentableLines(): GitHub takes inline comments on these lines of a path.
CommentableLines(files, path) ==
    UNION {UNION {{LineNumber(h, i) : i \in {k \in DOMAIN h.lines : NewSide(h.lines[k])}} :
                     h \in ToSet(f.hunks)} :
             f \in {g \in ToSet(files) : g.path = path /\ ~g.binary /\ ~g.deleted}}

Marked(line, type) == {m \in line.marks : m.type = type}

\* The rule sets that markers put on the added line i of hunk h: its own, unless
\* it also carries a next-line or a file marker, and those of a next-line marker
\* on the added line before it.
LineScopes(h, i) ==
    LET line == h.lines[i]
        before == {k \in AddedIn(h) : k < i}
        own == IF Marked(line, "next") \cup Marked(line, "file") = {}
               THEN Marked(line, "same") ELSE {}
        above == IF before = {} THEN {} ELSE Marked(h.lines[Max(before)], "next")
    IN  {m.rules : m \in own \cup above}

\* buildSuppressionMap(), byFile: the rule sets on line n of a path.
ScopesAt(files, path, n) ==
    UNION {UNION {UNION {LineScopes(h, i) : i \in {k \in AddedIn(h) : LineNumber(h, k) = n}} :
                     h \in ToSet(f.hunks)} :
             f \in {g \in ToSet(files) : g.path = path /\ ~g.binary}}

\* buildSuppressionMap(), fileLevel: the rule sets on the whole path.
FileScopes(files, path) ==
    UNION {UNION {UNION {{m.rules : m \in Marked(h.lines[i], "file")} : i \in AddedIn(h)} :
                     h \in ToSet(f.hunks)} :
             f \in {g \in ToSet(files) : g.path = path /\ ~g.binary}}

\* mergeSuppression(), mergeFileLevel(): no rules at all means every rule.
MergedScope(scopes) == IF {} \in scopes THEN {} ELSE UNION scopes
=============================================================================
