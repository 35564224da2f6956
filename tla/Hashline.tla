------------------------------- MODULE Hashline -------------------------------
(***************************************************************************)
(* Text files as read_file shows them and edit_file changes them           *)
(* (tools/src/fs.rs).  A text is its lines() and whether it ends with a    *)
(* newline; a line is its word and an id, which the program does not see:  *)
(* it tells two lines with the same content apart.  Carriage returns,      *)
(* which lines() drops, and strings shorter than a line are left out.      *)
(***************************************************************************)
EXTENDS Naturals, Sequences, FiniteSets, SequencesExt

CONSTANTS Words, Blank, LineHash, Nothing

ASSUME HashlineAssumption == /\ Blank \in Words
                             /\ DOMAIN LineHash = Words
                             /\ Nothing \notin Words

Ids(lines) == {lines[k].id : k \in DOMAIN lines}
Word(line) == line.word

\* What is read back of lines that were joined and written: a blank last line
\* without a newline after it is only the newline of the line before.
Reread(lines, ends) ==
    IF ends \/ lines = <<>> \/ Last(lines).word # Blank
    THEN [lines |-> lines, ends |-> ends]
    ELSE [lines |-> Front(lines), ends |-> Len(lines) > 1]

EmptyText == [lines |-> <<>>, ends |-> FALSE]

\* The lines that carry a hash.
Holders(lines, hash) == {k \in DOMAIN lines : LineHash[lines[k].word] = hash}

Stale == 0
Top == 0

\* Slip: the first line that carries the hash is taken for the moved one.
ResolveFirst(lines, anchor) ==
    LET holders == Holders(lines, anchor.hash) IN
    IF anchor.line \in holders THEN anchor.line
    ELSE IF holders # {} THEN CHOOSE k \in holders : \A j \in holders : k <= j ELSE Stale

\* The line an anchor names: the one at its number if the hash is there, else
\* the only one that carries the hash.
resolve_anchor(lines, anchor) ==
    LET holders == Holders(lines, anchor.hash) IN
    IF anchor.line \in holders THEN anchor.line
    ELSE IF Cardinality(holders) = 1 THEN CHOOSE k \in holders : TRUE ELSE Stale

-----------------------------------------------------------------------------
(* Patches: a hunk is an op, an anchor, perhaps a second one (`to`), and   *)
(* perhaps content.                                                        *)

IsInsert(hunk) == hunk.op = "insert_after"

Resolved(lines, anchor) == anchor.line # Top /\ resolve_anchor(lines, anchor) # Stale

Accepted(lines, hunk) ==
    \/ /\ IsInsert(hunk)
       /\ hunk.to = Nothing /\ hunk.content # Nothing
       /\ hunk.anchor.line = Top \/ Resolved(lines, hunk.anchor)
    \/ /\ hunk.op \in {"replace", "delete"}
       /\ hunk.op = "replace" <=> hunk.content # Nothing
       /\ Resolved(lines, hunk.anchor)
       /\ hunk.to # Nothing =>
             /\ Resolved(lines, hunk.to)
             /\ resolve_anchor(lines, hunk.to) >= resolve_anchor(lines, hunk.anchor)

\* An accepted hunk as the lines start + 1 .. end it replaces.
Splice(lines, hunk) ==
    LET at == IF hunk.anchor.line = Top THEN 0 ELSE resolve_anchor(lines, hunk.anchor) IN
    IF IsInsert(hunk)
    THEN [start |-> at, end |-> at, content |-> hunk.content]
    ELSE [start   |-> at - 1,
          end     |-> IF hunk.to = Nothing THEN at ELSE resolve_anchor(lines, hunk.to),
          content |-> IF hunk.op = "delete" THEN <<>> ELSE hunk.content]

\* Slip: the hunks are taken in the order they are listed.
AsListed(splices) == splices

NotAfter(s, t) == s.start < t.start \/ (s.start = t.start /\ s.end <= t.end)

Sorted(splices) ==
    LET order == CHOOSE p \in [DOMAIN splices -> DOMAIN splices] :
                     \A j, k \in DOMAIN splices :
                         j < k => p[j] # p[k] /\ NotAfter(splices[p[j]], splices[p[k]])
    IN  [k \in DOMAIN splices |-> splices[order[k]]]

\* Slip: only hunks that start together are taken to overlap.
OverlapAtStart(sorted) ==
    \E k \in 1 .. Len(sorted) - 1 : sorted[k + 1].start = sorted[k].start

Overlap(sorted) ==
    \E k \in 1 .. Len(sorted) - 1 :
        \/ sorted[k + 1].start < sorted[k].end
        \/ sorted[k + 1].start = sorted[k].start

Refused == [ok |-> FALSE]

parse_hunks(lines, hunks) ==
    LET sorted == Sorted([k \in DOMAIN hunks |-> Splice(lines, hunks[k])]) IN
    IF (\A k \in DOMAIN hunks : Accepted(lines, hunks[k])) /\ ~Overlap(sorted)
    THEN [ok |-> TRUE, splices |-> sorted]
    ELSE Refused

Spliced(splice, lines) ==
    SubSeq(lines, 1, splice.start) \o splice.content \o SubSeq(lines, splice.end + 1, Len(lines))

\* The last splice first, so that the others keep their line numbers.
Applied(splices, lines) == FoldRight(Spliced, splices, lines)

IsBlank(lines) == lines = <<>> \/ (Len(lines) = 1 /\ lines[1].word = Blank)

\* Slip: the final newline is kept even if nothing is left.
PatchedWithNewline(text, hunks) ==
    LET parsed == parse_hunks(text.lines, hunks) IN
    IF parsed.ok
    THEN [ok |-> TRUE, text |-> Reread(Applied(parsed.splices, text.lines), text.ends)]
    ELSE Refused

\* The result of a patch; the final newline is kept unless nothing is left.
Patched(text, hunks) ==
    LET parsed == parse_hunks(text.lines, hunks)
        out    == Applied(parsed.splices, text.lines)
    IN  IF parsed.ok
        THEN [ok |-> TRUE, text |-> Reread(out, text.ends /\ ~IsBlank(out))]
        ELSE Refused

-----------------------------------------------------------------------------
(* Exact strings: whole lines that occur once.                             *)

OccursAt(lines, old, k) ==
    /\ k + Len(old) - 1 <= Len(lines)
    /\ \A j \in DOMAIN old : lines[k + j - 1].word = old[j]

\* str::matches: occurrences that do not overlap, from the left.
Matches(lines, old) ==
    LET from[k \in 1 .. Len(lines) + Len(old)] ==
            IF k > Len(lines) THEN 0
            ELSE IF OccursAt(lines, old, k) THEN 1 + from[k + Len(old)]
            ELSE from[k + 1]
    IN  from[1]

Replaced(text, old, new) ==
    LET at == CHOOSE k \in DOMAIN text.lines :
                  /\ OccursAt(text.lines, old, k)
                  /\ \A j \in 1 .. k - 1 : ~OccursAt(text.lines, old, j)
    IN  IF Matches(text.lines, old) # 1 THEN Refused
        ELSE [ok |-> TRUE,
              text |-> Reread(Spliced([start |-> at - 1, end |-> at + Len(old) - 1, content |-> new],
                                      text.lines), text.ends)]
=============================================================================
