------------------------------ MODULE ReadViews ------------------------------
(***************************************************************************)
(* What the tools that only look hand to the model: files, directories,    *)
(* URLs, archives, databases, searches and the output of commands          *)
(* (tools/src/fs.rs, archive.rs, sqlite.rs, search.rs, ast.rs, bash.rs,    *)
(* github.rs).  Whatever is shown is a sequence of items of one unit each. *)
(* A tool takes in some of what is there, and shows some of what it took   *)
(* in; an outcome tells whether either leaves something out, and whether   *)
(* the text that is shown says so.                                         *)
(***************************************************************************)
EXTENDS Naturals, Sequences, FiniteSets, SequencesExt

CONSTANTS
    MAX_OUTPUT_BYTES,  \* what a result may hold (MAX_READ_BYTES for files)
    MAX_RESULTS,       \* grep, glob and, as MAX_MATCHES, ast_grep
    MAX_ENTRIES,       \* archive listings
    MAX_ROWS,          \* queries
    MAX_ENTRY_BYTES,   \* an archive member (MAX_FETCH_BYTES for a URL)
    MAX_SCAN_BYTES,    \* what a scan of a tar may read
    MaxItems,          \* bound: the size of what is looked at
    MaxMembers,        \* bound: the members of a tar
    MaxPayload         \* bound: the size of one of them

\* An empty listing is taken for an empty archive: one entry at least is kept.
ASSUME ReadViewsAssumption ==
    /\ MAX_OUTPUT_BYTES \in Nat /\ MAX_RESULTS \in Nat /\ MAX_ENTRIES \in Nat \ {0}
    /\ MAX_ROWS \in Nat /\ MAX_ENTRY_BYTES \in Nat /\ MAX_SCAN_BYTES \in Nat
    /\ MaxItems \in Nat /\ MaxMembers \in Nat /\ MaxPayload \in Nat

Items(n) == [k \in 1 .. n |-> k]
Sizes == 0 .. MaxItems

Least(m, n) == IF m < n THEN m ELSE n
UpTo(items, n) == SubSeq(items, 1, Least(n, Len(items)))

\* complete: all that the tool took in is shown; whole: it took in all there is.
Text(shown, said, taken) ==
    [kind |-> "text", said |-> said, complete |-> shown = taken, whole |-> TRUE]

Failed(kind, true) == [kind |-> kind, said |-> TRUE, complete |-> true, whole |-> TRUE]

\* An outcome of a tool that took in `taken` of the items there are.
Among(outcome, taken, there) == [outcome EXCEPT !.whole = taken = there]

\* So may a view that selects what it takes in; it does not say what else is there.
Selected(outcome, taken, there) == [Among(outcome, taken, there) EXCEPT !.kind = "selection"]

-----------------------------------------------------------------------------
(* truncate_middle: the head and the tail around a marker.                 *)

Half == MAX_OUTPUT_BYTES \div 2

truncate_middle(items) ==
    IF Len(items) <= MAX_OUTPUT_BYTES THEN items
    ELSE UpTo(items, Half) \o SubSeq(items, Len(items) - Half + 1, Len(items))

Rendered(items, said, taken) ==
    Text(truncate_middle(items), said \/ Len(items) > MAX_OUTPUT_BYTES, taken)

\* The lines asked for.  That there are others is said only if none is shown.
PlainFile(n, offset, limit) ==
    LET window == SubSeq(Items(n), offset, Least(offset + limit - 1, n))
    IN  Selected(Rendered(window, window = <<>>, window), Len(window), n)

list_dir(n) == Rendered(Items(n), FALSE, Items(n))

\* A member, a gzip stream or the body of a URL, read up to a bound.
BoundedText(n, bound) == Rendered(UpTo(Items(n), bound), n > bound, Items(n))

\* The decoder ends with the first of the members a gzip file may consist of.
read_gz(n, others) == Selected(BoundedText(n, MAX_ENTRY_BYTES), n, n + others)

\* A URL, and a `gh` command, only with the network.
read_url(n, network, success) ==
    IF ~network THEN Failed("error", TRUE)
    ELSE IF ~success THEN Failed("error", TRUE)
    ELSE BoundedText(n, MAX_ENTRY_BYTES)

-----------------------------------------------------------------------------
(* Archives.  A tar is read as a stream: per member one unit of header and *)
(* its payload, then one unit of end marker.                               *)

\* Slip: a listing that was cut at MAX_ENTRIES reports the entries it holds.
ListingOfHeld(items, total, capped) == Rendered(items, capped, Items(total))

render(items, total, capped) ==
    IF items = <<>> /\ ~capped THEN Text(<<>>, FALSE, Items(total))
    ELSE Rendered(items, capped \/ total > Len(items), Items(total))

ZipListing(n) == render(UpTo(Items(n), MAX_ENTRIES), n, FALSE)

\* The units before the header of member k, as <<member, offset>>.
Before(payloads, k) ==
    Cardinality({unit \in (1 .. k - 1) \X (0 .. MaxPayload) : unit[2] <= payloads[unit[1]]})

\* LimitedReader: with nothing left of its budget it fails.
InBudget(units) == units <= MAX_SCAN_BYTES

HeaderRead(payloads, k) == InBudget(Before(payloads, k) + 1)
ScanCapped(payloads) == ~HeaderRead(payloads, Len(payloads) + 1)

TarListing(payloads) ==
    LET scanned == Cardinality({k \in DOMAIN payloads : HeaderRead(payloads, k)})
        listed  == render(UpTo(Items(scanned), MAX_ENTRIES), scanned, ScanCapped(payloads))
    IN  Among(listed, scanned, Len(payloads))

\* Slip: a scan that runs out of its budget is the end of the archive.
TarEntryGivesUp(payloads, k) ==
    IF k \notin DOMAIN payloads \/ ~HeaderRead(payloads, k)
    THEN Failed("missing", k \notin DOMAIN payloads)
    ELSE BoundedText(payloads[k], MAX_ENTRY_BYTES)

\* The member with the k-th name, which may be absent.
TarEntry(payloads, k) ==
    IF k \in DOMAIN payloads /\ HeaderRead(payloads, k)
    THEN IF InBudget(Before(payloads, k) + 1 + Least(payloads[k], MAX_ENTRY_BYTES + 1))
         THEN BoundedText(payloads[k], MAX_ENTRY_BYTES)
         ELSE Failed("error", TRUE)
    ELSE IF ScanCapped(payloads) THEN Failed("error", TRUE)
    ELSE Failed("missing", k \notin DOMAIN payloads)

ZipEntry(n, size) ==
    IF n = 0 THEN Failed("missing", TRUE) ELSE BoundedText(size, MAX_ENTRY_BYTES)

-----------------------------------------------------------------------------
(* Databases, searches and commands.                                       *)

\* The tables that are listed; views, and names that begin like those of the
\* database's own tables, are not.
overview(tables, others) ==
    Selected(Rendered(Items(tables), FALSE, Items(tables)), tables, tables + others)

\* Rows beyond the limit are counted and not rendered.
run_query(rows) == Rendered(UpTo(Items(rows), MAX_ROWS), rows > MAX_ROWS, Items(rows))

\* grep and glob stop at the limit and say so, even if it was the last hit.
Hits(hits, others) ==
    Selected(Text(UpTo(Items(hits), MAX_RESULTS), hits >= MAX_RESULTS, Items(hits)), hits, hits + others)

\* A walk leaves out hidden and ignored files and what it cannot enter, and grep
\* also every file that it cannot read as text, without a word.
Grep(hits, unread) == Hits(hits, unread)
Glob(hits, unseen) == Hits(hits, unseen)

\* The matches, one line each; lines that do not parse are dropped.
AstGrep(matches, garbled, success) ==
    IF ~success THEN Failed("error", TRUE)
    ELSE Selected(Rendered(UpTo(Items(matches), MAX_RESULTS), matches > MAX_RESULTS, Items(matches)),
                  matches, matches + garbled)

\* What a command printed, on both its streams; a failed one comes back as an
\* error, clipped the same way, and a timeout as an error without output.
Output(n, success) ==
    IF success THEN Rendered(Items(n), FALSE, Items(n)) ELSE Failed("error", TRUE)

\* One of the two streams of a command that succeeded; the other is dropped.
OneStream(n, dropped) == Selected(Rendered(Items(n), FALSE, Items(n)), n, n + dropped)

\* What gh printed, or, if that is blank, what it narrated on stderr.
GitHub(out, err, network, success) ==
    IF ~network \/ ~success THEN Failed("error", TRUE)
    ELSE IF out = 0 THEN OneStream(err, 0) ELSE OneStream(out, err)

\* ast_edit without `apply` shows the diff, or that there is none.
AstEditPreview(out, err, success) ==
    IF success THEN OneStream(out, err) ELSE Failed("error", TRUE)

\* A question reaches a person or nobody; the answer may be empty.
AskAnswer(attached, empty) ==
    IF attached /\ ~empty THEN Text(<<>>, FALSE, <<>>) ELSE Failed("error", TRUE)

Payloads == UNION {[1 .. n -> 0 .. MaxPayload] : n \in 0 .. MaxMembers}

\* What is left out without a word: nothing or something.
Others == 0 .. 1

FileOutcomes ==
    {PlainFile(n, k, l) : n \in Sizes, k \in 1 .. MaxItems, l \in Sizes}
    \union {list_dir(n) : n \in Sizes}
    \union {read_url(n, net, ok) : n \in Sizes, net \in BOOLEAN, ok \in BOOLEAN}

ArchiveOutcomes ==
    {read_gz(n, others) : n \in Sizes, others \in Others}
    \union {ZipListing(n) : n \in Sizes}
    \union {ZipEntry(n, k) : n \in 0 .. 1, k \in Sizes}
    \union {TarListing(p) : p \in Payloads}
    \union {TarEntry(p, k) : p \in Payloads, k \in 1 .. MaxMembers + 1}

SearchOutcomes ==
    {overview(n, others) : n \in Sizes, others \in Others}
    \union {run_query(n) : n \in Sizes}
    \union {Grep(n, unread) : n \in Sizes, unread \in Others}
    \union {Glob(n, unseen) : n \in Sizes, unseen \in Others}
    \union {AstGrep(n, garbled, ok) : n \in Sizes, garbled \in Others, ok \in BOOLEAN}

CommandOutcomes ==
    {Output(n, ok) : n \in Sizes, ok \in BOOLEAN}
    \union {GitHub(n, err, net, ok) : n \in Sizes, err \in Sizes, net \in BOOLEAN, ok \in BOOLEAN}
    \union {AstEditPreview(n, err, ok) : n \in Sizes, err \in Others, ok \in BOOLEAN}
    \union {AskAnswer(here, no) : here \in BOOLEAN, no \in BOOLEAN}

Outcomes == FileOutcomes \union ArchiveOutcomes \union SearchOutcomes \union CommandOutcomes
=============================================================================
