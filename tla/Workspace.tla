------------------------------ MODULE Workspace ------------------------------
(***************************************************************************)
(* Agents that read and change one file of a shared checkout: read_file,   *)
(* write_file and edit_file (tools/src/fs.rs), commands (bash.rs, github.rs *)
(* and ast_edit in ast.rs), and the tools that only look (ReadViews).  An  *)
(* agent is a process; its mutating calls are serial.  A write truncates   *)
(* the file and then fills it, and a process may die between the two.      *)
(* Which paths a sandbox lets a tool write is in Placement.                *)
(***************************************************************************)
EXTENDS Naturals, Sequences, FiniteSets, SequencesExt, Hashline, ReadViews

CONSTANTS
    Agents,
    Contents,    \* sequences of words a call may write
    InitialTexts,
    MaxLines,    \* bound on what an agent patches by line
    MaxCalls,    \* bound on the mutating calls
    MaxWords,    \* bound on the lines a call writes
    RichCalls,   \* bound: two hunks, or `to`, in the first calls only
    MaxOutside   \* bound on the changes by others

\* A file that ends with a newline has a line; an empty string is a blank one.
ASSUME WorkspaceAssumption ==
    /\ \A first \in InitialTexts : /\ first.words \in Seq(Words) /\ first.ends \in BOOLEAN
                                   /\ first.ends => first.words # <<>>
    /\ \A words \in Contents : words \in Seq(Words) /\ Len(words) \in 1 .. MaxWords
    /\ MaxCalls \in Nat /\ MaxOutside \in Nat /\ MaxWords \in Nat

VARIABLES
    text,     \* the file
    view,     \* the lines each agent was last shown
    call,     \* the call each agent is in
    answer,   \* the outcome of the last look
    calls,    \* mutating calls so far
    outside,  \* changes by others so far
    next,     \* next line id
    owed,     \* history: ids of lines written and never taken out
    raced,    \* history: a write replaced a text it had not read
    torn      \* history: a process died between truncation and fill

vars == <<text, view, call, answer, calls, outside, next, owed, raced, torn>>

Idle == [pc |-> "idle"]
NoAnswer == [kind |-> "none", said |-> TRUE, complete |-> TRUE, whole |-> TRUE]

Fresh(words) == [k \in DOMAIN words |-> [id |-> next + k - 1, word |-> words[k]]]

\* Blank lines are not counted: an empty last line is lost in a rewrite.
Solid(lines) == {line.id : line \in {l \in Range(lines) : l.word # Blank}}

Init ==
    /\ \E first \in InitialTexts :
           /\ text = [lines |-> [k \in DOMAIN first.words |-> [id |-> k, word |-> first.words[k]]],
                      ends  |-> first.ends]
           /\ owed = Solid(text.lines)
           /\ next = Len(first.words) + 1
    /\ view = [a \in Agents |-> <<>>]
    /\ call = [a \in Agents |-> Idle]
    /\ answer = NoAnswer
    /\ calls = 0
    /\ outside = 0
    /\ raced = FALSE
    /\ torn = FALSE

-----------------------------------------------------------------------------
(* What a call asks for.                                                   *)

\* The token of a line as read_file showed it; the id is history.
Anchor(shown, k) == [line |-> k, hash |-> LineHash[shown[k].word], id |-> shown[k].id]

TopOfFile == [line |-> Top, hash |-> Nothing, id |-> 0]

Hunks(shown) ==
    LET anchors  == {Anchor(shown, k) : k \in DOMAIN shown}
        contents == {Fresh(words) : words \in Contents}
    IN  [op : {"insert_after"}, anchor : anchors \union {TopOfFile}, to : {Nothing}, content : contents]
        \union [op : {"replace"}, anchor : anchors, to : anchors \union {Nothing}, content : contents]
        \union [op : {"delete"}, anchor : anchors, to : anchors \union {Nothing}, content : {Nothing}]

\* The lines of the second hunk have ids of their own.
Renumbered(hunk) ==
    IF hunk.content = Nothing THEN hunk
    ELSE [hunk EXCEPT !.content = [k \in DOMAIN hunk.content |-> [hunk.content[k] EXCEPT !.id = @ + MaxWords]]]

\* Bound: of two hunks, the first takes a range only to delete it, and the
\* second inserts a line or deletes one.
Patches(shown) ==
    LET hunks  == Hunks(shown)
        plain  == {h \in hunks : h.to = Nothing}
        first  == {h \in hunks : h.to = Nothing \/ h.op = "delete"}
        second == {h \in plain : h.op # "replace"}
    IN  IF calls < RichCalls
        THEN {<<h>> : h \in hunks} \union {<<g, Renumbered(h)>> : g \in first, h \in second}
        ELSE {<<h>> : h \in plain}

IdsNext == next + 2 * MaxWords

-----------------------------------------------------------------------------
(* Tool calls.                                                             *)

At(a, pc) == call[a].pc = pc

\* Bound: only while a call that could use the anchors is left.
ReadFile(a) ==
    /\ At(a, "idle") /\ calls < MaxCalls
    /\ view' = [view EXCEPT ![a] = text.lines]
    /\ answer' = NoAnswer
    /\ UNCHANGED <<text, call, calls, outside, next, owed, raced, torn>>

\* Any other look.  Bound: before the first change, which it does not depend on.
Look(a) ==
    /\ At(a, "idle")
    /\ calls = 0 /\ outside = 0
    /\ answer' \in Outcomes
    /\ UNCHANGED <<text, view, call, calls, outside, next, owed, raced, torn>>

Begin(a, started) ==
    /\ At(a, "idle") /\ calls < MaxCalls
    /\ call' = [call EXCEPT ![a] = started]
    /\ calls' = calls + 1
    /\ answer' = NoAnswer
    /\ UNCHANGED <<view, outside>>

\* edit_file reads the text; what it does with it depends on nothing else.
LoadPatch(a) ==
    /\ Len(view[a]) <= MaxLines
    /\ \E hunks \in Patches(view[a]) :
           Begin(a, [pc |-> "loaded", mode |-> "patch", text |-> text, hunks |-> hunks])
    /\ next' = IdsNext
    /\ UNCHANGED <<text, owed, raced, torn>>

LoadString(a) ==
    /\ \E old \in Contents, new \in Contents :
           Begin(a, [pc |-> "loaded", mode |-> "string", text |-> text, old |-> old, new |-> Fresh(new)])
    /\ next' = IdsNext
    /\ UNCHANGED <<text, owed, raced, torn>>

\* The lines an accepted edit takes out.
Spans(c) ==
    IF c.mode = "patch"
    THEN UNION {Splice(c.text.lines, c.hunks[k]).start + 1 .. Splice(c.text.lines, c.hunks[k]).end
                    : k \in DOMAIN c.hunks}
    ELSE {k \in DOMAIN c.text.lines :
              \E j \in DOMAIN c.old : /\ k - j + 1 > 0
                                      /\ OccursAt(c.text.lines, c.old, k - j + 1)}

Written(c) ==
    IF c.mode = "patch" THEN UNION {Solid(c.hunks[k].content) : k \in {j \in DOMAIN c.hunks : c.hunks[j].content # Nothing}}
    ELSE Solid(c.new)

Edited(c) == IF c.mode = "patch" THEN Patched(c.text, c.hunks) ELSE Replaced(c.text, c.old, c.new)

Refuse(a) ==
    /\ At(a, "loaded") /\ ~Edited(call[a]).ok
    /\ call' = [call EXCEPT ![a] = Idle]
    /\ UNCHANGED <<text, view, answer, calls, outside, next, owed, raced, torn>>

\* tokio::fs::write: the file is opened with truncation ...
Truncate(a) ==
    /\ At(a, "loaded")
    /\ LET edited == Edited(call[a]) IN
           /\ edited.ok
           /\ call' = [call EXCEPT ![a] = [pc |-> "cut", out |-> edited.text]]
    /\ text' = EmptyText
    /\ owed' = (owed \ {call[a].text.lines[k].id : k \in Spans(call[a])}) \union Written(call[a])
    /\ raced' = (raced \/ text # call[a].text)
    /\ UNCHANGED <<view, answer, calls, outside, next, torn>>

\* write_file replaces whatever is there.
Overwrite(a) ==
    /\ \E words \in Contents :
           /\ Begin(a, [pc |-> "cut", out |-> Reread(Fresh(words), FALSE)])
           /\ owed' = Solid(Fresh(words))
    /\ text' = EmptyText
    /\ next' = IdsNext
    /\ raced' = (raced \/ \E b \in Agents \ {a} : At(b, "cut"))
    /\ UNCHANGED torn

\* ... and then filled.
Fill(a) ==
    /\ At(a, "cut")
    /\ text' = call[a].out
    /\ call' = [call EXCEPT ![a] = Idle]
    /\ raced' = (raced \/ text # EmptyText)
    /\ UNCHANGED <<view, answer, calls, outside, next, owed, torn>>

\* A command changes the file in place: it adds a line at the top, takes one
\* out, or changes one.
InPlace ==
    /\ \E words \in Contents :
           \/ /\ text' = Reread(Fresh(words) \o text.lines, text.ends)
              /\ owed' = owed \union Solid(Fresh(words))
           \/ \E k \in DOMAIN text.lines :
                 /\ text' = Reread(ReplaceAt(text.lines, k, Fresh(words)[1]), text.ends)
                 /\ owed' = (owed \ {text.lines[k].id}) \union {id \in Solid(Fresh(words)) : id = next}
           \/ \E k \in DOMAIN text.lines :
                 /\ text' = Reread(RemoveAt(text.lines, k), text.ends /\ Len(text.lines) > 1)
                 /\ owed' = owed \ {text.lines[k].id}
    /\ next' = IdsNext

\* bash, gh and ast_edit with `apply`: a process of its own.
Spawn(a) ==
    /\ Begin(a, [pc |-> "command"])
    /\ UNCHANGED <<text, next, owed, raced, torn>>

\* The process ends, or the call times out and its child is killed.
Ended(a) ==
    /\ At(a, "command")
    /\ call' = [call EXCEPT ![a] = Idle]
    /\ UNCHANGED <<text, view, answer, calls, outside, next, owed, raced, torn>>

\* A change by a running command, by a process it left behind (kill_on_drop
\* kills the shell only), or by the user.
Outside ==
    /\ outside < MaxOutside
    /\ InPlace
    /\ outside' = outside + 1
    /\ answer' = NoAnswer
    /\ UNCHANGED <<view, call, calls, raced, torn>>

\* The process dies; the one that resumes the session has the same view.
Crash(a) ==
    /\ ~At(a, "idle")
    /\ torn' = (torn \/ At(a, "cut"))
    /\ call' = [call EXCEPT ![a] = Idle]
    /\ UNCHANGED <<text, view, answer, calls, outside, next, owed, raced>>

Next ==
    \/ \E a \in Agents : \/ ReadFile(a) \/ Look(a) \/ LoadPatch(a) \/ LoadString(a) \/ Refuse(a)
                         \/ Truncate(a) \/ Overwrite(a) \/ Fill(a) \/ Spawn(a) \/ Ended(a) \/ Crash(a)
    \/ Outside

Spec == Init /\ [][Next]_vars

-----------------------------------------------------------------------------
(* Properties.                                                             *)

TypeOK ==
    /\ text \in [lines : Seq([id : Nat, word : Words]), ends : BOOLEAN]
    /\ \A a \in Agents : /\ view[a] \in Seq([id : Nat, word : Words])
                         /\ call[a].pc \in {"idle", "loaded", "cut", "command"}
    /\ Cardinality(Ids(text.lines)) = Len(text.lines)
    /\ text.ends => text.lines # <<>>
    /\ calls \in 0 .. MaxCalls /\ outside \in 0 .. MaxOutside

Patching(a) == At(a, "loaded") /\ call[a].mode = "patch"

LineAnchors(hunks) ==
    {hunks[k].anchor : k \in DOMAIN hunks}
    \union {hunks[k].to : k \in {j \in DOMAIN hunks : hunks[j].to # Nothing}}

\* An anchor whose line is still in the file names that line, wherever it has
\* moved; or, if others carry the hash now, the one at its very number or none.
\* It never names a line because of its number alone, nor picks one of several
\* (fs.rs:4-9, :360-376).
AnchorsFollowTheirLine ==
    \A a \in Agents : Patching(a) =>
        LET lines == call[a].text.lines IN
        \A anchor \in LineAnchors(call[a].hunks), k \in DOMAIN lines :
            (anchor.line # Top /\ lines[k].id = anchor.id) =>
                LET named == resolve_anchor(lines, anchor)
                    alone == Holders(lines, anchor.hash) = {k}
                IN  IF alone THEN named = k
                    ELSE named \in {k, Stale} \/ (named = anchor.line /\ named \in Holders(lines, anchor.hash))

\* What the tool's description and the README promise of an anchor: an edit
\* lands on the line that was read, or is refused.
NeverMisapplied ==
    \A a \in Agents : Patching(a) =>
        LET lines == call[a].text.lines IN
        \A anchor \in LineAnchors(call[a].hunks), k \in DOMAIN lines :
            (anchor.line # Top /\ lines[k].id = anchor.id) =>
                resolve_anchor(lines, anchor) \in {k, Stale}

Disjoint(s, t) == s.start # t.start /\ (s.end <= t.start \/ t.end <= s.start)

\* The patch read at once: at every place between two lines what is inserted
\* there, and every line, or what replaces the lines it is the first of.
AtOnce(lines, splices) ==
    LET at(k)    == {s \in splices : s.start = k}
        kept(k)  == \A s \in splices : ~(s.start < k /\ k <= s.end)
        piece(k) == (IF at(k - 1) = {} THEN <<>> ELSE (CHOOSE s \in at(k - 1) : TRUE).content)
                        \o (IF k \in DOMAIN lines /\ kept(k) THEN <<lines[k]>> ELSE <<>>)
    IN  FlattenSeq([k \in 1 .. Len(lines) + 1 |-> piece(k)])

\* A patch is accepted exactly when its hunks are, taken alone, and no two
\* touch; its result is all of them applied to the text that was read, in
\* whatever order they are listed, with every other line left where it was
\* (fs.rs:494-503, :590-605).
PatchIsItsSplices ==
    \A a \in Agents : Patching(a) =>
        LET lines   == call[a].text.lines
            hunks   == call[a].hunks
            splice  == [k \in DOMAIN hunks |-> Splice(lines, hunks[k])]
            result  == Patched(call[a].text, hunks)
        IN  /\ result.ok <=> /\ \A k \in DOMAIN hunks : Accepted(lines, hunks[k])
                             /\ \A j, k \in DOMAIN hunks : j < k => Disjoint(splice[j], splice[k])
            /\ result.ok => LET out == AtOnce(lines, Range(splice)) IN
                            result.text = Reread(out, call[a].text.ends /\ ~IsBlank(out))

\* No line disappears that nobody took out, as long as no write replaces a text
\* it has not read and no process dies inside a write: neither a patch nor an
\* exact-string edit has a casualty (fs.rs:565-605).
LinesLeaveOnPurpose ==
    ~raced /\ ~torn =>
        owed \subseteq Ids(text.lines) \union UNION {Ids(call[a].out.lines) : a \in {b \in Agents : At(b, "cut")}}

\* No cap is silent: whatever a tool took in is shown, or the text says that it
\* is cut, be it by a cap on hits, rows or entries, by a scan budget, or by the
\* truncation that may follow them; and an archive is said to have no such entry
\* only when it has none (archive.rs:5-10, :242-310, lib.rs:147).  It is also all
\* there is, except for the views that select what they take in without a word:
\* a window of a file (fs.rs:190-199), a search, which passes over what it cannot
\* read (search.rs:60-66, ast.rs:170-172), one of two streams (github.rs:162-167),
\* the first member of a gzip file, the tables of a database.
NoSilentCap ==
    /\ answer.said \/ (answer.complete /\ (answer.whole \/ answer.kind = "selection"))
    /\ answer.kind = "missing" => answer.complete
=============================================================================
