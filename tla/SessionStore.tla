---------------------------- MODULE SessionStore ----------------------------
(***************************************************************************)
(* One session's rows in bullpen.db (crates/store/src/lib.rs): its         *)
(* conversation entries, its execution records, and the lane row.  Every   *)
(* operator that primes a variable is one SQLite statement or one          *)
(* IMMEDIATE transaction of the code: atomic, and durable once it returns. *)
(* A method that issues several statements is split where the code splits  *)
(* it, so that a crash or a failed write can fall between them.            *)
(*                                                                         *)
(* Message bodies are abstracted to what recovery and the provider         *)
(* contract tell apart: the kind of message and the tool_use ids it        *)
(* requests (assistant) or answers (tool results), in order.  The text of  *)
(* tool inputs and outputs, titles and token counts are left out.          *)
(***************************************************************************)
EXTENDS Naturals, Sequences, FiniteSets

CONSTANT Calls       \* the tool_use ids a provider may emit

VARIABLES
    entries,         \* entries table, in insertion order
    records,         \* records table, in insertion order
    leaf,            \* lanes.leaf_id of the "main" lane
    openMarker,      \* lanes.open_operation_id; 0 stands for NULL
    nextSeq          \* sessions.next_seq

storeVars == <<entries, records, leaf, openMarker, nextSeq>>

-----------------------------------------------------------------------------
(* Messages, entry ids and rows.                                           *)

\* "interrupted" is the results message recovery synthesizes, "closing" the
\* assistant note it ends a transcript with.
MessageKind == {"user", "assistant", "results", "interrupted", "closing"}

Message == [kind : MessageKind, calls : Seq(Calls)]

Role(m) == IF m.kind \in {"assistant", "closing"} THEN "assistant" ELSE "user"

\* Random UUIDs are named by what they are allocated for: a run has one user
\* entry, one assistant entry and one provisioned results entry per attempt,
\* and one closing entry.
EntryKind == {"user", "assistant", "results", "closing"}

EntryId == [kind : EntryKind, run : Nat, step : Nat]

NoEntry == [kind |-> "none", run |-> 0, step |-> 0]

Entry == [id : EntryId, parent : EntryId \union {NoEntry}, seq : Nat, msg : Message]

RecordKind == {"operation_started", "step_attempt", "tool_started", "operation_finished"}

Outcome == {"completed", "truncated", "failed", "aborted"}

\* `step` and `call` are 0 and NoCall, and `outcome` "none", on the kinds that
\* carry none.  A tool_started record's results_entry_id is
\* ResultsId(run, step).
NoCall == "no call"

Record == [kind : RecordKind, run : Nat, step : Nat, call : Calls \union {NoCall},
           outcome : Outcome \union {"none"}, seq : Nat]

UserId(r)         == [kind |-> "user", run |-> r, step |-> 0]
AssistantId(r, n) == [kind |-> "assistant", run |-> r, step |-> n]
ResultsId(r, n)   == [kind |-> "results", run |-> r, step |-> n]
ClosingId(r)      == [kind |-> "closing", run |-> r, step |-> 0]

StartedRow(r)        == [kind |-> "operation_started", run |-> r, step |-> 0,
                         call |-> NoCall, outcome |-> "none"]
StepRow(r, n)        == [kind |-> "step_attempt", run |-> r, step |-> n,
                         call |-> NoCall, outcome |-> "none"]
ToolRow(r, n, c)     == [kind |-> "tool_started", run |-> r, step |-> n,
                         call |-> c, outcome |-> "none"]
FinishedRow(r, o)    == [kind |-> "operation_finished", run |-> r, step |-> 0,
                         call |-> NoCall, outcome |-> o]

\* Slip: a finish row keyed by its outcome as well.
SameRecordIdAndOutcome(a, b) ==
    /\ a.kind = b.kind
    /\ a.run = b.run
    /\ a.kind = "step_attempt" => a.step = b.step
    /\ a.kind = "tool_started" => a.call = b.call
    /\ a.outcome = b.outcome

\* Whether two rows get the same primary key: the run id, "{run}:step:{n}",
\* "{run}:tool:{tool_use_id}" (the attempt is NOT part of it) or
\* "{run}:finished".
SameRecordId(a, b) ==
    /\ a.kind = b.kind
    /\ a.run = b.run
    /\ a.kind = "step_attempt" => a.step = b.step
    /\ a.kind = "tool_started" => a.call = b.call

-----------------------------------------------------------------------------
(* Reads.                                                                  *)

EntryExists(id) == \E i \in DOMAIN entries : entries[i].id = id

\* Insertion index of an entry; 0 for no entry.
IndexOf(id) == IF id = NoEntry THEN 0 ELSE CHOOSE i \in DOMAIN entries : entries[i].id = id

\* Store::path and path_messages: the messages on the parent chain that ends
\* at the lane leaf, root first.
PathMessages ==
    LET MessagesTo[i \in 0 .. Len(entries)] ==
            IF i = 0 THEN <<>>
            ELSE Append(MessagesTo[IndexOf(entries[i].parent)], entries[i].msg)
    IN  MessagesTo[IndexOf(leaf)]

RecordsOf(kind) == {i \in DOMAIN records : records[i].kind = kind}

StartedRuns  == {records[i].run : i \in RecordsOf("operation_started")}
FinishedRuns == {records[i].run : i \in RecordsOf("operation_finished")}

\* Store::open_run: the reduction of the record log.  One element is a
\* suspended run, two or more are reported as corruption.
OpenRuns == StartedRuns \ FinishedRuns

-----------------------------------------------------------------------------
(* Writes.                                                                 *)

\* Slip: the parent is not read from the lane.
AppendEntryAtRoot(id, msg) ==
    \/ /\ ~EntryExists(id)
       /\ entries' = Append(entries, [id |-> id, parent |-> NoEntry, seq |-> nextSeq, msg |-> msg])
       /\ leaf' = id
       /\ nextSeq' = nextSeq + 1
    \/ /\ EntryExists(id)
       /\ UNCHANGED <<entries, leaf, nextSeq>>

\* Append at the lane leaf and advance the leaf; an id that exists already is
\* left alone.  The sequence number comes from the same counter as records.
AppendEntry(id, msg) ==
    \/ /\ ~EntryExists(id)
       /\ entries' = Append(entries, [id |-> id, parent |-> leaf, seq |-> nextSeq, msg |-> msg])
       /\ leaf' = id
       /\ nextSeq' = nextSeq + 1
    \/ /\ EntryExists(id)
       /\ UNCHANGED <<entries, leaf, nextSeq>>

RecordExists(row) == \E i \in DOMAIN records : SameRecordId(records[i], row)

Numbered(row, n) ==
    [kind |-> row.kind, run |-> row.run, step |-> row.step,
     call |-> row.call, outcome |-> row.outcome, seq |-> n]

\* Slip: the record takes a number without advancing the counter.
AppendRecordUncounted(row) ==
    \/ /\ ~RecordExists(row)
       /\ records' = Append(records, Numbered(row, nextSeq))
       /\ UNCHANGED nextSeq
    \/ /\ RecordExists(row)
       /\ UNCHANGED <<records, nextSeq>>

AppendRecord(row) ==
    \/ /\ ~RecordExists(row)
       /\ records' = Append(records, Numbered(row, nextSeq))
       /\ nextSeq' = nextSeq + 1
    \/ /\ RecordExists(row)
       /\ UNCHANGED <<records, nextSeq>>

\* start_operation and finish_operation follow their record with one UPDATE of
\* the lane row; the second clears the marker only if it still names the run.
SetMarker(r) == openMarker' = r

ClearMarker(r) == openMarker' = IF openMarker = r THEN 0 ELSE openMarker

StoreInit ==
    /\ entries = <<>>
    /\ records = <<>>
    /\ leaf = NoEntry
    /\ openMarker = 0
    /\ nextSeq = 1

StoreTypeOK ==
    /\ entries \in Seq(Entry)
    /\ records \in Seq(Record)
    /\ leaf \in EntryId \union {NoEntry}
    /\ openMarker \in Nat
    /\ nextSeq \in Nat
=============================================================================
