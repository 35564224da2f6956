------------------------ MODULE DurableRunProperties ------------------------
(***************************************************************************)
(* What DurableRun is expected to guarantee.  Properties that hold come    *)
(* first; the one at the end is what a comment of the repository says and  *)
(* the code does not do.                                                   *)
(***************************************************************************)
EXTENDS DurableRun

\* Types of the store and of what the processes keep.  mem is typed by
\* ModelSeesDurableTranscript, which says what it holds.
TypeOK ==
    /\ StoreTypeOK
    /\ lock \in Procs \union {NoProc}
    /\ pc \in [Procs -> Pc]
    /\ task \in [Procs -> Task]


-----------------------------------------------------------------------------
(* Invariants.                                                             *)

\* The record log never holds two started operations without a finish, so the
\* reducer's corruption branch (open_run, n >= 2) is unreachable: the check
\* and the insert of start_operation are two steps, and what keeps a second
\* process from slipping in between is the session lock.
AtMostOneOpenRun == \A r, s \in OpenRuns : r = s

\* Whatever the last process left behind, and however often recovery itself
\* was cut short, a session that is handed to the agent has no open run.
ReadySessionIsRecovered == \A p \in Procs : At(p, "ready") => OpenRuns = {}

\* Entries and records draw from one per-session counter: no two rows of
\* either table share a number, each table is in number order, and the counter
\* is ahead of both (the tables' UNIQUE constraints never fire).
SharedSequence ==
    /\ \A i, j \in DOMAIN entries : i < j => entries[i].seq < entries[j].seq
    /\ \A i, j \in DOMAIN records : i < j => records[i].seq < records[j].seq
    /\ \A i \in DOMAIN entries, j \in DOMAIN records : entries[i].seq # records[j].seq
    /\ \A i \in DOMAIN entries : entries[i].seq < nextSeq
    /\ \A i \in DOMAIN records : records[i].seq < nextSeq

\* A results entry, real or synthesized by recovery, hangs directly under the
\* assistant entry of its own attempt and answers that message's calls in
\* request order: all of them if the tools ran, a leading part if recovery
\* wrote it.  No crash point puts anything between a call and its result.
ResultsFollowTheirCalls ==
    \A i \in DOMAIN entries : entries[i].id.kind = "results" =>
        LET mine == entries[i] IN
        \E j \in 1 .. i - 1 :
            LET asked == entries[j].msg.calls IN
            /\ entries[j].id = mine.parent
            /\ mine.parent = AssistantId(mine.id.run, mine.id.step)
            /\ mine.msg.kind = "results" => mine.msg.calls = asked
            /\ mine.msg.kind = "interrupted" =>
                  /\ Len(mine.msg.calls) \in 1 .. Len(asked)
                  /\ mine.msg.calls = SubSeq(asked, 1, Len(mine.msg.calls))

\* A provider is never shown anything but the durable transcript: at every
\* provider call the in-memory messages are the leaf path of the store, so a
\* restarted process rebuilds exactly what the dead one had sent.
ModelSeesDurableTranscript ==
    \A p \in Procs : At(p, "provider") => mem[p] = PathMessages

\* What a finish record claims is what the transcript holds.  Completed is
\* written only under a final answer: the last entry of the run is an assistant
\* message without tool calls, and the pen returns that entry's text for a
\* completed child without running it again (agent/src/lib.rs:242-256).  A run
\* that recovery closed as aborted is settled: each of its journaled intents has
\* a results entry, and the transcript did not end on a user message when it was
\* declared aborted (store/src/recovery.rs:54-108).
ClosedRunIsSettled ==
    \A i \in RecordsOf("operation_finished") :
        /\ records[i].outcome = "completed" =>
              \E j \in DOMAIN entries :
                  /\ entries[j].id.run = records[i].run
                  /\ entries[j].msg = AssistantMessage(<<>>)
                  /\ \A k \in DOMAIN entries : entries[k].id.run = records[i].run => k <= j
        /\ records[i].outcome = "aborted" =>
              /\ UnfulfilledSteps(records[i].run) = {}
              /\ \A j \in DOMAIN entries :
                   (/\ entries[j].seq < records[i].seq
                    /\ \A k \in DOMAIN entries : k > j => entries[k].seq > records[i].seq)
                   => Role(entries[j].msg) = "assistant"

\* Nothing of a run is written once its operation_finished is in the log:
\* neither a late journal write of its own process nor a recovery that runs
\* again finds anything left to add.
ClosedRunIsQuiet ==
    \A i \in RecordsOf("operation_finished") :
        /\ \A j \in DOMAIN records : records[j].run = records[i].run => records[j].seq <= records[i].seq
        /\ \A j \in DOMAIN entries : entries[j].id.run = records[i].run => entries[j].seq < records[i].seq

\* No tool runs before a durable intent names the call AND the results entry
\* its result will go to (journal.rs: "MUST be durable before any effect
\* runs").
EffectHasIntent ==
    \A p \in Procs : At(p, "tools") =>
        \A c \in DOMAIN task[p].calls : \E i \in RecordsOf("tool_started") :
            /\ records[i].run = task[p].run
            /\ records[i].step = task[p].attempt
            /\ records[i].call = task[p].calls[c]

-----------------------------------------------------------------------------
(* Action properties and liveness.                                         *)

\* The context a provider sees only ever grows at its tail, across crashes,
\* recoveries and new processes: no message is spliced in earlier or dropped.
ContextGrowsAtTail ==
    [][LET before == PathMessages
           after  == PathMessages'
       IN  Len(before) <= Len(after) /\ before = SubSeq(after, 1, Len(before))]_<<entries, leaf>>

\* Every started process comes to an end: the turn limit bounds the loop and
\* recovery runs out of batches.
EveryProcessEnds == \A p \in Procs : ~At(p, "down") ~> At(p, "down")

-----------------------------------------------------------------------------
(* A statement of the repository that the code does not keep.              *)

\* agent/src/lib.rs, "Transcript invariants": every tool_use gets exactly one
\* matching tool_result, so what a provider is sent is structurally valid.
EveryCallIsAnswered ==
    \A p \in Procs : At(p, "provider") =>
        \A i \in DOMAIN mem[p] : mem[p][i].kind = "assistant" /\ mem[p][i].calls # <<>> =>
            /\ i < Len(mem[p])
            /\ mem[p][i + 1].calls = mem[p][i].calls
=============================================================================
