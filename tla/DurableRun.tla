----------------------------- MODULE DurableRun -----------------------------
(***************************************************************************)
(* The life of one session as its worker processes drive it: take the      *)
(* session lock, recover what an earlier process left open, run one prompt *)
(* through the agent loop while journaling every step, finish the run and  *)
(* let go of the lock.  A process is one `bullpen run`, or one pen child   *)
(* task; any number of them may be started for the session.                *)
(*                                                                         *)
(* Each action is one store write, or one effect (provider call, tool      *)
(* batch), of                                                              *)
(*   crates/harness/src/lib.rs   prepare_session, StoreJournal             *)
(*   crates/agent/src/lib.rs     Agent::send, Agent::drive                 *)
(*   crates/store/src/recovery.rs recover                                  *)
(* so a crash, a failed write or a cancellation can fall between any two.  *)
(* Scheduling inside a tool batch is left out, and so are the sessions     *)
(* row's status, pid and generation.                                       *)
(***************************************************************************)
EXTENDS SessionStore

CONSTANTS
    Procs,        \* worker processes
    NoProc,       \* nobody holds the session lock
    MaxTurns,     \* AgentConfig::max_turns
    MaxCalls,     \* bound: tool calls in one response
    MaxRuns,      \* bound: operations ever started on the session
    ReuseIds,     \* TRUE if the provider may repeat a tool_use id
    Faults        \* which faults occur, a subset of FaultKind

FaultKind == {"crash", "journal", "provider", "cancel"}

ASSUME RunAssumption ==
    /\ NoProc \notin Procs
    /\ MaxTurns \in Nat
    /\ MaxCalls \in Nat
    /\ MaxRuns \in Nat
    /\ ReuseIds \in BOOLEAN
    /\ Faults \subseteq FaultKind

VARIABLES
    lock,         \* holder of run/<session>.lock, or NoProc
    pc,           \* pc[p]: what p does next
    task,         \* task[p]: state of p's journal and loop, lost when p dies
    mem           \* mem[p]: Agent.messages, the transcript p sends; lost too

vars == <<entries, records, leaf, openMarker, nextSeq, lock, pc, task, mem>>

-----------------------------------------------------------------------------
(* Program points.  Those of prepare_session, of Agent::send, and of the   *)
(* journal's run_finished, which both the loop and the error path call.    *)
PreparePc == {"recover", "batches", "closing", "aborting", "unmarking"}
SendPc    == {"start", "mark", "user", "step", "provider", "assistant",
              "intents", "tools", "results"}
FinishPc  == {"finish", "clear", "meta"}

Pc == {"down", "ready", "exit"} \union PreparePc \union SendPc \union FinishPc

Task == [run      : Nat,              \* StoreJournal.run_id, or recovery's run
         attempt  : Nat,              \* drive's loop variable
         calls    : Seq(Calls),       \* the response's tool calls
         stop     : {"end_turn", "max_tokens"},
         logged   : Nat,              \* intents journaled so far
         outcome  : Outcome \union {"none"}]   \* argument of run_finished

IdleTask == [run |-> 0, attempt |-> 0, calls |-> <<>>, stop |-> "end_turn",
             logged |-> 0, outcome |-> "none"]

UserMessage        == [kind |-> "user", calls |-> <<>>]
ClosingMessage     == [kind |-> "closing", calls |-> <<>>]
AssistantMessage(cs) == [kind |-> "assistant", calls |-> cs]
ResultsMessage(cs)   == [kind |-> "results", calls |-> cs]
InterruptedMessage(cs) == [kind |-> "interrupted", calls |-> cs]

Init ==
    /\ StoreInit
    /\ lock = NoProc
    /\ pc = [p \in Procs |-> "down"]
    /\ task = [p \in Procs |-> IdleTask]
    /\ mem = [p \in Procs |-> <<>>]

At(p, l) == pc[p] = l

Goto(p, l) == pc' = [pc EXCEPT ![p] = l]

Fault(f) == f \in Faults

-----------------------------------------------------------------------------
(* prepare_session: recovery of what the previous process left open.       *)

\* Slip: the lock is not tried.
AcquireUnlocked(p) ==
    /\ At(p, "down")
    /\ lock' = p
    /\ Goto(p, "recover")
    /\ UNCHANGED <<storeVars, task, mem>>

\* SessionWorker::acquire.  try_lock on a held lock fails at once and that
\* process exits having changed nothing, which is no step here.
Acquire(p) ==
    /\ At(p, "down")
    /\ lock = NoProc
    /\ lock' = p
    /\ Goto(p, "recover")
    /\ UNCHANGED <<storeVars, task, mem>>

\* Agent::resume with the rebuilt transcript (path_messages).
LoadTranscript(p) ==
    /\ mem' = [mem EXCEPT ![p] = PathMessages]
    /\ task' = [task EXCEPT ![p] = IdleTask]
    /\ Goto(p, "ready")

\* Slip: recovery goes straight to the closing check.
ReadOpenRunNoBatches(p) ==
    /\ At(p, "recover")
    /\ \/ /\ OpenRuns = {}
          /\ LoadTranscript(p)
       \/ \E r \in OpenRuns :
            /\ task' = [task EXCEPT ![p].run = r]
            /\ Goto(p, "closing")
            /\ UNCHANGED mem
    /\ UNCHANGED <<storeVars, lock>>

\* recover: reduce the records.  None: nothing to do.  One: recover it.
\* More: StoreError::Corrupt, and the process gives up.
ReadOpenRun(p) ==
    /\ At(p, "recover")
    /\ \/ /\ OpenRuns = {}
          /\ LoadTranscript(p)
       \/ \E r \in OpenRuns :
            /\ OpenRuns = {r}
            /\ task' = [task EXCEPT ![p].run = r]
            /\ Goto(p, "batches")
            /\ UNCHANGED mem
       \/ /\ Cardinality(OpenRuns) > 1
          /\ Goto(p, "exit")
          /\ UNCHANGED <<task, mem>>
    /\ UNCHANGED <<storeVars, lock>>

\* The intents journaled for attempt n of run r: the records that share the
\* results entry id of that attempt.
Intents(r, n) ==
    {i \in RecordsOf("tool_started") : records[i].run = r /\ records[i].step = n}

\* The attempts of run r that journaled an intent and have no results entry.
UnfulfilledSteps(r) ==
    {n \in {records[i].step : i \in RecordsOf("tool_started")} :
        Intents(r, n) # {} /\ ~EntryExists(ResultsId(r, n))}

\* Slip: the grouping loses the log order.
IntentListsReversed(r, n) ==
    {cs \in [1 .. Cardinality(Intents(r, n)) -> Calls] :
        \A i \in Intents(r, n) :
            cs[Cardinality({j \in Intents(r, n) : j >= i})] = records[i].call}

\* The tool_use ids of those intents in log order, as the one-element set of
\* the lists whose k-th member is the call of the k-th intent.
IntentLists(r, n) ==
    {cs \in [1 .. Cardinality(Intents(r, n)) -> Calls] :
        \A i \in Intents(r, n) :
            cs[Cardinality({j \in Intents(r, n) : j <= i})] = records[i].call}

\* One interrupted results entry, at its provisioned id, for the oldest
\* unfulfilled batch; on to the closing check when there is none left.
RecoverBatch(p) ==
    LET r == task[p].run IN
    /\ At(p, "batches")
    /\ \/ \E n \in UnfulfilledSteps(r) :
            /\ \A m \in UnfulfilledSteps(r) : n <= m
            /\ \E cs \in IntentLists(r, n) : AppendEntry(ResultsId(r, n), InterruptedMessage(cs))
            /\ UNCHANGED pc
       \/ /\ UnfulfilledSteps(r) = {}
          /\ Goto(p, "closing")
          /\ UNCHANGED <<entries, leaf, nextSeq>>
    /\ UNCHANGED <<records, openMarker, lock, task, mem>>

\* Slip: only a prompt counts as a user message, tool results do not.
EndsOnPrompt(messages) ==
    messages # <<>> /\ messages[Len(messages)].kind = "user"

EndsOnUser(messages) ==
    messages # <<>> /\ Role(messages[Len(messages)]) = "user"

\* A transcript that ends on a user message gets the closing assistant note.
CloseTranscript(p) ==
    /\ At(p, "closing")
    /\ \/ /\ EndsOnUser(PathMessages)
          /\ AppendEntry(ClosingId(task[p].run), ClosingMessage)
       \/ /\ ~EndsOnUser(PathMessages)
          /\ UNCHANGED <<entries, leaf, nextSeq>>
    /\ Goto(p, "aborting")
    /\ UNCHANGED <<records, openMarker, lock, task, mem>>

\* Slip: recovery forgets the finish record.
AbortRunMarkerOnly(p) ==
    /\ At(p, "aborting")
    /\ Goto(p, "unmarking")
    /\ UNCHANGED <<storeVars, lock, task, mem>>

\* finish_operation(run, "aborted"): the record, then the lane marker.
AbortRun(p) ==
    /\ At(p, "aborting")
    /\ AppendRecord(FinishedRow(task[p].run, "aborted"))
    /\ Goto(p, "unmarking")
    /\ UNCHANGED <<entries, leaf, openMarker, lock, task, mem>>

AbortMarker(p) ==
    /\ At(p, "unmarking")
    /\ ClearMarker(task[p].run)
    /\ LoadTranscript(p)
    /\ UNCHANGED <<entries, records, leaf, nextSeq, lock>>

\* The process ends between preparing the session and sending the prompt
\* (no credentials for the provider, for one).
GiveUp(p) ==
    /\ At(p, "ready")
    /\ Goto(p, "exit")
    /\ UNCHANGED <<storeVars, lock, task, mem>>

-----------------------------------------------------------------------------
(* Agent::send: run_started.                                               *)

\* start_operation refuses to open a second run.  The check is a read of its
\* own: the record follows in a later transaction.
CheckNoOpenRun(p) ==
    /\ At(p, "ready")
    /\ Cardinality(StartedRuns) < MaxRuns
    /\ Goto(p, IF OpenRuns = {} THEN "start" ELSE "exit")
    /\ UNCHANGED <<storeVars, lock, task, mem>>

\* The run id is a fresh uuid; here, the sequence number its record gets.
StartRun(p) ==
    LET r == nextSeq IN
    /\ At(p, "start")
    /\ AppendRecord(StartedRow(r))
    /\ task' = [task EXCEPT ![p].run = r]
    /\ Goto(p, "mark")
    /\ UNCHANGED <<entries, leaf, openMarker, lock, mem>>

MarkRun(p) ==
    /\ At(p, "mark")
    /\ SetMarker(task[p].run)
    /\ Goto(p, "user")
    /\ UNCHANGED <<entries, records, leaf, nextSeq, lock, task, mem>>

AppendUser(p) ==
    /\ At(p, "user")
    /\ AppendEntry(UserId(task[p].run), UserMessage)
    /\ mem' = [mem EXCEPT ![p] = Append(@, UserMessage)]
    /\ task' = [task EXCEPT ![p].attempt = 1]
    /\ Goto(p, "step")
    /\ UNCHANGED <<records, openMarker, lock>>

-----------------------------------------------------------------------------
(* Agent::drive: one iteration per provider call.                          *)

\* drive returns an error: send closes the run with `o`, best effort.
Fail(p, o) ==
    /\ task' = [task EXCEPT ![p].outcome = o]
    /\ Goto(p, "finish")

StepAttempt(p) ==
    /\ At(p, "step")
    /\ task[p].attempt <= MaxTurns
    /\ AppendRecord(StepRow(task[p].run, task[p].attempt))
    /\ Goto(p, "provider")
    /\ UNCHANGED <<entries, leaf, openMarker, lock, task, mem>>

\* Slip: the turn limit counts as success.
MaxTurnsCompletes(p) ==
    /\ At(p, "step")
    /\ task[p].attempt > MaxTurns
    /\ Fail(p, "completed")
    /\ UNCHANGED <<storeVars, lock, mem>>

MaxTurnsReached(p) ==
    /\ At(p, "step")
    /\ task[p].attempt > MaxTurns
    /\ Fail(p, "failed")
    /\ UNCHANGED <<storeVars, lock, mem>>

\* The ids this run's assistant entries have used already.
UsedCalls(r) ==
    UNION {{entries[i].msg.calls[j] : j \in DOMAIN entries[i].msg.calls} :
              i \in {k \in DOMAIN entries : entries[k].id.run = r}}

\* What a provider may ask for in one response.
Responses(r) ==
    {cs \in UNION {[1 .. n -> Calls] : n \in 0 .. MaxCalls} :
        ReuseIds \/ (/\ \A i, j \in DOMAIN cs : cs[i] = cs[j] => i = j
                     /\ \A i \in DOMAIN cs : cs[i] \notin UsedCalls(r))}

\* A complete response: its tool calls and why the provider stopped.
ProviderResponds(p) ==
    /\ At(p, "provider")
    /\ \E cs \in Responses(task[p].run), s \in {"end_turn", "max_tokens"} :
         task' = [task EXCEPT ![p].calls = cs, ![p].stop = s, ![p].logged = 0]
    /\ Goto(p, "assistant")
    /\ UNCHANGED <<storeVars, lock, mem>>

\* The adapter's retries are exhausted, or the error is not retryable.
ProviderFails(p) ==
    /\ Fault("provider")
    /\ At(p, "provider")
    /\ Fail(p, "failed")
    /\ UNCHANGED <<storeVars, lock, mem>>

\* Slip: the stop reason is stored as the outcome.
AppendAssistantRawStop(p) ==
    LET t == task[p] IN
    /\ At(p, "assistant")
    /\ AppendEntry(AssistantId(t.run, t.attempt), AssistantMessage(t.calls))
    /\ \/ /\ t.calls # <<>>
          /\ Goto(p, "intents")
          /\ UNCHANGED <<task, mem>>
       \/ /\ t.calls = <<>>
          /\ mem' = [mem EXCEPT ![p] = Append(@, AssistantMessage(t.calls))]
          /\ task' = [task EXCEPT ![p].outcome = t.stop]
          /\ Goto(p, "finish")
    /\ UNCHANGED <<records, openMarker, lock>>

\* The assistant entry.  With no tool call the turn is over: truncated if the
\* provider stopped at max_tokens, completed otherwise.  stop_reason is looked
\* at in that branch only.
AppendAssistant(p) ==
    LET t == task[p] IN
    /\ At(p, "assistant")
    /\ AppendEntry(AssistantId(t.run, t.attempt), AssistantMessage(t.calls))
    /\ \/ /\ t.calls # <<>>
          /\ Goto(p, "intents")
          /\ UNCHANGED <<task, mem>>
       \/ /\ t.calls = <<>>
          /\ mem' = [mem EXCEPT ![p] = Append(@, AssistantMessage(t.calls))]
          /\ task' = [task EXCEPT
                        ![p].outcome = IF t.stop = "max_tokens" THEN "truncated" ELSE "completed"]
          /\ Goto(p, "finish")
    /\ UNCHANGED <<records, openMarker, lock>>

\* Slip: the tools start with the first intent.
LogIntentOnce(p) ==
    LET t == task[p] IN
    /\ At(p, "intents")
    /\ AppendRecord(ToolRow(t.run, t.attempt, t.calls[t.logged + 1]))
    /\ task' = [task EXCEPT ![p].logged = @ + 1]
    /\ Goto(p, "tools")
    /\ UNCHANGED <<entries, leaf, openMarker, lock, mem>>

\* tool_batch: one intent record per call, in request order.
LogIntent(p) ==
    LET t == task[p] IN
    /\ At(p, "intents")
    /\ AppendRecord(ToolRow(t.run, t.attempt, t.calls[t.logged + 1]))
    /\ task' = [task EXCEPT ![p].logged = @ + 1]
    /\ Goto(p, IF t.logged + 1 = Len(t.calls) THEN "tools" ELSE "intents")
    /\ UNCHANGED <<entries, leaf, openMarker, lock, mem>>

\* execute_batch.  A tool that fails or is unknown yields an error result.
RunTools(p) ==
    /\ At(p, "tools")
    /\ Goto(p, "results")
    /\ UNCHANGED <<storeVars, lock, task, mem>>

\* Slip: the assistant message is not pushed along with its results.
AppendResultsAlone(p) ==
    LET t == task[p] IN
    /\ At(p, "results")
    /\ AppendEntry(ResultsId(t.run, t.attempt), ResultsMessage(t.calls))
    /\ mem' = [mem EXCEPT ![p] = Append(@, ResultsMessage(t.calls))]
    /\ task' = [task EXCEPT ![p].attempt = @ + 1]
    /\ Goto(p, "step")
    /\ UNCHANGED <<records, openMarker, lock>>

\* tool_results: the grouped results at the provisioned id; then assistant
\* message and results enter the in-memory transcript together.
AppendResults(p) ==
    LET t == task[p] IN
    /\ At(p, "results")
    /\ AppendEntry(ResultsId(t.run, t.attempt), ResultsMessage(t.calls))
    /\ mem' = [mem EXCEPT ![p] = @ \o <<AssistantMessage(t.calls), ResultsMessage(t.calls)>>]
    /\ task' = [task EXCEPT ![p].attempt = @ + 1]
    /\ Goto(p, "step")
    /\ UNCHANGED <<records, openMarker, lock>>

-----------------------------------------------------------------------------
(* run_finished: the record, the lane marker, then title and usage.        *)

FinishRun(p) ==
    /\ At(p, "finish")
    /\ AppendRecord(FinishedRow(task[p].run, task[p].outcome))
    /\ Goto(p, "clear")
    /\ UNCHANGED <<entries, leaf, openMarker, lock, task, mem>>

FinishMarker(p) ==
    /\ At(p, "clear")
    /\ ClearMarker(task[p].run)
    /\ Goto(p, "meta")
    /\ UNCHANGED <<entries, records, leaf, nextSeq, lock, task, mem>>

\* update_session_meta: title and usage columns, not modelled here.
UpdateMeta(p) ==
    /\ At(p, "meta")
    /\ Goto(p, "exit")
    /\ UNCHANGED <<storeVars, lock, task, mem>>

\* The process (or child task) is over: SessionWorker is dropped.
Exit(p) ==
    /\ At(p, "exit")
    /\ lock' = NoProc
    /\ task' = [task EXCEPT ![p] = IdleTask]
    /\ mem' = [mem EXCEPT ![p] = <<>>]
    /\ Goto(p, "down")
    /\ UNCHANGED storeVars

-----------------------------------------------------------------------------
(* Faults.                                                                 *)

\* Slip: a failing run_finished is retried until it succeeds.
WriteFailsForever(p) ==
    /\ Fault("journal")
    /\ \/ /\ pc[p] \in (PreparePc \ {"recover"}) \union {"start", "mark", "user"}
          /\ Goto(p, "exit")
          /\ UNCHANGED task
       \/ /\ pc[p] \in {"assistant", "intents", "results"} \union FinishPc
          /\ Fail(p, "failed")
       \/ /\ At(p, "step")
          /\ task[p].attempt <= MaxTurns
          /\ Fail(p, "failed")
    /\ UNCHANGED <<storeVars, lock, mem>>

\* A store write returns an error and has no effect.  In prepare_session and
\* in run_started the error leaves without run_finished; in drive it becomes
\* the run's failure; run_finished(Completed) is part of drive, so its failure
\* leads to a second run_finished, whose own failure is ignored.
WriteFails(p) ==
    /\ Fault("journal")
    /\ \/ /\ pc[p] \in (PreparePc \ {"recover"}) \union {"start", "mark", "user"}
          /\ Goto(p, "exit")
          /\ UNCHANGED task
       \/ /\ pc[p] \in {"assistant", "intents", "results"}
          /\ Fail(p, "failed")
       \/ /\ At(p, "step")
          /\ task[p].attempt <= MaxTurns
          /\ Fail(p, "failed")
       \/ /\ pc[p] \in FinishPc
          /\ task[p].outcome = "completed"
          /\ Fail(p, "failed")
       \/ /\ pc[p] \in FinishPc
          /\ task[p].outcome # "completed"
          /\ Goto(p, "exit")
          /\ UNCHANGED task
    /\ UNCHANGED <<storeVars, lock, mem>>

\* A pen child's cancellation or deadline drops the send future at a point
\* where it awaits: the provider, or the tools.  Nothing is journaled.
Cancel(p) ==
    /\ Fault("cancel")
    /\ pc[p] \in {"provider", "tools"}
    /\ Goto(p, "exit")
    /\ UNCHANGED <<storeVars, lock, task, mem>>

\* SIGKILL, power loss: memory is gone, the OS drops the lock.
Crash(p) ==
    /\ Fault("crash")
    /\ pc[p] # "down"
    /\ lock' = NoProc
    /\ task' = [task EXCEPT ![p] = IdleTask]
    /\ mem' = [mem EXCEPT ![p] = <<>>]
    /\ Goto(p, "down")
    /\ UNCHANGED storeVars

-----------------------------------------------------------------------------
Prepare(p) ==
    \/ ReadOpenRun(p)
    \/ RecoverBatch(p)
    \/ CloseTranscript(p)
    \/ AbortRun(p)
    \/ AbortMarker(p)

Send(p) ==
    \/ CheckNoOpenRun(p) \/ StartRun(p) \/ MarkRun(p) \/ AppendUser(p)
    \/ StepAttempt(p) \/ MaxTurnsReached(p)
    \/ ProviderResponds(p)
    \/ AppendAssistant(p) \/ LogIntent(p) \/ RunTools(p) \/ AppendResults(p)
    \/ FinishRun(p) \/ FinishMarker(p) \/ UpdateMeta(p)

\* What the code does by itself once a process is started.
Progress(p) == Prepare(p) \/ Send(p) \/ GiveUp(p) \/ Exit(p)

FaultStep(p) == ProviderFails(p) \/ WriteFails(p) \/ Cancel(p) \/ Crash(p)

Next == \E p \in Procs : Acquire(p) \/ Progress(p) \/ FaultStep(p)

Spec == Init /\ [][Next]_vars

\* The scheduler keeps running a started process, and the provider and the
\* tools answer.  Nobody is obliged to start a process.
FairSpec == Spec /\ \A p \in Procs : WF_vars(Progress(p))
=============================================================================
