# bullpen: a verification development

bullpen is a coding-agent harness in Rust. Its core promise is durability: a
session is an append-only log in SQLite, and whatever a process was doing when
it was killed, the next one can take the session up again. Subagents are
sessions of the same kind, so a subagent survives its parent. This directory
holds TLA+ models of that core, the TLC runs that check them and TLAPS proofs
for all sizes, and those of the parts around it: the provider calls, the
scheduling of tool calls, worktrees, credentials and file edits. Paths below
are relative to `src/crates/`.

    tlc -workers 2 -config DurableRunSafety.cfg MCDurableRun
    tlapm DurableRunProofs.tla

`PROJECT.json` lists the runs, and for each modelled definition the lines it
stands for; for each property a mutant, a plausible slip of the code that the
property catches. The slips are the definitions marked "Slip:" in the modules.

## 1. The system

| component | source | state | operations | what makes it correct |
|---|---|---|---|---|
| session store | `store/src/lib.rs` | tables `session_entries`, `session_records`, `lanes` (leaf, open marker), `sessions` (sequence counter, status, pid, generation, usage) | `append_entry`, `append_record`, `start_operation`, `finish_operation`, `path_messages`, `create_child_session`, `start_worker`, `finish_worker` | one counter orders both tables; an append with a known id changes nothing; one open operation |
| recovery | `store/src/recovery.rs` | none of its own | reduce the records, append interrupted results, a closing note, the aborted record; clear the marker | repeatable after a crash anywhere inside it; leaves a transcript a provider accepts |
| worker | `store/src/worker.rs` | file lock, generation | `acquire`, `start`, `finish`, `Drop` | one owner per session; no write over another owner's row |
| status | `store/src/status.rs` | none | `derive`, `pid_alive` | a dead owner shows as Failed, Completed means there is an answer |
| harness | `harness/src/lib.rs` | none | `prepare_session`, `StoreJournal` | recover before run; every journal call durable before it returns |
| agent loop | `agent/src/lib.rs` | messages in memory | `send`, `drive`, `execute_batch` | the memory is the durable transcript; intents before effects; every run gets an end |
| pen | `harness/src/pen.rs` | registry of cancel senders | `agent` tool, `run_child` | durable budget; a finished child is not run again; every child ends |
| job tool | `harness/src/job.rs` | none | list, wait, cancel | what `wait` returns is the report |
| worktrees | `harness/src/worktree.rs` | git worktrees and branches, three columns of the session row | `create`, `locate`, `inspect`, `recreate`, `git_write_roots` | never the shared checkout by mistake; work is not lost |
| CLI, dispatch, dashboard | `cli/src/` | processes | `run`, `run -r`, dispatch (detached `run -r`), login, agents view | the same order of lock, recovery and placement everywhere |
| auth | `auth/src/` | `auth.json`, a token per provider | login (device code, browser), token refresh, `save` | the store survives crashes and other processes' saves; a login waits no longer than it says |
| model adapters | `llm/src/` | a stream in progress | `complete`, `complete_streaming`, retry, three wire formats | what goes out is the transcript, what comes in is the reply; a cut stream is no response |
| tools | `tools/src/` | files | `read_file`, `write_file`, `edit_file`, `bash`, search, archives, databases | an edit applies to what was read; a result that was capped says so |
| sandbox | `sandbox/src/lib.rs` | roots a run may write | `for_workspace`, `child` | a run writes where it works |

How they interact: `run` takes the worker lock, marks the row, calls
`prepare_session` (recovery, then the transcript is loaded), builds the
provider and calls `Agent::send`. `send` and `drive` report every step to the
`Journal`, which the harness implements over the store. When the loop ends,
the worker writes the final status and unlocks. The `agent` tool is a call
within `execute_batch`: it makes a child session and runs the same sequence in
the same task (foreground) or in a spawned one (background). The dashboard and
the `job` tool only read rows and probe pids. Before the agent runs, the run
is placed (shared checkout or worktree) and a sandbox is built around its
place. Each turn of the loop calls an adapter, which takes a token from the
auth store, and hands the calls of the response to `execute_batch`. Processes
share the database, the lock files, the process table, `auth.json`, the
checkout with its worktrees, and nothing else.

The hard part is that none of these are one transaction. Starting an operation
is a record and a marker; ending one, a record and a marker; ending a
session's work is a record, then a row. A process can be killed, a future
dropped, a write refused between any two, and another process may come next.
`PROJECT.json`, "hazards", has the list with lines.

## 2. What is modelled

| modules | component |
|---|---|
| SessionStore, DurableRun, DurableRunProperties, TranscriptContract, DurableRunRefinement | store, recovery, harness, the journal of the agent loop |
| SessionWorker, Pen, PenProperties | worker, status, pen, job tool, dispatch |
| Conversation, Anthropic, Codex, ChatCompletions, ModelServer, ProviderCall, BatchScheduler, AgentTurn, AgentTurnProperties | the two long steps of the agent loop: provider call and batch |
| Placement | worktrees, `run -r`, delegation, sandbox roots |
| Hashline, ReadViews, Workspace | file tools, and what every other tool shows |
| AuthStore | auth store, refresh, logins |

The proofs are in DurableRunProofs, PenSafetyProofs, AgentTurnProofs (types,
batches, the loop), ConversationProofs (what goes out and comes in),
PlacementProofs, WorkspaceProofs and AuthStoreProofs; SequenceLemmas is the
library that three of them share.

`MCDurableRun`, `MCPen`, `MCAgentTurn`, `MCPlacement`, `MCWorkspace` and
`MCAuthStore` are the TLC instances.

### Durable run of one session

`SessionStore` is the store, one operator per statement or transaction:
entries with parent and sequence, records, the leaf, the marker, the counter.
Ids are records: an entry is named by run, kind and step, as the code's
provisioned ids are, so the insert-or-ignore of `append_entry` is there.
`PathMessages` walks the parent links from the leaf as `path_messages` does.

`DurableRun` is the processes over it: `pc[p]` is the store write or await a
process is at, `task[p]` its local variables (run, attempt, calls, stop
reason, outcome), `mem[p]` the messages `Agent` holds, `lock` the session
lock. An action is one durable write and the control flow up to the next, so
other processes and crashes come between any two writes, including within
recovery and within `finish_operation`. Faults (a set, a constant): `crash`,
`journal` (a write is refused), `provider` (a request fails), `cancel` (the
send future is dropped).

Message text, tool output, usage and titles are left out; a message is its
kind and the list of calls it carries or answers.

`DurableRunProperties` states what is expected. `DurableRunRefinement` is the
mapping to `TranscriptContract`: an abstract session in which a run that is
cut short is settled in one step. The mapping
shows a reader of an unfinished recovery the transcript that recovery will
leave; each of recovery's own writes is then a stutter, which is what
"recovery may be repeated" means.

### Workers and the pen

`SessionWorker` is who works on a session: the lock, the row (status, pid,
generation), the process table, and each worker's program point from `acquire`
to the end of `Drop`. A run is abstracted to what others read of it (open or
not, the last outcome, whose text is last); DurableRun has its steps. A
process (`Hosts`) owns one worker and, if it is a parent, the workers of its
child tasks (`Jobs`), under one pid. A process may end as a zombie.

`Pen` adds the `agent` and `job` tools: the registry of each process, the
dispatch of a call (one at a time per task: the code does not await between
its checks, but other tasks and processes run between its store statements),
`run_child` with deadline and cancellation, the removal of the registry entry,
and the end of the parent with its children still running. `Busy` and `Polled`
say which futures share a task and so cannot run at once. A foreground child
and the parent share one task.

### Provider call and batch

DurableRun takes a provider call and a batch as one step each; `AgentTurn` is
the same loop without its journal, with these two as what takes the time.

`Conversation` has the neutral blocks and messages. `Anthropic`, `Codex` and
`ChatCompletions` are the adapters' pure parts, both ways: the transcript put
on the wire, and a body, an event list or one stream event at a time
(`Handle`, `Finish`) turned into a response. A text is a sequence of
fragments and a tool input a sequence of pieces, of which only the complete
one parses, so that a lost, repeated or misplaced delta shows. `ModelServer`
is the external other end: how each service says a reply. `ProviderCall` is
the retry loop (status, transport error, backoff, the token Codex fetches
before each attempt) and the stream of the Anthropic adapter, one event per
step; a stream may be cut, carry an error event, break, or have a character
garbled at the edge of a chunk.

`BatchScheduler` is `execute_batch`: the grouping of adjacent parallel-safe
calls, the permits, the join in request order, unknown tools, tools that fail
before or after their effect. The workspace is the list of changes made, and
each call's result is what it found there.

### Placement

`Placement` is where a session runs: the row (does it record a worktree), the
lock, what stands at the worktree's path (nothing, the session's tree, a tree
on another branch or another repository's, a plain directory), whether the
branch and the repository exist. A process is a CLI dispatch or run, or the
pen with a child; its steps are the row written, `git worktree add`, the row
read, the lock, `locate` (`inspect` and `decide`), `recreate` and the building
of the sandbox. The user removes, replaces or switches what stands at a path,
deletes a branch or the repository, between any two of these. A process may
die anywhere. One worktree and one branch name belong to a session, so the row
says only whether they are recorded; `saw` and `made` are history: git had
made the tree when the row was read.

### Files

`Hashline` is `edit_file` as operators: `resolve_anchor`, the splices of a
patch (`Accepted`, `Disjoint`, `Patched`), the exact-string replacement. A
line is its word and an id the program does not see, which tells twin lines
apart. `Workspace` runs it: two agents with views of one file, reading it,
patching what they read, and writing by truncation and fill, beside commands
and the user who change it in place. `ReadViews` gives, for every tool that
only looks, its outcome: what it took in of what is there (`whole`),
whether all of that is shown (`complete`), whether it says that something is
missing (`said`). A view that selects what it takes in (`Selected`) and says
nothing of the rest is one of kind "selection": the window of `read_file`, the
first member of a gzip file, the walk of `grep` and `glob` with the files that
cannot be read, the lines of ast-grep that parse, the tables an overview
lists, one of the two streams of `gh`.

### Credentials

`AuthStore` is `auth.json` as inodes with names: a save opens (truncates) the
one temporary name, writes, and renames. Around it are the token refresh, with
the request between its load and its save, the device-code login with its
poll loop and deadline, and the browser login: the callback, for which it
waits 300 s, then the exchange of the code for a key, for which it waits as
long as it takes. The
authorization server is external: it takes a refresh token once and may or may
not send a new one; its answer may be lost.

### Not modelled

- Todos: replaced as a whole in one transaction by the lock holder, so nothing
  interleaves.
- Schema migration: all steps run in one immediate transaction that reads the
  version again under the write lock (`store/src/lib.rs:156-170`).
- Usage totals, titles and the columns only lists show. Usage has a known
  hazard (`harness/src/pen.rs:355`: totals read before the lock) that no
  property covers.
- The borrowed login of the Codex CLI, which is only read; the code a user
  pastes in a headless login; the claims of a token and the PKCE challenge.
- Line framing of event streams; the bytes of a diff, a table or a listing;
  carriage returns; strings shorter than a line in `edit_file`.
- What outside commands do, other than change files; the command line a
  sandbox is built from.
- Option parsing, key handling, drawing, logging. Reused pids.

## 3. Runs

| run | properties | what it shows |
|---|---|---|
| DurableRunSafety | TypeOK, AtMostOneOpenRun, ReadySessionIsRecovered, SharedSequence, ResultsFollowTheirCalls, ModelSeesDurableTranscript, ClosedRunIsSettled, ClosedRunIsQuiet, EffectHasIntent, ContextGrowsAtTail, ImplementsContract | all faults, every crash point: the store stays consistent, nothing is spliced into a context, and the whole implements the contract |
| DurableRunLive | EveryProcessEnds | the turn limit bounds the loop; closing a failed run does not go round |
| PenSafety | TypeOK, RowNamesOwner, CompletedIsTrue, BudgetHolds, EntryHasTask | one owner, truthful Completed, durable budget, no registry entry without a task |
| PenLive | OrphanIsFailed, EveryChildSettles | an abandoned run shows as Failed; every child task ends |
| AgentTurn | TypeOK, PermitsHold, EffectsLookSequential, OutputsInRequestOrder, WholeReplyIsDelivered, RequestIsFaithful, EveryRunEnds | through four adapters and every failure of a call: what is sent is what was said, what is received is the reply, batches look sequential, and each prompt ends |
| Placement | TypeOK, NoStrangerInATree, RunsInItsOwnTree, WorkIsKept, ConfinedToItsPlace | whatever happens to the worktrees, a run is in its own tree or refused, confined to it, only the session and its line of children work in a tree, and no work is lost |
| Files | TypeOK, AnchorsFollowTheirLine, PatchIsItsSplices, LinesLeaveOnPurpose, NoSilentCap | anchored edits of a changing file, patches in any order of hunks, no line lost by accident, no cap, budget or truncation that goes unsaid |
| Auth | TypeOK, StoreKeepsWhatWasSaved, LoginStaysUsable, NoLoginWaitsForItsUser | crash-safe replacement, one provider's login survives another's, a refresh keeps the login, and neither login waits for ever for its user |
| DanglingCall, CutStream, StaleAnchor, TornStore | one each | what a document says and the code does not do (section 6) |

### Bounds

DurableRun: two processes, two tool_use ids, at most `MaxTurns` = 2 provider
turns per run, `MaxCalls` = 2 calls per response, `MaxRuns` = 2 runs. Two runs
are a run that is interrupted, its recovery (interrupted in turn, by a process
that may be started again) and a run on the recovered transcript; two calls
give a batch with a journaled prefix; two turns give results followed by
another request and the turn limit. A process can be started any number of
times. `ReuseIds` says whether a provider repeats a tool_use id within a run;
it is FALSE (section 6 says why). Ids and processes are symmetric.

Pen: two processes (a parent, and one that restarts it or resumes a child),
two child tasks and, in PenSafety, two tool calls with room for one child
(`MaxChildren` = 1). A task or process is used once, so these also bound the
number of dispatches and starts: enough for a task whose predecessor on the
same child is ending, a refused lock, a parent restarted beside its zombie.
PenLive has one child, no `run -r` on a child and no store fault. The absence
of the store fault is not a bound but a precondition of OrphanIsFailed: a
worker whose last write is refused leaves `running` under a live pid. So is
the absence of zombies (section 6).

AgentTurn: one prompt, two turns, three attempts per call (`MAX_ATTEMPTS` is 5
in the code; a first, a middle and a last one are all the loop tells apart).
`MCReplies` lists nine replies: every order of text, thinking and calls that
some format treats specially, a blank text (which a stream leaves out and a
body does not), an input cut off by the token limit, and two batches of three
calls over two permits, one ending in a serial call. A
request made after any reply, followed by any reply, is in the run. One
garbled chunk per stream.

Placement: two sessions, which may be parent and child, and two processes,
used again and again; two directories a command is typed in, the checkout and
one elsewhere. There is no other bound: the state space is finite.

Files: two agents, two initial texts of two and three lines with a twin pair
and a blank line, two mutating calls, one change by others, patches of up to
two hunks on texts of up to three lines; two-hunk patches only in the first
call (`RichCalls`), where the first hunk takes a range only to delete it and the
second inserts a line or deletes one. A call writes one line (`MaxWords`); an empty string is a
blank one. A tar has up to three members of up to two units. Other looks are
taken before the first change, on which they do not depend; sizes go to 6
around caps of 2 and 4.

Auth: two processes, a clock up to 3, a poll deadline of 2 with an interval
below and one above it, two refresh tokens, two logins. Two overlapping saves
need two processes; a token that is used, replaced and used again needs two.

Deadlock is not checked where the bounds or the program end the activity: a
process of the pen is not restarted for ever, an agent gets no further prompt,
a file no further change, and the clock stops.

### Fairness

DurableRun: weak fairness of each process's own steps. A started process is
scheduled, its writes return, and a provider answers or fails: the adapters'
HTTP clients have a timeout of 600 s (`llm/src/anthropic.rs:59` and its kind).
Starting a process and every fault are unfair.

Pen: weak fairness of a worker's lifecycle steps, of timers and the task's end
(`JobStep`), of the dispatch. No provider need answer: `Turn`, `Complete` and
`Fail` are unfair, so what ends a child is its deadline, its cancellation or
its process. Nobody need start, kill or wait for a process.

AgentTurn: weak fairness of the loop (`Work`), for the timeout above and for
that of each command a tool is asked to run. Three waits have no limit in the
code and are taken to end: that of `ask` for its user, the version probe of
ast-grep (`tools/src/ast.rs:39`), the git calls of `harness/src/worktree.rs`.
Prompts are unfair.

Auth: weak fairness of the clock and of the steps of a process (`Step`): the
Codex requests have a timeout of 30 s (`auth/src/codex.rs:53`), files answer.
The key exchange of the browser login has none, so KeyExchange is not fair.
The user need not approve, nor the browser call back, and no process need die.

## 4. What is proved

For any number of processes, runs, tasks, children, calls, sessions and
directories and any set of faults. Assumptions on the constants are those the
modules state: names are distinct, bounds are natural numbers, the children
of Pen and the processes of AuthStore are finite sets. Six theorems have a
premise of their own, given in the table; without it TLC finds a
counterexample, and the paragraph on the theorem says which.

| theorem | module | states |
|---|---|---|
| TypeCorrect | DurableRunProofs | TypeOK |
| OneOpenRun | DurableRunProofs | AtMostOneOpenRun |
| ReadyIsRecovered | DurableRunProofs | ReadySessionIsRecovered |
| OneSequence | DurableRunProofs | SharedSequence |
| ClosedRunStaysQuiet | DurableRunProofs | ClosedRunIsQuiet |
| ContextOnlyGrows | DurableRunProofs | ContextGrowsAtTail |
| ModelSeesTheTranscript | DurableRunProofs | ModelSeesDurableTranscript |
| ClosedRunsAreSettled | DurableRunProofs | ClosedRunIsSettled |
| EffectsAreJournaled | DurableRunProofs | EffectHasIntent, if ReuseIds is FALSE |
| ResultsFollow | DurableRunProofs | ResultsFollowTheirCalls, if ReuseIds is FALSE |
| SessionKeepsItsContract | DurableRunProofs | ImplementsContract, if ReuseIds is FALSE |
| PenTypeCorrect | PenSafetyProofs | TypeOK |
| OneOwner | PenSafetyProofs | RowNamesOwner |
| CompletedHasAnswer | PenSafetyProofs | CompletedIsTrue |
| BudgetIsKept | PenSafetyProofs | BudgetHolds |
| EntriesAreLive | PenSafetyProofs | EntryHasTask |
| OrphansAreFailed | PenSafetyProofs | OrphanIsFailed, without store faults and zombies |
| BatchInvariant | AgentTurnProofs | the inductive invariant of a batch |
| SerialCallsAreAlone | AgentTurnProofs | a serial call overlaps no other |
| PermitsAreHeld | AgentTurnProofs | PermitsHold |
| BatchIsSequential | AgentTurnProofs | EffectsLookSequential |
| OutputsAreOrdered | AgentTurnProofs | OutputsInRequestOrder |
| LoopRunsBatches | AgentTurnProofs | AgentTurn implements BatchSpec |
| BatchesInTheLoop | AgentTurnProofs | the four batch properties, of AgentTurn |
| AgentTypes | AgentTurnProofs | TypeOK |
| EveryCallIsAnswered | AgentTurnProofs | each call of the transcript has its result in the next message |
| TalkInvariant | ConversationProofs | the inductive invariant of the conversation |
| RequestsAreFaithful | ConversationProofs | RequestIsFaithful |
| WholeRepliesAreDelivered | ConversationProofs | WholeReplyIsDelivered |
| PlacementTypeCorrect | PlacementProofs | TypeOK |
| TreesAreForTheirLine | PlacementProofs | NoStrangerInATree, if no command is typed in a worktree |
| PlacedInItsOwnTree | PlacementProofs | RunsInItsOwnTree |
| NoWorkIsLost | PlacementProofs | WorkIsKept |
| WritesWhereItWorks | PlacementProofs | ConfinedToItsPlace, if no command is typed in a worktree |
| AuthTypes | AuthStoreProofs | TypeOK |
| StoreIsKept | AuthStoreProofs | StoreKeepsWhatWasSaved |
| LoginIsUsable | AuthStoreProofs | LoginStaysUsable |
| WorkspaceTypes | WorkspaceProofs | TypeOK |
| LinesLeave | WorkspaceProofs | LinesLeaveOnPurpose |
| AnchorsFollow | WorkspaceProofs | AnchorsFollowTheirLine |
| PatchesAreTheirSplices | WorkspaceProofs | PatchIsItsSplices |
| NoCapIsSilent | WorkspaceProofs | NoSilentCap |

Types first (`TypeInv`): TypeOK is not inductive, because a step reads a
worker's session, or a call's, and these are there only at some program
points.

*One open run.* `start_operation` checks and inserts in two steps, and
recovery reads which run is open long before it closes it. `OneRunInv` adds
that whoever is not down holds the lock (`LockInv`), and that what a process
has read is still true when it acts (`RecoveryInv`): where it found no open
run or has closed it, none is open; where recovery works, its run is the only
one. The lock excludes a second process; a crash frees it and leaves at most
one open run for the next recovery.

*Quiet after the finish.* `ClosedInv` adds that a process which can still
write for a run has not seen it finished (`WriterInv`), that run names are
fresh, being taken from the counter (`RunsBelow`), and SharedSequence, as the
property compares numbers of both tables.

*The transcript.* `PathMessages` follows parent links, by a recursive
function. `ChainInv` says that entry ids are unique, that each entry hangs
under the one inserted before it and that the leaf is the last one; then the
path is the entries table in order of insertion (`PathIsTranscript`). The
library's induction theorems cannot be used here, as they take an operator;
the proof takes the least position where path and table differ, which exists
because the subset order on finite sets is well-founded (`NatLeast`). What
follows reads the end of the table only. `EndInv` says which message an entry
id carries, and that in an open run a batch without results and recovery's
closing note can only be last; `Knows` says, for each program point of the
lock holder, what is last and what is in memory. ModelSeesTheTranscript is one
conjunct of it. ClosedRunsAreSettled needs the others where the finish record
is written, and that nothing is added to a finished run afterwards.

*Intents before effects.* An intent is stored under its run and tool_use id,
without the attempt, so its insert is skipped when an earlier attempt used the
id. `FreshInv` says that entries belong to numbered runs and that an attempt
has no assistant entry before its response is stored. `BatchInv` says that
each intent names a call of the transcript, that the calls of a response not
yet stored are new to it, hence without an intent, and that a batch is
journaled exactly as far as it has been logged, so that all of it is when
tools start. With ReuseIds TRUE the calls need not be new, and TLC finds a
batch that runs without an intent of its own.

*Results and their calls.* Recovery does not read the response it answers,
only the intents of the attempt, so ResultsFollowTheirCalls rests on the order
of the log: `PrefixInv` says that the intents of a batch without results are
consecutive records and name, in request order, the first calls of the last
message; `Logging` says of the process that writes them that they are the end
of the log. With ReuseIds TRUE one of them may be skipped, and recovery
answers calls that are not a leading part: TLC finds it.

*The contract.* Each step of DurableRun maps to a step of TranscriptContract
or to none. Three statements connect the two: `MappedInv` gives the mapped
variables where nothing is open, where a run is live and where it awaits
recovery; `PhaseInv` the phase at each program point; `SettledInv` the
transcript that recovery will leave. There is a lemma for each contract step
(`BeginMaps` to `AbortBatchMaps`), and one per kind of step of the run: those
that write an entry, a record, or nothing (`QuietMaps`; a crash there is the
abstract abort). Recovery's writes leave SettledTranscript as it is, so they
are stutters, and so is a crash within them.

*One owner.* RowNamesOwner speaks of workers from `recover` to `drop`, but
what keeps another from `start_worker` is a lock taken earlier and given back
later, so `Owns` has the lock from `start` to `unlock`. A worker's step
touches its own session only (`WorkerFrame`), and two lock holders have
different sessions (`Apart`).

*Completed is true.* The records say completed a step before the row does.
`DoneInv` carries the answer over that step; a run changes only in the hands
of its owner, while the row says running.

*Budget.* The check and the first insert are one step of the model, as
`PenTool::run` has no await between them; that the second insert makes no
child needs that its session row is there (`LaneInv`).

*Entries.* While a parent runs, each of its entries names a task of that
session which has not ended. A task removes the entry under its session's id,
whoever put it there; the invariant holds because it does so as its last step.
After main has returned the runtime drops tasks and leaves entries, hence the
`gone` case of `EntryInv`.

*Orphans.* While a row says running, a worker that will write it over is on
duty, or the process it names is dead (`OnDuty`); an open run lies behind a
row that says running or failed. So a session without a lock holder has a dead
pid, and shows as Failed. Two premises, both needed: a refused store write can
leave a row that says running under a process that lives on, and a zombie
answers the probe of its pid (section 6).

*Batches.* The invariant cuts the calls in three: those before `idx` have
ended, those from `end` on have not started, and between them lies one group,
parallel throughout or a single serial call. Then a serial call never meets
another, a parallel one finds exactly the changes of the serial calls before
it, and the vector is filled left to right. This is proved of
BatchScheduler on its own; LoopRunsBatches says that AgentTurn uses it as
`BatchSpec` allows, so all of it holds in the loop.

*The loop.* `TurnInv` adds to that the types of everything a call may return
(`CallTypes`), that the batch which runs is the calls of the last response
(`BatchIsTheResponse`), and that every call of the transcript has its result
in the next message (`CallsAreAnswered`). The first needs a lemma for what each
adapter makes of a whole reply, of the first part of one and of one event more
(`AnthropicResponseIs`, `ParseStreamIs`, `ChatResponseIs`, `HandleIs`,
`FinishIs`), and under them that what is put together from sequences over a
set is one (`FlattenIs`). The second gives a batch as many outputs as the
response has calls, which is what pairing by position relies on. The model's
replies are any sequences of texts, calls and thinking (`TurnAssumption`).

*Worktrees.* The row is written before git makes the tree, so a tree that was
made is recorded (`RecordComesFirst`), and a process that read the row after
that has read the record, as has one that read it when git had failed; the
record is never taken back. What it read is what `decide` goes by, hence never
the shared checkout. `LockIsHeld` carries the
lock from the lock step to the end of the run, over a `locate` that comes
after it (CLI) or before it (pen). That nothing is lost is a property of every
step: git adds, only the user removes.

*Confinement.* A sandbox opens one directory, the one a run was placed in
(`Bounded`); a child placed where its parent works takes the parent's sandbox
as it is, which is wrong only if that directory is the child's own tree, by
then standing again. `Line` says that the sessions above one form a chain
without a cycle and are no more than those it works for, and `Below` that a
process comes from, and falls back to, a tree of a session above its own. With
these TreesAreForTheirLine follows too. The premise of both is that no command is typed in a
worktree of bullpen: a run typed in one, at a moment when git does not see the
tree, gets a sandbox without the repository, and a child that is placed in
that tree later takes the sandbox as it is; and it works there
itself without being of that session's line. The Placement run has the same
directories.

*Credentials.* Both properties are about states in which no two saves have
overlapped and none has replaced a store it had not loaded (`Calm`). Then one
process at most is inside a save, and the temporary file it holds is not the
store (`FileInv`); a process that is not stale will save the store with its
own provider replaced (`LoadInv`); hence a rename is what StoreIsKept says.
For the login, `TokenInv` says that what is about to be saved is the stored
token or an unused one: good, and held by no process that may refresh with it
(`Unused`). A refresh that uses the stored token up leaves its caller with an
unused one, a new token being greater than all given out before.

The types of AuthStore need no calm. That a save always finds a file for its
temporary name is a count: no more files are open than processes are in a
save, and a leftover temporary file that none of them holds was left by a
process that is not in one any more (`Spare`).

*Files.* The agents share nothing but the file, and what one has read may be
old when it writes, so the invariant is about lines, wherever they are: in the
file, shown to an agent, read by a call, about to be written (`AllLines`). An
id stands for one line (`OneLinePerId`); an anchor's hash is that of the line
it was taken from (`AnchorsAreTrue`); a line whose loss would count is not
blank (`OwedAreSolid`). AnchorsFollowTheirLine is then a fact about
`resolve_anchor`. LinesLeaveOnPurpose needs what an accepted edit does to any
text (`EditedOK`): it keeps every line outside its spans, adds its content,
repeats nothing. For a patch this is a chain of lemmas: one splice
(`SplicedHas`, `SplicedFrom`, `SplicedDistinct`), two in order of their
starts that do not overlap (`SplicedTwice`), what parsing makes of hunks in
either order (`PatchedTwo`). For an exact string, that a count of one implies
a first occurrence (`NoMatch`). Patches have one or two hunks, as in the
model; texts, lines per call (`MaxWords`), agents and changes by others are
any number. NoCapIsSilent goes through the tools one by one; for a tar,
that a scan which reaches the end has read every header (`ScanReads`). It
needs that a listing keeps at least one entry, as an empty one is taken for
that of an empty archive.

*Sequences.* What an adapter does to a transcript is mostly to convert each
element to a short sequence and put these together (`FlatMap`). SequenceLemmas
has the laws of this: what it is of one element more, of two sequences in a
row, of one conversion after another (`FlatMapThrough`), of conversions that
agree. They rest on an induction over sequences which takes the property as
the set of those that have it (`SeqInduction`), the library's, with an
operator, being of no use to the prover.

*The wire.* What is said is a sequence of atoms: a fragment of text, a call, a
result, a reasoning item that can be replayed. For each format it is shown
that the wire form of one message has the message's atoms (`AnthropicSays`,
`ChatSays`, and for Codex, where text is gathered until something else comes,
by an induction on what has been gathered), hence that of a transcript the
transcript's. Only Codex sends reasoning back, and only its own: the types of
what each adapter puts in a response (`ResponseContent`, `Fitting`) say so.
`Transcript` says that the messages have the atoms of what was said, the
response whose calls still run counted in, and that on the wire each call is
followed by its results, which is kept by adding a response without calls, or
one with calls and its results together. With `CallIsMade`, which ties the
request of every attempt to the transcript, this is RequestsAreFaithful.
What was heard must be what the server said: `CallReturns` says so of a whole
reply, through the three ways back and the stream.

*Replies.* A stream in one piece has at each event put together what the
events so far say (`Replayed`), and at its end the blocks of the reply without
its blank texts, which the accumulator drops and a body keeps; `Substance` is
a response without them. For this, a delta must find its block; as blocks are
opened in order and an index is looked up, this is an induction over the
blocks of the reply, and over the pieces of one. What the user was shown needs
it of streams that are not whole: a garbled chunk changes a text but not the
kinds of the blocks (`Shape`), so every delta to come finds its place, and
what was shown is the text taken (`StreamShown`), cut, garbled or not.

*Patches.* PatchIsItsSplices compares `edit_file`, which applies hunks from
the last to the first, with one walk over the text that was read
(`AtOnce`). The walk keeps the lines between the hunks: its result is cut at
the spans (`RunIs`, `PiecesAre`), once for one hunk (`AtOnceOne`), twice for
two (`AtOnceTwo`), and so is that of the splices (`SplicedBoth`); the order of
the hunks plays no part where they do not touch.

Every safety property of the passing runs, invariant or action property, is
thus stated by a theorem. Only model-checked: liveness (EveryProcessEnds,
EveryChildSettles, EveryRunEnds, NoLoginWaitsForItsUser), which is out of the prover's
reach, as ENABLED is; and what the runs of section 6 refute.

## 5. Reading the properties

Where a property may look weaker than one would like, the code is the reason.

ClosedRunIsSettled speaks of *journaled* intents, since the assistant entry
comes first (DanglingCall). EntryHasTask does not say that a running task has
an entry, and CompletedIsTrue speaks of the row, while the answer is a
separate query. OrphanIsFailed is checked without zombies. All four are in
section 6.

RunsInItsOwnTree and WholeReplyIsDelivered have a premise about the past: a
row that was read before a worktree was recorded (`run -r` reads it before it
takes the lock) promises nothing, and neither does a reply of which a part is
missing (CutStream). StoreKeepsWhatWasSaved and LoginStaysUsable
exclude overlapping saves (TornStore) and a save of what was loaded before
another's save: nothing in the code prevents either. LinesLeaveOnPurpose
excludes a write over a text that was not read (nothing is checked between
read and write) and a death between truncation and fill; blank lines are
exempt, as a file whose remaining content is one blank line becomes empty.
AnchorsFollowTheirLine allows a twin at the anchored number (StaleAnchor).

NoSilentCap is about the caps, budgets and truncations: what a tool took in and
does not show, it says is cut, and nothing is reported as missing that is
there. It does not say that a tool took in all there is. The views called
selections leave something out without a word; for every other the property
asks that it be said.

NoStrangerInATree is not "one run per tree": a child without a worktree of its
own works in that of its parent, beside it, and so do that child's. What it
says is that nobody else does.

NoLoginWaitsForItsUser bounds the two waits for a person. It does not say that
a login ends: the key exchange may hang.

## 6. Where a document and the code disagree

With a run:

1. DanglingCall: a crash after the assistant entry, before the first intent,
   leaves a call that nothing answers (`agent/src/lib.rs:226`); the agent's
   module comment promises one result per call.
2. CutStream: a stream of the Anthropic adapter that ends without its last
   events is returned as a complete response (`llm/src/anthropic.rs:253`) and
   stored; `ARCHITECTURE.md:189` says that partial streams are never persisted.
3. StaleAnchor: an anchor is taken at its number whenever the hash there
   agrees (`tools/src/fs.rs:365`), so after twin lines have moved an edit
   lands on the wrong one; `README.md:41-45` says it cannot.
4. TornStore: all saves share `auth.json.tmp` without a lock
   (`auth/src/lib.rs:113`); one truncates the file another is renaming, and
   what is in place does not parse. The module says "written atomically".

Seen while modelling. The passing runs keep clear of these, by a bound or a
premise named above, and have no property about them:

- A failed run ends on a user message and the next run appends another
  (`agent/src/lib.rs:184`); the closing note that prevents it
  (`store/src/recovery.rs:80-82`) is written for aborted runs only.
- A `max_tokens` response that carries calls is executed and continued
  (`agent/src/lib.rs:242`), against `ARCHITECTURE.md:89-90`.
- A provider that repeats a tool_use id in a later turn of a run gets its
  second call executed without an intent (`harness/src/lib.rs:132`).
- A cancelled child has no registry entry while it still runs
  (`harness/src/job.rs:220`), so a second cancel says it runs in another
  process; `harness/src/pen.rs:41-42` says an entry is there while it runs.
- `job wait` (`harness/src/job.rs:195`) and reattach
  (`harness/src/pen.rs:325`) read a status and then a transcript; newer text
  of a resumed child can be returned as the report.
- A dispatched process that dies stays in the process table while its
  dispatcher lives (`cli/src/bg.rs:60`), and its session shows as Working
  (`store/src/status.rs:53`).
- `agent/src/journal.rs:60` says that run_finished is "Called exactly once";
  when a write inside it fails after the finish record of a completed run,
  `send` calls it again with "failed". The second call adds no row
  (ClosedRunIsQuiet holds). A crash between the finish record and the clearing
  of the lane marker leaves a stale marker, which no code reads.
- A crash between `create_session` and `set_worktree` leaves a row without a
  worktree, which `run -r` places in the shared checkout. "Neither survives"
  is also reported when the directory of the row is no longer in a repository,
  and a child whose parent's tree was removed is refused as Occupied.
- `str::matches` counts occurrences that do not overlap, so an ambiguous exact
  string can pass as unique; a patch drops carriage returns; grep and glob say
  "capped" at exactly the cap; a tar that fits its scan budget exactly is
  reported as over it; killing a command kills the shell only.
- What a look leaves out silently: `grep` skips files it cannot read as text,
  hidden ones and errors of the walk (`tools/src/search.rs:59-66`), so "no
  matches" may be wrong; `ast_grep` drops output lines that do not parse
  (`tools/src/ast.rs:172`); `read_file` does not say that a window is one
  (`tools/src/fs.rs:190-199`); `gh` drops stderr when it prints anything
  (`tools/src/github.rs:162-167`); a gzip file is read up to the end of its first
  member (`tools/src/archive.rs:315`), and so is a compressed tar, which the
  model takes to have one; the overview of a database leaves out views and tables named like
  SQLite's own. `glob` sorts its notice "capped" among the results.
- The key exchange of the browser login has no timeout
  (`auth/src/openrouter.rs:43`), while the wait before it has one.
- An `agent` call with `background` is taken as parallel-safe
  (`harness/src/pen.rs:248-260`): its child may change the shared checkout
  beside the calls that follow. EffectsLookSequential is about changes made
  within a call.
- The version probe of ast-grep and git, when worktrees are made and inspected,
  are waited for without a limit.
- The browser login serves connections one at a time with one read each: a
  silent connection blocks the callback until the timeout. One failed poll
  request ends a device login, and a poll gives up as much as one interval
  before the deadline. The loser of two renames reports a failure although its
  bytes are in place.

## 7. Plan

Done: SessionStore and DurableRun with their contract, SessionWorker and Pen,
AgentTurn with its adapters and BatchScheduler, Placement, Workspace,
AuthStore; proofs of all of them.
What is left, most useful first:

| subject | what it would add |
|---|---|
| usage totals in Pen | the totals read before the lock and written after the run |
| AgentTurn over DurableRun | a refinement: the loop of AgentTurn as the journal's steps |
| todos, migration | small, and serialised by the store |
