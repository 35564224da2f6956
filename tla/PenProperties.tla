---------------------------- MODULE PenProperties ----------------------------
(***************************************************************************)
(* What the worker lifecycle and the pen are expected to guarantee.        *)
(***************************************************************************)
EXTENDS Pen

\* Types of all variables.
TypeOK ==
    /\ WorkerTypeOK
    /\ registry \in [Hosts -> [Kids -> Jobs \union {Nobody}]]
    /\ call \in Call
    /\ report \in Kids \union {Nobody}

-----------------------------------------------------------------------------
(* Invariants.                                                             *)

\* From start_worker to its end a worker holds the session's lock, and the row
\* says running under its generation and its pid: of the processes and child
\* tasks that are started on one session at most one acts, and no other
\* changes the row behind its back.
RowNamesOwner ==
    \A w \in Workers : worker[w].pc \in {"recover", "begin", "run", "finish", "drop"} =>
        LET s == worker[w].session IN
        /\ lock[s] = w
        /\ row[s].status = "running"
        /\ row[s].gen = w
        /\ row[s].pid = worker[w].host

\* A session shown as Completed has its answer: no run is open, the last one
\* completed and its report ends the transcript.  The status column and the
\* records are written by different statements, and a worker can be timed
\* out, cancelled, dropped or killed between any two of them.
CompletedIsTrue ==
    \A s \in Sessions : row[s].status = "completed" =>
        /\ ~run[s].open
        /\ run[s].completed
        /\ run[s].text = "report"

\* The child budget counts rows, so neither a crash between the two inserts
\* of a child nor a restart of the parent makes room for one more.
BudgetHolds == Cardinality(Children) <= MaxChildren

\* A cancel sender that is kept belongs to a task of that child which is still
\* running here: no end of a task (lock refused, failed write, cancelled)
\* leaves an entry, which would make the child unreachable for good.
EntryHasTask ==
    \A h \in Hosts, s \in Kids : Parent(h) /\ registry[h][s] # Nobody =>
        LET j == registry[h][s] IN
        /\ worker[j].session = s
        /\ worker[j].host = h
        /\ worker[j].kind = "background"

\* An interrupted run nobody works on is shown as Failed, whatever killed its
\* worker: the task's deadline, a cancellation, the end of the parent process
\* or a crash anywhere in the lifecycle.  (status.rs: "a session marked
\* `running` whose process is gone crashed and is recoverable".)
OrphanIsFailed ==
    \A s \in Sessions : run[s].open /\ lock[s] = Nobody => AgentStatus(s) = "Failed"

-----------------------------------------------------------------------------
(* Liveness.                                                               *)

\* Every child task ends, though its provider may never answer: by its
\* deadline, its cancellation or the end of its process.
EveryChildSettles == \A j \in Jobs : At(j, "acquire") ~> At(j, "gone")
=============================================================================
