--------------------------- MODULE SessionWorker ---------------------------
(***************************************************************************)
(* Who works on a session, and what its row says about it.  A worker is    *)
(* one SessionWorker guard (crates/store/src/worker.rs): the lock on       *)
(* run/<session>.lock, and the generation under which it wrote the row's   *)
(* status and pid.  It belongs to a process: a process running `bullpen    *)
(* run` has one worker of its own, and the pen's child tasks run further   *)
(* ones in the same process, under the same pid.                           *)
(*                                                                         *)
(* What a worker does to the transcript is abstracted to what other        *)
(* sessions and the dashboard can read of it: whether a run is open, the   *)
(* outcome of the last finished one, and whose text the last assistant     *)
(* message is.  (DurableRun has the steps of a run.)                       *)
(***************************************************************************)
EXTENDS Naturals, FiniteSets

CONSTANTS
    Hosts,       \* processes; a host is also the name of its own worker
    Jobs,        \* child tasks
    Root,        \* the session whose agent owns the pen
    Kids,        \* the sessions its tool calls name
    Nobody,      \* no worker, no process, no session
    Zombies,     \* TRUE if a process may end without being waited for
    Faults       \* which faults occur, a subset of WorkerFault

WorkerFault == {"crash", "store", "provider"}

ASSUME WorkerAssumption ==
    /\ Hosts \intersect Jobs = {}
    /\ Root \notin Kids
    /\ Nobody \notin Hosts \union Jobs \union Kids \union {Root}
    /\ Zombies \in BOOLEAN
    /\ Faults \subseteq WorkerFault

VARIABLES
    row,         \* row[s]: the sessions row, and whether its lane row exists
    run,         \* run[s]: what the records and entries of s amount to
    lock,        \* lock[s]: the worker that holds the file lock
    worker,      \* worker[w]: program point and parameters
    process      \* process[h]: "unborn", "alive", "zombie" or "dead"

workerVars == <<row, run, lock, worker, process>>

Sessions == Kids \union {Root}
Workers  == Hosts \union Jobs

-----------------------------------------------------------------------------
\* `gen` is a fresh uuid per start; a worker starts at most once, so it is
\* named by the worker.
Row == [made   : {"no", "session", "lane"},
        status : {"idle", "running", "completed", "failed"},
        pid    : Hosts \union {Nobody},
        gen    : Workers \union {Nobody}]

NoRow == [made |-> "no", status |-> "idle", pid |-> Nobody, gen |-> Nobody]

\* `completed`: the last operation_finished record says so.  `text`: what the
\* last assistant message on the path is, the report that closed a completed
\* run ("report") or anything else ("other").
Run == [open : BOOLEAN, completed : BOOLEAN, text : {"none", "other", "report"}]

NoRun == [open |-> FALSE, completed |-> FALSE, text |-> "none"]

\* "drop" is SessionWorker::drop with a generation left, "unlock" without;
\* "remove" is the end of a background task, after run_child returned.
WorkerPc == {"unused", "acquire", "start", "recover", "begin", "run", "finish",
             "drop", "unlock", "remove", "gone"}

Worker == [pc      : WorkerPc,
           host    : Hosts \union {Nobody},
           session : Sessions \union {Nobody},
           kind    : {"cli", "foreground", "background"},
           status  : {"completed", "failed"},     \* argument of finish
           cancel  : BOOLEAN]                     \* the cancel receiver is ready

Unused == [pc |-> "unused", host |-> Nobody, session |-> Nobody, kind |-> "cli",
           status |-> "failed", cancel |-> FALSE]

Gone == [Unused EXCEPT !.pc = "gone"]

WorkerInit ==
    /\ row = [s \in Sessions |-> IF s = Root THEN [NoRow EXCEPT !.made = "lane"] ELSE NoRow]
    /\ run = [s \in Sessions |-> NoRun]
    /\ lock = [s \in Sessions |-> Nobody]
    /\ worker = [w \in Workers |-> Unused]
    /\ process = [h \in Hosts |-> "unborn"]

At(w, l) == worker[w].pc = l

Goto(w, l) == worker' = [worker EXCEPT ![w].pc = l]

Fault(f) == f \in Faults

\* A worker whose guard is gone: a background task has one more thing to do.
Leave(w) ==
    worker' = [worker EXCEPT ![w] = IF @.kind = "background" THEN [@ EXCEPT !.pc = "remove"] ELSE Gone]

-----------------------------------------------------------------------------
(* Status derivation (crates/store/src/status.rs).                         *)

\* kill(pid, 0) succeeds on anything that still has a process table entry.
PidAlive(h) == h # Nobody /\ process[h] \in {"alive", "zombie"}

\* derive: liveness only matters while the row says running.
AgentStatus(s) ==
    CASE row[s].status = "running" -> IF PidAlive(row[s].pid) THEN "Working" ELSE "Failed"
      [] row[s].status = "completed" -> "Completed"
      [] row[s].status = "failed" -> "Failed"
      [] row[s].status = "idle" -> "Idle"

-----------------------------------------------------------------------------
(* A process is started on an existing session: `bullpen run`, `run -r`,   *)
(* or a dispatch, which is a detached `run --resume`.                      *)

Launch(h, s) ==
    /\ process[h] = "unborn"
    /\ row[s].made # "no"
    /\ process' = [process EXCEPT ![h] = "alive"]
    /\ worker' = [worker EXCEPT ![h] = [Unused EXCEPT !.pc = "acquire", !.host = h, !.session = s]]
    /\ UNCHANGED <<row, run, lock>>

\* Slip: the lock file is opened and not locked.
AcquireUnlocked(w) ==
    LET s == worker[w].session IN
    /\ At(w, "acquire")
    /\ lock' = [lock EXCEPT ![s] = w]
    /\ Goto(w, "start")
    /\ UNCHANGED <<row, run, process>>

\* SessionWorker::acquire.  A held lock is an error, never a wait.
Acquire(w) ==
    LET s == worker[w].session IN
    /\ At(w, "acquire")
    /\ \/ /\ lock[s] = Nobody
          /\ lock' = [lock EXCEPT ![s] = w]
          /\ Goto(w, "start")
       \/ /\ lock[s] # Nobody
          /\ Leave(w)
          /\ UNCHANGED lock
    /\ UNCHANGED <<row, run, process>>

\* Slip: only the pid and the generation are written.
StartKeepsStatus(w) ==
    LET s == worker[w].session IN
    /\ At(w, "start")
    /\ row' = [row EXCEPT ![s].pid = worker[w].host, ![s].gen = w]
    /\ Goto(w, "recover")
    /\ UNCHANGED <<run, lock, process>>

\* SessionWorker::start, Store::start_worker.
Start(w) ==
    LET s == worker[w].session IN
    /\ At(w, "start")
    /\ row' = [row EXCEPT ![s].status = "running", ![s].pid = worker[w].host, ![s].gen = w]
    /\ Goto(w, "recover")
    /\ UNCHANGED <<run, lock, process>>

\* prepare_session: an open run is closed as aborted; a closing note is
\* appended if the transcript would end on a user message.
Recover(w) ==
    LET s == worker[w].session IN
    /\ At(w, "recover")
    /\ IF run[s].open
       THEN \E x \in {run[s].text, "other"} :
              run' = [run EXCEPT ![s] = [open |-> FALSE, completed |-> FALSE, text |-> x]]
       ELSE UNCHANGED run
    /\ Goto(w, "begin")
    /\ UNCHANGED <<row, lock, process>>

\* Agent::send's run_started.  Without a lane row the user entry cannot be
\* appended; the error leaves the run open.
Begin(w) ==
    LET s == worker[w].session IN
    /\ At(w, "begin")
    /\ run' = [run EXCEPT ![s].open = TRUE]
    /\ IF row[s].made = "lane"
       THEN Goto(w, "run")
       ELSE worker' = [worker EXCEPT ![w].pc = "finish", ![w].status = "failed"]
    /\ UNCHANGED <<row, lock, process>>

-----------------------------------------------------------------------------
(* The run, as it looks from outside.  Every step here needs the provider. *)

\* An assistant message that asks for tools.
Turn(w) ==
    LET s == worker[w].session IN
    /\ At(w, "run")
    /\ run' = [run EXCEPT ![s].text = "other"]
    /\ UNCHANGED <<row, lock, worker, process>>

\* send returns the answer.
Complete(w) ==
    LET s == worker[w].session IN
    /\ At(w, "run")
    /\ run' = [run EXCEPT ![s] = [open |-> FALSE, completed |-> TRUE, text |-> "report"]]
    /\ worker' = [worker EXCEPT ![w].pc = "finish", ![w].status = "completed"]
    /\ UNCHANGED <<row, lock, process>>

\* Slip: the outcome of the run is used as the session's status.
FailRawOutcome(w) ==
    LET s == worker[w].session IN
    /\ At(w, "run")
    /\ Fault("provider")
    /\ run' = [run EXCEPT ![s].open = FALSE, ![s].completed = FALSE]
    /\ worker' = [worker EXCEPT ![w].pc = "finish", ![w].status = "truncated"]
    /\ UNCHANGED <<row, lock, process>>

\* send returns an error and has closed the run (failed, truncated, turn
\* limit), or could not.  A run whose finish record was written as completed
\* before a later write of run_finished failed is an error too.
Fail(w) ==
    LET s == worker[w].session IN
    /\ At(w, "run")
    /\ \/ /\ Fault("provider")
          /\ run' = [run EXCEPT ![s].open = FALSE, ![s].completed = FALSE]
       \/ /\ Fault("store")
          /\ UNCHANGED run
       \/ /\ Fault("store")
          /\ run' = [run EXCEPT ![s] = [open |-> FALSE, completed |-> TRUE, text |-> "report"]]
    /\ worker' = [worker EXCEPT ![w].pc = "finish", ![w].status = "failed"]
    /\ UNCHANGED <<row, lock, process>>

-----------------------------------------------------------------------------
(* The end of a worker.                                                    *)

\* Store::finish_worker: conditional on the generation.
FinishRow(w, status) ==
    LET s == worker[w].session IN
    row' = IF row[s].gen = w
           THEN [row EXCEPT ![s].status = status, ![s].pid = Nobody, ![s].gen = Nobody]
           ELSE row

\* SessionWorker::finish; a row that is not ours keeps the generation set.
Finish(w) ==
    /\ At(w, "finish")
    /\ FinishRow(w, worker[w].status)
    /\ Goto(w, IF row[worker[w].session].gen = w THEN "unlock" ELSE "drop")
    /\ UNCHANGED <<run, lock, process>>

\* SessionWorker::drop: a generation still set means failed; then unlock.
Drop(w) ==
    LET s == worker[w].session IN
    /\ \/ /\ At(w, "drop")
          /\ FinishRow(w, "failed")
          /\ Goto(w, "unlock")
          /\ UNCHANGED lock
       \/ /\ At(w, "unlock")
          /\ lock' = [lock EXCEPT ![s] = Nobody]
          /\ Leave(w)
          /\ UNCHANGED row
    /\ UNCHANGED <<run, process>>

\* A store call fails and writes nothing.  From start there is no generation
\* yet; drop ignores the error.
StoreFails(w) ==
    /\ Fault("store")
    /\ \/ At(w, "start") /\ Goto(w, "unlock")
       \/ At(w, "recover") /\ Goto(w, "drop")
       \/ At(w, "begin") /\ worker' = [worker EXCEPT ![w].pc = "finish", ![w].status = "failed"]
       \/ At(w, "finish") /\ Goto(w, "drop")
       \/ At(w, "drop") /\ Goto(w, "unlock")
    /\ UNCHANGED <<row, run, lock, process>>

-----------------------------------------------------------------------------
(* The end of a process.                                                   *)

\* The workers of h that are not gone.
WorkersOf(h) == {w \in Workers : worker[w].host = h}

\* main has returned and the runtime is shutting down.
Exiting(h) == process[h] = "alive" /\ At(h, "gone")

\* A child of a process that does not wait for it stays in the process table.
Ended == IF Zombies THEN {"dead", "zombie"} ELSE {"dead"}

Exit(h) ==
    /\ Exiting(h)
    /\ WorkersOf(h) = {}
    /\ \E e \in Ended : process' = [process EXCEPT ![h] = e]
    /\ UNCHANGED <<row, run, lock, worker>>

\* SIGKILL or power loss: no destructor runs, the kernel drops the locks.
Crash(h) ==
    /\ Fault("crash")
    /\ process[h] = "alive"
    /\ \E e \in Ended : process' = [process EXCEPT ![h] = e]
    /\ lock' = [s \in Sessions |-> IF lock[s] \in WorkersOf(h) THEN Nobody ELSE lock[s]]
    /\ worker' = [w \in Workers |->
                    IF w \in WorkersOf(h) THEN Gone ELSE worker[w]]
    /\ UNCHANGED <<row, run>>

\* The dispatcher ends: its children are adopted and reaped.
Reap(h) ==
    /\ process[h] = "zombie"
    /\ process' = [process EXCEPT ![h] = "dead"]
    /\ UNCHANGED <<row, run, lock, worker>>

-----------------------------------------------------------------------------
WorkerTypeOK ==
    /\ row \in [Sessions -> Row]
    /\ run \in [Sessions -> Run]
    /\ lock \in [Sessions -> Workers \union {Nobody}]
    /\ worker \in [Workers -> Worker]
    /\ process \in [Hosts -> {"unborn", "alive", "zombie", "dead"}]
=============================================================================
