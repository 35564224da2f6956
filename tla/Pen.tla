-------------------------------- MODULE Pen --------------------------------
(***************************************************************************)
(* Durable subagents: the `agent` tool (crates/harness/src/pen.rs) and the *)
(* `job` tool (crates/harness/src/job.rs) of the process that runs the     *)
(* root session, and the processes a user starts beside it, on the root or *)
(* on a child.                                                             *)
(*                                                                         *)
(* A child session is named by parent and tool call, so Kids stands for    *)
(* the tool calls as well.  PenTool::run does not await before it spawns   *)
(* the child or enters it, so at most one call is in that part (variable   *)
(* `call`); child tasks and other processes run between any two of its     *)
(* steps.  Where a child runs (worktree, sandbox, tools) is left out, and  *)
(* so is a pen opened by a process that resumes a child.                   *)
(***************************************************************************)
EXTENDS SessionWorker

CONSTANTS
    MaxChildren,     \* PenConfig::max_children
    Resumes          \* TRUE if a user may start `run -r` on a child

ASSUME PenAssumption == MaxChildren \in Nat /\ Resumes \in BOOLEAN /\ IsFiniteSet(Kids)

VARIABLES
    registry,        \* registry[h][s]: the task whose cancel sender host h keeps for s
    call,            \* the agent call that is being dispatched
    report           \* the child whose answer job wait is about to read

penVars == <<registry, call, report>>

vars == <<row, run, lock, worker, process, registry, call, report>>

Call == [pc : {"none", "budget", "lane", "outcome", "answer", "place"},
         session : Kids \union {Nobody}, background : BOOLEAN]

NoCall == [pc |-> "none", session |-> Nobody, background |-> FALSE]

NoEntries == [s \in Kids |-> Nobody]

PenInit ==
    /\ registry = [h \in Hosts |-> NoEntries]
    /\ call = NoCall
    /\ report = Nobody

Init == WorkerInit /\ PenInit

\* The process whose agent is in a tool batch or at the provider for Root.
Parent(h) == process[h] = "alive" /\ worker[h].session = Root /\ At(h, "run")

Foreground(h) == {j \in Jobs : /\ worker[j].host = h
                               /\ worker[j].kind = "foreground"}

\* Whether h's agent task is between two awaits: the pen's dispatch, a wait
\* that reads an answer, and a foreground child all run in that task.
Busy(h) ==
    \/ call # NoCall
    \/ report # Nobody
    \/ \E j \in Foreground(h) : ~At(j, "run")

\* A tool batch ends when its calls have answered.
BatchOpen(h) == Busy(h) \/ Foreground(h) # {}

Calling(l) == call.pc = l

-----------------------------------------------------------------------------
(* PenTool::run.                                                           *)

\* The tool_use ids of one batch are distinct; a later batch may name a child
\* again.  One this process has in flight is reported and not respawned, which
\* changes nothing.  (Bound: as many calls as there are Jobs get through.)
CallAgent(h, s, b) ==
    /\ Parent(h)
    /\ ~Busy(h)
    /\ \A j \in Foreground(h) : worker[j].session # s
    /\ registry[h][s] = Nobody
    /\ \E j \in Jobs : At(j, "unused")
    /\ call' = [pc |-> "budget", session |-> s, background |-> b]
    /\ UNCHANGED <<row, run, lock, worker, process, registry, report>>

Children == {s \in Kids : row[s].made # "no"}

\* Slip: one child too many.
BudgetOffByOne ==
    LET s == call.session IN
    /\ Calling("budget")
    /\ \/ /\ row[s].made # "no"
          /\ call' = [call EXCEPT !.pc = "outcome"]
          /\ UNCHANGED row
       \/ /\ row[s].made = "no"
          /\ Cardinality(Children) > MaxChildren
          /\ call' = NoCall
          /\ UNCHANGED row
       \/ /\ row[s].made = "no"
          /\ Cardinality(Children) <= MaxChildren
          /\ row' = [row EXCEPT ![s].made = "session"]
          /\ call' = [call EXCEPT !.pc = "lane"]
    /\ UNCHANGED <<run, lock, worker, process, registry, report>>

\* The budget holds for new children only; then create_child_session inserts
\* the session row, and returns early if it is there.
CheckBudget ==
    LET s == call.session IN
    /\ Calling("budget")
    /\ \/ /\ row[s].made # "no"
          /\ call' = [call EXCEPT !.pc = "outcome"]
          /\ UNCHANGED row
       \/ /\ row[s].made = "no"
          /\ Cardinality(Children) >= MaxChildren
          /\ call' = NoCall
          /\ UNCHANGED row
       \/ /\ row[s].made = "no"
          /\ Cardinality(Children) < MaxChildren
          /\ row' = [row EXCEPT ![s].made = "session"]
          /\ call' = [call EXCEPT !.pc = "lane"]
    /\ UNCHANGED <<run, lock, worker, process, registry, report>>

\* The second insert of create_child_session.
InsertLane ==
    /\ Calling("lane")
    /\ row' = [row EXCEPT ![call.session].made = "lane"]
    /\ call' = [call EXCEPT !.pc = "place"]
    /\ UNCHANGED <<run, lock, worker, process, registry, report>>

\* Reattach: last_run_outcome looks at finish records only.
ReadOutcome ==
    /\ Calling("outcome")
    /\ call' = [call EXCEPT !.pc = IF run[call.session].completed THEN "answer" ELSE "place"]
    /\ UNCHANGED <<workerVars, registry, report>>

\* path_messages: the last assistant message is returned.
Reattach ==
    /\ Calling("answer")
    /\ call' = NoCall
    /\ UNCHANGED <<workerVars, registry, report>>

\* Run the child in this task, or spawn a task with a cancel channel.
Spawn(h, j) ==
    LET s == call.session IN
    /\ Parent(h)
    /\ Calling("place")
    /\ At(j, "unused")
    /\ worker' = [worker EXCEPT ![j] =
                    [Unused EXCEPT !.pc = "acquire", !.host = h, !.session = s,
                                   !.kind = IF call.background THEN "background" ELSE "foreground"]]
    /\ registry' = IF call.background THEN [registry EXCEPT ![h][s] = j] ELSE registry
    /\ call' = NoCall
    /\ UNCHANGED <<row, run, lock, process, report>>

\* A store call fails, or place_child does: the tool answers with an error.
CallFails ==
    /\ Fault("store")
    /\ call # NoCall
    /\ call' = NoCall
    /\ UNCHANGED <<workerVars, registry, report>>

-----------------------------------------------------------------------------
(* run_child beyond the worker's own steps.                                *)

\* Slip: the deadline does not cover background children.
TimeOutForegroundOnly(j) ==
    /\ At(j, "run")
    /\ worker[j].kind = "foreground"
    /\ worker' = [worker EXCEPT ![j].pc = "finish", ![j].status = "failed"]
    /\ UNCHANGED <<row, run, lock, process>>

\* Slip: a child that timed out counts as done.
TimeOutCompletes(j) ==
    /\ At(j, "run")
    /\ worker' = [worker EXCEPT ![j].pc = "finish", ![j].status = "completed"]
    /\ UNCHANGED <<row, run, lock, process>>

\* child_timeout: the send future is dropped, the run stays open.
TimeOut(j) ==
    /\ At(j, "run")
    /\ worker' = [worker EXCEPT ![j].pc = "finish", ![j].status = "failed"]
    /\ UNCHANGED <<row, run, lock, process>>

\* The cancel receiver resolves: same end.
Cancelled(j) ==
    /\ At(j, "run")
    /\ worker[j].cancel
    /\ worker' = [worker EXCEPT ![j].pc = "finish", ![j].status = "failed"]
    /\ UNCHANGED <<row, run, lock, process>>

\* Slip: a task that never got its session leaves its entry.
RemoveIfAcquired(j) ==
    LET h == worker[j].host
        s == worker[j].session
    IN
    /\ At(j, "remove")
    /\ registry' = IF row[s].status = "idle" THEN registry ELSE [registry EXCEPT ![h][s] = Nobody]
    /\ worker' = [worker EXCEPT ![j] = Gone]
    /\ UNCHANGED <<row, run, lock, process>>

\* The end of a background task: it removes the entry under its session's id,
\* whoever put it there.  A sender dropped with it fires its receiver.
Remove(j) ==
    LET h == worker[j].host
        s == worker[j].session
        owner == registry[h][s]
    IN
    /\ At(j, "remove")
    /\ registry' = [registry EXCEPT ![h][s] = Nobody]
    /\ worker' = [w \in Workers |-> IF w = j THEN Gone
                                    ELSE IF w = owner THEN [worker[w] EXCEPT !.cancel = TRUE]
                                    ELSE worker[w]]
    /\ UNCHANGED <<row, run, lock, process>>

\* The runtime of a process that has returned from main drops its tasks at
\* their next await, or before their first poll.
Dropped(j) ==
    /\ worker[j].host # Nobody
    /\ Exiting(worker[j].host)
    /\ \/ At(j, "run") /\ Goto(j, "drop")
       \/ At(j, "acquire") /\ worker' = [worker EXCEPT ![j] = Gone]
    /\ UNCHANGED <<row, run, lock, process>>

-----------------------------------------------------------------------------
(* JobTool::run.                                                           *)

\* wait: the status it polls says completed; the answer is a later query.
\* Working and Idle poll again, Failed and the deadline answer with an error.
WaitCompleted(h, s) ==
    /\ Parent(h)
    /\ ~Busy(h)
    /\ s \in Children
    /\ AgentStatus(s) = "Completed"
    /\ report' = s
    /\ UNCHANGED <<workerVars, registry, call>>

WaitAnswer ==
    /\ report # Nobody
    /\ report' = Nobody
    /\ UNCHANGED <<workerVars, registry, call>>

\* cancel runs alone in its batch.  Without an entry it answers that the child
\* runs in another process, or does not run: no step.
CancelJob(h, s) ==
    /\ Parent(h)
    /\ ~BatchOpen(h)
    /\ registry[h][s] # Nobody
    /\ worker' = [worker EXCEPT ![registry[h][s]].cancel = TRUE]
    /\ registry' = [registry EXCEPT ![h][s] = Nobody]
    /\ UNCHANGED <<row, run, lock, process, call, report>>

-----------------------------------------------------------------------------
Lifecycle(w) ==
    \/ Acquire(w) \/ Start(w) \/ Recover(w) \/ Begin(w)
    \/ Finish(w) \/ Drop(w)

Provided(w) == Turn(w) \/ Complete(w) \/ Fail(w)

\* Whether w's send future can be polled now: a parent goes on between tool
\* batches, a foreground child while the parent's task awaits.
Polled(w) ==
    /\ w \in Hosts /\ Parent(w) => ~BatchOpen(w)
    /\ worker[w].kind = "foreground" => ~Busy(worker[w].host)

WorkerStep(w) ==
    /\ \/ Lifecycle(w) \/ StoreFails(w)
       \/ Provided(w) /\ Polled(w)
    /\ UNCHANGED penVars

JobStep(j) ==
    \/ TimeOut(j) /\ Polled(j) /\ UNCHANGED penVars
    \/ (Cancelled(j) \/ Dropped(j)) /\ UNCHANGED penVars
    \/ Remove(j) /\ UNCHANGED <<call, report>>

PenStep(h) ==
    \/ \E s \in Kids, b \in BOOLEAN : CallAgent(h, s, b)
    \/ \E j \in Jobs : Spawn(h, j)
    \/ \E s \in Kids : WaitCompleted(h, s) \/ CancelJob(h, s)

DispatchStep == CheckBudget \/ InsertLane \/ ReadOutcome \/ Reattach \/ WaitAnswer

\* The death of the parent process takes its call with it.
Die(h) ==
    /\ Crash(h)
    /\ call' = IF Parent(h) THEN NoCall ELSE call
    /\ report' = IF Parent(h) THEN Nobody ELSE report
    /\ registry' = [registry EXCEPT ![h] = NoEntries]

ProcessStep(h) ==
    \/ /\ \/ Launch(h, Root)
          \/ Resumes /\ \E s \in Kids : Launch(h, s)
          \/ Reap(h)
       /\ UNCHANGED penVars
    \/ /\ Exit(h)
       /\ registry' = [registry EXCEPT ![h] = NoEntries]
       /\ UNCHANGED <<call, report>>

Next ==
    \/ \E w \in Workers : WorkerStep(w)
    \/ \E j \in Jobs : JobStep(j)
    \/ \E h \in Hosts : PenStep(h) \/ ProcessStep(h) \/ Die(h)
    \/ DispatchStep
    \/ CallFails

Spec == Init /\ [][Next]_vars

\* Started code keeps running and timers fire.  No provider is obliged to
\* answer, and nobody to start a process or to close a dashboard.
FairSpec ==
    /\ Spec
    /\ \A w \in Workers : WF_vars(Lifecycle(w) /\ UNCHANGED penVars)
    /\ \A j \in Jobs : WF_vars(JobStep(j))
    /\ WF_vars(DispatchStep)
=============================================================================
