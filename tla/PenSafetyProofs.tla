--------------------------- MODULE PenSafetyProofs ---------------------------
(***************************************************************************)
(* Proofs about the worker lifecycle and the pen, for any number of        *)
(* processes, child tasks and sessions: the types, who owns a session and  *)
(* its row, and the safety properties.                                     *)
(***************************************************************************)
EXTENDS PenProperties, FiniteSetTheorems, TLAPS

-----------------------------------------------------------------------------
(* Types.                                                                  *)

\* A worker that is in use has a session and a process.
PlacedInv ==
    \A w \in Workers : worker[w].pc \notin {"unused", "gone"} =>
        worker[w].session \in Sessions /\ worker[w].host \in Hosts

\* The worker of a process that has not been started is unused.
UnbornInv ==
    \A h \in Hosts : process[h] = "unborn" => worker[h].pc = "unused" /\ worker[h].host = Nobody

\* A call that is being dispatched names a child.
CallInv == call.pc # "none" => call.session \in Kids

TypeInv == TypeOK /\ PlacedInv /\ UnbornInv /\ CallInv

LEMMA UnusedTypes == Unused \in Worker /\ Gone \in Worker /\ Unused.pc = "unused" /\ Gone.pc = "gone"
BY DEF Unused, Gone, Worker, WorkerPc

LEMMA PenTypeInit == Init => TypeInv
<1> SUFFICES ASSUME Init PROVE TypeInv
  OBVIOUS
<1>1. WorkerTypeOK
  BY UnusedTypes DEF Init, WorkerInit, WorkerTypeOK, NoRow, Row, NoRun, Run, Sessions, Workers
<1>2. registry \in [Hosts -> [Kids -> Jobs \union {Nobody}]] /\ call \in Call /\ report \in Kids \union {Nobody}
  BY DEF Init, PenInit, NoEntries, Call, NoCall
<1>3. PlacedInv /\ UnbornInv /\ CallInv
  BY DEF Init, WorkerInit, PenInit, NoCall, PlacedInv, UnbornInv, CallInv, Unused, Workers
<1> QED BY <1>1, <1>2, <1>3 DEF TypeInv, TypeOK

\* A step that moves one placed worker along, and leaves who is who alone.
Moves(w, v) ==
    /\ worker' = [worker EXCEPT ![w] = v]
    /\ v \in Worker
    /\ v.pc \notin {"unused"}
    /\ v.pc # "gone" => v.session = worker[w].session /\ v.host = worker[w].host

LEMMA MoveType ==
    ASSUME TypeInv, NEW w \in Workers, NEW v, Moves(w, v),
           worker[w].pc \notin {"unused", "gone"}, UNCHANGED process
    PROVE  worker' \in [Workers -> Worker] /\ PlacedInv' /\ UnbornInv'
<1>1. worker \in [Workers -> Worker]
  BY DEF TypeInv, TypeOK, WorkerTypeOK
<1>2. worker' \in [Workers -> Worker]
  BY <1>1 DEF Moves
<1>3. \A u \in Workers : worker'[u] = IF u = w THEN v ELSE worker[u]
  BY <1>1 DEF Moves
<1>4. PlacedInv'
  BY <1>3 DEF PlacedInv, Moves, TypeInv
<1>5. UnbornInv'
  BY <1>3, UnusedTypes DEF UnbornInv, TypeInv, Workers
<1> QED BY <1>2, <1>4, <1>5

\* Every step of a worker's own is such a move.
LEMMA WorkerMoves ==
    ASSUME TypeInv, NEW w \in Workers, Lifecycle(w) \/ StoreFails(w) \/ Complete(w) \/ Fail(w)
    PROVE  /\ UNCHANGED process
           /\ worker[w].pc \notin {"unused", "gone"}
           /\ \E v : Moves(w, v)
<1>1. worker \in [Workers -> Worker] /\ worker[w] \in Worker
  BY DEF TypeInv, TypeOK, WorkerTypeOK
<1>2. UNCHANGED process /\ worker[w].pc \notin {"unused", "gone"}
  BY DEF Lifecycle, Acquire, Start, Recover, Begin, Finish, Drop, StoreFails, Complete, Fail, At
<1>3. \/ \E l \in WorkerPc \ {"unused", "gone"} : Goto(w, l)
      \/ Leave(w)
      \/ \E s \in {"completed", "failed"} :
            worker' = [worker EXCEPT ![w].pc = "finish", ![w].status = s]
  BY DEF Lifecycle, Acquire, Start, Recover, Begin, Finish, Drop, StoreFails, Complete, Fail, Goto, WorkerPc
<1>4. CASE \E l \in WorkerPc \ {"unused", "gone"} : Goto(w, l)
  <2> PICK l \in WorkerPc \ {"unused", "gone"} : Goto(w, l)
    BY <1>4
  <2>1. [worker[w] EXCEPT !.pc = l] \in Worker
    BY <1>1 DEF Worker
  <2>2. Moves(w, [worker[w] EXCEPT !.pc = l])
    BY <1>1, <2>1 DEF Moves, Goto, Worker
  <2> QED BY <1>2, <2>2
<1>5. CASE Leave(w)
  <2>1. [worker[w] EXCEPT !.pc = "remove"] \in Worker
    BY <1>1 DEF Worker, WorkerPc
  <2>2. Moves(w, Gone) \/ Moves(w, [worker[w] EXCEPT !.pc = "remove"])
    BY <1>1, <1>5, <2>1, UnusedTypes DEF Moves, Leave, Worker
  <2> QED BY <1>2, <2>2
<1>6. CASE \E s \in {"completed", "failed"} :
             worker' = [worker EXCEPT ![w].pc = "finish", ![w].status = s]
  <2> PICK s \in {"completed", "failed"} :
             worker' = [worker EXCEPT ![w].pc = "finish", ![w].status = s]
    BY <1>6
  <2>1. [worker[w] EXCEPT !.pc = "finish", !.status = s] \in Worker
    BY <1>1 DEF Worker, WorkerPc
  <2>2. Moves(w, [worker[w] EXCEPT !.pc = "finish", !.status = s])
    BY <1>1, <2>1 DEF Moves, Worker
  <2> QED BY <1>2, <2>2
<1> QED BY <1>3, <1>4, <1>5, <1>6

\* What the worker's step writes to the session's row, its run and the lock.
LEMMA WorkerWrites ==
    ASSUME TypeInv, NEW w \in Workers, Lifecycle(w) \/ StoreFails(w) \/ Complete(w) \/ Fail(w)
    PROVE  /\ row' \in [Sessions -> Row]
           /\ run' \in [Sessions -> Run]
           /\ lock' \in [Sessions -> Workers \union {Nobody}]
<1> DEFINE s == worker[w].session
<1>1. s \in Sessions /\ worker[w].host \in Hosts
  BY WorkerMoves DEF TypeInv, PlacedInv
<1>2. row \in [Sessions -> Row] /\ run \in [Sessions -> Run] /\ lock \in [Sessions -> Workers \union {Nobody}]
  BY DEF TypeInv, TypeOK, WorkerTypeOK
<1>3. worker[w].status \in {"completed", "failed"}
  BY DEF TypeInv, TypeOK, WorkerTypeOK, Worker
<1>4. \/ UNCHANGED lock
      \/ \E o \in {w, Nobody} : lock' = [lock EXCEPT ![s] = o]
  BY DEF Lifecycle, Acquire, Start, Recover, Begin, Finish, Drop, StoreFails, Complete, Fail
<1>5. lock' \in [Sessions -> Workers \union {Nobody}]
  BY <1>1, <1>2, <1>4
<1>6. \/ UNCHANGED run
      \/ \E v \in Run : run' = [run EXCEPT ![s] = v]
  <2>1. run[s] \in Run
    BY <1>1, <1>2
  <2>2. CASE Recover(w)
    <3>1. UNCHANGED run \/ \E x \in {run[s].text, "other"} :
            run' = [run EXCEPT ![s] = [open |-> FALSE, completed |-> FALSE, text |-> x]]
      BY <2>2 DEF Recover
    <3>2. \A x \in {run[s].text, "other"} : [open |-> FALSE, completed |-> FALSE, text |-> x] \in Run
      BY <2>1 DEF Run
    <3> QED BY <3>1, <3>2
  <2>3. CASE Begin(w)
    <3>1. run' = [run EXCEPT ![s] = [run[s] EXCEPT !.open = TRUE]]
      BY <2>3, <1>1, <1>2 DEF Begin
    <3>2. [run[s] EXCEPT !.open = TRUE] \in Run
      BY <2>1 DEF Run
    <3> QED BY <3>1, <3>2
  <2>4. CASE Complete(w)
    BY <2>4 DEF Complete, Run
  <2>5. CASE Fail(w)
    <3>1. [run[s] EXCEPT !.open = FALSE, !.completed = FALSE] \in Run
      BY <2>1 DEF Run
    <3>2. [open |-> FALSE, completed |-> TRUE, text |-> "report"] \in Run
      BY DEF Run
    <3>3. \/ UNCHANGED run
          \/ run' = [run EXCEPT ![s] = [run[s] EXCEPT !.open = FALSE, !.completed = FALSE]]
          \/ run' = [run EXCEPT ![s] = [open |-> FALSE, completed |-> TRUE, text |-> "report"]]
      BY <2>5, <1>1, <1>2 DEF Fail
    <3> QED BY <3>1, <3>2, <3>3
  <2> QED BY <2>2, <2>3, <2>4, <2>5 DEF Lifecycle, Acquire, Start, Finish, Drop, StoreFails
<1>7. run' \in [Sessions -> Run]
  BY <1>1, <1>2, <1>6
<1>8. \/ UNCHANGED row
      \/ Start(w)
      \/ FinishRow(w, worker[w].status)
      \/ FinishRow(w, "failed")
  BY DEF Lifecycle, Acquire, Recover, Begin, Finish, Drop, StoreFails, Complete, Fail
<1>9. row' \in [Sessions -> Row]
  <2>1. row[s] \in Row
    BY <1>1, <1>2
  <2>2. [row[s] EXCEPT !.status = "running", !.pid = worker[w].host, !.gen = w] \in Row
    BY <1>1, <2>1 DEF Row
  <2>3. \A x \in {"completed", "failed"} :
            [row[s] EXCEPT !.status = x, !.pid = Nobody, !.gen = Nobody] \in Row
    BY <2>1 DEF Row
  <2>4. CASE Start(w)
    BY <1>1, <1>2, <2>2, <2>4 DEF Start
  <2>5. ASSUME NEW x \in {"completed", "failed"}, FinishRow(w, x) PROVE row' \in [Sessions -> Row]
    BY <1>1, <1>2, <2>3, <2>5 DEF FinishRow
  <2> QED BY <1>2, <1>3, <1>8, <2>4, <2>5
<1> QED BY <1>5, <1>7, <1>9

LEMMA WorkerStepType ==
    ASSUME TypeInv, NEW w \in Workers, WorkerStep(w)
    PROVE  TypeInv'
<1>1. UNCHANGED penVars
  BY DEF WorkerStep
<1>2. CASE Lifecycle(w) \/ StoreFails(w) \/ Complete(w) \/ Fail(w)
  <2>1. PICK v : Moves(w, v)
    BY <1>2, WorkerMoves
  <2>2. worker' \in [Workers -> Worker] /\ PlacedInv' /\ UnbornInv' /\ UNCHANGED process
    BY <1>2, <2>1, WorkerMoves, MoveType
  <2> QED BY <1>1, <1>2, <2>2, WorkerWrites DEF TypeInv, TypeOK, WorkerTypeOK, CallInv, penVars
<1>3. CASE Turn(w)
  <2> DEFINE s == worker[w].session
  <2>1. s \in Sessions /\ run \in [Sessions -> Run]
    BY <1>3 DEF Turn, At, TypeInv, TypeOK, WorkerTypeOK, PlacedInv
  <2>2. [run[s] EXCEPT !.text = "other"] \in Run
    BY <2>1 DEF Run
  <2>3. run' \in [Sessions -> Run]
    BY <1>3, <2>1, <2>2 DEF Turn
  <2> QED BY <1>1, <1>3, <2>3 DEF Turn, TypeInv, TypeOK, WorkerTypeOK, PlacedInv, UnbornInv, CallInv, penVars
<1> QED BY <1>2, <1>3 DEF WorkerStep, Provided

LEMMA JobStepType ==
    ASSUME TypeInv, NEW j \in Jobs, JobStep(j)
    PROVE  TypeInv'
<1>0. j \in Workers /\ worker \in [Workers -> Worker] /\ worker[j] \in Worker
  BY DEF Workers, TypeInv, TypeOK, WorkerTypeOK
<1>1. CASE TimeOut(j) \/ Cancelled(j) \/ Dropped(j)
  <2>1. /\ UNCHANGED <<row, run, lock, process, registry, call, report>>
        /\ worker[j].pc \notin {"unused", "gone"}
    BY <1>1 DEF JobStep, TimeOut, Cancelled, Dropped, Remove, At, penVars
  <2>2. \/ worker' = [worker EXCEPT ![j].pc = "finish", ![j].status = "failed"]
        \/ worker' = [worker EXCEPT ![j].pc = "drop"]
        \/ worker' = [worker EXCEPT ![j] = Gone]
    BY <1>1 DEF TimeOut, Cancelled, Dropped, Goto
  <2>3. \E v : Moves(j, v)
    <3>1. /\ [worker[j] EXCEPT !.pc = "finish", !.status = "failed"] \in Worker
          /\ [worker[j] EXCEPT !.pc = "drop"] \in Worker
      BY <1>0 DEF Worker, WorkerPc
    <3>2. \/ Moves(j, [worker[j] EXCEPT !.pc = "finish", !.status = "failed"])
          \/ Moves(j, [worker[j] EXCEPT !.pc = "drop"])
          \/ Moves(j, Gone)
      BY <1>0, <2>2, <3>1, UnusedTypes DEF Moves, Worker
    <3> QED BY <3>2
  <2>4. worker' \in [Workers -> Worker] /\ PlacedInv' /\ UnbornInv'
    BY <1>0, <2>1, <2>3, MoveType
  <2> QED BY <2>1, <2>4 DEF TypeInv, TypeOK, WorkerTypeOK, CallInv
<1>2. CASE Remove(j)
  <2> DEFINE h == worker[j].host
             s == worker[j].session
  <2>1. h \in Hosts
    BY <1>2 DEF Remove, At, TypeInv, PlacedInv, Workers
  <2>2. UNCHANGED <<row, run, lock, process, call, report>>
    BY <1>2 DEF JobStep, Remove, TimeOut, Cancelled, Dropped, At
  <2>3. registry' \in [Hosts -> [Kids -> Jobs \union {Nobody}]]
    BY <1>2, <2>1 DEF Remove, TypeInv, TypeOK
  <2>4. \A w \in Workers :
            worker'[w] \in {Gone, worker[w], [worker[w] EXCEPT !.cancel = TRUE]} /\ (worker'[w] = Gone => worker'[w].pc = "gone")
    BY <1>2, UnusedTypes DEF Remove
  <2>5. \A w \in Workers : [worker[w] EXCEPT !.cancel = TRUE] \in Worker
    BY <1>0 DEF Worker
  <2>6. worker' \in [Workers -> Worker]
    <3>1. worker' = [w \in Workers |-> worker'[w]]
      BY <1>2 DEF Remove
    <3> QED BY <1>0, <2>4, <2>5, <3>1, UnusedTypes
  <2>7. \A w \in Workers : \/ worker'[w].pc = "gone"
                           \/ /\ worker'[w].pc = worker[w].pc
                              /\ worker'[w].session = worker[w].session
                              /\ worker'[w].host = worker[w].host
    BY <1>0, <2>4 DEF Worker
  <2>8. PlacedInv'
    BY <2>7 DEF PlacedInv, TypeInv
  <2>9. UnbornInv'
    <3> SUFFICES ASSUME NEW g \in Hosts, process[g] = "unborn" PROVE worker'[g].pc = "unused" /\ worker'[g].host = Nobody
      BY <2>2 DEF UnbornInv
    <3>1. worker[g].pc = "unused" /\ worker[g].host = Nobody /\ g \in Workers /\ worker[g] \in Worker
      BY <1>0 DEF TypeInv, UnbornInv, Workers
    <3>2. g # j
      BY <1>2, <3>1 DEF Remove, At
    <3>3. worker'[g] \in {worker[g], [worker[g] EXCEPT !.cancel = TRUE]}
      BY <1>2, <3>1, <3>2 DEF Remove
    <3> QED BY <3>1, <3>3 DEF Worker
  <2> QED BY <2>2, <2>3, <2>6, <2>8, <2>9 DEF TypeInv, TypeOK, WorkerTypeOK, CallInv
<1> QED BY <1>1, <1>2 DEF JobStep

LEMMA DispatchStepType ==
    ASSUME TypeInv, DispatchStep \/ CallFails
    PROVE  TypeInv'
<1>1. UNCHANGED <<run, lock, worker, process, registry>>
  BY DEF DispatchStep, CheckBudget, InsertLane, ReadOutcome, Reattach, WaitAnswer, CallFails, workerVars
<1>2. row' \in [Sessions -> Row]
  <2>1. UNCHANGED row \/ \E m \in {"session", "lane"} :
            /\ row' = [row EXCEPT ![call.session].made = m]
            /\ call.session \in Sessions
    BY DEF DispatchStep, CheckBudget, InsertLane, ReadOutcome, Reattach, WaitAnswer, CallFails,
           workerVars, Calling, TypeInv, CallInv, Sessions
  <2>2. row \in [Sessions -> Row]
    BY DEF TypeInv, TypeOK, WorkerTypeOK
  <2>3. ASSUME NEW m \in {"session", "lane"}, call.session \in Sessions
        PROVE  [row[call.session] EXCEPT !.made = m] \in Row
    BY <2>2, <2>3 DEF Row
  <2> QED BY <2>1, <2>2, <2>3
<1>3. call' \in Call /\ CallInv' /\ report' \in Kids \union {Nobody}
  <2>1. call \in Call /\ NoCall \in Call /\ NoCall.pc = "none"
    BY DEF TypeInv, TypeOK, NoCall, Call
  <2>2. \/ call' \in {call, NoCall}
        \/ /\ call.pc # "none"
           /\ \E l \in {"outcome", "lane", "place", "answer"} : call' = [call EXCEPT !.pc = l]
    BY DEF DispatchStep, CheckBudget, InsertLane, ReadOutcome, Reattach, WaitAnswer, CallFails, Calling
  <2>3. \A l \in {"outcome", "lane", "place", "answer"} :
            [call EXCEPT !.pc = l] \in Call /\ [call EXCEPT !.pc = l].session = call.session
    BY <2>1 DEF Call
  <2>4. report' \in Kids \union {Nobody}
    BY DEF DispatchStep, CheckBudget, InsertLane, ReadOutcome, Reattach, WaitAnswer, CallFails, TypeInv, TypeOK
  <2> QED BY <2>1, <2>2, <2>3, <2>4 DEF TypeInv, CallInv
<1> QED BY <1>1, <1>2, <1>3 DEF TypeInv, TypeOK, WorkerTypeOK, PlacedInv, UnbornInv

\* A worker that is put to use, or has its flag set, by the parent.
LEMMA PenStepType ==
    ASSUME TypeInv, NEW h \in Hosts, PenStep(h)
    PROVE  TypeInv'
<1>0. worker \in [Workers -> Worker] /\ Jobs \subseteq Workers /\ Kids \subseteq Sessions
  BY DEF Workers, Sessions, TypeInv, TypeOK, WorkerTypeOK
<1>1. ASSUME NEW s \in Kids, NEW b \in BOOLEAN, CallAgent(h, s, b) PROVE TypeInv'
  <2>1. call' \in Call /\ CallInv'
    BY <1>1 DEF CallAgent, Call, CallInv
  <2> QED BY <1>1, <2>1 DEF CallAgent, TypeInv, TypeOK, WorkerTypeOK, PlacedInv, UnbornInv
<1>2. ASSUME NEW j \in Jobs, Spawn(h, j) PROVE TypeInv'
  <2> DEFINE s == call.session
             v == [Unused EXCEPT !.pc = "acquire", !.host = h, !.session = s,
                                 !.kind = IF call.background THEN "background" ELSE "foreground"]
  <2>1. s \in Kids
    BY <1>2 DEF Spawn, Calling, TypeInv, CallInv
  <2>2. v \in Worker /\ v.pc = "acquire" /\ v.session = s /\ v.host = h
    BY <1>0, <2>1 DEF Unused, Worker, WorkerPc
  <2>3. worker' = [worker EXCEPT ![j] = v]
    BY <1>2 DEF Spawn
  <2>4. worker' \in [Workers -> Worker] /\ PlacedInv'
    BY <1>0, <2>1, <2>2, <2>3 DEF TypeInv, PlacedInv
  <2>5. UnbornInv'
    BY <1>0, <1>2, <2>3, WorkerAssumption DEF Spawn, WorkerAssumption, TypeInv, UnbornInv, Workers
  <2>6. registry' \in [Hosts -> [Kids -> Jobs \union {Nobody}]]
    BY <1>2, <2>1 DEF Spawn, TypeInv, TypeOK
  <2>7. call' \in Call /\ CallInv'
    BY <1>2 DEF Spawn, NoCall, Call, CallInv
  <2> QED BY <1>2, <2>4, <2>5, <2>6, <2>7 DEF Spawn, TypeInv, TypeOK, WorkerTypeOK
<1>3. ASSUME NEW s \in Kids, WaitCompleted(h, s) PROVE TypeInv'
  BY <1>3 DEF WaitCompleted, workerVars, TypeInv, TypeOK, WorkerTypeOK, PlacedInv, UnbornInv, CallInv
<1>4. ASSUME NEW s \in Kids, CancelJob(h, s) PROVE TypeInv'
  <2> DEFINE j == registry[h][s]
             v == [worker[j] EXCEPT !.cancel = TRUE]
  <2>1. j \in Jobs
    BY <1>4 DEF CancelJob, TypeInv, TypeOK
  <2>2. /\ v \in Worker
        /\ v.pc = worker[j].pc /\ v.session = worker[j].session /\ v.host = worker[j].host
    <3>1. worker[j] \in Worker
      BY <1>0, <2>1
    <3> QED BY <3>1 DEF Worker
  <2>3. worker' = [worker EXCEPT ![j] = v]
    BY <1>0, <1>4, <2>1 DEF CancelJob
  <2>4. worker' \in [Workers -> Worker] /\ PlacedInv'
    BY <1>0, <2>1, <2>2, <2>3 DEF TypeInv, PlacedInv
  <2>5. UnbornInv'
    BY <1>0, <1>4, <2>1, <2>2, <2>3 DEF CancelJob, TypeInv, UnbornInv, Workers
  <2>6. registry' \in [Hosts -> [Kids -> Jobs \union {Nobody}]]
    BY <1>4 DEF CancelJob, TypeInv, TypeOK
  <2> QED BY <1>4, <2>4, <2>5, <2>6 DEF CancelJob, TypeInv, TypeOK, WorkerTypeOK, CallInv
<1> QED BY <1>1, <1>2, <1>3, <1>4 DEF PenStep

LEMMA ProcessStepType ==
    ASSUME TypeInv, NEW h \in Hosts, ProcessStep(h)
    PROVE  TypeInv'
<1>0. /\ worker \in [Workers -> Worker] /\ Hosts \subseteq Workers /\ Kids \subseteq Sessions
      /\ process \in [Hosts -> {"unborn", "alive", "zombie", "dead"}]
      /\ Root \in Sessions
  BY DEF Workers, Sessions, TypeInv, TypeOK, WorkerTypeOK
<1>1. ASSUME NEW s \in Sessions, Launch(h, s), UNCHANGED penVars PROVE TypeInv'
  <2> DEFINE v == [Unused EXCEPT !.pc = "acquire", !.host = h, !.session = s]
  <2>1. v \in Worker /\ v.pc = "acquire" /\ v.session = s /\ v.host = h
    BY DEF Unused, Worker, WorkerPc
  <2>2. worker' = [worker EXCEPT ![h] = v]
    BY <1>1 DEF Launch
  <2>3. worker' \in [Workers -> Worker] /\ PlacedInv'
    BY <1>0, <2>1, <2>2 DEF TypeInv, PlacedInv
  <2>4. process' \in [Hosts -> {"unborn", "alive", "zombie", "dead"}] /\ UnbornInv'
    BY <1>0, <1>1, <2>2 DEF Launch, TypeInv, UnbornInv
  <2> QED BY <1>1, <2>3, <2>4 DEF Launch, penVars, TypeInv, TypeOK, WorkerTypeOK, CallInv
<1>2. CASE Reap(h) /\ UNCHANGED penVars
  <2>1. process' \in [Hosts -> {"unborn", "alive", "zombie", "dead"}] /\ UnbornInv'
    BY <1>0, <1>2 DEF Reap, TypeInv, UnbornInv
  <2> QED BY <1>2, <2>1 DEF Reap, penVars, TypeInv, TypeOK, WorkerTypeOK, CallInv, PlacedInv
<1>3. CASE /\ Exit(h)
           /\ registry' = [registry EXCEPT ![h] = NoEntries]
           /\ UNCHANGED <<call, report>>
  <2>1. process' \in [Hosts -> {"unborn", "alive", "zombie", "dead"}] /\ UnbornInv'
    BY <1>0, <1>3 DEF Exit, Ended, TypeInv, UnbornInv
  <2>2. registry' \in [Hosts -> [Kids -> Jobs \union {Nobody}]]
    BY <1>3 DEF NoEntries, TypeInv, TypeOK
  <2> QED BY <1>3, <2>1, <2>2 DEF Exit, TypeInv, TypeOK, WorkerTypeOK, CallInv, PlacedInv
<1> QED BY <1>0, <1>1, <1>2, <1>3 DEF ProcessStep

LEMMA DieType ==
    ASSUME TypeInv, NEW h \in Hosts, Die(h)
    PROVE  TypeInv'
<1>0. /\ worker \in [Workers -> Worker] /\ Hosts \subseteq Workers
      /\ process \in [Hosts -> {"unborn", "alive", "zombie", "dead"}]
      /\ lock \in [Sessions -> Workers \union {Nobody}]
  BY DEF Workers, TypeInv, TypeOK, WorkerTypeOK
<1>1. process' \in [Hosts -> {"unborn", "alive", "zombie", "dead"}]
  BY <1>0 DEF Die, Crash, Ended
<1>2. lock' \in [Sessions -> Workers \union {Nobody}]
  BY <1>0 DEF Die, Crash
<1>3. worker' \in [Workers -> Worker] /\ PlacedInv'
  BY <1>0, UnusedTypes DEF Die, Crash, TypeInv, PlacedInv
<1>4. UnbornInv'
  <2> SUFFICES ASSUME NEW g \in Hosts, process'[g] = "unborn" PROVE worker'[g].pc = "unused" /\ worker'[g].host = Nobody
    BY DEF UnbornInv
  <2>1. process[g] = "unborn"
    BY <1>0 DEF Die, Crash, Ended
  <2>2. worker[g].pc = "unused" /\ worker[g].host = Nobody
    BY <2>1 DEF TypeInv, UnbornInv
  <2>3. g \notin WorkersOf(h)
    BY <2>2, WorkerAssumption DEF WorkersOf, WorkerAssumption
  <2> QED BY <1>0, <2>2, <2>3 DEF Die, Crash
<1>5. registry' \in [Hosts -> [Kids -> Jobs \union {Nobody}]]
  BY DEF Die, NoEntries, TypeInv, TypeOK
<1>6. call' \in Call /\ CallInv' /\ report' \in Kids \union {Nobody}
  BY DEF Die, TypeInv, TypeOK, CallInv, NoCall, Call
<1> QED BY <1>1, <1>2, <1>3, <1>4, <1>5, <1>6 DEF Die, Crash, TypeInv, TypeOK, WorkerTypeOK

LEMMA PenTypeStep == TypeInv /\ [Next]_vars => TypeInv'
<1> SUFFICES ASSUME TypeInv, [Next]_vars PROVE TypeInv'
  OBVIOUS
<1>1. CASE UNCHANGED vars
  BY <1>1 DEF vars, TypeInv, TypeOK, WorkerTypeOK, PlacedInv, UnbornInv, CallInv
<1>2. CASE Next
  BY <1>2, WorkerStepType, JobStepType, PenStepType, ProcessStepType, DieType, DispatchStepType DEF Next
<1> QED BY <1>1, <1>2

\* The values of every variable have their types, a worker in use has a session
\* and a process, and the call being dispatched names a child.
THEOREM PenTypeInvariant == Spec => []TypeInv
BY PenTypeInit, PenTypeStep, PTL DEF Spec

\* TypeOK for any number of processes, child tasks and sessions.
THEOREM PenTypeCorrect == Spec => []TypeOK
<1>1. TypeInv => TypeOK
  BY DEF TypeInv
<1> QED BY <1>1, PenTypeInvariant, PTL


-----------------------------------------------------------------------------
(* One owner per session.                                                  *)

\* Where a worker has the row in its name, and where it has the lock.
Owning  == {"recover", "begin", "run", "finish", "drop"}
Locking == Owning \union {"start", "unlock"}

\* What w has of its session.  RowNamesOwner is the second half; the lock has
\* to be known from acquire to unlock, for it is what keeps a second worker
\* from start_worker.
Owns(w) ==
    LET s == worker[w].session IN
    /\ worker[w].pc \in Locking => lock[s] = w
    /\ worker[w].pc \in Owning =>
        /\ row[s].status = "running"
        /\ row[s].gen = w
        /\ row[s].pid = worker[w].host

OwnerInv == \A w \in Workers : Owns(w)

\* A step that leaves alone what u has, or takes it from u.
Keeps(u) ==
    LET s == worker[u].session IN
    worker'[u].pc \in Locking =>
        /\ worker[u].pc \in Locking
        /\ worker'[u].session = s
        /\ worker'[u].host = worker[u].host
        /\ lock'[s] = lock[s]
        /\ worker'[u].pc \in Owning =>
            /\ worker[u].pc \in Owning
            /\ row'[s].status = row[s].status
            /\ row'[s].gen = row[s].gen
            /\ row'[s].pid = row[s].pid

LEMMA KeepsOwns == ASSUME NEW u, Owns(u), Keeps(u) PROVE Owns(u)'
BY DEF Owns, Keeps, Owning, Locking

\* Two workers that hold a lock have different sessions.
LEMMA Apart ==
    ASSUME OwnerInv, NEW u \in Workers, NEW w \in Workers, u # w,
           worker[u].pc \in Locking, worker[w].pc \in Locking
    PROVE  worker[u].session # worker[w].session
BY DEF OwnerInv, Owns

\* A worker's step reaches the row, the run and the lock of its own session
\* only; it takes the lock when nobody has it, and needs it for all the rest.
LEMMA WorkerFrame ==
    ASSUME TypeInv, NEW w \in Workers, Lifecycle(w) \/ StoreFails(w) \/ Provided(w)
    PROVE  /\ \A u \in Workers \ {w} : worker'[u] = worker[u]
           /\ \A s \in Sessions \ {worker[w].session} :
                  row'[s] = row[s] /\ run'[s] = run[s] /\ lock'[s] = lock[s]
           /\ \/ worker[w].pc \in Locking
              \/ worker[w].pc = "acquire" /\ UNCHANGED lock
              \/ worker[w].pc = "acquire" /\ lock[worker[w].session] = Nobody
<1>1. worker \in [Workers -> Worker] /\ row \in [Sessions -> Row] /\ run \in [Sessions -> Run]
      /\ lock \in [Sessions -> Workers \union {Nobody}]
  BY DEF TypeInv, TypeOK, WorkerTypeOK
<1>2. \A u \in Workers \ {w} : worker'[u] = worker[u]
  BY <1>1 DEF Lifecycle, Acquire, Start, Recover, Begin, Finish, Drop, StoreFails, Provided, Turn,
              Complete, Fail, Goto, Leave
<1>3. \A s \in Sessions \ {worker[w].session} : row'[s] = row[s] /\ run'[s] = run[s] /\ lock'[s] = lock[s]
  BY <1>1 DEF Lifecycle, Acquire, Start, Recover, Begin, Finish, Drop, FinishRow, StoreFails, Provided,
              Turn, Complete, Fail
<1>4. \/ worker[w].pc \in Locking
      \/ worker[w].pc = "acquire" /\ UNCHANGED lock
      \/ worker[w].pc = "acquire" /\ lock[worker[w].session] = Nobody
  BY DEF Lifecycle, Acquire, Start, Recover, Begin, Finish, Drop, StoreFails, Provided, Turn,
         Complete, Fail, At, Owning, Locking
<1> QED BY <1>2, <1>3, <1>4

LEMMA OwnerWorkerStep ==
    ASSUME TypeInv, OwnerInv, NEW w \in Workers, Lifecycle(w) \/ StoreFails(w) \/ Provided(w)
    PROVE  OwnerInv'
<1> DEFINE s == worker[w].session
<1>1. worker \in [Workers -> Worker] /\ row \in [Sessions -> Row] /\ worker[w] \in Worker
      /\ lock \in [Sessions -> Workers \union {Nobody}]
  BY DEF TypeInv, TypeOK, WorkerTypeOK
<1>2. ASSUME NEW u \in Workers, u # w PROVE Owns(u)'
  <2>1. worker'[u] = worker[u]
    BY <1>2, WorkerFrame
  <2>2. CASE worker[u].pc \in Locking
    <3>1. worker[u].session \in Sessions /\ lock[worker[u].session] = u /\ u # Nobody
      BY <2>2, WorkerAssumption DEF TypeInv, PlacedInv, OwnerInv, Owns, Locking, Owning, WorkerAssumption, Workers
    <3>2. worker[u].session # s \/ (worker[w].pc = "acquire" /\ UNCHANGED lock)
      BY <1>2, <2>2, <3>1, Apart, WorkerFrame
    <3>3. worker[w].pc = "acquire" => UNCHANGED row
      BY DEF Lifecycle, Acquire, Start, Recover, Begin, Finish, Drop, StoreFails, Provided, Turn,
             Complete, Fail, At
    <3>4. lock'[worker[u].session] = lock[worker[u].session] /\ row'[worker[u].session] = row[worker[u].session]
      BY <3>1, <3>2, <3>3, WorkerFrame
    <3>5. Keeps(u)
      BY <2>1, <2>2, <3>4 DEF Keeps
    <3> QED BY <3>5, KeepsOwns DEF OwnerInv
  <2>3. CASE worker[u].pc \notin Locking
    BY <2>1, <2>3 DEF Owns, Locking, Owning
  <2> QED BY <2>2, <2>3
<1>3. Owns(w)'
  <2>0. Owns(w) /\ worker[w].pc \notin {"unused", "gone"} /\ s \in Sessions
    BY WorkerMoves DEF OwnerInv, Provided, Turn, At, TypeInv, PlacedInv
  <2>1. CASE Acquire(w)
    <3>1. CASE /\ lock' = [lock EXCEPT ![s] = w]
               /\ Goto(w, "start")
      <4>1. worker'[w].pc = "start" /\ worker'[w].session = s
        BY <1>1, <3>1 DEF Goto, Worker
      <4> QED BY <1>1, <2>0, <3>1, <4>1 DEF Owns, Owning
    <3>2. CASE Leave(w)
      <4>1. worker'[w].pc \in {"remove", "gone"}
        BY <1>1, <3>2, UnusedTypes DEF Leave, Worker
      <4> QED BY <4>1 DEF Owns, Owning, Locking
    <3> QED BY <2>1, <3>1, <3>2 DEF Acquire
  <2>2. CASE Start(w)
    <3>1. worker'[w].pc = "recover" /\ worker'[w].session = s /\ worker'[w].host = worker[w].host
      BY <1>1, <2>2 DEF Start, Goto, Worker
    <3>2. lock' = lock /\ lock[s] = w
      BY <2>0, <2>2 DEF Start, At, Owns, Locking
    <3>3. row'[s].status = "running" /\ row'[s].gen = w /\ row'[s].pid = worker[w].host
      BY <1>1, <2>0, <2>2 DEF Start, Row
    <3> QED BY <3>1, <3>2, <3>3 DEF Owns
  <2>3. CASE Recover(w) \/ Begin(w) \/ Turn(w) \/ Complete(w) \/ Fail(w)
    <3>1. UNCHANGED <<row, lock>> /\ worker[w].pc \in Owning
      BY <2>3 DEF Recover, Begin, Turn, Complete, Fail, At, Owning
    <3>2. worker'[w].session = s /\ worker'[w].host = worker[w].host
      BY <1>1, <2>3 DEF Recover, Begin, Turn, Complete, Fail, Goto, Worker
    <3>3. Keeps(w)
      BY <3>1, <3>2 DEF Keeps, Locking
    <3> QED BY <2>0, <3>3, KeepsOwns
  <2>4. CASE Finish(w)
    <3>1. worker[w].pc = "finish" /\ row[s].gen = w /\ lock[s] = w
      BY <2>0, <2>4 DEF Finish, At, Owns, Owning, Locking
    <3>2. worker'[w].pc = "unlock" /\ worker'[w].session = s /\ UNCHANGED lock
      BY <1>1, <2>4, <3>1 DEF Finish, Goto, Worker
    <3> QED BY <3>1, <3>2 DEF Owns, Owning
  <2>5. CASE Drop(w)
    <3>1. CASE At(w, "drop") /\ Goto(w, "unlock") /\ UNCHANGED lock
      <4>1. worker'[w].pc = "unlock" /\ worker'[w].session = s
        BY <1>1, <3>1 DEF Goto, Worker
      <4> QED BY <2>0, <3>1, <4>1 DEF Owns, At, Owning, Locking
    <3>2. CASE At(w, "unlock") /\ Leave(w)
      <4>1. worker'[w].pc \in {"remove", "gone"}
        BY <1>1, <3>2, UnusedTypes DEF Leave, Worker
      <4> QED BY <4>1 DEF Owns, Owning, Locking
    <3> QED BY <2>5, <3>1, <3>2 DEF Drop
  <2>6. CASE StoreFails(w)
    <3>1. UNCHANGED <<row, lock>> /\ worker[w].pc \in Locking
      BY <2>6 DEF StoreFails, At, Locking, Owning
    <3>2. /\ worker'[w].session = s /\ worker'[w].host = worker[w].host
          /\ worker[w].pc = "start" => worker'[w].pc = "unlock"
          /\ worker[w].pc # "unlock"
      BY <1>1, <2>6 DEF StoreFails, Goto, At, Worker
    <3>3. Keeps(w)
      BY <3>1, <3>2 DEF Keeps, Locking, Owning
    <3> QED BY <2>0, <3>3, KeepsOwns
  <2> QED BY <2>1, <2>2, <2>3, <2>4, <2>5, <2>6 DEF Lifecycle, Provided
<1> QED BY <1>2, <1>3 DEF OwnerInv

LEMMA OwnerJobStep ==
    ASSUME TypeInv, OwnerInv, NEW j \in Jobs, JobStep(j)
    PROVE  OwnerInv'
<1>1. worker \in [Workers -> Worker] /\ j \in Workers
  BY DEF TypeInv, TypeOK, WorkerTypeOK, Workers
<1>2. UNCHANGED <<row, lock>>
  BY DEF JobStep, TimeOut, Cancelled, Dropped, Remove
<1> SUFFICES ASSUME NEW u \in Workers PROVE Keeps(u)
  BY KeepsOwns DEF OwnerInv
<1>3. worker[u] \in Worker
  BY <1>1
<1>4. CASE Remove(j)
  <2>1. worker'[u] \in {Gone, worker[u], [worker[u] EXCEPT !.cancel = TRUE]}
    BY <1>4 DEF Remove
  <2> QED BY <1>2, <1>3, <2>1, UnusedTypes DEF Keeps, Locking, Owning, Worker
<1>5. CASE TimeOut(j) \/ Cancelled(j) \/ Dropped(j)
  <2>1. \/ worker'[u] = worker[u]
        \/ worker'[u] = Gone
        \/ worker[u].pc = "run" /\ worker'[u] = [worker[u] EXCEPT !.pc = "finish", !.status = "failed"]
        \/ worker[u].pc = "run" /\ worker'[u] = [worker[u] EXCEPT !.pc = "drop"]
    BY <1>1, <1>5 DEF TimeOut, Cancelled, Dropped, Goto, At
  <2> QED BY <1>2, <1>3, <2>1, UnusedTypes DEF Keeps, Locking, Owning, Worker
<1> QED BY <1>4, <1>5 DEF JobStep

\* No other step touches a worker that has its lock, but to set its flag.
LEMMA OwnerOtherStep ==
    ASSUME TypeInv, OwnerInv,
           \/ \E h \in Hosts : PenStep(h) \/ ProcessStep(h)
           \/ DispatchStep \/ CallFails
    PROVE  OwnerInv'
<1>1. worker \in [Workers -> Worker] /\ row \in [Sessions -> Row] /\ Jobs \subseteq Workers /\ Hosts \subseteq Workers
  BY DEF TypeInv, TypeOK, WorkerTypeOK, Workers
<1>2. UNCHANGED lock
  BY DEF PenStep, CallAgent, Spawn, WaitCompleted, CancelJob, ProcessStep, Launch, Reap, Exit, DispatchStep,
         CheckBudget, InsertLane, ReadOutcome, Reattach, WaitAnswer, CallFails, workerVars
<1> SUFFICES ASSUME NEW u \in Workers PROVE Keeps(u)
  BY KeepsOwns DEF OwnerInv
<1>3. worker[u] \in Worker
  BY <1>1
<1>4. ASSUME NEW s \in Sessions
      PROVE  row'[s].status = row[s].status /\ row'[s].gen = row[s].gen /\ row'[s].pid = row[s].pid
  <2>1. UNCHANGED row \/ \E x \in Sessions, m \in {"session", "lane"} : row' = [row EXCEPT ![x].made = m]
    BY DEF PenStep, CallAgent, Spawn, WaitCompleted, CancelJob, ProcessStep, Launch, Reap, Exit, DispatchStep,
           CheckBudget, InsertLane, ReadOutcome, Reattach, WaitAnswer, CallFails, workerVars, Calling,
           TypeInv, CallInv, Sessions
  <2> QED BY <1>1, <2>1 DEF Row
<1>5. \/ worker'[u] = worker[u]
      \/ worker'[u].pc = "acquire"
      \/ worker'[u] = [worker[u] EXCEPT !.cancel = TRUE]
  <2>1. CASE UNCHANGED worker
    BY <2>1
  <2>2. CASE \E h \in Hosts, s \in Sessions : Launch(h, s)
    <3>1. [Unused EXCEPT !.pc = "acquire"].pc = "acquire"
      BY DEF Unused
    <3> QED BY <1>1, <2>2, <3>1 DEF Launch, Unused
  <2>3. CASE \E h \in Hosts, i \in Jobs : Spawn(h, i)
    BY <1>1, <2>3 DEF Spawn, Unused
  <2>4. CASE \E h \in Hosts, s \in Kids : CancelJob(h, s)
    BY <1>1, <2>4 DEF CancelJob
  <2> QED BY <2>1, <2>2, <2>3, <2>4
         DEF PenStep, CallAgent, WaitCompleted, ProcessStep, Reap, Exit, DispatchStep,
             CheckBudget, InsertLane, ReadOutcome, Reattach, WaitAnswer, CallFails, workerVars, Sessions
<1>6. worker[u].pc \in Locking => worker[u].session \in Sessions
  BY DEF TypeInv, PlacedInv, Locking, Owning
<1> QED BY <1>2, <1>3, <1>4, <1>5, <1>6 DEF Keeps, Locking, Owning, Worker

\* A crash takes the locks of the workers it ends, and no other.
LEMMA OwnerDie ==
    ASSUME TypeInv, OwnerInv, NEW h \in Hosts, Die(h)
    PROVE  OwnerInv'
<1> SUFFICES ASSUME NEW u \in Workers PROVE Keeps(u)
  BY KeepsOwns DEF OwnerInv
<1>1. CASE u \in WorkersOf(h)
  BY <1>1, UnusedTypes DEF Die, Crash, Keeps, Locking, Owning
<1>2. CASE u \notin WorkersOf(h)
  <2>1. worker'[u] = worker[u] /\ UNCHANGED row
    BY <1>2 DEF Die, Crash
  <2>2. worker[u].pc \in Locking => worker[u].session \in Sessions /\ lock[worker[u].session] = u
    BY DEF TypeInv, PlacedInv, OwnerInv, Owns, Locking, Owning
  <2>3. worker[u].pc \in Locking => lock'[worker[u].session] = lock[worker[u].session]
    BY <1>2, <2>2 DEF Die, Crash
  <2> QED BY <2>1, <2>3 DEF Keeps
<1> QED BY <1>1, <1>2

LEMMA OwnerInit == Init => OwnerInv
BY UnusedTypes DEF Init, WorkerInit, OwnerInv, Owns, Owning, Locking

LEMMA OwnerStep == TypeInv /\ OwnerInv /\ [Next]_vars => OwnerInv'
<1> SUFFICES ASSUME TypeInv, OwnerInv, [Next]_vars PROVE OwnerInv'
  OBVIOUS
<1>1. CASE UNCHANGED vars
  BY <1>1 DEF vars, OwnerInv, Owns
<1>2. ASSUME NEW w \in Workers, WorkerStep(w) PROVE OwnerInv'
  BY <1>2, OwnerWorkerStep DEF WorkerStep
<1>3. ASSUME NEW j \in Jobs, JobStep(j) PROVE OwnerInv'
  BY <1>3, OwnerJobStep
<1>4. ASSUME NEW h \in Hosts, PenStep(h) \/ ProcessStep(h) PROVE OwnerInv'
  BY <1>4, OwnerOtherStep
<1>5. ASSUME NEW h \in Hosts, Die(h) PROVE OwnerInv'
  BY <1>5, OwnerDie
<1>6. CASE DispatchStep \/ CallFails
  BY <1>6, OwnerOtherStep
<1> QED BY <1>1, <1>2, <1>3, <1>4, <1>5, <1>6 DEF Next

LEMMA OwnerInvariant == Spec => []OwnerInv
BY PenTypeInvariant, OwnerInit, OwnerStep, PTL DEF Spec

\* From start_worker to its end a worker has the lock of its session and its
\* name in the row: RowNamesOwner, whatever dies, fails or is cancelled.
THEOREM OneOwner == Spec => []RowNamesOwner
<1>1. OwnerInv => RowNamesOwner
  BY DEF OwnerInv, Owns, RowNamesOwner, Owning, Locking
<1> QED BY <1>1, OwnerInvariant, PTL

-----------------------------------------------------------------------------
(* A session that is shown as completed has its answer.                    *)

Answered(r) == ~r.open /\ r.completed /\ r.text = "report"

\* The row is written a step after the records; in between the worker has the
\* answer in its hand, and nobody else can begin a run.
DoneInv == \A w \in Workers :
    worker[w].pc = "finish" /\ worker[w].status = "completed" => Answered(run[worker[w].session])

LEMMA DoneInit == Init => CompletedIsTrue /\ DoneInv
BY UnusedTypes DEF Init, WorkerInit, CompletedIsTrue, DoneInv, NoRow, Sessions

\* A run changes in the hands of its owner only, while the row says running.
LEMMA DoneWorkerStep ==
    ASSUME TypeInv, OwnerInv, CompletedIsTrue, DoneInv, NEW w \in Workers,
           Lifecycle(w) \/ StoreFails(w) \/ Provided(w)
    PROVE  CompletedIsTrue' /\ DoneInv'
<1> DEFINE s == worker[w].session
<1>1. worker \in [Workers -> Worker] /\ row \in [Sessions -> Row] /\ run \in [Sessions -> Run]
      /\ worker[w] \in Worker /\ s \in Sessions
  BY WorkerMoves DEF TypeInv, TypeOK, WorkerTypeOK, PlacedInv, Provided, Turn, At
<1>2. CASE Recover(w) \/ Begin(w) \/ Turn(w) \/ Complete(w) \/ Fail(w)
  <2>1. worker[w].pc \in Owning /\ row[s].status = "running" /\ UNCHANGED row
    BY <1>2 DEF Recover, Begin, Turn, Complete, Fail, At, Owning, Locking, OwnerInv, Owns
  <2>2. CompletedIsTrue'
    BY <2>1, WorkerFrame DEF CompletedIsTrue
  <2>3. ASSUME NEW u \in Workers \ {w}, worker'[u].pc = "finish", worker'[u].status = "completed"
        PROVE  Answered(run'[worker'[u].session])
    <3>1. worker'[u] = worker[u]
      BY WorkerFrame
    <3>2. worker[u].session \in Sessions \ {s}
      BY <2>1, <2>3, <3>1, Apart DEF TypeInv, PlacedInv, Locking, Owning
    <3>3. run'[worker[u].session] = run[worker[u].session]
      BY <3>2, WorkerFrame
    <3> QED BY <2>3, <3>1, <3>3 DEF DoneInv, Answered
  <2>4. worker'[w].pc = "finish" /\ worker'[w].status = "completed" => Answered(run'[worker'[w].session])
    <3>1. CASE Complete(w)
      BY <1>1, <3>1 DEF Complete, Answered, Worker
    <3>2. CASE Recover(w) \/ Begin(w) \/ Turn(w) \/ Fail(w)
      <4>1. worker'[w].pc # "finish" \/ worker'[w].status = "failed"
        BY <1>1, <3>2 DEF Recover, Begin, Turn, Fail, Goto, At, Worker
      <4> QED BY <4>1
    <3> QED BY <1>2, <3>1, <3>2
  <2> QED BY <2>2, <2>3, <2>4 DEF DoneInv
<1>3. CASE Acquire(w) \/ Start(w) \/ Finish(w) \/ Drop(w) \/ StoreFails(w)
  <2>1. UNCHANGED run
    BY <1>3 DEF Acquire, Start, Finish, Drop, StoreFails
  <2>2. \A x \in Sessions : row'[x].status = "completed" => row[x].status = "completed" \/ Answered(run[x])
    <3>1. CASE Finish(w)
      <4>1. \A x \in Sessions : row'[x].status = row[x].status \/ (x = s /\ row'[x].status = worker[w].status)
        BY <1>1, <3>1 DEF Finish, FinishRow, Row
      <4>2. worker[w].status = "completed" => Answered(run[s])
        BY <3>1 DEF Finish, At, DoneInv
      <4> QED BY <4>1, <4>2
    <3>2. CASE Acquire(w) \/ Start(w) \/ Drop(w) \/ StoreFails(w)
      BY <1>1, <3>2 DEF Acquire, Start, Drop, FinishRow, StoreFails, Row
    <3> QED BY <1>3, <3>1, <3>2
  <2>3. CompletedIsTrue'
    BY <2>1, <2>2 DEF CompletedIsTrue, Answered
  <2>4. worker'[w].pc # "finish" \/ worker'[w].status = "failed"
    BY <1>1, <1>3, UnusedTypes DEF Acquire, Start, Finish, Drop, StoreFails, Goto, Leave, At, Worker
  <2>5. DoneInv'
    BY <2>1, <2>4, WorkerFrame DEF DoneInv, Answered
  <2> QED BY <2>3, <2>5
<1> QED BY <1>2, <1>3 DEF Lifecycle, Provided

\* Nothing else writes a status or a run, or makes a worker finish well.
LEMMA DoneOtherStep ==
    ASSUME TypeInv, CompletedIsTrue, DoneInv,
           \/ \E j \in Jobs : JobStep(j)
           \/ \E h \in Hosts : PenStep(h) \/ ProcessStep(h) \/ Die(h)
           \/ DispatchStep \/ CallFails
    PROVE  CompletedIsTrue' /\ DoneInv'
<1>1. worker \in [Workers -> Worker] /\ row \in [Sessions -> Row] /\ Jobs \subseteq Workers /\ Hosts \subseteq Workers
  BY DEF TypeInv, TypeOK, WorkerTypeOK, Workers
<1>2. UNCHANGED run
  BY DEF JobStep, TimeOut, Cancelled, Dropped, Remove, PenStep, CallAgent, Spawn, WaitCompleted, CancelJob,
         ProcessStep, Launch, Reap, Exit, Die, Crash, DispatchStep, CheckBudget, InsertLane, ReadOutcome,
         Reattach, WaitAnswer, CallFails, workerVars
<1>3. ASSUME NEW s \in Sessions PROVE row'[s].status = row[s].status
  <2>1. UNCHANGED row \/ \E x \in Sessions, m \in {"session", "lane"} : row' = [row EXCEPT ![x].made = m]
    BY DEF JobStep, TimeOut, Cancelled, Dropped, Remove, PenStep, CallAgent, Spawn, WaitCompleted, CancelJob,
           ProcessStep, Launch, Reap, Exit, Die, Crash, DispatchStep, CheckBudget, InsertLane, ReadOutcome,
           Reattach, WaitAnswer, CallFails, workerVars, Calling, TypeInv, CallInv, Sessions
  <2> QED BY <1>1, <2>1 DEF Row
<1>4. ASSUME NEW u \in Workers
      PROVE  \/ worker'[u].pc # "finish" \/ worker'[u].status = "failed"
             \/ /\ worker[u].pc = "finish" /\ worker'[u].status = worker[u].status
                /\ worker'[u].session = worker[u].session
  <2>0. worker[u] \in Worker
    BY <1>1
  <2>1. \/ worker'[u] \in {worker[u], Gone, [worker[u] EXCEPT !.cancel = TRUE]}
        \/ worker'[u] \in {[worker[u] EXCEPT !.pc = "finish", !.status = "failed"],
                           [worker[u] EXCEPT !.pc = "drop"]}
        \/ worker'[u].pc = "acquire"
    <3>1. CASE UNCHANGED worker
      BY <3>1
    <3>2. CASE \E j \in Jobs : TimeOut(j) \/ Cancelled(j) \/ Dropped(j)
      BY <1>1, <3>2 DEF TimeOut, Cancelled, Dropped, Goto
    <3>3. CASE \E j \in Jobs : Remove(j)
      BY <1>1, <3>3 DEF Remove
    <3>4. CASE \E h \in Hosts, s \in Sessions : Launch(h, s)
      BY <1>1, <3>4 DEF Launch, Unused
    <3>5. CASE \E h \in Hosts, i \in Jobs : Spawn(h, i)
      BY <1>1, <3>5 DEF Spawn, Unused
    <3>6. CASE \E h \in Hosts, s \in Kids : CancelJob(h, s)
      BY <1>1, <3>6 DEF CancelJob
    <3>7. CASE \E h \in Hosts : Die(h)
      BY <1>1, <3>7 DEF Die, Crash
    <3> QED BY <3>1, <3>2, <3>3, <3>4, <3>5, <3>6, <3>7
            DEF JobStep, PenStep, CallAgent, WaitCompleted, ProcessStep, Reap, Exit, DispatchStep, CheckBudget,
                InsertLane, ReadOutcome, Reattach, WaitAnswer, CallFails, workerVars, Sessions
  <2> QED BY <2>0, <2>1, UnusedTypes DEF Worker
<1>5. CompletedIsTrue'
  BY <1>2, <1>3 DEF CompletedIsTrue
<1>6. DoneInv'
  BY <1>2, <1>4 DEF DoneInv, Answered
<1> QED BY <1>5, <1>6

LEMMA DoneStep ==
    TypeInv /\ OwnerInv /\ CompletedIsTrue /\ DoneInv /\ [Next]_vars => (CompletedIsTrue /\ DoneInv)'
<1> SUFFICES ASSUME TypeInv, OwnerInv, CompletedIsTrue, DoneInv, [Next]_vars
             PROVE  CompletedIsTrue' /\ DoneInv'
  OBVIOUS
<1>1. CASE UNCHANGED vars
  BY <1>1 DEF vars, CompletedIsTrue, DoneInv, Answered
<1>2. CASE \E w \in Workers : WorkerStep(w)
  BY <1>2, DoneWorkerStep DEF WorkerStep
<1>3. CASE \/ \E j \in Jobs : JobStep(j)
           \/ \E h \in Hosts : PenStep(h) \/ ProcessStep(h) \/ Die(h)
           \/ DispatchStep \/ CallFails
  BY <1>3, DoneOtherStep
<1> QED BY <1>1, <1>2, <1>3 DEF Next

\* A session shown as Completed has its answer: CompletedIsTrue, though the
\* records and the row are written in different steps.
THEOREM CompletedHasAnswer == Spec => []CompletedIsTrue
<1>1. Spec => [](CompletedIsTrue /\ DoneInv)
  BY OwnerInvariant, PenTypeInvariant, DoneInit, DoneStep, PTL DEF Spec
<1> QED BY <1>1, PTL

-----------------------------------------------------------------------------
(* The child budget.                                                       *)

\* The lane row is inserted for a session row that is there.
LaneInv == Calling("lane") => call.session \in Children

LEMMA BudgetInit == Init => LaneInv /\ BudgetHolds
<1> SUFFICES ASSUME Init PROVE LaneInv /\ BudgetHolds
  OBVIOUS
<1>1. Children = {}
  BY WorkerAssumption DEF Init, WorkerInit, Children, NoRow, Sessions, WorkerAssumption
<1>2. Cardinality({}) = 0
  BY FS_EmptySet
<1>3. LaneInv
  BY DEF Init, PenInit, NoCall, LaneInv, Calling
<1> QED BY <1>1, <1>2, <1>3, PenAssumption DEF BudgetHolds, PenAssumption

\* Steps outside create_child_session make no row, and no call of theirs is
\* between its two inserts.
LEMMA MadeFrame ==
    ASSUME TypeInv, [Next]_vars, ~CheckBudget, ~InsertLane
    PROVE  /\ \A s \in Sessions : row'[s].made = row[s].made
           /\ Calling("lane")' => Calling("lane") /\ call'.session = call.session
<1>1. row \in [Sessions -> Row] /\ call \in Call
  BY DEF TypeInv, TypeOK, WorkerTypeOK
<1>2. CASE UNCHANGED vars
  BY <1>2 DEF vars, Calling
<1>3. ASSUME NEW w \in Workers, WorkerStep(w)
      PROVE  (\A s \in Sessions : row'[s].made = row[s].made) /\ UNCHANGED call
  <2> DEFINE x == worker[w].session
  <2>1. UNCHANGED call
    BY <1>3 DEF WorkerStep, penVars
  <2>2. \/ UNCHANGED row
        \/ \E st \in {"running", "completed", "failed"}, p \in Hosts \union {Nobody}, g \in Workers \union {Nobody} :
              row' = [row EXCEPT ![x] = [row[x] EXCEPT !.status = st, !.pid = p, !.gen = g]]
    <3>1. x \in Sessions /\ worker[w].host \in Hosts /\ worker[w].status \in {"completed", "failed"}
      BY <1>3, WorkerMoves DEF WorkerStep, Provided, Turn, At, TypeInv, TypeOK, WorkerTypeOK, PlacedInv, Worker
    <3>2. CASE Start(w)
      BY <1>1, <3>1, <3>2 DEF Start
    <3>3. ASSUME NEW st \in {"completed", "failed"}, FinishRow(w, st)
          PROVE  \/ UNCHANGED row
                 \/ row' = [row EXCEPT ![x] = [row[x] EXCEPT !.status = st, !.pid = Nobody, !.gen = Nobody]]
      BY <1>1, <3>1, <3>3 DEF FinishRow
    <3>4. CASE Finish(w) \/ Drop(w)
      <4>1. UNCHANGED row \/ \E st \in {"completed", "failed"} : FinishRow(w, st)
        BY <3>1, <3>4 DEF Finish, Drop
      <4> QED BY <3>3, <4>1
    <3> QED BY <1>3, <3>2, <3>4
            DEF WorkerStep, Lifecycle, Acquire, Recover, Begin, StoreFails, Provided, Turn, Complete, Fail
  <2>3. ASSUME NEW s \in Sessions PROVE row'[s].made = row[s].made
    <3>1. CASE UNCHANGED row
      BY <3>1
    <3>2. CASE ~UNCHANGED row
      <4>1. PICK st \in {"running", "completed", "failed"}, p \in Hosts \union {Nobody},
                 g \in Workers \union {Nobody} :
                row' = [row EXCEPT ![x] = [row[x] EXCEPT !.status = st, !.pid = p, !.gen = g]]
        BY <2>2, <3>2
      <4>2. row[s] \in Row
        BY <1>1
      <4>3. CASE s = x
        <5>1. row'[s] = [row[s] EXCEPT !.status = st, !.pid = p, !.gen = g]
          BY <1>1, <4>1, <4>3
        <5> QED BY <4>2, <5>1 DEF Row
      <4>4. CASE s # x
        BY <1>1, <4>1, <4>4
      <4> QED BY <4>3, <4>4
    <3> QED BY <3>1, <3>2
  <2> QED BY <2>1, <2>3
<1>4. ASSUME NEW j \in Jobs, JobStep(j) PROVE UNCHANGED <<row, call>>
  BY <1>4 DEF JobStep, TimeOut, Cancelled, Dropped, Remove, penVars
<1>5. ASSUME NEW h \in Hosts, PenStep(h) \/ ProcessStep(h) \/ Die(h)
      PROVE  UNCHANGED row /\ (call' = call \/ call'.pc \in {"none", "budget"})
  <2>1. CASE PenStep(h)
    <3>1. ASSUME NEW s \in Kids, NEW b \in BOOLEAN, CallAgent(h, s, b)
          PROVE  UNCHANGED row /\ call'.pc = "budget"
      BY <3>1 DEF CallAgent
    <3>2. ASSUME NEW j \in Jobs, Spawn(h, j) PROVE UNCHANGED row /\ call'.pc = "none"
      BY <3>2 DEF Spawn, NoCall
    <3>3. ASSUME NEW s \in Kids, WaitCompleted(h, s) \/ CancelJob(h, s) PROVE UNCHANGED <<row, call>>
      BY <3>3 DEF WaitCompleted, CancelJob, workerVars
    <3> QED BY <2>1, <3>1, <3>2, <3>3 DEF PenStep
  <2>2. CASE ProcessStep(h)
    BY <2>2 DEF ProcessStep, Launch, Reap, Exit, penVars
  <2>3. CASE Die(h)
    BY <2>3 DEF Die, Crash, NoCall
  <2> QED BY <1>5, <2>1, <2>2, <2>3
<1>6. ASSUME ReadOutcome \/ Reattach \/ WaitAnswer \/ CallFails
      PROVE  UNCHANGED row /\ (call' = call \/ call'.pc # "lane")
  BY <1>1, <1>6 DEF ReadOutcome, Reattach, WaitAnswer, CallFails, NoCall, workerVars, Call
<1>7. Next => (\A s \in Sessions : row'[s].made = row[s].made) /\ (call' = call \/ call'.pc # "lane")
  BY <1>3, <1>4, <1>5, <1>6 DEF Next, DispatchStep
<1> QED BY <1>2, <1>7 DEF Calling

LEMMA BudgetStep == TypeInv /\ LaneInv /\ BudgetHolds /\ [Next]_vars => (LaneInv /\ BudgetHolds)'
<1> SUFFICES ASSUME TypeInv, LaneInv, BudgetHolds, [Next]_vars PROVE LaneInv' /\ BudgetHolds'
  OBVIOUS
<1> DEFINE s == call.session
<1>1. row \in [Sessions -> Row] /\ Kids \subseteq Sessions /\ call \in Call
  BY DEF TypeInv, TypeOK, WorkerTypeOK, Sessions
<1>0. IsFiniteSet(Children) /\ Cardinality(Children) \in Nat
  BY FS_Subset, FS_CardinalityType, PenAssumption DEF Children, PenAssumption
<1>2. CASE CheckBudget /\ row[s].made # "no"
  BY <1>1, <1>2 DEF CheckBudget, BudgetHolds, Children, LaneInv, Calling, Call
<1>3. CASE CheckBudget /\ row[s].made = "no" /\ Cardinality(Children) >= MaxChildren
  <2>1. UNCHANGED row /\ call' = NoCall
    BY <1>0, <1>3, PenAssumption DEF CheckBudget, PenAssumption
  <2> QED BY <2>1 DEF BudgetHolds, Children, LaneInv, Calling, NoCall
<1>4. CASE CheckBudget /\ row[s].made = "no" /\ ~(Cardinality(Children) >= MaxChildren)
  <2>1. /\ s \in Kids /\ row[s].made = "no" /\ Cardinality(Children) < MaxChildren
        /\ row' = [row EXCEPT ![s].made = "session"]
        /\ call' = [call EXCEPT !.pc = "lane"]
    BY <1>4 DEF CheckBudget, Calling, TypeInv, CallInv
  <2>2. \A x \in Sessions : row'[x].made = IF x = s THEN "session" ELSE row[x].made
    BY <1>1, <2>1 DEF Row
  <2>3. Children' = Children \union {s} /\ s \notin Children
    BY <1>1, <2>1, <2>2 DEF Children
  <2>4. Cardinality(Children') = Cardinality(Children) + 1
    BY <1>0, <2>3, FS_AddElement
  <2>5. LaneInv'
    BY <1>1, <2>1, <2>3 DEF LaneInv, Call
  <2> QED BY <1>0, <2>1, <2>4, <2>5, PenAssumption DEF BudgetHolds, PenAssumption
<1>5. CASE InsertLane
  <2>1. s \in Children /\ row' = [row EXCEPT ![s].made = "lane"] /\ call'.pc = "place"
    BY <1>1, <1>5 DEF InsertLane, LaneInv, Call
  <2>2. Children' = Children
    BY <1>1, <2>1 DEF Children, Row
  <2> QED BY <2>1, <2>2 DEF BudgetHolds, LaneInv, Calling
<1>6. CASE ~CheckBudget /\ ~InsertLane
  <2>1. Children' = Children
    BY <1>1, <1>6, MadeFrame DEF Children
  <2> QED BY <1>6, <2>1, MadeFrame DEF BudgetHolds, LaneInv
<1> QED BY <1>2, <1>3, <1>4, <1>5, <1>6

\* The budget holds for every number of processes, calls and restarts.
THEOREM BudgetIsKept == Spec => []BudgetHolds
<1>1. Spec => [](LaneInv /\ BudgetHolds)
  BY PenTypeInvariant, BudgetInit, BudgetStep, PTL DEF Spec
<1> QED BY <1>1, PTL

-----------------------------------------------------------------------------
(* The registry of running background tasks.                               *)

\* v is a task of h that works for s in the background and has not ended.
Tracks(v, h, s) ==
    /\ v.pc \notin {"unused", "gone"}
    /\ v.session = s
    /\ v.host = h
    /\ v.kind = "background"

\* Every entry has such a task, until the process has returned from main and
\* its runtime drops the tasks.
EntryInv ==
    \A h \in Hosts, s \in Kids : registry[h][s] # Nobody => At(h, "gone") \/ Tracks(worker[registry[h][s]], h, s)

LEMMA EntryInit == Init => EntryInv
BY DEF Init, PenInit, NoEntries, EntryInv

\* A background task's own steps lead to "remove", never past it.
LEMMA EntryWorkerStep ==
    ASSUME TypeInv, EntryInv, NEW w \in Workers, Lifecycle(w) \/ StoreFails(w) \/ Provided(w), UNCHANGED registry
    PROVE  EntryInv'
<1>1. worker \in [Workers -> Worker] /\ worker[w] \in Worker /\ Jobs \subseteq Workers /\ Hosts \subseteq Workers
      /\ registry \in [Hosts -> [Kids -> Jobs \union {Nobody}]]
  BY DEF TypeInv, TypeOK, WorkerTypeOK, Workers
<1>2. /\ worker[w].pc \notin {"unused", "gone"}
      /\ worker[w].kind = "background" =>
            /\ worker'[w].pc \notin {"unused", "gone"}
            /\ worker'[w].session = worker[w].session
            /\ worker'[w].host = worker[w].host
            /\ worker'[w].kind = worker[w].kind
  BY <1>1 DEF Lifecycle, Acquire, Start, Recover, Begin, Finish, Drop, StoreFails, Provided, Turn, Complete,
              Fail, Goto, Leave, At, Worker
<1> SUFFICES ASSUME NEW h \in Hosts, NEW s \in Kids, registry[h][s] # Nobody
             PROVE  At(h, "gone")' \/ Tracks(worker'[registry[h][s]], h, s)
  BY DEF EntryInv
<1>3. registry[h][s] \in Jobs
  BY <1>1
<1>4. CASE At(h, "gone")
  BY <1>1, <1>2, <1>4, WorkerFrame DEF At
<1>5. CASE Tracks(worker[registry[h][s]], h, s)
  BY <1>1, <1>2, <1>3, <1>5, WorkerFrame DEF Tracks
<1> QED BY <1>4, <1>5 DEF EntryInv

\* A task that ends as itself removes its own entry, and one that is dropped
\* belongs to a process that has returned from main.
LEMMA EntryJobStep ==
    ASSUME TypeInv, EntryInv, NEW j \in Jobs, JobStep(j)
    PROVE  EntryInv'
<1>1. worker \in [Workers -> Worker] /\ worker[j] \in Worker /\ Jobs \subseteq Workers /\ Hosts \subseteq Workers
      /\ registry \in [Hosts -> [Kids -> Jobs \union {Nobody}]] /\ j \in Workers
  BY DEF TypeInv, TypeOK, WorkerTypeOK, Workers
<1> SUFFICES ASSUME NEW h \in Hosts, NEW s \in Kids, registry'[h][s] # Nobody
             PROVE  At(h, "gone")' \/ Tracks(worker'[registry'[h][s]], h, s)
  BY DEF EntryInv
<1> DEFINE i == registry[h][s]
<1>2. CASE TimeOut(j) \/ Cancelled(j) \/ Dropped(j)
  <2>1. UNCHANGED registry /\ worker[j].pc \notin {"unused", "gone"}
    BY <1>2 DEF JobStep, TimeOut, Cancelled, Dropped, Remove, At, penVars
  <2>2. \A u \in Workers \ {j} : worker'[u] = worker[u]
    BY <1>1, <1>2 DEF TimeOut, Cancelled, Dropped, Goto
  <2>3. CASE At(h, "gone")
    BY <1>1, <2>1, <2>2, <2>3 DEF At
  <2>4. CASE ~At(h, "gone") /\ Tracks(worker[i], h, s)
    <3>1. i \in Workers
      BY <1>1, <2>1
    <3>2. CASE i # j
      BY <2>1, <2>2, <2>4, <3>1, <3>2 DEF Tracks
    <3>3. CASE i = j
      <4>1. worker'[j] \in {[worker[j] EXCEPT !.pc = "finish", !.status = "failed"], [worker[j] EXCEPT !.pc = "drop"]}
        BY <1>1, <1>2, <2>4, <3>3 DEF TimeOut, Cancelled, Dropped, Exiting, Goto, Tracks
      <4> QED BY <1>1, <2>1, <2>4, <3>3, <4>1 DEF Tracks, Worker
    <3> QED BY <3>2, <3>3
  <2> QED BY <2>1, <2>3, <2>4 DEF EntryInv
<1>3. CASE Remove(j)
  <2>1. registry' = [registry EXCEPT ![worker[j].host][worker[j].session] = Nobody]
    BY <1>3 DEF Remove
  <2>2. registry'[h][s] = i /\ ~(h = worker[j].host /\ s = worker[j].session)
    BY <1>1, <2>1
  <2>3. ASSUME NEW u \in Workers \ {j}
        PROVE  /\ worker'[u].pc = worker[u].pc /\ worker'[u].session = worker[u].session
               /\ worker'[u].host = worker[u].host /\ worker'[u].kind = worker[u].kind
    <3>1. worker'[u] \in {worker[u], [worker[u] EXCEPT !.cancel = TRUE]} /\ worker[u] \in Worker
      BY <1>1, <1>3 DEF Remove
    <3> QED BY <3>1 DEF Worker
  <2>4. CASE At(h, "gone")
    <3>1. h # j
      BY <1>3, <2>4 DEF Remove, At
    <3> QED BY <1>1, <2>3, <2>4, <3>1 DEF At
  <2>5. CASE Tracks(worker[i], h, s)
    <3>1. i # j /\ i \in Workers
      BY <1>1, <2>2, <2>5 DEF Tracks
    <3> QED BY <2>2, <2>3, <2>5, <3>1 DEF Tracks
  <2> QED BY <2>2, <2>4, <2>5 DEF EntryInv
<1> QED BY <1>2, <1>3 DEF JobStep

LEMMA EntryPenStep ==
    ASSUME TypeInv, EntryInv, NEW g \in Hosts, PenStep(g)
    PROVE  EntryInv'
<1>1. worker \in [Workers -> Worker] /\ Jobs \subseteq Workers /\ Hosts \subseteq Workers
      /\ registry \in [Hosts -> [Kids -> Jobs \union {Nobody}]]
  BY DEF TypeInv, TypeOK, WorkerTypeOK, Workers
<1>2. CASE UNCHANGED <<worker, registry>>
  BY <1>2 DEF EntryInv, At, Tracks
<1> SUFFICES ASSUME NEW h \in Hosts, NEW s \in Kids, registry'[h][s] # Nobody,
                    (\E j \in Jobs : Spawn(g, j)) \/ (\E x \in Kids : CancelJob(g, x))
             PROVE  At(h, "gone")' \/ Tracks(worker'[registry'[h][s]], h, s)
  BY <1>2 DEF EntryInv, PenStep, CallAgent, WaitCompleted, workerVars
<1>3. ASSUME NEW j \in Jobs, Spawn(g, j)
      PROVE  At(h, "gone")' \/ Tracks(worker'[registry'[h][s]], h, s)
  <2> DEFINE x == call.session
             v == [Unused EXCEPT !.pc = "acquire", !.host = g, !.session = x,
                                 !.kind = IF call.background THEN "background" ELSE "foreground"]
  <2>1. worker' = [worker EXCEPT ![j] = v] /\ worker[j].pc = "unused" /\ x \in Kids
    BY <1>3 DEF Spawn, At, Calling, TypeInv, CallInv
  <2>2. CASE registry'[h][s] = registry[h][s]
    <3>1. CASE At(h, "gone")
      BY <1>1, <2>1, <3>1 DEF At
    <3>2. CASE Tracks(worker[registry[h][s]], h, s)
      BY <1>1, <2>1, <2>2, <3>2 DEF Tracks
    <3> QED BY <2>2, <3>1, <3>2 DEF EntryInv
  <2>3. CASE registry'[h][s] # registry[h][s]
    <3>1. call.background /\ h = g /\ s = x /\ registry'[h][s] = j
      BY <1>1, <1>3, <2>1, <2>3 DEF Spawn
    <3>2. worker'[j].pc = "acquire" /\ worker'[j].session = s /\ worker'[j].host = h /\ worker'[j].kind = "background"
      BY <1>1, <2>1, <3>1 DEF Unused
    <3> QED BY <3>1, <3>2 DEF Tracks
  <2> QED BY <2>2, <2>3
<1>4. ASSUME NEW x \in Kids, CancelJob(g, x)
      PROVE  At(h, "gone")' \/ Tracks(worker'[registry'[h][s]], h, s)
  <2>1. registry'[h][s] = registry[h][s]
    BY <1>1, <1>4 DEF CancelJob
  <2>2. ASSUME NEW u \in Workers
        PROVE  /\ worker'[u].pc = worker[u].pc /\ worker'[u].session = worker[u].session
               /\ worker'[u].host = worker[u].host /\ worker'[u].kind = worker[u].kind
    <3>1. worker'[u] \in {worker[u], [worker[u] EXCEPT !.cancel = TRUE]} /\ worker[u] \in Worker
      BY <1>1, <1>4 DEF CancelJob
    <3> QED BY <3>1 DEF Worker
  <2>3. registry[h][s] \in Workers
    BY <1>1, <2>1
  <2> QED BY <1>1, <2>1, <2>2, <2>3 DEF EntryInv, At, Tracks
<1> QED BY <1>3, <1>4

\* A process takes its registry with it.
LEMMA EntryProcessStep ==
    ASSUME TypeInv, EntryInv, NEW g \in Hosts, ProcessStep(g) \/ Die(g)
    PROVE  EntryInv'
<1>1. worker \in [Workers -> Worker] /\ Jobs \subseteq Workers /\ Hosts \subseteq Workers
      /\ registry \in [Hosts -> [Kids -> Jobs \union {Nobody}]]
  BY DEF TypeInv, TypeOK, WorkerTypeOK, Workers
<1> SUFFICES ASSUME NEW h \in Hosts, NEW s \in Kids, registry'[h][s] # Nobody
             PROVE  At(h, "gone")' \/ Tracks(worker'[registry'[h][s]], h, s)
  BY DEF EntryInv
<1> DEFINE i == registry[h][s]
<1>2. ASSUME NEW x \in Sessions, Launch(g, x), UNCHANGED registry
      PROVE  At(h, "gone")' \/ Tracks(worker'[registry'[h][s]], h, s)
  <2>1. worker[g].pc = "unused" /\ \A u \in Workers \ {g} : worker'[u] = worker[u]
    BY <1>1, <1>2 DEF Launch, TypeInv, UnbornInv
  <2>2. i \in Workers
    BY <1>1, <1>2
  <2> QED BY <1>1, <1>2, <2>1, <2>2 DEF EntryInv, At, Tracks
<1>3. CASE Reap(g) /\ UNCHANGED registry
  BY <1>3 DEF Reap, EntryInv, At, Tracks
<1>4. CASE Exit(g) /\ registry' = [registry EXCEPT ![g] = NoEntries]
  <2>1. registry'[h][s] = i /\ UNCHANGED worker
    BY <1>1, <1>4 DEF Exit, NoEntries
  <2> QED BY <2>1 DEF EntryInv, At, Tracks
<1>5. CASE Die(g)
  <2>1. registry'[h][s] = i /\ h # g
    BY <1>1, <1>5 DEF Die, NoEntries
  <2>2. \A u \in Workers : worker'[u] = IF u \in WorkersOf(g) THEN Gone ELSE worker[u]
    BY <1>5 DEF Die, Crash
  <2>3. CASE At(h, "gone")
    BY <1>1, <2>2, <2>3, UnusedTypes DEF At
  <2>4. CASE Tracks(worker[i], h, s)
    <3>1. i \in Workers /\ i \notin WorkersOf(g)
      BY <1>1, <2>1, <2>4 DEF Tracks, WorkersOf
    <3> QED BY <2>1, <2>2, <2>4, <3>1 DEF Tracks
  <2> QED BY <2>1, <2>3, <2>4 DEF EntryInv
<1> QED BY <1>2, <1>3, <1>4, <1>5 DEF ProcessStep, penVars, Sessions

LEMMA EntryStep == TypeInv /\ EntryInv /\ [Next]_vars => EntryInv'
<1> SUFFICES ASSUME TypeInv, EntryInv, [Next]_vars PROVE EntryInv'
  OBVIOUS
<1>1. CASE UNCHANGED vars
  BY <1>1 DEF vars, EntryInv, At, Tracks
<1>2. CASE \E w \in Workers : WorkerStep(w)
  BY <1>2, EntryWorkerStep DEF WorkerStep, penVars
<1>3. CASE DispatchStep \/ CallFails
  BY <1>3 DEF DispatchStep, CheckBudget, InsertLane, ReadOutcome, Reattach, WaitAnswer, CallFails, workerVars,
              EntryInv, At, Tracks
<1> QED BY <1>1, <1>2, <1>3, EntryJobStep, EntryPenStep, EntryProcessStep DEF Next

\* A cancel sender that a running parent keeps belongs to a task of that child
\* which has not ended: EntryHasTask.
THEOREM EntriesAreLive == Spec => []EntryHasTask
<1>1. EntryInv => EntryHasTask
  BY DEF EntryInv, Tracks, EntryHasTask, Parent, At
<1>2. Spec => []EntryInv
  BY PenTypeInvariant, EntryInit, EntryStep, PTL DEF Spec
<1> QED BY <1>1, <1>2, PTL

-----------------------------------------------------------------------------
(* A run without a worker.                                                 *)

\* An open run is behind a row that says running or failed.
OpenInv == \A s \in Sessions : run[s].open => row[s].status \in {"running", "failed"}

\* A worker that is in use belongs to a process that runs.
HostedInv == \A w \in Workers : worker[w].host # Nobody => process[worker[w].host] = "alive"

\* A row that says running is written over by the worker it names, unless the
\* process of that worker has died.
OnDuty(s) ==
    LET w == row[s].gen IN
    /\ row[s].pid \in Hosts
    /\ \/ process[row[s].pid] = "dead"
       \/ w \in Workers /\ worker[w].pc \in Owning /\ worker[w].session = s

RunningInv == \A s \in Sessions : row[s].status = "running" => OnDuty(s)

OrphanInv == OpenInv /\ HostedInv /\ RunningInv

LEMMA OrphanInit == Init => OrphanInv
BY UnusedTypes DEF Init, WorkerInit, OrphanInv, OpenInv, HostedInv, RunningInv, NoRow, NoRun, Unused

\* What another worker's row says stays true.
LEMMA OrphanElsewhere ==
    ASSUME TypeInv, OrphanInv, NEW w \in Workers, Lifecycle(w) \/ StoreFails(w) \/ Provided(w),
           NEW x \in Sessions, row'[x] = row[x],
           x = worker[w].session => row[x].gen # w
    PROVE  row'[x].status = "running" => OnDuty(x)'
<1>1. UNCHANGED process
  BY DEF Lifecycle, Acquire, Start, Recover, Begin, Finish, Drop, StoreFails, Provided, Turn, Complete, Fail
<1>2. ASSUME NEW v \in Workers, v = row[x].gen, worker[v].session = x PROVE worker'[v] = worker[v]
  BY <1>2, WorkerFrame
<1> QED BY <1>1, <1>2 DEF OrphanInv, RunningInv, OnDuty

\* Only a store that fails lets a worker leave its row as it is.
LEMMA OrphanWorkerStep ==
    ASSUME TypeInv, OwnerInv, DoneInv, OrphanInv, "store" \notin Faults, NEW w \in Workers,
           Lifecycle(w) \/ StoreFails(w) \/ Provided(w)
    PROVE  OrphanInv'
<1>0. PICK s : s = worker[w].session
  OBVIOUS
<1>1. worker \in [Workers -> Worker] /\ row \in [Sessions -> Row] /\ run \in [Sessions -> Run]
      /\ worker[w] \in Worker /\ s \in Sessions /\ worker[w].pc \notin {"unused", "gone"}
  BY <1>0, WorkerMoves DEF TypeInv, TypeOK, WorkerTypeOK, PlacedInv, Provided, Turn, At
<1>2. UNCHANGED process /\ ~StoreFails(w)
  BY DEF Lifecycle, Acquire, Start, Recover, Begin, Finish, Drop, StoreFails, Provided, Turn, Complete, Fail, Fault
<1>3. HostedInv'
  <2>1. worker'[w].host \in {worker[w].host, Nobody}
    BY <1>1, <1>2, UnusedTypes DEF Lifecycle, Acquire, Start, Recover, Begin, Finish, Drop, Provided, Turn, Complete,
          Fail, Goto, Leave, Gone, Unused, Worker
  <2> QED BY <1>2, <2>1, WorkerFrame DEF OrphanInv, HostedInv
<1>4. (run'[s].open => row'[s].status \in {"running", "failed"})
      /\ (row'[s].status = "running" => OnDuty(s)')
  <2>1. CASE Acquire(w)
    <3>1. UNCHANGED <<row, run>> /\ worker[w].pc \notin Owning
      BY <2>1 DEF Acquire, At, Owning
    <3>2. CASE row[s].gen # w
      BY <1>0, <1>1, <3>1, <3>2, OrphanElsewhere DEF OrphanInv, OpenInv
    <3>3. CASE row[s].gen = w
      BY <1>0, <1>1, <1>2, <3>1, <3>3 DEF OrphanInv, OpenInv, RunningInv, OnDuty
    <3> QED BY <3>2, <3>3
  <2>2. CASE Start(w)
    <3>1. worker'[w].pc = "recover" /\ worker'[w].session = s
      BY <1>0, <1>1, <2>2 DEF Start, Goto, Worker
    <3>2. row'[s].status = "running" /\ row'[s].gen = w /\ row'[s].pid = worker[w].host
      BY <1>0, <1>1, <2>2 DEF Start, Row
    <3>3. worker[w].host \in Hosts
      BY <1>0, <1>1 DEF TypeInv, PlacedInv
    <3> QED BY <3>1, <3>2, <3>3 DEF Owning, OnDuty
  <2>3. CASE Recover(w) \/ Begin(w) \/ Turn(w) \/ Complete(w) \/ Fail(w)
    <3>1. UNCHANGED row /\ row[s].status = "running" /\ row[s].gen = w /\ row[s].pid \in Hosts
      BY <1>0, <1>1, <2>3 DEF Recover, Begin, Turn, Complete, Fail, At, Owning, OwnerInv, Owns, TypeInv, PlacedInv
    <3>2. worker'[w].session = s /\ worker'[w].pc \in Owning
      BY <1>0, <1>1, <2>3 DEF Recover, Begin, Turn, Complete, Fail, Goto, At, Worker, Owning
    <3> QED BY <3>1, <3>2 DEF OnDuty
  <2>4. CASE Finish(w)
    <3>1. row[s].gen = w
      BY <1>0, <2>4 DEF Finish, At, OwnerInv, Owns, Owning
    <3>2. row'[s].status = worker[w].status /\ UNCHANGED run
      BY <1>0, <1>1, <2>4, <3>1 DEF Finish, FinishRow, Row
    <3>3. worker[w].status = "completed" => ~run[s].open
      BY <1>0, <2>4 DEF Finish, At, DoneInv, Answered
    <3> QED BY <1>0, <1>1, <3>2, <3>3 DEF Worker
  <2>5. CASE Drop(w)
    <3>1. CASE At(w, "drop") /\ FinishRow(w, "failed")
      <4>1. row[s].gen = w
        BY <1>0, <3>1 DEF At, OwnerInv, Owns, Owning
      <4>2. row'[s].status = "failed"
        BY <1>0, <1>1, <3>1, <4>1 DEF FinishRow, Row
      <4> QED BY <4>2
    <3>2. CASE At(w, "unlock") /\ UNCHANGED row
      <4>1. UNCHANGED <<row, run>> /\ worker[w].pc \notin Owning
        BY <2>5, <3>2 DEF Drop, At, Owning
      <4>2. CASE row[s].gen # w
        BY <1>0, <1>1, <4>1, <4>2, OrphanElsewhere DEF OrphanInv, OpenInv
      <4>3. CASE row[s].gen = w
        BY <1>0, <1>1, <1>2, <4>1, <4>3 DEF OrphanInv, OpenInv, RunningInv, OnDuty
      <4> QED BY <4>2, <4>3
    <3> QED BY <2>5, <3>1, <3>2 DEF Drop
  <2> QED BY <1>2, <2>1, <2>2, <2>3, <2>4, <2>5 DEF Lifecycle, Provided
<1>5. ASSUME NEW x \in Sessions, x # s
      PROVE  (run'[x].open => row'[x].status \in {"running", "failed"})
             /\ (row'[x].status = "running" => OnDuty(x)')
  <2>1. row'[x] = row[x] /\ run'[x] = run[x]
    BY <1>0, <1>5, WorkerFrame
  <2> QED BY <1>0, <1>5, <2>1, OrphanElsewhere DEF OrphanInv, OpenInv
<1>6. OpenInv' /\ RunningInv'
  BY <1>4, <1>5 DEF OpenInv, RunningInv
<1> QED BY <1>3, <1>6 DEF OrphanInv

\* Everything but a crash leaves rows and runs to their workers, and keeps a
\* worker that writes one at it.
LEMMA OrphanOtherStep ==
    ASSUME TypeInv, OrphanInv, Zombies = FALSE,
           \/ \E j \in Jobs : JobStep(j)
           \/ \E h \in Hosts : PenStep(h) \/ ProcessStep(h)
           \/ DispatchStep \/ CallFails
    PROVE  OrphanInv'
<1>1. worker \in [Workers -> Worker] /\ row \in [Sessions -> Row] /\ Jobs \subseteq Workers /\ Hosts \subseteq Workers
      /\ process \in [Hosts -> {"unborn", "alive", "zombie", "dead"}]
  BY DEF TypeInv, TypeOK, WorkerTypeOK, Workers
<1>2. UNCHANGED run
  BY DEF JobStep, TimeOut, Cancelled, Dropped, Remove, PenStep, CallAgent, Spawn, WaitCompleted, CancelJob,
         ProcessStep, Launch, Reap, Exit, DispatchStep, CheckBudget, InsertLane, ReadOutcome,
         Reattach, WaitAnswer, CallFails, workerVars
<1>3. ASSUME NEW s \in Sessions
      PROVE  row'[s].status = row[s].status /\ row'[s].gen = row[s].gen /\ row'[s].pid = row[s].pid
  <2>1. UNCHANGED row \/ \E x \in Sessions, m \in {"session", "lane"} : row' = [row EXCEPT ![x].made = m]
    BY DEF JobStep, TimeOut, Cancelled, Dropped, Remove, PenStep, CallAgent, Spawn, WaitCompleted, CancelJob,
           ProcessStep, Launch, Reap, Exit, DispatchStep, CheckBudget, InsertLane, ReadOutcome,
           Reattach, WaitAnswer, CallFails, workerVars, Calling, TypeInv, CallInv, Sessions
  <2> QED BY <1>1, <2>1 DEF Row
<1>4. ASSUME NEW h \in Hosts
      PROVE  /\ process[h] = "dead" => process'[h] = "dead"
             /\ process[h] = "alive" => process'[h] = "alive" \/ (WorkersOf(h) = {} /\ UNCHANGED worker)
  <2>1. CASE UNCHANGED process
    BY <2>1
  <2>2. CASE \E g \in Hosts : Exit(g) \/ Reap(g)
    BY <1>1, <2>2 DEF Exit, Exiting, Ended, Reap
  <2>3. CASE \E g \in Hosts, s \in Sessions : Launch(g, s)
    BY <1>1, <2>3 DEF Launch
  <2> QED BY <2>1, <2>2, <2>3 DEF JobStep, TimeOut, Cancelled, Dropped, Remove, PenStep, CallAgent, Spawn,
             WaitCompleted, CancelJob, ProcessStep, DispatchStep, CheckBudget, InsertLane, ReadOutcome, Reattach,
             WaitAnswer, CallFails, workerVars, Sessions
<1>5. ASSUME NEW u \in Workers
      PROVE  /\ worker[u].pc \in Owning => worker'[u].pc \in Owning /\ worker'[u].session = worker[u].session
             /\ \/ worker'[u].host \in {Nobody, worker[u].host}
                \/ worker'[u].host \in Hosts /\ process'[worker'[u].host] = "alive"
  <2>0. worker[u] \in Worker
    BY <1>1
  <2>1. CASE UNCHANGED worker
    BY <2>1
  <2>2. CASE \E j \in Jobs : TimeOut(j) \/ Cancelled(j) \/ Dropped(j)
    <3>1. \/ worker'[u] = worker[u]
          \/ worker[u].pc = "acquire" /\ worker'[u] = Gone
          \/ worker'[u] = [worker[u] EXCEPT !.pc = "finish", !.status = "failed"]
          \/ worker'[u] = [worker[u] EXCEPT !.pc = "drop"]
      BY <1>1, <2>2 DEF TimeOut, Cancelled, Dropped, Goto, At
    <3> QED BY <2>0, <3>1, UnusedTypes DEF Owning, Worker, Gone, Unused
  <2>3. CASE \E j \in Jobs : Remove(j)
    <3>1. \/ worker'[u] \in {worker[u], [worker[u] EXCEPT !.cancel = TRUE]}
          \/ worker[u].pc = "remove" /\ worker'[u] = Gone
      BY <1>1, <2>3 DEF Remove, At
    <3> QED BY <2>0, <3>1, UnusedTypes DEF Owning, Worker, Gone, Unused
  <2>4. CASE \E h \in Hosts, s \in Sessions : Launch(h, s)
    <3>1. PICK h \in Hosts, s \in Sessions : Launch(h, s)
      BY <2>4
    <3>2. CASE u = h
      <4>1. worker[u].pc = "unused"
        BY <3>1, <3>2 DEF Launch, TypeInv, UnbornInv
      <4>2. worker'[u].host = h /\ process'[h] = "alive"
        BY <1>1, <3>1, <3>2 DEF Launch, Unused
      <4> QED BY <4>1, <4>2 DEF Owning
    <3>3. CASE u # h
      BY <1>1, <3>1, <3>3 DEF Launch
    <3> QED BY <3>2, <3>3
  <2>5. CASE \E h \in Hosts, i \in Jobs : Spawn(h, i)
    <3>1. PICK h \in Hosts, i \in Jobs : Spawn(h, i)
      BY <2>5
    <3>2. CASE u = i
      <4>1. worker[u].pc = "unused"
        BY <3>1, <3>2 DEF Spawn, At
      <4>2. worker'[u].host = h /\ process'[h] = "alive"
        BY <1>1, <3>1, <3>2 DEF Spawn, Parent, Unused
      <4> QED BY <4>1, <4>2 DEF Owning
    <3>3. CASE u # i
      BY <1>1, <3>1, <3>3 DEF Spawn
    <3> QED BY <3>2, <3>3
  <2>6. CASE \E h \in Hosts, s \in Kids : CancelJob(h, s)
    <3>1. worker'[u] \in {worker[u], [worker[u] EXCEPT !.cancel = TRUE]}
      BY <1>1, <2>6 DEF CancelJob
    <3> QED BY <2>0, <3>1 DEF Worker
  <2> QED BY <2>1, <2>2, <2>3, <2>4, <2>5, <2>6
          DEF JobStep, PenStep, CallAgent, WaitCompleted, ProcessStep, Reap, Exit, DispatchStep, CheckBudget,
              InsertLane, ReadOutcome, Reattach, WaitAnswer, CallFails, workerVars, Sessions
<1>6. OpenInv'
  BY <1>2, <1>3 DEF OrphanInv, OpenInv
<1>7. HostedInv'
  <2> SUFFICES ASSUME NEW u \in Workers, worker'[u].host # Nobody PROVE process'[worker'[u].host] = "alive"
    BY DEF HostedInv
  <2>1. CASE worker'[u].host = worker[u].host
    <3>1. worker[u].host \in Hosts /\ process[worker[u].host] = "alive"
      BY <1>1, <2>1 DEF OrphanInv, HostedInv, Worker
    <3>2. u \in WorkersOf(worker[u].host)
      BY DEF WorkersOf
    <3> QED BY <1>4, <2>1, <3>1, <3>2
  <2> QED BY <1>5, <2>1
<1>8. RunningInv'
  <2> SUFFICES ASSUME NEW s \in Sessions, row'[s].status = "running" PROVE OnDuty(s)'
    BY DEF RunningInv
  <2>1. OnDuty(s)
    BY <1>3 DEF OrphanInv, RunningInv
  <2>2. row[s].pid \in Hosts /\ row'[s].pid = row[s].pid /\ row'[s].gen = row[s].gen
    BY <1>3, <2>1 DEF OnDuty
  <2> QED BY <1>4, <1>5, <2>1, <2>2 DEF OnDuty
<1> QED BY <1>6, <1>7, <1>8 DEF OrphanInv

\* A crash ends the process with its workers: their rows name a dead process.
LEMMA OrphanDie ==
    ASSUME TypeInv, OwnerInv, OrphanInv, Zombies = FALSE, NEW h \in Hosts, Die(h)
    PROVE  OrphanInv'
<1>1. worker \in [Workers -> Worker] /\ process \in [Hosts -> {"unborn", "alive", "zombie", "dead"}]
  BY DEF TypeInv, TypeOK, WorkerTypeOK
<1>2. UNCHANGED <<row, run>> /\ process' = [process EXCEPT ![h] = "dead"]
  BY DEF Die, Crash, Ended
<1>3. \A u \in Workers : worker'[u] = IF worker[u].host = h THEN Gone ELSE worker[u]
  BY DEF Die, Crash, WorkersOf
<1>4. HostedInv'
  <2> SUFFICES ASSUME NEW u \in Workers, worker'[u].host # Nobody PROVE process'[worker'[u].host] = "alive"
    BY DEF HostedInv
  <2>1. worker'[u] = worker[u] /\ worker[u].host # h
    BY <1>3 DEF Gone, Unused
  <2>2. worker[u].host \in Hosts
    BY <1>1, <2>1 DEF Worker
  <2> QED BY <1>1, <1>2, <2>1, <2>2 DEF OrphanInv, HostedInv
<1>5. ASSUME NEW s \in Sessions, row'[s].status = "running" PROVE OnDuty(s)'
  <2>1. OnDuty(s)
    BY <1>2, <1>5 DEF OrphanInv, RunningInv
  <2>2. CASE process[row[s].pid] = "dead"
    BY <1>1, <1>2, <2>1, <2>2 DEF OnDuty
  <2>3. CASE row[s].gen \in Workers /\ worker[row[s].gen].pc \in Owning /\ worker[row[s].gen].session = s
    <3>1. row[s].pid = worker[row[s].gen].host
      BY <2>3 DEF OwnerInv, Owns
    <3> QED BY <1>1, <1>2, <1>3, <2>1, <2>3, <3>1 DEF OnDuty
  <2> QED BY <2>1, <2>2, <2>3 DEF OnDuty
<1> QED BY <1>2, <1>4, <1>5 DEF OrphanInv, OpenInv, RunningInv

LEMMA OrphanStep ==
    ASSUME Zombies = FALSE, "store" \notin Faults
    PROVE  TypeInv /\ OwnerInv /\ DoneInv /\ OrphanInv /\ [Next]_vars => OrphanInv'
<1> SUFFICES ASSUME TypeInv, OwnerInv, DoneInv, OrphanInv, [Next]_vars PROVE OrphanInv'
  OBVIOUS
<1>1. CASE UNCHANGED vars
  BY <1>1 DEF vars, OrphanInv, OpenInv, HostedInv, RunningInv, OnDuty
<1>2. ASSUME NEW w \in Workers, WorkerStep(w) PROVE OrphanInv'
  BY <1>2, OrphanWorkerStep DEF WorkerStep
<1>3. CASE \/ \E j \in Jobs : JobStep(j)
           \/ \E h \in Hosts : PenStep(h) \/ ProcessStep(h)
           \/ DispatchStep \/ CallFails
  BY <1>3, OrphanOtherStep
<1>4. ASSUME NEW h \in Hosts, Die(h) PROVE OrphanInv'
  BY <1>4, OrphanDie
<1> QED BY <1>1, <1>2, <1>3, <1>4 DEF Next

\* An interrupted run nobody works on is shown as Failed: OrphanIsFailed, when
\* the store takes the last write of a worker and the parents of processes wait
\* for them.  (A row that could not be closed names a live process, and a
\* process that was not waited for still answers kill(pid, 0).)
THEOREM OrphansAreFailed ==
    ASSUME Zombies = FALSE, "store" \notin Faults
    PROVE  Spec => []OrphanIsFailed
<1>1. OwnerInv /\ OrphanInv => OrphanIsFailed
  <2> SUFFICES ASSUME OwnerInv, OrphanInv, NEW s \in Sessions, run[s].open, lock[s] = Nobody
               PROVE  AgentStatus(s) = "Failed"
    BY DEF OrphanIsFailed
  <2>1. CASE row[s].status = "failed"
    BY <2>1 DEF AgentStatus
  <2>2. CASE row[s].status = "running"
    <3>1. ASSUME NEW w \in Workers, worker[w].pc \in Owning, worker[w].session = s PROVE FALSE
      BY <3>1, WorkerAssumption DEF OwnerInv, Owns, Locking, WorkerAssumption, Workers
    <3>2. process[row[s].pid] = "dead"
      BY <2>2, <3>1 DEF OrphanInv, RunningInv, OnDuty
    <3>3. ~PidAlive(row[s].pid)
      BY <3>2 DEF PidAlive
    <3> QED BY <2>2, <3>3 DEF AgentStatus
  <2> QED BY <2>1, <2>2 DEF OrphanInv, OpenInv
<1>2. Spec => [](CompletedIsTrue /\ DoneInv)
  BY OwnerInvariant, PenTypeInvariant, DoneInit, DoneStep, PTL DEF Spec
<1>3. Spec => []OrphanInv
  BY <1>2, OwnerInvariant, PenTypeInvariant, OrphanInit, OrphanStep, PTL DEF Spec
<1> QED BY <1>1, <1>3, OwnerInvariant, PTL
==============================================================================
