--------------------------- MODULE BatchScheduler ---------------------------
(***************************************************************************)
(* Agent::execute_batch: how the tool calls of one response are scheduled. *)
(* Maximal groups of adjacent parallel-safe calls run together under a     *)
(* semaphore; any other call runs alone, in its place; results come back   *)
(* in the order the calls were asked for.                                  *)
(*                                                                         *)
(* A tool name stands for the tool and its input: parallel_safe is judged  *)
(* on both.  What a tool does is one touch of the workspace between its    *)
(* start and its end: a parallel-safe call looks at it, a serial call      *)
(* changes it.  A call may fail before or after its touch, and a tool that *)
(* is not registered fails without one.                                    *)
(***************************************************************************)
EXTENDS Naturals, Sequences, FiniteSets

CONSTANTS
    Names,               \* tool calls a response may ask for
    Registered,          \* the names Registry::get knows
    ParallelSafe,        \* the calls whose tool says they may run side by side
    max_parallel_tools   \* AgentConfig

ASSUME BatchAssumption ==
    /\ Registered \subseteq Names
    /\ ParallelSafe \subseteq Names
    /\ max_parallel_tools \in Nat

VARIABLES
    intents,   \* the calls of the batch in request order, <<>> when there is none
    idx, end,  \* calls idx .. end-1 are scheduled, those before idx are answered
    call,      \* where each call is
    world,     \* the calls whose change of the workspace has been made
    seen,      \* what each call found there
    outputs    \* the vector execute_batch returns

batchVars == <<intents, idx, end, call, world, seen, outputs>>

Ended == {"ok", "error"}
Live  == {"running", "touched"}
CallState == {"pending", "queued"} \union Live \union Ended

Requests == 1 .. Len(intents)

\* The semaphore has max(1) permits: a limit of zero would block every group.
Permits == IF max_parallel_tools = 0 THEN 1 ELSE max_parallel_tools

Parallel(i) == intents[i] \in Registered \intersect ParallelSafe

LiveCalls == {i \in Requests : call[i] \in Live}

\* Slip: a call that fails keeps its permit.
ErrorsKeepPermits ==
    Cardinality({i \in Requests : Parallel(i) /\ call[i] \in Live \union {"error"}})

\* Only a parallel call holds a permit, from its start to its end, however it
\* ends.
PermitsTaken == Cardinality({i \in LiveCalls : Parallel(i)})

-----------------------------------------------------------------------------
BatchInit ==
    /\ intents = <<>>
    /\ idx = 1 /\ end = 1
    /\ call = <<>>
    /\ world = {}
    /\ seen = <<>>
    /\ outputs = <<>>

BeginBatch(names) ==
    /\ intents = <<>>
    /\ names # <<>>
    /\ intents' = names
    /\ idx' = 1 /\ end' = 1
    /\ call' = [i \in 1 .. Len(names) |-> "pending"]
    /\ seen' = [i \in 1 .. Len(names) |-> {}]
    /\ world' = {}
    /\ outputs' = <<>>

\* Slip: only the first call of a group is asked.
GroupTakesAll(i, e) == Parallel(i) /\ e = Len(intents) + 1

\* The end of the group that starts at i: the first later call that is serial,
\* or the end of the batch.
GroupEnds(i, e) ==
    /\ i < e /\ e <= Len(intents) + 1
    /\ \A j \in i .. e - 1 : Parallel(j)
    /\ e <= Len(intents) => ~Parallel(e)

StartGroup ==
    /\ idx = end /\ idx \in Requests
    /\ \E e \in 1 .. Len(intents) + 1 :
         /\ GroupEnds(idx, e)
         /\ end' = e
         /\ call' = [i \in Requests |-> IF i \in idx .. e - 1 THEN "queued" ELSE call[i]]
    /\ UNCHANGED <<intents, idx, world, seen, outputs>>

StartSerial ==
    /\ idx = end /\ idx \in Requests
    /\ ~Parallel(idx)
    /\ end' = idx + 1
    /\ call' = [call EXCEPT ![idx] = "running"]
    /\ UNCHANGED <<intents, idx, world, seen, outputs>>

\* Slip: one permit too many.
AcquireOneMore(i) ==
    /\ i \in Requests
    /\ call[i] = "queued"
    /\ PermitsTaken <= Permits
    /\ call' = [call EXCEPT ![i] = "running"]
    /\ UNCHANGED <<intents, idx, end, world, seen, outputs>>

Acquire(i) ==
    /\ i \in Requests
    /\ call[i] = "queued"
    /\ PermitsTaken < Permits
    /\ call' = [call EXCEPT ![i] = "running"]
    /\ UNCHANGED <<intents, idx, end, world, seen, outputs>>

Touch(i) ==
    /\ i \in Requests
    /\ call[i] = "running"
    /\ intents[i] \in Registered
    /\ call' = [call EXCEPT ![i] = "touched"]
    /\ seen' = [seen EXCEPT ![i] = world]
    /\ world' = IF Parallel(i) THEN world ELSE world \union {i}
    /\ UNCHANGED <<intents, idx, end, outputs>>

EndTool(i) ==
    /\ i \in Requests
    /\ \/ call[i] \in Live /\ call' = [call EXCEPT ![i] = "error"]
       \/ call[i] = "touched" /\ call' = [call EXCEPT ![i] = "ok"]
    /\ UNCHANGED <<intents, idx, end, world, seen, outputs>>

Output(i) == [call |-> i, is_error |-> call[i] = "error"]

\* Slip: the first call to end ends the group.
JoinFirst ==
    /\ idx < end
    /\ \E i \in idx .. end - 1 : call[i] \in Ended
    /\ outputs' = outputs \o [k \in 1 .. end - idx |-> Output(idx + k - 1)]
    /\ idx' = end
    /\ UNCHANGED <<intents, end, call, world, seen>>

\* Slip: the results that are errors come last.
JoinErrorsLast ==
    /\ idx < end
    /\ \A i \in idx .. end - 1 : call[i] \in Ended
    /\ LET group == [k \in 1 .. end - idx |-> Output(idx + k - 1)]
       IN  outputs' = outputs \o SelectSeq(group, LAMBDA o : ~o.is_error)
                              \o SelectSeq(group, LAMBDA o : o.is_error)
    /\ idx' = end
    /\ UNCHANGED <<intents, end, call, world, seen>>

\* Slip: failed calls have no result.
JoinSkipsErrors ==
    /\ idx < end
    /\ \A i \in idx .. end - 1 : call[i] \in Ended
    /\ outputs' = outputs \o SelectSeq([k \in 1 .. end - idx |-> Output(idx + k - 1)],
                                      LAMBDA o : ~o.is_error)
    /\ idx' = end
    /\ UNCHANGED <<intents, end, call, world, seen>>

\* join_all returns when the slowest call of the group has ended.
Join ==
    /\ idx < end
    /\ \A i \in idx .. end - 1 : call[i] \in Ended
    /\ outputs' = outputs \o [k \in 1 .. end - idx |-> Output(idx + k - 1)]
    /\ idx' = end
    /\ UNCHANGED <<intents, end, call, world, seen>>

BatchIsDone == intents # <<>> /\ idx > Len(intents)

\* The caller takes the outputs.
TakeOutputs ==
    /\ BatchIsDone
    /\ intents' = <<>>
    /\ call' = <<>> /\ seen' = <<>> /\ world' = {} /\ outputs' = <<>>
    /\ idx' = 1 /\ end' = 1

BatchStep ==
    \/ StartGroup
    \/ StartSerial
    \/ \E i \in Requests : Acquire(i) \/ Touch(i) \/ EndTool(i)
    \/ Join

BatchNext ==
    \/ \E names \in Seq(Names) : BeginBatch(names)
    \/ BatchStep
    \/ TakeOutputs

BatchSpec == BatchInit /\ [][BatchNext]_batchVars

-----------------------------------------------------------------------------
BatchTypeOK ==
    /\ intents \in Seq(Names)
    /\ idx \in 1 .. Len(intents) + 1
    /\ end \in idx .. Len(intents) + 1
    /\ call \in [Requests -> CallState]
    /\ world \subseteq Requests
    /\ seen \in [Requests -> SUBSET Requests]
    /\ outputs \in Seq([call : Requests, is_error : BOOLEAN])
    /\ Len(outputs) = idx - 1

\* A call that may change the workspace overlaps no other call, and groups do
\* not reach across it (agent/src/lib.rs:285-289).
SerialCallRunsAlone ==
    \A i, j \in LiveCalls : i # j => Parallel(i) /\ Parallel(j)

\* At most max_parallel_tools calls run at once, and the permits of calls that
\* failed come back (agent/src/lib.rs:302, :318).
PermitsHold == Cardinality(LiveCalls) <= Permits

\* Running calls side by side cannot be told from running them one by one in
\* request order: a call found the changes of exactly the calls before it, and
\* none of those is made after it looked (agent/src/lib.rs:285-289).
EffectsLookSequential ==
    \A i \in Requests :
        call[i] \in {"touched", "ok"} => seen[i] = {j \in world : j < i}

\* Whatever order the calls ended in, output k is the result of call k: the
\* caller pairs the two by position (agent/src/lib.rs:262-271, :289-290).
OutputsInRequestOrder ==
    \A k \in 1 .. Len(outputs) : call[k] \in Ended /\ outputs[k] = Output(k)
=============================================================================
