--------------------------- MODULE AgentTurnProofs ---------------------------
(***************************************************************************)
(* Proofs about the agent loop, for every batch, every set of tools, every *)
(* limit and whatever the model answers.                                   *)
(*                                                                         *)
(* First the scheduling of a batch on its own.  Its inductive invariant    *)
(* says where the calls are: those before idx have ended, those from end   *)
(* on have not started, and those between are a group of parallel calls or *)
(* one serial call.                                                        *)
(*                                                                         *)
(* Then the loop around it: what each adapter makes of a reply, of a part  *)
(* of one and of a failure is a response or an error; a step of the loop   *)
(* is a step of the batch or leaves it alone; and the transcript never     *)
(* has a call without its result.                                          *)
(***************************************************************************)
EXTENDS AgentTurnProperties, SequenceTheorems, SequenceLemmas

\* Calls before idx have ended, calls from end on have not been looked at.
Progress ==
    /\ \A i \in Requests : i < idx => call[i] \in Ended
    /\ \A i \in Requests : end <= i => call[i] = "pending"
    /\ \A i \in Requests : idx <= i /\ i < end => call[i] # "pending"

\* What is scheduled is a parallel group or a single call, which is never queued
\* when it is serial.
OneGroup ==
    /\ \A i \in Requests : call[i] = "queued" => Parallel(i)
    /\ \/ \A i \in Requests : idx <= i /\ i < end => Parallel(i)
       \/ end = idx + 1

\* Only serial calls that have run change the workspace.
ChangesAreSerial ==
    \A j \in world : ~Parallel(j) /\ call[j] \in {"touched", "ok", "error"}

BatchInv ==
    /\ BatchTypeOK
    /\ Progress
    /\ OneGroup
    /\ ChangesAreSerial
    /\ PermitsHold
    /\ EffectsLookSequential
    /\ OutputsInRequestOrder

-----------------------------------------------------------------------------
LEMMA FunctionIsSeq ==
    ASSUME NEW S, NEW n \in Nat, NEW f \in [1 .. n -> S]
    PROVE  f \in Seq(S) /\ Len(f) = n
<1>1. f \in Seq(S)
    OBVIOUS
<1>2. DOMAIN f = 1 .. n
    OBVIOUS
<1>3. Len(f) \in Nat /\ DOMAIN f = 1 .. Len(f)
    BY <1>1, LenProperties
<1> QED  BY <1>1, <1>2, <1>3

LEMMA LiveFinite ==
    ASSUME BatchTypeOK PROVE IsFiniteSet(LiveCalls)
<1>1. IsFiniteSet(Requests)
    BY FS_Interval DEF Requests, BatchTypeOK
<1> QED  BY <1>1, FS_Subset DEF LiveCalls

LEMMA PermitsNat == Permits \in Nat /\ 1 <= Permits
BY BatchAssumption DEF Permits

\* What is live lies in the group.
LEMMA LiveInGroup ==
    ASSUME BatchTypeOK, Progress, NEW i \in LiveCalls
    PROVE  i \in Requests /\ idx <= i /\ i < end
<1>1. i \in Requests /\ call[i] \in Live
    BY DEF LiveCalls
<1>2. idx \in Nat /\ end \in Nat /\ i \in Nat
    BY <1>1 DEF BatchTypeOK, Requests
<1>3. ~(i < idx) /\ ~(end <= i)
    BY <1>1 DEF Progress, Live, Ended
<1> QED  BY <1>1, <1>2, <1>3

\* A group that starts finds nothing running.
LEMMA NothingLive ==
    ASSUME BatchTypeOK, Progress, idx = end PROVE LiveCalls = {}
<1> SUFFICES ASSUME NEW i \in LiveCalls PROVE FALSE
    OBVIOUS
<1> QED  BY LiveInGroup DEF BatchTypeOK, Requests

\* The invariant implies that serial calls are alone.
LEMMA InvAlone == BatchInv => SerialCallRunsAlone
<1> SUFFICES ASSUME BatchInv, NEW i \in LiveCalls, NEW j \in LiveCalls, i # j
             PROVE  Parallel(i) /\ Parallel(j)
    BY DEF SerialCallRunsAlone
<1>1. /\ i \in Requests /\ idx <= i /\ i < end
      /\ j \in Requests /\ idx <= j /\ j < end
    BY LiveInGroup DEF BatchInv
<1>2. idx \in Nat /\ end \in Nat /\ i \in Nat /\ j \in Nat
    BY <1>1 DEF BatchInv, BatchTypeOK, Requests
<1>3. end # idx + 1
    BY <1>1, <1>2
<1> QED  BY <1>1, <1>3 DEF BatchInv, OneGroup

-----------------------------------------------------------------------------
LEMMA InitInv == BatchInit => BatchInv
<1> SUFFICES ASSUME BatchInit PROVE BatchInv
    OBVIOUS
<1> USE DEF BatchInit
<1>1. Requests = {} /\ LiveCalls = {}
    BY DEF Requests, LiveCalls
<1>2. PermitsHold
    BY <1>1, PermitsNat, FS_EmptySet DEF PermitsHold
<1>3. BatchTypeOK
    BY <1>1 DEF BatchTypeOK, Requests
<1> QED  BY <1>1, <1>2, <1>3 DEF BatchInv, Progress, OneGroup, ChangesAreSerial,
             EffectsLookSequential, OutputsInRequestOrder

\* The empty batch: the start of the caller's next one.
LEMMA BeginInv ==
    ASSUME BatchInv, NEW names \in Seq(Names), BeginBatch(names) PROVE BatchInv'
<1> USE DEF BeginBatch
<1>1. Requests' = 1 .. Len(names) /\ Len(names) \in Nat /\ Len(names) # 0
    BY DEF Requests
<1>2. \A i \in Requests' : call'[i] = "pending"
    BY <1>1
<1>3. LiveCalls' = {}
    BY <1>2 DEF LiveCalls, Live
<1>4. PermitsHold'
    BY <1>3, PermitsNat, FS_EmptySet DEF PermitsHold, Permits
<1>5. BatchTypeOK'
    BY <1>1 DEF BatchTypeOK, Requests, CallState
<1>6. Progress' /\ OneGroup' /\ ChangesAreSerial'
    BY <1>1, <1>2 DEF Progress, OneGroup, ChangesAreSerial
<1>7. EffectsLookSequential' /\ OutputsInRequestOrder'
    BY <1>1, <1>2 DEF EffectsLookSequential, OutputsInRequestOrder
<1> QED  BY <1>4, <1>5, <1>6, <1>7 DEF BatchInv

LEMMA TakeInv ==
    ASSUME BatchInv, TakeOutputs PROVE BatchInv'
<1> USE DEF TakeOutputs
<1>1. Requests' = {} /\ LiveCalls' = {}
    BY DEF Requests, LiveCalls
<1>2. PermitsHold'
    BY <1>1, PermitsNat, FS_EmptySet DEF PermitsHold, Permits
<1>3. BatchTypeOK'
    BY <1>1 DEF BatchTypeOK, Requests
<1> QED  BY <1>1, <1>2, <1>3 DEF BatchInv, Progress, OneGroup, ChangesAreSerial,
             EffectsLookSequential, OutputsInRequestOrder

LEMMA StartGroupInv ==
    ASSUME BatchInv, StartGroup PROVE BatchInv'
<1>1. PICK e \in 1 .. Len(intents) + 1 :
        /\ GroupEnds(idx, e)
        /\ end' = e
        /\ call' = [i \in Requests |-> IF i \in idx .. e - 1 THEN "queued" ELSE call[i]]
    BY DEF StartGroup
<1>2. /\ idx = end /\ idx \in Requests
      /\ intents' = intents /\ idx' = idx /\ world' = world /\ seen' = seen
      /\ outputs' = outputs
    BY DEF StartGroup
<1>3. Requests' = Requests /\ \A i \in Requests : Parallel(i)' <=> Parallel(i)
    BY <1>2 DEF Requests, Parallel
<1>t. BatchTypeOK /\ idx \in Nat /\ e \in Nat /\ idx < e /\ Requests \subseteq Nat
    BY <1>1, <1>2 DEF BatchInv, BatchTypeOK, GroupEnds, Requests
<1>4. \A i \in Requests : idx <= i /\ i < e => call'[i] = "queued" /\ Parallel(i)
    BY <1>1, <1>t DEF GroupEnds
<1>5. \A i \in Requests : ~(idx <= i /\ i < e) => call'[i] = call[i]
    BY <1>1, <1>t
<1>6. \A i \in Requests : idx <= i => call[i] = "pending"
    BY <1>2 DEF BatchInv, Progress
<1>7. BatchTypeOK'
    <2>1. call' \in [Requests -> CallState]
        BY <1>1, <1>t DEF BatchTypeOK, CallState
    <2>2. end' \in idx .. Len(intents) + 1
        BY <1>1, <1>t
    <2> QED  BY <1>2, <1>3, <1>t, <2>1, <2>2 DEF BatchTypeOK
<1>8. Progress'
    BY <1>1, <1>2, <1>3, <1>4, <1>5, <1>6, <1>t DEF Progress, BatchInv, Ended
<1>9. OneGroup'
    BY <1>1, <1>2, <1>3, <1>4, <1>5, <1>6, <1>t DEF OneGroup, BatchInv
<1>10. ChangesAreSerial'
    <2> SUFFICES ASSUME NEW j \in world
                 PROVE  ~Parallel(j)' /\ call'[j] \in {"touched", "ok", "error"}
        BY <1>2 DEF ChangesAreSerial
    <2>1. j \in Requests /\ ~Parallel(j) /\ call[j] \in {"touched", "ok", "error"}
        BY <1>t DEF BatchInv, ChangesAreSerial, BatchTypeOK
    <2> QED  BY <2>1, <1>3, <1>5, <1>6
<1>11. LiveCalls' = {} /\ LiveCalls = {}
    <2>1. LiveCalls = {}
        BY <1>2, NothingLive DEF BatchInv
    <2> QED  BY <2>1, <1>3, <1>4, <1>5 DEF LiveCalls, Live
<1>12. PermitsHold'
    BY <1>11, PermitsNat, FS_EmptySet DEF PermitsHold, Permits
<1>13. EffectsLookSequential'
    BY <1>2, <1>3, <1>4, <1>5 DEF EffectsLookSequential, BatchInv
<1>14. OutputsInRequestOrder'
    <2> SUFFICES ASSUME NEW k \in 1 .. Len(outputs)
                 PROVE  call'[k] \in Ended /\ outputs[k] = Output(k)'
        BY <1>2 DEF OutputsInRequestOrder
    <2>1. k \in Requests /\ k < idx
        BY <1>t DEF BatchTypeOK, Requests
    <2>2. call'[k] = call[k]
        BY <2>1, <1>5, <1>t
    <2> QED  BY <2>2 DEF BatchInv, OutputsInRequestOrder, Output
<1> QED  BY <1>7, <1>8, <1>9, <1>10, <1>12, <1>13, <1>14 DEF BatchInv

LEMMA StartSerialInv ==
    ASSUME BatchInv, StartSerial PROVE BatchInv'
<1>1. /\ idx = end /\ idx \in Requests /\ ~Parallel(idx)
      /\ end' = idx + 1 /\ call' = [call EXCEPT ![idx] = "running"]
      /\ intents' = intents /\ idx' = idx /\ world' = world /\ seen' = seen
      /\ outputs' = outputs
    BY DEF StartSerial
<1>2. Requests' = Requests /\ \A i \in Requests : Parallel(i)' <=> Parallel(i)
    BY <1>1 DEF Requests, Parallel
<1>t. BatchTypeOK /\ idx \in Nat /\ Requests \subseteq Nat /\ call[idx] = "pending"
    BY <1>1 DEF BatchInv, BatchTypeOK, Requests, Progress
<1>3. call'[idx] = "running" /\ \A i \in Requests : i # idx => call'[i] = call[i]
    BY <1>1, <1>t DEF BatchTypeOK
<1>4. BatchTypeOK'
    <2>1. call' \in [Requests -> CallState]
        BY <1>1, <1>t DEF BatchTypeOK, CallState, Live
    <2>2. end' \in idx .. Len(intents) + 1
        BY <1>1, <1>t DEF Requests, BatchTypeOK
    <2> QED  BY <1>1, <1>2, <1>t, <2>1, <2>2 DEF BatchTypeOK
<1>5. Progress'
    BY <1>1, <1>2, <1>3, <1>t DEF Progress, BatchInv, Ended
<1>6. OneGroup'
    BY <1>1, <1>2, <1>3, <1>t DEF OneGroup, BatchInv
<1>7. ChangesAreSerial'
    <2> SUFFICES ASSUME NEW j \in world
                 PROVE  ~Parallel(j)' /\ call'[j] \in {"touched", "ok", "error"}
        BY <1>1 DEF ChangesAreSerial
    <2>1. j \in Requests /\ ~Parallel(j) /\ call[j] \in {"touched", "ok", "error"}
        BY <1>t DEF BatchInv, ChangesAreSerial, BatchTypeOK
    <2> QED  BY <2>1, <1>2, <1>3, <1>t
<1>8. LiveCalls' = {idx}
    <2>1. LiveCalls = {}
        BY <1>1, NothingLive DEF BatchInv
    <2> QED  BY <2>1, <1>1, <1>2, <1>3 DEF LiveCalls, Live
<1>9. PermitsHold'
    BY <1>8, PermitsNat, FS_Singleton DEF PermitsHold, Permits
<1>10. EffectsLookSequential'
    BY <1>1, <1>2, <1>3 DEF EffectsLookSequential, BatchInv
<1>11. OutputsInRequestOrder'
    <2> SUFFICES ASSUME NEW k \in 1 .. Len(outputs)
                 PROVE  call'[k] \in Ended /\ outputs[k] = Output(k)'
        BY <1>1 DEF OutputsInRequestOrder
    <2>1. k \in Requests /\ k < idx
        BY <1>t DEF BatchTypeOK, Requests
    <2>2. call'[k] = call[k]
        BY <2>1, <1>3, <1>t
    <2> QED  BY <2>2 DEF BatchInv, OutputsInRequestOrder, Output
<1> QED  BY <1>4, <1>5, <1>6, <1>7, <1>9, <1>10, <1>11 DEF BatchInv

\* Acquire, Touch and EndTool change one call of the group.
OneCallMoves(i, to) ==
    /\ i \in Requests /\ call[i] \in {"queued"} \union Live
    /\ to \in Live \union Ended
    /\ call' = [call EXCEPT ![i] = to]
    /\ UNCHANGED <<intents, idx, end, outputs>>

LEMMA MovesLemma ==
    ASSUME BatchInv, NEW i, NEW to, OneCallMoves(i, to)
    PROVE  /\ Requests' = Requests /\ \A j \in Requests : Parallel(j)' <=> Parallel(j)
           /\ idx <= i /\ i < end
           /\ call'[i] = to /\ \A j \in Requests : j # i => call'[j] = call[j]
           /\ call' \in [Requests -> CallState]
           /\ Progress' /\ OneGroup' /\ OutputsInRequestOrder'
<1> USE DEF OneCallMoves
<1>1. Requests' = Requests /\ \A j \in Requests : Parallel(j)' <=> Parallel(j)
    BY DEF Requests, Parallel
<1>t. BatchTypeOK /\ idx \in Nat /\ end \in Nat /\ Requests \subseteq Nat
    BY DEF BatchInv, BatchTypeOK, Requests
<1>2. idx <= i /\ i < end
    <2>1. ~(i < idx) /\ ~(end <= i)
        BY DEF BatchInv, Progress, Live, Ended
    <2> QED  BY <2>1, <1>t
<1>3. call'[i] = to /\ \A j \in Requests : j # i => call'[j] = call[j]
    BY <1>t DEF BatchTypeOK
<1>4. call' \in [Requests -> CallState]
    BY <1>t DEF BatchTypeOK, CallState
<1>5. Progress'
    BY <1>1, <1>2, <1>3, <1>t DEF Progress, BatchInv, Live, Ended
<1>6. OneGroup'
    BY <1>1, <1>2, <1>3, <1>t DEF OneGroup, BatchInv, Live, Ended
<1>7. OutputsInRequestOrder'
    <2> SUFFICES ASSUME NEW k \in 1 .. Len(outputs)
                 PROVE  call'[k] \in Ended /\ outputs[k] = Output(k)'
        BY DEF OutputsInRequestOrder
    <2>1. k \in Requests /\ k < idx
        BY <1>t DEF BatchTypeOK, Requests
    <2>2. call'[k] = call[k]
        BY <2>1, <1>2, <1>3, <1>t
    <2> QED  BY <2>2 DEF BatchInv, OutputsInRequestOrder, Output
<1> QED  BY <1>1, <1>2, <1>3, <1>4, <1>5, <1>6, <1>7

LEMMA AcquireInv ==
    ASSUME BatchInv, NEW i, Acquire(i) PROVE BatchInv'
<1>0. OneCallMoves(i, "running")
    BY DEF Acquire, OneCallMoves, Live
<1>1. /\ Requests' = Requests /\ \A j \in Requests : Parallel(j)' <=> Parallel(j)
      /\ idx <= i /\ i < end
      /\ call'[i] = "running" /\ \A j \in Requests : j # i => call'[j] = call[j]
      /\ call' \in [Requests -> CallState]
      /\ Progress' /\ OneGroup' /\ OutputsInRequestOrder'
    BY <1>0, MovesLemma
<1>2. /\ i \in Requests /\ call[i] = "queued" /\ PermitsTaken < Permits
      /\ intents' = intents /\ idx' = idx /\ end' = end /\ world' = world
      /\ seen' = seen /\ outputs' = outputs
    BY DEF Acquire
<1>3. BatchTypeOK'
    BY <1>1, <1>2 DEF BatchTypeOK, BatchInv
<1>4. ChangesAreSerial'
    <2> SUFFICES ASSUME NEW j \in world
                 PROVE  ~Parallel(j)' /\ call'[j] \in {"touched", "ok", "error"}
        BY <1>2 DEF ChangesAreSerial
    <2>1. j \in Requests /\ ~Parallel(j) /\ call[j] \in {"touched", "ok", "error"}
        BY DEF BatchInv, ChangesAreSerial, BatchTypeOK
    <2> QED  BY <2>1, <1>1, <1>2
<1>5. \A j \in LiveCalls : Parallel(j)
    <2> SUFFICES ASSUME NEW j \in LiveCalls PROVE Parallel(j)
        OBVIOUS
    <2>1. j \in Requests /\ idx <= j /\ j < end
        BY LiveInGroup DEF BatchInv
    <2>2. Parallel(i)
        BY <1>2 DEF BatchInv, OneGroup
    <2>3. CASE \A k \in Requests : idx <= k /\ k < end => Parallel(k)
        BY <2>1, <2>3
    <2>4. CASE end = idx + 1
        <3>1. idx \in Nat /\ i \in Nat /\ j \in Nat
            BY <1>2, <2>1 DEF BatchInv, BatchTypeOK, Requests
        <3>2. i = j
            BY <1>1, <2>1, <2>4, <3>1
        <3> QED  BY <2>2, <3>2
    <2> QED  BY <2>3, <2>4 DEF BatchInv, OneGroup
<1>6. LiveCalls' = LiveCalls \union {i}
    BY <1>1, <1>2 DEF LiveCalls, Live
<1>7. PermitsHold'
    <2>1. {j \in LiveCalls : Parallel(j)} = LiveCalls
        BY <1>5
    <2>2. Cardinality(LiveCalls) < Permits
        BY <1>2, <2>1 DEF PermitsTaken
    <2>3. IsFiniteSet(LiveCalls) /\ Cardinality(LiveCalls) \in Nat
        BY LiveFinite, FS_CardinalityType DEF BatchInv
    <2>4. Cardinality(LiveCalls') \in {Cardinality(LiveCalls), Cardinality(LiveCalls) + 1}
        BY <1>6, <2>3, FS_AddElement
    <2> QED  BY <2>2, <2>3, <2>4, PermitsNat DEF PermitsHold, Permits
<1>8. EffectsLookSequential'
    BY <1>1, <1>2 DEF EffectsLookSequential, BatchInv
<1> QED  BY <1>1, <1>3, <1>4, <1>7, <1>8 DEF BatchInv

LEMMA TouchInv ==
    ASSUME BatchInv, NEW i, Touch(i) PROVE BatchInv'
<1>0. OneCallMoves(i, "touched")
    BY DEF Touch, OneCallMoves, Live
<1>1. /\ Requests' = Requests /\ \A j \in Requests : Parallel(j)' <=> Parallel(j)
      /\ idx <= i /\ i < end
      /\ call'[i] = "touched" /\ \A j \in Requests : j # i => call'[j] = call[j]
      /\ call' \in [Requests -> CallState]
      /\ Progress' /\ OneGroup' /\ OutputsInRequestOrder'
    BY <1>0, MovesLemma
<1>2. /\ i \in Requests /\ call[i] = "running"
      /\ intents' = intents /\ idx' = idx /\ end' = end /\ outputs' = outputs
      /\ seen' = [seen EXCEPT ![i] = world]
      /\ world' = IF Parallel(i) THEN world ELSE world \union {i}
    BY DEF Touch
<1>t. BatchTypeOK /\ idx \in Nat /\ end \in Nat /\ Requests \subseteq Nat
    BY DEF BatchInv, BatchTypeOK, Requests
<1>3. BatchTypeOK'
    <2>1. world' \subseteq Requests /\ seen' \in [Requests -> SUBSET Requests]
        BY <1>2, <1>t DEF BatchTypeOK
    <2> QED  BY <1>1, <1>2, <1>t, <2>1 DEF BatchTypeOK
<1>w. \A j \in world : j \in Requests /\ ~Parallel(j) /\ call[j] \in {"touched", "ok", "error"}
    BY <1>t DEF BatchInv, ChangesAreSerial, BatchTypeOK
<1>4. ChangesAreSerial'
    <2> SUFFICES ASSUME NEW j \in world'
                 PROVE  ~Parallel(j)' /\ call'[j] \in {"touched", "ok", "error"}
        BY DEF ChangesAreSerial
    <2>1. CASE j = i
        <3>1. ~Parallel(i)
            BY <1>2, <1>w, <2>1
        <3> QED  BY <2>1, <3>1, <1>1, <1>2
    <2>2. CASE j # i
        <3>1. j \in world
            BY <1>2, <2>2
        <3> QED  BY <2>2, <3>1, <1>w, <1>1
    <2> QED  BY <2>1, <2>2
<1>5. LiveCalls' = LiveCalls
    BY <1>1, <1>2 DEF LiveCalls, Live
<1>6. PermitsHold'
    BY <1>5 DEF PermitsHold, Permits, BatchInv
<1>7. \A j \in world : j < i
    <2> SUFFICES ASSUME NEW j \in world, ~(j < i) PROVE FALSE
        OBVIOUS
    <2>1. j \in Requests /\ ~Parallel(j) /\ call[j] \in {"touched", "ok", "error"} /\ j # i
        BY <1>w, <1>2
    <2>2. j \in Nat /\ i \in Nat /\ i < j
        BY <2>1, <1>2, <1>t
    <2>3. ~(end <= j)
        BY <2>1 DEF BatchInv, Progress
    <2>4. idx <= j /\ j < end /\ end # idx + 1
        BY <2>2, <2>3, <1>1, <1>t
    <2> QED  BY <2>1, <2>4 DEF BatchInv, OneGroup
<1>8. EffectsLookSequential'
    <2> SUFFICES ASSUME NEW j \in Requests, call'[j] \in {"touched", "ok"}
                 PROVE  seen'[j] = {k \in world' : k < j}
        BY <1>1 DEF EffectsLookSequential
    <2>1. CASE j = i
        <3>1. seen'[j] = world
            BY <1>2, <1>t, <2>1 DEF BatchTypeOK
        <3>2. {k \in world' : k < j} = world
            BY <1>2, <1>7, <1>t, <2>1
        <3> QED  BY <3>1, <3>2
    <2>2. CASE j # i
        <3>1. seen'[j] = seen[j] /\ call[j] \in {"touched", "ok"}
            BY <1>1, <1>2, <1>t, <2>2 DEF BatchTypeOK
        <3>2. seen[j] = {k \in world : k < j}
            BY <3>1 DEF BatchInv, EffectsLookSequential
        <3>3. ~Parallel(i) => j < i
            <4> SUFFICES ASSUME ~Parallel(i), ~(j < i) PROVE FALSE
                OBVIOUS
            <4>1. j \in Nat /\ i \in Nat /\ i < j
                BY <1>2, <1>t, <2>2
            <4>2. ~(end <= j)
                BY <3>1 DEF BatchInv, Progress
            <4>3. end # idx + 1
                BY <4>1, <4>2, <1>1, <1>t
            <4> QED  BY <4>3, <1>1, <1>2 DEF BatchInv, OneGroup
        <3>4. {k \in world' : k < j} = {k \in world : k < j}
            BY <1>2, <3>3, <1>t
        <3> QED  BY <3>1, <3>2, <3>4
    <2> QED  BY <2>1, <2>2
<1> QED  BY <1>1, <1>3, <1>4, <1>6, <1>8 DEF BatchInv

LEMMA EndToolInv ==
    ASSUME BatchInv, NEW i, i \in Requests, EndTool(i) PROVE BatchInv'
<1>1. PICK to \in Ended :
        /\ call[i] \in Live /\ (to = "ok" => call[i] = "touched")
        /\ call' = [call EXCEPT ![i] = to]
    BY DEF EndTool, Ended, Live
<1>2. /\ intents' = intents /\ idx' = idx /\ end' = end /\ world' = world
      /\ seen' = seen /\ outputs' = outputs
    BY DEF EndTool
<1>0. OneCallMoves(i, to)
    BY <1>1, <1>2 DEF OneCallMoves
<1>3. /\ Requests' = Requests /\ \A j \in Requests : Parallel(j)' <=> Parallel(j)
      /\ call'[i] = to /\ \A j \in Requests : j # i => call'[j] = call[j]
      /\ call' \in [Requests -> CallState]
      /\ Progress' /\ OneGroup' /\ OutputsInRequestOrder'
    BY <1>0, MovesLemma
<1>4. BatchTypeOK'
    BY <1>2, <1>3 DEF BatchTypeOK, BatchInv
<1>5. ChangesAreSerial'
    <2> SUFFICES ASSUME NEW j \in world
                 PROVE  ~Parallel(j)' /\ call'[j] \in {"touched", "ok", "error"}
        BY <1>2 DEF ChangesAreSerial
    <2>1. j \in Requests /\ ~Parallel(j) /\ call[j] \in {"touched", "ok", "error"}
        BY DEF BatchInv, ChangesAreSerial, BatchTypeOK
    <2> QED  BY <2>1, <1>3, <1>1 DEF Ended
<1>6. PermitsHold'
    <2>1. LiveCalls' \subseteq LiveCalls
        BY <1>1, <1>3 DEF LiveCalls, Live, Ended
    <2>2. IsFiniteSet(LiveCalls)
        BY LiveFinite DEF BatchInv
    <2>3. Cardinality(LiveCalls') <= Cardinality(LiveCalls)
        BY <2>1, <2>2, FS_Subset
    <2>4. Cardinality(LiveCalls) \in Nat /\ Cardinality(LiveCalls') \in Nat
        BY <2>1, <2>2, FS_Subset, FS_CardinalityType
    <2> QED  BY <2>3, <2>4, PermitsNat DEF PermitsHold, Permits, BatchInv
<1>7. EffectsLookSequential'
    <2> SUFFICES ASSUME NEW j \in Requests, call'[j] \in {"touched", "ok"}
                 PROVE  seen[j] = {k \in world : k < j}
        BY <1>2, <1>3 DEF EffectsLookSequential
    <2>1. call[j] \in {"touched", "ok"}
        BY <1>1, <1>3 DEF Ended
    <2> QED  BY <2>1 DEF BatchInv, EffectsLookSequential
<1> QED  BY <1>3, <1>4, <1>5, <1>6, <1>7 DEF BatchInv

LEMMA JoinInv ==
    ASSUME BatchInv, Join PROVE BatchInv'
<1>1. /\ idx < end /\ \A i \in idx .. end - 1 : call[i] \in Ended
      /\ outputs' = outputs \o [k \in 1 .. end - idx |-> Output(idx + k - 1)]
      /\ idx' = end /\ intents' = intents /\ end' = end /\ call' = call
      /\ world' = world /\ seen' = seen
    BY DEF Join
<1>2. Requests' = Requests /\ \A j \in Requests : Parallel(j)' <=> Parallel(j)
    BY <1>1 DEF Requests, Parallel
<1>t. /\ BatchTypeOK /\ idx \in Nat /\ end \in Nat /\ end - idx \in Nat
      /\ Requests \subseteq Nat /\ 1 <= idx /\ end <= Len(intents) + 1
    BY <1>1 DEF BatchInv, BatchTypeOK, Requests
<1> DEFINE Out == [call : Requests, is_error : BOOLEAN]
           group == [k \in 1 .. end - idx |-> Output(idx + k - 1)]
<1>3. \A k \in 1 .. end - idx : idx + k - 1 \in Requests /\ idx + k - 1 \in idx .. end - 1
    BY <1>t DEF Requests
<1>4. group \in Seq(Out) /\ Len(group) = end - idx
    <2>1. \A k \in 1 .. end - idx : group[k] \in Out
        BY <1>3 DEF Output
    <2>2. group \in [1 .. end - idx -> Out]
        BY <2>1
    <2>3. end - idx \in Nat
        BY <1>t
    <2> HIDE DEF group, Out
    <2> QED  BY <2>2, <2>3, FunctionIsSeq
<1>5. outputs \in Seq(Out) /\ Len(outputs) = idx - 1
    BY <1>t DEF BatchTypeOK
<1> HIDE DEF group
<1>6. /\ outputs' \in Seq(Out) /\ Len(outputs') = end - 1
      /\ \A k \in 1 .. end - 1 : outputs'[k] = IF k < idx THEN outputs[k] ELSE group[k - idx + 1]
    <2>1. outputs' = outputs \o group
        BY <1>1 DEF group
    <2>2. /\ outputs' \in Seq(Out) /\ Len(outputs') = Len(outputs) + Len(group)
          /\ \A k \in 1 .. Len(outputs) + Len(group) :
                outputs'[k] = IF k <= Len(outputs) THEN outputs[k] ELSE group[k - Len(outputs)]
        BY <2>1, <1>4, <1>5, ConcatProperties
    <2>3. Len(outputs) + Len(group) = end - 1
        BY <1>4, <1>5, <1>t
    <2>4. ASSUME NEW k \in 1 .. end - 1
          PROVE  outputs'[k] = IF k < idx THEN outputs[k] ELSE group[k - idx + 1]
        <3>1. (k <= Len(outputs) <=> k < idx) /\ k - Len(outputs) = k - idx + 1
            BY <1>5, <1>t
        <3> QED  BY <2>2, <2>3, <3>1
    <2> QED  BY <2>2, <2>3, <2>4
<1>7. BatchTypeOK'
    BY <1>1, <1>2, <1>6, <1>t DEF BatchTypeOK
<1>8. \A i \in Requests : i < end => call[i] \in Ended
    BY <1>1, <1>t DEF BatchInv, Progress
<1>9. Progress' /\ OneGroup'
    BY <1>1, <1>2, <1>8, <1>t DEF Progress, OneGroup, BatchInv
<1>10. ChangesAreSerial'
    BY <1>1, <1>2, <1>t DEF ChangesAreSerial, BatchInv, BatchTypeOK
<1>11. PermitsHold'
    <2>1. LiveCalls' = LiveCalls
        BY <1>1, <1>2 DEF LiveCalls
    <2> QED  BY <2>1 DEF PermitsHold, Permits, BatchInv
<1>12. EffectsLookSequential'
    BY <1>1, <1>2 DEF EffectsLookSequential, BatchInv
<1>13. OutputsInRequestOrder'
    <2> SUFFICES ASSUME NEW k \in 1 .. end - 1
                 PROVE  call[k] \in Ended /\ outputs'[k] = Output(k)
        BY <1>1, <1>6 DEF OutputsInRequestOrder, Output
    <2>1. CASE k < idx
        <3>1. k \in 1 .. Len(outputs) /\ outputs'[k] = outputs[k]
            BY <1>5, <1>6, <1>t, <2>1
        <3> QED  BY <3>1 DEF BatchInv, OutputsInRequestOrder
    <2>2. CASE ~(k < idx)
        <3>1. k - idx + 1 \in 1 .. end - idx /\ idx + (k - idx + 1) - 1 = k
            BY <1>t, <2>2
        <3>2. outputs'[k] = group[k - idx + 1]
            BY <1>6, <2>2
        <3>3. k \in idx .. end - 1
            BY <1>t, <2>2
        <3>4. group[k - idx + 1] = Output(idx + (k - idx + 1) - 1)
            BY <3>1 DEF group
        <3> QED  BY <1>1, <3>1, <3>2, <3>3, <3>4
    <2> QED  BY <2>1, <2>2
<1> QED  BY <1>7, <1>9, <1>10, <1>11, <1>12, <1>13 DEF BatchInv

-----------------------------------------------------------------------------
LEMMA StepInv == BatchInv /\ [BatchNext]_batchVars => BatchInv'
<1> SUFFICES ASSUME BatchInv, [BatchNext]_batchVars PROVE BatchInv'
    OBVIOUS
<1>1. CASE \E names \in Seq(Names) : BeginBatch(names)
    BY <1>1, BeginInv
<1>2. CASE StartGroup
    BY <1>2, StartGroupInv
<1>3. CASE StartSerial
    BY <1>3, StartSerialInv
<1>4. CASE \E i \in Requests : Acquire(i) \/ Touch(i) \/ EndTool(i)
    BY <1>4, AcquireInv, TouchInv, EndToolInv
<1>5. CASE Join
    BY <1>5, JoinInv
<1>6. CASE TakeOutputs
    BY <1>6, TakeInv
<1>7. CASE UNCHANGED batchVars
    BY <1>7 DEF batchVars, BatchInv, BatchTypeOK, Progress, OneGroup, ChangesAreSerial,
                PermitsHold, Permits, EffectsLookSequential, OutputsInRequestOrder, Requests,
                LiveCalls, Parallel, Output
<1> QED  BY <1>1, <1>2, <1>3, <1>4, <1>5, <1>6, <1>7 DEF BatchNext, BatchStep

\* The invariant of execute_batch (agent/src/lib.rs:291-327).
THEOREM BatchInvariant == BatchSpec => []BatchInv
<1>1. BatchInit => BatchInv
    BY InitInv
<1>2. BatchInv /\ [BatchNext]_batchVars => BatchInv'
    BY StepInv
<1> QED  BY <1>1, <1>2, PTL DEF BatchSpec

\* A call that may change the workspace overlaps no other
\* (agent/src/lib.rs:285-289).
THEOREM SerialCallsAreAlone == BatchSpec => []SerialCallRunsAlone
BY BatchInvariant, InvAlone, PTL

\* No more calls run at once than max_parallel_tools allows, or one when it is
\* zero (agent/src/lib.rs:302, :318).
THEOREM PermitsAreHeld == BatchSpec => []PermitsHold
<1>1. BatchInv => PermitsHold
    BY DEF BatchInv
<1> QED  BY <1>1, BatchInvariant, PTL

\* What the calls of a batch see and change is what they would see and change
\* one after the other (agent/src/lib.rs:285-289).
THEOREM BatchIsSequential == BatchSpec => []EffectsLookSequential
<1>1. BatchInv => EffectsLookSequential
    BY DEF BatchInv
<1> QED  BY <1>1, BatchInvariant, PTL

\* The outputs come back in request order (agent/src/lib.rs:262-271).
THEOREM OutputsAreOrdered == BatchSpec => []OutputsInRequestOrder
<1>1. BatchInv => OutputsInRequestOrder
    BY DEF BatchInv
<1> QED  BY <1>1, BatchInvariant, PTL

-----------------------------------------------------------------------------
(* Sequences put together from pieces.                                     *)

\* What is selected of a sequence is what it has of a set.
LEMMA SelectedIs ==
    ASSUME NEW S, NEW K, NEW s \in Seq(S),
           NEW f, f = [k \in DOMAIN s |-> IF s[k] \in K THEN <<s[k]>> ELSE <<>>]
    PROVE  FlattenSeq(f) \in Seq(S \intersect K)
<1>1. PICK n \in Nat : DOMAIN s = 1 .. n
  OBVIOUS
<1>2. ASSUME NEW k \in 1 .. n
      PROVE  (IF s[k] \in K THEN <<s[k]>> ELSE <<>>) \in Seq(S \intersect K)
  <2>1. s[k] \in S
    BY <1>1
  <2>2. CASE s[k] \in K
    <3>1. s[k] \in S \intersect K
      BY <2>1, <2>2
    <3>2. <<s[k]>> \in Seq(S \intersect K)
      BY <3>1
    <3> QED
      BY <2>2, <3>2
  <2> QED
    BY <2>2
<1>3. f \in [1 .. n -> Seq(S \intersect K)]
  BY <1>1, <1>2
<1>4. f \in Seq(Seq(S \intersect K))
  BY <1>3
<1> QED
  BY <1>4, FlattenIs

-----------------------------------------------------------------------------
(* What is on the wire and in the transcript.                              *)

\* Pieces of text: the prover does not know a literal for a member of STRING.
Fragment == STRING \union {"prompt", "garbled", "..."}

TextBlock == [type : {"text"}, text : Seq(Fragment)]
CallBlock == [type : {"tool_use"}, id : STRING, name : Names, input : Seq(Fragment)]
ReasoningItem == [type : {"reasoning"}, id : STRING, encrypted : BOOLEAN]
ThinkingBlock == [type : {"thinking"}, item : ReasoningItem]
OpaqueBlock == [type : {"opaque"}, provider : {"codex"}, data : ReasoningItem]

ContentBlock == TextBlock \union CallBlock \union OpaqueBlock

StopReasons == {"EndTurn", "ToolUse", "MaxTokens", "Other"}

Results == [ok : {TRUE}, content : Seq(ContentBlock), stop_reason : StopReasons]
           \union [ok : {FALSE}, error : ErrorKinds \union {"none"}]

LEMMA ReplyIs ==
    ASSUME NEW r \in Replies
    PROVE  r.blocks \in Seq(TextBlock \union CallBlock \union ThinkingBlock) /\ r.stop \in {"end", "calls", "length"}
<1>1. r \in [blocks : Seq(ReplyBlocks(Names)), stop : DOMAIN AnthropicStop]
  BY TurnAssumption
<1>2. ReplyBlocks(Names) \subseteq TextBlock \union CallBlock \union ThinkingBlock
  <2>1. Seq(STRING) \subseteq Seq(Fragment)
    <3> SUFFICES ASSUME NEW t \in Seq(STRING) PROVE t \in Seq(Fragment)
      OBVIOUS
    <3>1. \A k \in DOMAIN t : t[k] \in Fragment
      BY DEF Fragment
    <3> HIDE DEF Fragment
    <3> QED
      BY <3>1
  <2> QED
    BY <2>1 DEF ReplyBlocks, TextBlock, CallBlock, ThinkingBlock, ReasoningItem
<1>3. DOMAIN AnthropicStop = {"end", "calls", "length"}
  BY DEF AnthropicStop
<1>4. r.blocks \in Seq(ReplyBlocks(Names)) /\ r.stop \in {"end", "calls", "length"}
  BY <1>1, <1>3
<1> QED
  BY <1>2, <1>4

LEMMA TextIs == ASSUME NEW t \in Seq(Fragment) PROVE Text(t) \in TextBlock
BY DEF Text, TextBlock

LEMMA ToolUseIs ==
    ASSUME NEW id \in STRING, NEW name \in Names, NEW input \in Seq(Fragment)
    PROVE  ToolUse(id, name, input) \in CallBlock
BY DEF ToolUse, CallBlock

LEMMA CallsOf ==
    ASSUME NEW S, NEW content \in Seq(S), \A b \in S : IsCall(b) => b \in CallBlock
    PROVE  ToolUses(content) \in Seq(CallBlock)
<1> DEFINE K == {b \in S : IsCall(b)}
           f == [k \in DOMAIN content |-> IF IsCall(content[k]) THEN <<content[k]>> ELSE <<>>]
<1>1. f = [k \in DOMAIN content |-> IF content[k] \in K THEN <<content[k]>> ELSE <<>>]
  OBVIOUS
<1>2. ToolUses(content) = FlattenSeq(f)
  BY DEF ToolUses, Select
<1>3. FlattenSeq(f) \in Seq(S \intersect K)
  <2> HIDE DEF f, K
  <2> QED
    BY <1>1, SelectedIs
<1>4. S \intersect K \subseteq CallBlock
  OBVIOUS
<1> HIDE DEF f, K
<1> QED
  BY <1>2, <1>3, <1>4

LEMMA OnlyCalls ==
    /\ \A b \in CallBlock : IsCall(b) /\ ~IsText(b)
    /\ \A b \in TextBlock : ~IsCall(b) /\ IsText(b)
    /\ \A b \in OpaqueBlock \union ThinkingBlock : ~IsCall(b) /\ ~IsText(b)
BY DEF CallBlock, TextBlock, OpaqueBlock, ThinkingBlock, IsCall, IsText

LEMMA TextOfIs ==
    ASSUME NEW S, NEW content \in Seq(S), \A b \in S : IsText(b) => b.text \in Seq(Fragment)
    PROVE  TextOf(content) \in Seq(Fragment)
<1>1. PICK n \in Nat : DOMAIN content = 1 .. n
  OBVIOUS
<1>2. PICK f : f = [k \in DOMAIN content |-> IF IsText(content[k]) THEN content[k].text ELSE <<>>]
  OBVIOUS
<1>3. f \in [1 .. n -> Seq(Fragment)]
  <2>1. ASSUME NEW k \in 1 .. n
        PROVE  (IF IsText(content[k]) THEN content[k].text ELSE <<>>) \in Seq(Fragment)
    <3>1. content[k] \in S
      BY <1>1
    <3>2. IsText(content[k]) => content[k].text \in Seq(Fragment)
      BY <3>1
    <3>3. <<>> \in Seq(Fragment)
      OBVIOUS
    <3> QED
      BY <3>2, <3>3, Zenon
  <2> QED
    BY <1>1, <1>2, <2>1
<1>4. f \in Seq(Seq(Fragment))
  BY <1>3
<1>5. TextOf(content) = FlattenSeq(f)
  BY <1>2 DEF TextOf
<1> QED
  BY <1>4, <1>5, FlattenIs

LEMMA FailedIs == ASSUME NEW error \in ErrorKinds PROVE Failed(error) \in Results
BY DEF Failed, Results

LEMMA ResponseIs ==
    ASSUME NEW content \in Seq(ContentBlock), NEW stop \in StopReasons
    PROVE  Response(content, stop) \in Results
BY DEF Response, Results

LEMMA StopIs ==
    /\ \A wire : StopReason(wire) \in StopReasons /\ FinishReason(wire) \in StopReasons
BY DEF StopReason, FinishReason, StopReasons

LEMMA Kinds == {"transport", "api", "malformed", "failure"} = ErrorKinds
BY DEF ErrorKinds

-----------------------------------------------------------------------------
(* The responses of the adapters that read a whole body.                   *)

LEMMA AnthropicResponseIs ==
    ASSUME NEW r \in Replies
    PROVE  AnthropicResponse(AnthropicBody(r)) \in Results
<1> DEFINE S == TextBlock \union CallBlock \union ThinkingBlock
           K == {b \in S : b.type \in {"text", "tool_use"}}
           blocks == r.blocks
           f == [k \in DOMAIN blocks |-> IF blocks[k].type \in {"text", "tool_use"} THEN <<blocks[k]>> ELSE <<>>]
<1>0. PICK body : body = AnthropicBody(r)
  OBVIOUS
<1>1. blocks \in Seq(S)
  BY ReplyIs
<1>2. f = [k \in DOMAIN blocks |-> IF blocks[k] \in K THEN <<blocks[k]>> ELSE <<>>]
  BY <1>1
<1>3. S \intersect K \subseteq ContentBlock
  BY DEF ContentBlock, ThinkingBlock
<1>4. FlattenSeq(f) \in Seq(S \intersect K)
  <2> HIDE DEF f, K, S, blocks
  <2> QED
    BY <1>1, <1>2, SelectedIs
<1>5. FlattenSeq(f) \in Seq(ContentBlock)
  <2> HIDE DEF f, K, S
  <2> QED
    BY <1>3, <1>4
<1>6. AnthropicResponse(body) = IF body.stop_reason = "none" THEN Failed("malformed")
                                ELSE Response(FlattenSeq(f), StopReason(body.stop_reason))
  BY <1>0 DEF AnthropicResponse, Select, AnthropicBody
<1>7. PICK out, stop : out = FlattenSeq(f) /\ stop = StopReason(body.stop_reason)
  OBVIOUS
<1>8. stop \in StopReasons
  BY <1>7, StopIs, Zenon
<1>9. AnthropicResponse(body) = Failed("malformed") \/ AnthropicResponse(body) = Response(out, stop)
  BY <1>6, <1>7, Zenon
<1> HIDE DEF f
<1>10. Response(out, stop) \in Results
  BY <1>5, <1>7, <1>8, ResponseIs
<1>11. Failed("malformed") \in Results
  BY FailedIs, Kinds
<1> QED
  BY <1>0, <1>9, <1>10, <1>11

LEMMA ChatResponseIs ==
    ASSUME NEW r \in Replies
    PROVE  ChatResponse(ChatBody(r)) \in Results
<1> DEFINE S == TextBlock \union CallBlock \union ThinkingBlock
<1>1. r.blocks \in Seq(S)
  BY ReplyIs
<1>2. PICK text, calls, body : text = TextOf(r.blocks) /\ calls = ToolUses(r.blocks) /\ body = ChatBody(r)
  OBVIOUS
<1>3. text \in Seq(Fragment)
  <2>1. \A b \in S : IsText(b) => b.text \in Seq(Fragment)
    BY OnlyCalls DEF TextBlock
  <2> HIDE DEF S
  <2> QED
    BY <1>1, <1>2, <2>1, TextOfIs
<1>4. calls \in Seq(CallBlock)
  <2>1. \A b \in S : IsCall(b) => b \in CallBlock
    BY OnlyCalls
  <2> HIDE DEF S
  <2> QED
    BY <1>1, <1>2, <2>1, CallsOf
<1>5. PICK message, choice : /\ message = [content |-> text, tool_calls |-> calls]
                             /\ choice = [message |-> message, finish_reason |-> ChatStop[r.stop]]
  OBVIOUS
<1>6. body.choices = <<choice>>
  BY <1>2, <1>5 DEF ChatBody
<1>7. /\ body.choices # <<>> /\ Head(body.choices) = choice /\ choice.message = message
      /\ message.content = text /\ message.tool_calls = calls
  BY <1>5, <1>6
<1>8. PICK content : content = (IF text = <<>> THEN <<>> ELSE <<Text(text)>>) \o calls
  OBVIOUS
<1>9. content \in Seq(ContentBlock)
  <2>1. Text(text) \in ContentBlock /\ CallBlock \subseteq ContentBlock
    BY <1>3, TextIs DEF ContentBlock
  <2>2. calls \in Seq(ContentBlock) /\ <<Text(text)>> \in Seq(ContentBlock) /\ <<>> \in Seq(ContentBlock)
    BY <1>4, <2>1
  <2> QED
    BY <1>8, <2>2
<1>10. PICK stop : stop = IF calls # <<>> THEN "ToolUse" ELSE FinishReason(choice.finish_reason)
  OBVIOUS
<1>11. stop \in StopReasons
  BY <1>10, StopIs DEF StopReasons
<1>12. ChatResponse(body) = Failed("malformed") \/ ChatResponse(body) = Response(content, stop)
  BY <1>7, <1>8, <1>10 DEF ChatResponse
<1> QED
  BY <1>2, <1>9, <1>11, <1>12, ResponseIs, FailedIs, Kinds

-----------------------------------------------------------------------------
(* Codex: the items of a body.                                             *)

MessageItems == [type : {"message"}, role : {"assistant"}, content : Seq(Seq(Fragment))]
CallItems == [type : {"function_call"}, call_id : STRING, name : Names, arguments : Seq(Fragment)]
OutputItem == MessageItems \union CallItems \union ReasoningItem

CodexOutcome == [output : Seq(OutputItem), error : BOOLEAN,
                 status : {"completed", "max_output_tokens"}]

CodexEvent == [type : {"output_item.done"}, item : OutputItem]
              \union [type : {"completed", "incomplete"}, response : CodexOutcome]
              \union [type : {"failed"}]

LEMMA ItemBlockIs == ASSUME NEW item \in OutputItem PROVE ItemBlock(item) \in Seq(ContentBlock)
<1>1. CASE item \in MessageItems
  <2>1. item.type = "message" /\ item.content \in Seq(Seq(Fragment))
    BY <1>1 DEF MessageItems
  <2>2. PICK text : text = FlattenSeq(item.content)
    OBVIOUS
  <2>3. text \in Seq(Fragment)
    BY <2>1, <2>2, FlattenIs
  <2>4. <<Text(text)>> \in Seq(ContentBlock) /\ <<>> \in Seq(ContentBlock)
    BY <2>3, TextIs DEF ContentBlock
  <2>5. ItemBlock(item) = <<Text(text)>> \/ ItemBlock(item) = <<>>
    BY <2>1, <2>2 DEF ItemBlock
  <2> QED
    BY <2>4, <2>5
<1>2. CASE item \in CallItems
  <2>1. /\ item.type = "function_call"
        /\ item.call_id \in STRING /\ item.name \in Names /\ item.arguments \in Seq(Fragment)
    BY <1>2 DEF CallItems
  <2>2. PICK b : b = ToolUse(item.call_id, item.name, item.arguments)
    OBVIOUS
  <2>3. b \in ContentBlock
    BY <2>1, <2>2, ToolUseIs DEF ContentBlock
  <2>4. ItemBlock(item) = <<b>>
    BY <2>1, <2>2 DEF ItemBlock
  <2> QED
    BY <2>3, <2>4
<1>3. CASE item \in ReasoningItem
  <2>1. item.type = "reasoning"
    BY <1>3 DEF ReasoningItem
  <2>2. PICK b : b = Opaque(item)
    OBVIOUS
  <2>3. b \in ContentBlock
    BY <1>3, <2>2 DEF ContentBlock, OpaqueBlock, Opaque
  <2>4. ItemBlock(item) = <<b>>
    BY <2>1, <2>2 DEF ItemBlock
  <2> QED
    BY <2>3, <2>4
<1> QED
  BY <1>1, <1>2, <1>3 DEF OutputItem

LEMMA CodexResponseIs == ASSUME NEW body \in CodexOutcome PROVE CodexResponse(body) \in Results
<1>1. PICK output : output = body.output
  OBVIOUS
<1>2. output \in Seq(OutputItem)
  BY <1>1 DEF CodexOutcome
<1>3. PICK n \in Nat : DOMAIN output = 1 .. n
  BY <1>2
<1>4. PICK f : f = [k \in DOMAIN output |-> ItemBlock(output[k])]
  OBVIOUS
<1>5. f \in [1 .. n -> Seq(ContentBlock)]
  <2>1. \A k \in 1 .. n : ItemBlock(output[k]) \in Seq(ContentBlock)
    BY <1>2, <1>3, ItemBlockIs
  <2> QED
    BY <1>3, <1>4, <2>1
<1>6. f \in Seq(Seq(ContentBlock))
  BY <1>5
<1>7. FlattenSeq(f) \in Seq(ContentBlock)
  BY <1>6, FlattenIs
<1>8. PICK content : content = FlattenSeq(f)
  OBVIOUS
<1>9. \/ CodexResponse(body) = Failed("failure")
      \/ CodexResponse(body) = Failed("malformed")
      \/ \E stop \in StopReasons : CodexResponse(body) = Response(content, stop)
  <2>1. PICK calls : calls = Select(body.output, IsCallItem)
    OBVIOUS
  <2>2. CodexResponse(body) =
            IF body.error THEN Failed("failure")
            ELSE IF \E k \in DOMAIN calls : ~Parses(calls[k].arguments) THEN Failed("malformed")
            ELSE Response(content,
                  CASE calls # <<>> -> "ToolUse"
                    [] calls = <<>> /\ body.status = "max_output_tokens" -> "MaxTokens"
                    [] OTHER -> "EndTurn")
    BY <1>1, <1>4, <1>8, <2>1 DEF CodexResponse
  <2>3. PICK stop : stop = (CASE calls # <<>> -> "ToolUse"
                    [] calls = <<>> /\ body.status = "max_output_tokens" -> "MaxTokens"
                    [] OTHER -> "EndTurn")
    OBVIOUS
  <2>4. stop \in StopReasons
    BY <2>3 DEF StopReasons
  <2> QED
    BY <2>2, <2>3, <2>4
<1> QED
  BY <1>7, <1>8, <1>9, ResponseIs, FailedIs, Kinds

LEMMA CodexItemIs ==
    ASSUME NEW b \in TextBlock \union CallBlock \union ThinkingBlock
    PROVE  CodexItem(b) \in OutputItem
<1>1. CASE b \in TextBlock
  <2>1. b.text \in Seq(Fragment)
    BY <1>1 DEF TextBlock
  <2>2. <<b.text>> \in Seq(Seq(Fragment))
    BY <2>1
  <2>3. CodexItem(b) = MessageItem("assistant", <<b.text>>)
    <3>1. IsText(b) /\ ~IsCall(b) /\ ~IsThinking(b)
      BY <1>1 DEF TextBlock, IsText, IsCall, IsThinking
    <3> QED
      BY <3>1 DEF CodexItem
  <2> QED
    BY <2>2, <2>3 DEF MessageItem, MessageItems, OutputItem
<1>2. CASE b \in CallBlock
  <2>1. b.id \in STRING /\ b.name \in Names /\ b.input \in Seq(Fragment)
    BY <1>2 DEF CallBlock
  <2>2. CodexItem(b) = CallItem(b)
    <3>1. ~IsText(b) /\ IsCall(b) /\ ~IsThinking(b)
      BY <1>2 DEF CallBlock, IsText, IsCall, IsThinking
    <3> QED
      BY <3>1 DEF CodexItem
  <2> QED
    BY <2>1, <2>2 DEF CallItem, CallItems, OutputItem
<1>3. CASE b \in ThinkingBlock
  <2>1. b.item \in ReasoningItem /\ IsThinking(b)
    BY <1>3 DEF ThinkingBlock, IsThinking
  <2>2. CodexItem(b) = b.item
    BY <1>3, <2>1, OnlyCalls DEF CodexItem
  <2> QED
    BY <2>1, <2>2 DEF OutputItem
<1> QED
  BY <1>1, <1>2, <1>3

LEMMA CodexEventsAre == ASSUME NEW r \in Replies PROVE CodexEvents(r) \in Seq(CodexEvent)
<1>1. PICK blocks : blocks = r.blocks
  OBVIOUS
<1>2. blocks \in Seq(TextBlock \union CallBlock \union ThinkingBlock)
  BY <1>1, ReplyIs
<1>3. PICK n \in Nat : DOMAIN blocks = 1 .. n
  BY <1>2
<1>4. PICK done, last :
        /\ done = [k \in DOMAIN blocks |-> [type |-> "output_item.done", item |-> CodexItem(blocks[k])]]
        /\ last = [type |-> IF r.stop = "length" THEN "incomplete" ELSE "completed",
                   response |-> [output |-> <<>>, error |-> FALSE, status |-> CodexStatus[r.stop]]]
  OBVIOUS
<1>5. \A k \in 1 .. n : [type |-> "output_item.done", item |-> CodexItem(blocks[k])] \in CodexEvent
  <2>1. \A k \in 1 .. n : CodexItem(blocks[k]) \in OutputItem
    BY <1>2, <1>3, CodexItemIs
  <2> QED
    BY <2>1 DEF CodexEvent
<1>6. done \in [1 .. n -> CodexEvent]
  BY <1>3, <1>4, <1>5
<1>7. last \in CodexEvent
  <2>1. CodexStatus[r.stop] \in {"completed", "max_output_tokens"}
    BY ReplyIs DEF CodexStatus
  <2>2. PICK response : response = [output |-> <<>>, error |-> FALSE, status |-> CodexStatus[r.stop]]
    OBVIOUS
  <2>3. response \in CodexOutcome
    BY <2>1, <2>2 DEF CodexOutcome
  <2> QED
    BY <1>4, <2>2, <2>3 DEF CodexEvent
<1>8. done \in Seq(CodexEvent) /\ <<last>> \in Seq(CodexEvent)
  BY <1>6, <1>7
<1>9. CodexEvents(r) = done \o <<last>>
  BY <1>1, <1>4, Zenon DEF CodexEvents
<1> QED
  BY <1>8, <1>9

LEMMA ParseStreamIs ==
    ASSUME NEW events \in Seq(CodexEvent)
    PROVE  ParseStream(CodexBody(events)) \in Results
<1> DEFINE Done == {e \in CodexEvent : e.type = "output_item.done"}
           Over == {e \in CodexEvent : e.type \in {"completed", "incomplete"}}
           f == [k \in DOMAIN events |-> IF events[k].type = "output_item.done" THEN <<events[k]>> ELSE <<>>]
           g == [k \in DOMAIN events |-> IF events[k].type \in {"completed", "incomplete"} THEN <<events[k]>> ELSE <<>>]
<1>1. /\ f = [k \in DOMAIN events |-> IF events[k] \in Done THEN <<events[k]>> ELSE <<>>]
      /\ g = [k \in DOMAIN events |-> IF events[k] \in Over THEN <<events[k]>> ELSE <<>>]
  OBVIOUS
<1>2. PICK items, completed : items = FlattenSeq(f) /\ completed = FlattenSeq(g)
  OBVIOUS
<1>3. items \in Seq(CodexEvent \intersect Done) /\ completed \in Seq(CodexEvent \intersect Over)
  <2> HIDE DEF f, g, Done, Over
  <2> QED
    BY <1>1, <1>2, SelectedIs
<1>4. \A e \in CodexEvent \intersect Done : e.item \in OutputItem
  BY DEF CodexEvent
<1>5. \A e \in CodexEvent \intersect Over : e.response \in CodexOutcome
  BY DEF CodexEvent
<1>6. PICK n \in Nat : DOMAIN items = 1 .. n
  BY <1>3
<1>7. PICK all : all = [k \in DOMAIN items |-> items[k].item]
  OBVIOUS
<1>8. all \in Seq(OutputItem)
  <2>1. \A k \in 1 .. n : items[k].item \in OutputItem
    <3> HIDE DEF Done
    <3> QED
      BY <1>3, <1>4, <1>6
  <2>2. all \in [1 .. n -> OutputItem]
    BY <1>6, <1>7, <2>1
  <2> QED
    BY <2>2
<1>9. CASE completed # <<>>
  <2>1. PICK response : response = Last(completed).response
    OBVIOUS
  <2>2. response \in CodexOutcome
    <3>1. completed[Len(completed)] \in CodexEvent \intersect Over
      <4> HIDE DEF Over
      <4> QED
        BY <1>3, <1>9
    <3>2. Last(completed) = completed[Len(completed)]
      BY DEF Last
    <3> QED
      BY <1>5, <2>1, <3>1, <3>2
  <2>3. [response EXCEPT !.output = all] \in CodexOutcome
    BY <1>8, <2>2 DEF CodexOutcome
  <2>4. \/ ParseStream(CodexBody(events)) = Failed("failure")
        \/ ParseStream(CodexBody(events)) = CodexResponse(response)
        \/ ParseStream(CodexBody(events)) = CodexResponse([response EXCEPT !.output = all])
    <3>1. PICK failed : failed = Select(events, LAMBDA e : e.type = "failed")
      OBVIOUS
    <3>2. CodexBody(events).sse /\ CodexBody(events).events = events
      BY DEF CodexBody
    <3>3. ParseStream(CodexBody(events)) =
             IF failed # <<>> \/ completed = <<>> THEN Failed("failure")
             ELSE CodexResponse(IF Last(completed).response.output # <<>> THEN Last(completed).response
                                ELSE [Last(completed).response EXCEPT !.output = all])
      BY <1>2, <1>7, <3>1, <3>2 DEF ParseStream, Select
    <3> QED
      BY <2>1, <3>3, Zenon
  <2> QED
    BY <2>2, <2>3, <2>4, CodexResponseIs, FailedIs, Kinds
<1>10. CASE completed = <<>>
  <2>1. CodexBody(events).sse /\ CodexBody(events).events = events
    BY DEF CodexBody
  <2>2. ParseStream(CodexBody(events)) = Failed("failure")
    BY <1>2, <1>10, <2>1 DEF ParseStream, Select
  <2> QED
    BY <2>2, FailedIs, Kinds
<1> QED
  BY <1>9, <1>10

-----------------------------------------------------------------------------
(* The stream of the Anthropic adapter.                                    *)

WireStops == {"end_turn", "tool_use", "max_tokens"}

DeltaEvent == [type : {"content_block_delta"}, index : Nat,
               delta : {"text_delta", "input_json_delta", "thinking_delta"}, part : Fragment]

StreamedEvent ==
    [type : {"content_block_start"}, block : TextBlock \union CallBlock \union ThinkingBlock]
    \union DeltaEvent
    \union [type : {"message_delta"}, stop_reason : WireStops]
    \union [type : {"message_stop"}]
    \union [type : {"error"}]

OpenBlock == TextBlock \union CallBlock \union [type : {"ignored"}]

Accumulator == [blocks : Seq(OpenBlock), stop_reason : WireStops \union {"none", "error"}]

LEMMA BlockEventsAre ==
    ASSUME NEW r \in Replies, NEW k \in DOMAIN r.blocks
    PROVE  BlockEvents(r, k) \in Seq(StreamedEvent)
<1>1. PICK b : b = r.blocks[k]
  OBVIOUS
<1>2. b \in TextBlock \union CallBlock \union ThinkingBlock /\ k \in Nat
  BY <1>1, ReplyIs
<1>3. PICK parts, delta, opening :
        /\ parts = (CASE IsText(b) -> b.text [] IsCall(b) -> b.input [] OTHER -> <<"...">>)
        /\ delta = (CASE IsText(b) -> "text_delta" [] IsCall(b) -> "input_json_delta"
                      [] OTHER -> "thinking_delta")
        /\ opening = IF IsText(b) THEN Text(<<>>) ELSE b
  OBVIOUS
<1>4. parts \in Seq(Fragment)
  <2>1. IsText(b) => b.text \in Seq(Fragment)
    BY <1>2, OnlyCalls DEF TextBlock
  <2>2. IsCall(b) => b.input \in Seq(Fragment)
    BY <1>2, OnlyCalls DEF CallBlock
  <2>3. <<"...">> \in Seq(Fragment)
    BY DEF Fragment
  <2>4. \/ IsText(b) /\ parts = b.text
        \/ IsCall(b) /\ parts = b.input
        \/ parts = <<"...">>
    BY <1>3
  <2> QED
    BY <2>1, <2>2, <2>3, <2>4
<1>5. delta \in {"text_delta", "input_json_delta", "thinking_delta"}
  BY <1>3
<1>6. opening \in TextBlock \union CallBlock \union ThinkingBlock
  <2>1. <<>> \in Seq(Fragment)
    OBVIOUS
  <2>2. Text(<<>>) \in TextBlock
    BY <2>1, TextIs
  <2> QED
    BY <1>2, <1>3, <2>2
<1>7. PICK start, rest :
        /\ start = [type |-> "content_block_start", block |-> opening]
        /\ rest = [n \in DOMAIN parts |->
                      [type |-> "content_block_delta", index |-> k, delta |-> delta, part |-> parts[n]]]
  OBVIOUS
<1>8. start \in StreamedEvent
  BY <1>6, <1>7 DEF StreamedEvent
<1>9. PICK m \in Nat : DOMAIN parts = 1 .. m
  BY <1>4
<1>10. \A n \in 1 .. m : [type |-> "content_block_delta", index |-> k, delta |-> delta, part |-> parts[n]]
                             \in StreamedEvent
  BY <1>2, <1>4, <1>5, <1>9 DEF StreamedEvent, DeltaEvent
<1>11. rest \in [1 .. m -> StreamedEvent]
  BY <1>7, <1>9, <1>10
<1>12. rest \in Seq(StreamedEvent) /\ <<start>> \in Seq(StreamedEvent)
  BY <1>8, <1>11
<1>13. BlockEvents(r, k) = <<start>> \o rest
  BY <1>1, <1>3, <1>7, Zenon DEF BlockEvents
<1> QED
  BY <1>12, <1>13

LEMMA StreamIs == ASSUME NEW r \in Replies PROVE AnthropicEvents(r) \in Seq(StreamedEvent)
<1>1. PICK blocks : blocks = r.blocks
  OBVIOUS
<1>2. PICK n \in Nat : DOMAIN blocks = 1 .. n
  BY <1>1, ReplyIs
<1>3. PICK f : f = [k \in DOMAIN blocks |-> BlockEvents(r, k)]
  OBVIOUS
<1>4. \A k \in 1 .. n : BlockEvents(r, k) \in Seq(StreamedEvent)
  BY <1>1, <1>2, BlockEventsAre
<1>5. f \in [1 .. n -> Seq(StreamedEvent)]
  BY <1>2, <1>3, <1>4
<1>6. f \in Seq(Seq(StreamedEvent))
  BY <1>5
<1>7. PICK last, stop : last = [type |-> "message_delta", stop_reason |-> AnthropicStop[r.stop]]
                        /\ stop = [type |-> "message_stop"]
  OBVIOUS
<1>8. last \in StreamedEvent /\ stop \in StreamedEvent
  <2>1. AnthropicStop[r.stop] \in WireStops
    BY ReplyIs DEF AnthropicStop, WireStops
  <2> QED
    BY <1>7, <2>1 DEF StreamedEvent
<1>9. <<last, stop>> \in Seq(StreamedEvent) /\ FlattenSeq(f) \in Seq(StreamedEvent)
  BY <1>6, <1>8, FlattenIs
<1>10. AnthropicEvents(r) = FlattenSeq(f) \o <<last, stop>>
  BY <1>1, <1>3, <1>7, Zenon DEF AnthropicEvents
<1> QED
  BY <1>9, <1>10

LEMMA OpenedIs ==
    ASSUME NEW b \in TextBlock \union CallBlock \union ThinkingBlock
    PROVE  Opened(b) \in OpenBlock
<1>1. CASE b \in TextBlock
  <2>1. b.type = "text" /\ b.text \in Seq(Fragment)
    BY <1>1 DEF TextBlock
  <2>2. Opened(b) = Text(b.text)
    BY <2>1 DEF Opened
  <2> QED
    BY <2>1, <2>2, TextIs DEF OpenBlock
<1>2. CASE b \in CallBlock
  <2>1. b.type = "tool_use" /\ b.id \in STRING /\ b.name \in Names
    BY <1>2 DEF CallBlock
  <2>2. Opened(b) = ToolUse(b.id, b.name, <<>>)
    BY <2>1 DEF Opened
  <2>3. <<>> \in Seq(Fragment)
    OBVIOUS
  <2> QED
    BY <2>1, <2>2, <2>3, ToolUseIs DEF OpenBlock
<1>3. CASE b \in ThinkingBlock
  <2>1. b.type = "thinking"
    BY <1>3 DEF ThinkingBlock
  <2>2. Opened(b) = [type |-> "ignored"]
    BY <2>1 DEF Opened
  <2> QED
    BY <2>2 DEF OpenBlock
<1> QED
  BY <1>1, <1>2, <1>3

LEMMA GrownIs ==
    ASSUME NEW blocks \in Seq(OpenBlock), NEW event \in DeltaEvent
    PROVE  Grown(blocks, event) \in Seq(OpenBlock)
<1>1. PICK k, part, delta : k = event.index /\ part = event.part /\ delta = event.delta
  OBVIOUS
<1>2. part \in Fragment
  BY <1>1 DEF DeltaEvent
<1>3. PICK more, input : /\ more  = [blocks EXCEPT ![k].text = Append(@, part)]
                         /\ input = [blocks EXCEPT ![k].input = Append(@, part)]
  OBVIOUS
<1>4. \/ Grown(blocks, event) = blocks
      \/ k \in DOMAIN blocks /\ IsText(blocks[k]) /\ Grown(blocks, event) = more
      \/ k \in DOMAIN blocks /\ IsCall(blocks[k]) /\ Grown(blocks, event) = input
  BY <1>1, <1>3 DEF Grown
<1>5. CASE k \in DOMAIN blocks /\ IsText(blocks[k]) /\ Grown(blocks, event) = more
  <2>1. PICK b : b = blocks[k]
    OBVIOUS
  <2>2. b \in TextBlock
    BY <1>5, <2>1, OnlyCalls DEF OpenBlock, IsText
  <2>3. b.text \in Seq(Fragment)
    BY <2>2 DEF TextBlock
  <2>4. Append(b.text, part) \in Seq(Fragment)
    BY <1>2, <2>3
  <2>5. PICK grown : grown = [b EXCEPT !.text = Append(b.text, part)]
    OBVIOUS
  <2>6. grown \in OpenBlock
    BY <2>2, <2>4, <2>5 DEF TextBlock, OpenBlock
  <2>7. more = [blocks EXCEPT ![k] = grown]
    BY <1>3, <2>1, <2>5
  <2> QED
    BY <1>5, <2>6, <2>7
<1>6. CASE k \in DOMAIN blocks /\ IsCall(blocks[k]) /\ Grown(blocks, event) = input
  <2>1. PICK b : b = blocks[k]
    OBVIOUS
  <2>2. b \in CallBlock
    BY <1>6, <2>1, OnlyCalls DEF OpenBlock, IsCall
  <2>3. b.input \in Seq(Fragment)
    BY <2>2 DEF CallBlock
  <2>4. Append(b.input, part) \in Seq(Fragment)
    BY <1>2, <2>3
  <2>5. PICK grown : grown = [b EXCEPT !.input = Append(b.input, part)]
    OBVIOUS
  <2>6. grown \in OpenBlock
    BY <2>2, <2>4, <2>5 DEF CallBlock, OpenBlock
  <2>7. input = [blocks EXCEPT ![k] = grown]
    BY <1>3, <2>1, <2>5
  <2> QED
    BY <1>6, <2>6, <2>7
<1> QED
  BY <1>4, <1>5, <1>6

LEMMA HandleIs ==
    ASSUME NEW a \in Accumulator, NEW event \in StreamedEvent
    PROVE  Handle(a, event) \in Accumulator
<1>1. PICK blocks, stop : blocks = a.blocks /\ stop = a.stop_reason
  OBVIOUS
<1>2. blocks \in Seq(OpenBlock) /\ stop \in WireStops \union {"none", "error"}
  BY <1>1 DEF Accumulator
<1>3. CASE event \in [type : {"content_block_start"}, block : TextBlock \union CallBlock \union ThinkingBlock]
  <2>1. event.type = "content_block_start" /\ event.block \in TextBlock \union CallBlock \union ThinkingBlock
    BY <1>3
  <2>2. PICK b : b = Opened(event.block)
    OBVIOUS
  <2>3. b \in OpenBlock
    BY <2>1, <2>2, OpenedIs
  <2>4. Handle(a, event) = [a EXCEPT !.blocks = Append(blocks, b)]
    BY <1>1, <2>1, <2>2 DEF Handle
  <2>5. Append(blocks, b) \in Seq(OpenBlock)
    BY <1>2, <2>3
  <2> QED
    BY <2>4, <2>5 DEF Accumulator
<1>4. CASE event \in DeltaEvent
  <2>1. event.type = "content_block_delta"
    BY <1>4 DEF DeltaEvent
  <2>2. PICK grown : grown = Grown(blocks, event)
    OBVIOUS
  <2>3. Handle(a, event) = [a EXCEPT !.blocks = grown]
    BY <1>1, <2>1, <2>2 DEF Handle
  <2>4. grown \in Seq(OpenBlock)
    BY <1>2, <1>4, <2>2, GrownIs
  <2> QED
    BY <2>3, <2>4 DEF Accumulator
<1>5. CASE event \in [type : {"message_delta"}, stop_reason : WireStops]
  <2>1. Handle(a, event) = [a EXCEPT !.stop_reason = event.stop_reason]
    BY <1>5 DEF Handle
  <2> QED
    BY <1>5, <2>1 DEF Accumulator
<1>6. CASE event \in [type : {"message_stop"}]
  <2>1. Handle(a, event) = a
    BY <1>6 DEF Handle
  <2> QED
    BY <2>1
<1>7. CASE event \in [type : {"error"}]
  <2>1. Handle(a, event) = [a EXCEPT !.stop_reason = "error"]
    BY <1>7 DEF Handle
  <2> QED
    BY <2>1 DEF Accumulator
<1> QED
  BY <1>3, <1>4, <1>5, <1>6, <1>7 DEF StreamedEvent

LEMMA FinishIs == ASSUME NEW a \in Accumulator PROVE Finish(a) \in Results
<1> DEFINE K == {b \in OpenBlock : IsCall(b) \/ (IsText(b) /\ b.text # <<>>)}
           f == [k \in DOMAIN a.blocks |-> IF IsCall(a.blocks[k]) \/ (IsText(a.blocks[k]) /\ a.blocks[k].text # <<>>)
                                           THEN <<a.blocks[k]>> ELSE <<>>]
<1>1. a.blocks \in Seq(OpenBlock)
  BY DEF Accumulator
<1>2. f = [k \in DOMAIN a.blocks |-> IF a.blocks[k] \in K THEN <<a.blocks[k]>> ELSE <<>>]
  BY <1>1
<1>3. PICK content : content = FlattenSeq(f)
  OBVIOUS
<1>4. content \in Seq(OpenBlock \intersect K)
  <2> HIDE DEF f, K
  <2> QED
    BY <1>1, <1>2, <1>3, SelectedIs
<1>5. OpenBlock \intersect K \subseteq ContentBlock
  BY DEF OpenBlock, ContentBlock, IsCall, IsText
<1>6. content \in Seq(ContentBlock)
  <2> HIDE DEF K
  <2> QED
    BY <1>4, <1>5
<1>7. PICK stop : stop = IF a.stop_reason = "none" THEN "EndTurn" ELSE StopReason(a.stop_reason)
  OBVIOUS
<1>8. stop \in StopReasons
  BY <1>7, StopIs, Zenon DEF StopReasons
<1>9. Finish(a) = Failed("malformed") \/ Finish(a) = Response(content, stop)
  BY <1>3, <1>7, Zenon DEF Finish, Select
<1> QED
  BY <1>6, <1>8, <1>9, ResponseIs, FailedIs, Kinds

-----------------------------------------------------------------------------
(* The loop around the call and the batch.                                 *)

ResultBlock == [type : {"tool_result"}, tool_use_id : STRING, is_error : BOOLEAN]

Message == [role : {"user"}, content : Seq(TextBlock \union ResultBlock)]
           \union [role : {"assistant"}, content : Seq(ContentBlock)]

CallTypes ==
    /\ adapter \in Adapters
    /\ phase \in {"idle", "sending", "backoff", "streaming", "done"}
    /\ attempt \in 0 .. MAX_ATTEMPTS - 1
    /\ phase = "backoff" => attempt + 1 < MAX_ATTEMPTS
    /\ answers \in Seq(Answer)
    /\ phase = "streaming" => reply \in Replies
    /\ sent \in Nat
    /\ whole \in BOOLEAN
    /\ acc \in Accumulator
    /\ result \in Results

LoopTypes ==
    /\ messages \in Seq(Message)
    /\ status \in {"idle", "ask", "asking", "batch"}
    /\ turn \in 0 .. MaxTurns
    /\ runs \in 0 .. MaxRuns

\* The batch that runs is the calls of the response it is for.
BatchIsTheResponse ==
    IF status = "batch"
    THEN result.ok /\ intents = [k \in DOMAIN Calls |-> Calls[k].name]
    ELSE intents = <<>>

\* The results of a message's calls are the message after it, call by call.
Answers(m, calls) ==
    /\ m.role = "user"
    /\ DOMAIN m.content = DOMAIN calls
    /\ \A n \in DOMAIN calls : IsResult(m.content[n]) /\ m.content[n].tool_use_id = calls[n].id

Asks(m) == m.role = "assistant" /\ ToolUses(m.content) # <<>>

CallsAreAnswered ==
    \A k \in DOMAIN messages :
        Asks(messages[k]) =>
            k + 1 \in DOMAIN messages /\ Answers(messages[k + 1], ToolUses(messages[k].content))

TurnInv == BatchInv /\ CallTypes /\ LoopTypes /\ BatchIsTheResponse /\ CallsAreAnswered

-----------------------------------------------------------------------------
LEMMA FromWireIs ==
    ASSUME adapter \in Adapters, NEW r \in Replies
    PROVE  FromWire(r) \in Results
<1>1. CASE adapter \in {"anthropic", "compatible"}
  <2>1. FromWire(r) = AnthropicResponse(AnthropicBody(r))
    BY <1>1 DEF FromWire
  <2> QED
    BY <2>1, AnthropicResponseIs
<1>2. CASE adapter = "codex"
  <2>1. FromWire(r) = ParseStream(CodexBody(CodexEvents(r)))
    BY <1>2 DEF FromWire
  <2> QED
    BY <2>1, CodexEventsAre, ParseStreamIs
<1>3. CASE adapter = "openrouter"
  <2>1. FromWire(r) = ChatResponse(ChatBody(r))
    BY <1>3 DEF FromWire
  <2> QED
    BY <2>1, ChatResponseIs
<1> QED
  BY <1>1, <1>2, <1>3, TurnAssumption

\* A stream of Codex that is cut off, and one that ends with an error.
LEMMA CutIs ==
    ASSUME NEW r \in Replies, NEW n \in 0 .. Len(CodexEvents(r)) - 1
    PROVE  ParseStream(CodexBody(SubSeq(CodexEvents(r), 1, n))) \in Results
<1>1. PICK events : events = CodexEvents(r)
  OBVIOUS
<1>2. events \in Seq(CodexEvent) /\ n \in 0 .. Len(events)
  BY <1>1, CodexEventsAre
<1>3. PICK some : some = SubSeq(events, 1, n)
  OBVIOUS
<1>4. some \in Seq(CodexEvent)
  BY <1>2, <1>3
<1>5. ParseStream(CodexBody(some)) \in Results
  BY <1>4, ParseStreamIs
<1> QED
  BY <1>1, <1>3, <1>5

LEMMA BrokenOffIs ==
    ASSUME NEW r \in Replies
    PROVE  ParseStream(CodexBody(Append(CodexEvents(r), [type |-> "failed"]))) \in Results
<1>1. PICK events, failed : events = CodexEvents(r) /\ failed = [type |-> "failed"]
  OBVIOUS
<1>2. events \in Seq(CodexEvent) /\ failed \in CodexEvent
  BY <1>1, CodexEventsAre DEF CodexEvent
<1>3. PICK all : all = Append(events, failed)
  OBVIOUS
<1>4. all \in Seq(CodexEvent)
  BY <1>2, <1>3
<1>5. ParseStream(CodexBody(all)) \in Results
  BY <1>4, ParseStreamIs
<1> QED
  BY <1>1, <1>3, <1>5

LEMMA InitialValues == NothingYet \in Accumulator /\ NoResult \in Results
<1>1. <<>> \in Seq(OpenBlock)
  OBVIOUS
<1> QED
  BY <1>1 DEF NothingYet, NoResult, Accumulator, Results

LEMMA InitTurn == Init => TurnInv
<1> SUFFICES ASSUME Init PROVE TurnInv
  OBVIOUS
<1>1. BatchInv
  BY InitInv DEF Init
<1>2. CallTypes
  <2>1. <<>> \in Seq(Answer) /\ 0 \in 0 .. MAX_ATTEMPTS - 1
    BY ProviderAssumption
  <2>2. /\ adapter \in Adapters /\ phase = "idle" /\ attempt = 0 /\ answers = <<>>
        /\ sent = 0 /\ whole = FALSE /\ acc = NothingYet /\ result = NoResult
    BY DEF Init, CallInit
  <2> QED
    BY <2>1, <2>2, InitialValues DEF CallTypes
<1>3. LoopTypes
  BY TurnAssumption DEF Init, LoopTypes
<1>4. BatchIsTheResponse /\ CallsAreAnswered
  BY DEF Init, BatchInit, BatchIsTheResponse, CallsAreAnswered
<1> QED
  BY <1>1, <1>2, <1>3, <1>4 DEF TurnInv

-----------------------------------------------------------------------------
\* Every step of the call keeps its types.
LEMMA RefusedKeeps == ASSUME CallTypes, NEW a \in Answer, Refused(a) PROVE CallTypes'
<1>1. PICK error : error = IF a.status = 0 THEN "transport" ELSE "api"
  OBVIOUS
<1>2. Failed(error) \in Results
  BY <1>1, FailedIs, Kinds
<1>3. answers' \in Seq(Answer)
  BY DEF CallTypes, Refused
<1>4. \/ phase' = "backoff" /\ attempt + 1 < MAX_ATTEMPTS /\ result' = result
      \/ phase' = "done" /\ result' = Failed(error)
  BY <1>1 DEF Refused, Return
<1>5. /\ adapter' = adapter /\ attempt' = attempt /\ reply' = reply /\ sent' = sent
      /\ whole' = whole /\ acc' = acc
  BY DEF Refused
<1> QED
  BY <1>2, <1>3, <1>4, <1>5 DEF CallTypes

LEMMA AcceptedKeeps == ASSUME CallTypes, NEW r \in Replies, Accepted(r) PROVE CallTypes'
<1>1. /\ answers' = <<>> /\ attempt' = 0
      /\ adapter' = adapter /\ sent' = sent /\ acc' = acc
  BY DEF Accepted, Succeeds
<1>2. \E out \in Results, intact \in BOOLEAN : Buffered(out, intact)
  <2>1. adapter \in Adapters
    BY DEF CallTypes
  <2>2. CASE Buffered(FromWire(r), TRUE)
    BY <2>1, <2>2, FromWireIs
  <2>3. CASE Buffered(Failed("malformed"), FALSE)
    BY <2>3, FailedIs, Kinds
  <2>4. CASE \E n \in 0 .. Len(CodexEvents(r)) - 1 :
                Buffered(ParseStream(CodexBody(SubSeq(CodexEvents(r), 1, n))), FALSE)
    BY <2>4, CutIs
  <2>5. CASE Buffered(ParseStream(CodexBody(Append(CodexEvents(r), [type |-> "failed"]))), FALSE)
    BY <2>5, BrokenOffIs
  <2> QED
    BY <2>2, <2>3, <2>4, <2>5 DEF Accepted
<1>3. phase' = "done" /\ result' \in Results /\ whole' \in BOOLEAN
  BY <1>2 DEF Buffered, Return
<1>4. <<>> \in Seq(Answer) /\ 0 \in 0 .. MAX_ATTEMPTS - 1
  BY ProviderAssumption
<1> QED
  BY <1>1, <1>3, <1>4 DEF CallTypes

LEMMA HandledKeeps ==
    ASSUME acc \in Accumulator, NEW event \in StreamedEvent, Handled(event)
    PROVE  acc' \in Accumulator
BY HandleIs DEF Handled

LEMMA EventIs ==
    ASSUME CallTypes, phase = "streaming", sent < Len(Events)
    PROVE  Events[sent + 1] \in StreamedEvent /\ Len(Events) \in Nat
<1>1. PICK events : events = Events
  OBVIOUS
<1>2. events \in Seq(StreamedEvent)
  BY <1>1, StreamIs DEF CallTypes, Events
<1>3. PICK n \in Nat : n = sent + 1
  BY DEF CallTypes
<1>4. n \in 1 .. Len(events)
  BY <1>1, <1>2, <1>3 DEF CallTypes
<1>5. events[n] \in StreamedEvent /\ Len(events) \in Nat
  BY <1>2, <1>4
<1> QED
  BY <1>1, <1>3, <1>5

LEMMA GarbledIs ==
    ASSUME NEW event \in StreamedEvent, Forwarded(event) # <<>>
    PROVE  [event EXCEPT !.part = "garbled"] \in StreamedEvent
<1>1. event.type = "content_block_delta"
  BY DEF Forwarded
<1>2. event \in DeltaEvent
  BY <1>1 DEF StreamedEvent, DeltaEvent
<1>3. "garbled" \in Fragment
  BY DEF Fragment
<1>4. [event EXCEPT !.part = "garbled"] \in DeltaEvent
  BY <1>2, <1>3 DEF DeltaEvent
<1> QED
  BY <1>4 DEF StreamedEvent

LEMMA CallKeeps == ASSUME CallTypes, CallStep PROVE CallTypes'
<1>1. CASE TokenFails
  BY <1>1, FailedIs, Kinds DEF TokenFails, Return, CallTypes
<1>2. CASE \E a \in Answer : Refused(a)
  BY <1>2, RefusedKeeps
<1>3. CASE Wake
  BY <1>3, ProviderAssumption DEF Wake, CallTypes
<1>4. CASE \E r \in Replies : Accepted(r)
  BY <1>4, AcceptedKeeps
<1>5. CASE \E r \in Replies : StreamStarts(r)
  BY <1>5, ProviderAssumption DEF StreamStarts, Succeeds, CallTypes
<1>6. CASE StreamEvent
  <2>1. /\ phase = "streaming" /\ sent < Len(Events) /\ Handled(Events[sent + 1])
        /\ sent' = sent + 1
        /\ UNCHANGED <<adapter, phase, attempt, answers, reply, whole, result>>
    BY <1>6 DEF StreamEvent
  <2>2. acc' \in Accumulator
    BY <2>1, EventIs, HandledKeeps DEF CallTypes
  <2>3. sent' \in Nat
    BY <2>1 DEF CallTypes
  <2>4. whole' \in BOOLEAN
    BY <2>1 DEF CallTypes
  <2>5. /\ adapter' = adapter /\ phase' = phase /\ attempt' = attempt /\ answers' = answers
        /\ reply' = reply /\ result' = result
    BY <2>1
  <2> QED
    BY <2>2, <2>3, <2>4, <2>5 DEF CallTypes
<1>7. CASE GarbledEvent
  <2>1. /\ phase = "streaming" /\ sent < Len(Events) /\ Forwarded(Events[sent + 1]) # <<>>
        /\ Handled([Events[sent + 1] EXCEPT !.part = "garbled"])
        /\ sent' = sent + 1 /\ whole' = FALSE
        /\ UNCHANGED <<adapter, phase, attempt, answers, reply, result>>
    BY <1>7 DEF GarbledEvent
  <2>2. acc' \in Accumulator
    BY <2>1, EventIs, GarbledIs, HandledKeeps DEF CallTypes
  <2>3. sent' \in Nat /\ whole' \in BOOLEAN
    <3>1. sent' = sent + 1 /\ whole' = FALSE
      BY <2>1
    <3>2. sent \in Nat
      BY DEF CallTypes
    <3>3. sent' \in Nat
      BY <3>1, <3>2
    <3>4. whole' \in BOOLEAN
      BY <3>1
    <3> QED
      BY <3>3, <3>4
  <2>4. /\ adapter' = adapter /\ phase' = phase /\ attempt' = attempt /\ answers' = answers
        /\ reply' = reply /\ result' = result
    BY <2>1
  <2> QED
    BY <2>2, <2>3, <2>4 DEF CallTypes
<1>8. CASE ErrorEvent
  <2>1. /\ phase = "streaming" /\ sent < Len(Events) /\ Handled([type |-> "error"])
        /\ sent' = Len(Events) /\ whole' = FALSE
        /\ UNCHANGED <<adapter, phase, attempt, answers, reply, result>>
    BY <1>8 DEF ErrorEvent
  <2>2. [type |-> "error"] \in StreamedEvent
    BY DEF StreamedEvent
  <2>3. acc' \in Accumulator
    BY <2>1, <2>2, HandledKeeps DEF CallTypes
  <2>4. sent' \in Nat /\ whole' \in BOOLEAN
    BY <2>1, EventIs
  <2>5. /\ adapter' = adapter /\ phase' = phase /\ attempt' = attempt /\ answers' = answers
        /\ reply' = reply /\ result' = result
    BY <2>1
  <2> QED
    BY <2>3, <2>4, <2>5 DEF CallTypes
<1>9. CASE StreamBreaks
  BY <1>9, FailedIs, Kinds DEF StreamBreaks, Return, CallTypes
<1>10. CASE StreamEnds
  <2>1. /\ phase' = "done" /\ result' = Finish(acc)
        /\ whole' = (whole /\ sent = Len(Events))
        /\ UNCHANGED <<adapter, attempt, answers, reply, sent, acc>>
    BY <1>10 DEF StreamEnds, Return
  <2>2. result' \in Results
    BY <2>1, FinishIs DEF CallTypes
  <2>3. whole' \in BOOLEAN
    BY <2>1
  <2> QED
    BY <2>1, <2>2, <2>3 DEF CallTypes
<1> QED
  BY <1>1, <1>2, <1>3, <1>4, <1>5, <1>6, <1>7, <1>8, <1>9, <1>10 DEF CallStep

-----------------------------------------------------------------------------
\* What a message is, and that the calls of a response are calls.
LEMMA CallsAre == ASSUME result \in Results, result.ok PROVE Calls \in Seq(CallBlock)
<1>1. result.content \in Seq(ContentBlock)
  BY DEF Results
<1>2. \A b \in ContentBlock : IsCall(b) => b \in CallBlock
  BY OnlyCalls DEF ContentBlock
<1> QED
  BY <1>1, <1>2, CallsOf DEF Calls

LEMMA AssistantIs == ASSUME result \in Results, result.ok PROVE Assistant(result.content) \in Message
BY DEF Results, Message, Assistant

LEMMA PromptIs == UserText(<<"prompt">>) \in Message /\ UserText(<<"prompt">>).role = "user"
<1>1. <<"prompt">> \in Seq(Fragment)
  BY DEF Fragment
<1>2. Text(<<"prompt">>) \in TextBlock
  BY <1>1, TextIs
<1>3. PICK b : b = Text(<<"prompt">>)
  OBVIOUS
<1>4. <<b>> \in Seq(TextBlock \union ResultBlock)
  BY <1>2, <1>3
<1> QED
  BY <1>3, <1>4 DEF UserText, Message

\* The results of the batch, paired with its calls by position.
BatchResults == [k \in DOMAIN outputs |-> ToolResult(Calls[k].id, outputs[k].is_error)]

LEMMA ResultsAre ==
    ASSUME BatchTypeOK, result \in Results, BatchIsTheResponse, status = "batch", BatchIsDone
    PROVE  /\ BatchResults \in Seq(ResultBlock)
           /\ DOMAIN BatchResults = DOMAIN Calls
           /\ \A n \in DOMAIN Calls :
                 IsResult(BatchResults[n]) /\ BatchResults[n].tool_use_id = Calls[n].id
<1>1. result.ok /\ intents = [k \in DOMAIN Calls |-> Calls[k].name]
  BY DEF BatchIsTheResponse
<1>2. PICK calls : calls = Calls
  OBVIOUS
<1>3. calls \in Seq(CallBlock)
  BY <1>1, <1>2, CallsAre
<1>4. PICK n \in Nat : n = Len(calls) /\ DOMAIN calls = 1 .. n
  BY <1>3
<1>5. Len(intents) = n
  <2>1. DOMAIN intents = 1 .. n
    BY <1>1, <1>2, <1>4
  <2>2. Len(intents) \in Nat /\ DOMAIN intents = 1 .. Len(intents)
    BY DEF BatchTypeOK
  <2> QED
    BY <2>1, <2>2
<1>6. DOMAIN outputs = 1 .. n /\ Len(outputs) = n
  <2>1. Len(outputs) = n
    BY <1>5 DEF BatchTypeOK, BatchIsDone
  <2> QED
    BY <2>1 DEF BatchTypeOK
<1>7. \A k \in 1 .. n : calls[k].id \in STRING /\ outputs[k].is_error \in BOOLEAN
  <2>1. \A k \in 1 .. n : calls[k] \in CallBlock
    BY <1>3, <1>4
  <2>2. \A k \in 1 .. n : outputs[k] \in [call : Requests, is_error : BOOLEAN]
    <3>1. PICK S : S = [call : Requests, is_error : BOOLEAN]
      OBVIOUS
    <3>2. outputs \in Seq(S)
      BY <3>1 DEF BatchTypeOK
    <3>3. \A k \in 1 .. n : outputs[k] \in S
      BY <1>6, <3>2
    <3> QED
      BY <3>1, <3>3, Zenon
  <2> QED
    BY <2>1, <2>2 DEF CallBlock
<1>8. PICK results : results = [k \in 1 .. n |-> ToolResult(calls[k].id, outputs[k].is_error)]
  OBVIOUS
<1>9. results = BatchResults
  BY <1>2, <1>6, <1>8 DEF BatchResults
<1>10. \A k \in 1 .. n : ToolResult(calls[k].id, outputs[k].is_error) \in ResultBlock
  BY <1>7 DEF ToolResult, ResultBlock
<1>11. results \in [1 .. n -> ResultBlock]
  BY <1>8, <1>10
<1>12. results \in Seq(ResultBlock) /\ DOMAIN results = 1 .. n
  BY <1>11
<1>13. \A k \in 1 .. n : IsResult(results[k]) /\ results[k].tool_use_id = calls[k].id
  BY <1>8 DEF ToolResult, IsResult
<1> QED
  BY <1>2, <1>4, <1>9, <1>12, <1>13

-----------------------------------------------------------------------------
\* A message that asks for nothing leaves every call answered.
LEMMA QuietMessage ==
    ASSUME messages \in Seq(Message), CallsAreAnswered, NEW m \in Message, ~Asks(m),
           messages' = Append(messages, m)
    PROVE  messages' \in Seq(Message) /\ CallsAreAnswered'
<1>1. PICK n \in Nat : n = Len(messages) /\ DOMAIN messages = 1 .. n
  OBVIOUS
<1>2. PICK l \in Nat : l = n + 1
  OBVIOUS
<1>3. /\ messages' \in Seq(Message) /\ DOMAIN messages' = 1 .. l /\ messages'[l] = m
      /\ \A k \in 1 .. n : messages'[k] = messages[k]
  BY <1>1, <1>2
<1>4. ASSUME NEW k \in 1 .. l, Asks(messages'[k])
      PROVE  k + 1 \in 1 .. l /\ Answers(messages'[k + 1], ToolUses(messages'[k].content))
  <2>1. k # l
    BY <1>3, <1>4
  <2>2. k \in 1 .. n
    BY <1>2, <2>1
  <2>3. messages'[k] = messages[k]
    BY <1>3, <2>2
  <2>4. k + 1 \in 1 .. n /\ Answers(messages[k + 1], ToolUses(messages[k].content))
    BY <1>1, <1>4, <2>2, <2>3 DEF CallsAreAnswered
  <2>5. messages'[k + 1] = messages[k + 1] /\ k + 1 \in 1 .. l
    BY <1>2, <1>3, <2>4
  <2> QED
    BY <2>3, <2>4, <2>5
<1>5. CallsAreAnswered'
  BY <1>3, <1>4 DEF CallsAreAnswered
<1> QED
  BY <1>3, <1>5

\* A message with its results after it.
LEMMA AnsweredMessage ==
    ASSUME messages \in Seq(Message), CallsAreAnswered,
           NEW m \in Message, NEW answer \in Message, ~Asks(answer),
           Answers(answer, ToolUses(m.content)),
           messages' = messages \o <<m, answer>>
    PROVE  messages' \in Seq(Message) /\ CallsAreAnswered'
<1>1. PICK n \in Nat : n = Len(messages) /\ DOMAIN messages = 1 .. n
  OBVIOUS
<1>2. PICK l \in Nat, e \in Nat : l = n + 1 /\ e = n + 2
  OBVIOUS
<1>3. /\ messages' \in Seq(Message) /\ DOMAIN messages' = 1 .. e
      /\ messages'[l] = m /\ messages'[e] = answer
      /\ \A k \in 1 .. n : messages'[k] = messages[k]
  BY <1>1, <1>2
<1>4. ASSUME NEW k \in 1 .. e, Asks(messages'[k])
      PROVE  k + 1 \in 1 .. e /\ Answers(messages'[k + 1], ToolUses(messages'[k].content))
  <2>1. k # e
    BY <1>3, <1>4
  <2>2. CASE k = l
    <3>1. k + 1 = e
      BY <1>2, <2>2
    <3>2. messages'[k] = m /\ messages'[k + 1] = answer
      BY <1>3, <2>2, <3>1
    <3>3. k + 1 \in 1 .. e
      BY <1>2, <3>1
    <3>4. Answers(messages'[k + 1], ToolUses(messages'[k].content))
      BY <3>2, Zenon
    <3> QED
      BY <3>3, <3>4
  <2>3. CASE k # l
    <3>1. k \in 1 .. n
      BY <1>2, <2>1, <2>3
    <3>2. messages'[k] = messages[k]
      BY <1>3, <3>1
    <3>3. k + 1 \in 1 .. n /\ Answers(messages[k + 1], ToolUses(messages[k].content))
      BY <1>1, <1>4, <3>1, <3>2 DEF CallsAreAnswered
    <3>4. messages'[k + 1] = messages[k + 1] /\ k + 1 \in 1 .. e
      BY <1>2, <1>3, <3>3
    <3> QED
      BY <3>2, <3>3, <3>4
  <2> QED
    BY <2>2, <2>3
<1>5. CallsAreAnswered'
  BY <1>3, <1>4 DEF CallsAreAnswered
<1> QED
  BY <1>3, <1>5

-----------------------------------------------------------------------------
LEMMA CallsStill == ASSUME CallTypes, UNCHANGED callVars PROVE CallTypes'
<1>1. /\ adapter' = adapter /\ phase' = phase /\ attempt' = attempt /\ answers' = answers
      /\ reply' = reply /\ sent' = sent /\ acc' = acc /\ result' = result
  BY DEF callVars
<1>2. whole' \in BOOLEAN
  BY DEF callVars, CallTypes
<1> QED
  BY <1>1, <1>2 DEF CallTypes

LEMMA BatchStill == ASSUME BatchInv, UNCHANGED batchVars PROVE BatchInv' /\ intents' = intents
<1>1. BatchInv'
  BY StepInv
<1> QED
  BY <1>1 DEF batchVars

LEMMA MessagesStill ==
    ASSUME CallsAreAnswered, UNCHANGED messages PROVE CallsAreAnswered'
BY DEF CallsAreAnswered

LEMMA BatchStepIs == ASSUME BatchInv, BatchStep PROVE BatchNext /\ BatchInv' /\ intents' = intents
<1>1. BatchNext
  BY DEF BatchNext
<1>2. BatchInv'
  BY <1>1, StepInv
<1>3. intents' = intents
  BY DEF BatchStep, StartGroup, StartSerial, Acquire, Touch, EndTool, Join
<1> QED
  BY <1>1, <1>2, <1>3

LEMMA TakeIs == ASSUME CallTypes, Take PROVE CallTypes' /\ phase' = "idle" /\ result' = result
<1>1. /\ phase' = "idle" /\ attempt' = 0 /\ answers' = <<>> /\ sent' = 0 /\ acc' = NothingYet
      /\ adapter' = adapter /\ result' = result
  BY DEF Take
<1>2. whole' \in BOOLEAN
  BY DEF Take, CallTypes
<1>3. <<>> \in Seq(Answer) /\ 0 \in 0 .. MAX_ATTEMPTS - 1
  BY ProviderAssumption
<1> QED
  BY <1>1, <1>2, <1>3, InitialValues DEF CallTypes

\* The names of the calls of a response are a batch.
LEMMA NamesAre ==
    ASSUME result \in Results, result.ok
    PROVE  [k \in DOMAIN Calls |-> Calls[k].name] \in Seq(Names)
<1>1. PICK calls : calls = Calls
  OBVIOUS
<1>2. calls \in Seq(CallBlock)
  BY <1>1, CallsAre
<1>3. PICK n \in Nat : DOMAIN calls = 1 .. n
  BY <1>2
<1>4. \A k \in 1 .. n : calls[k].name \in Names
  <2>1. \A k \in 1 .. n : calls[k] \in CallBlock
    BY <1>2, <1>3
  <2> QED
    BY <2>1 DEF CallBlock
<1>5. PICK names : names = [k \in DOMAIN calls |-> calls[k].name]
  OBVIOUS
<1>6. names \in [1 .. n -> Names]
  BY <1>3, <1>4, <1>5
<1>7. names \in Seq(Names)
  BY <1>6
<1> QED
  BY <1>1, <1>5, <1>7

-----------------------------------------------------------------------------
\* One lemma for each step of the loop; a step of the loop is a step of the
\* batch or leaves it alone.
Preserved == TurnInv' /\ [BatchNext]_batchVars

LEMMA PromptKeeps == ASSUME TurnInv, Prompt PROVE Preserved
<1>1. BatchInv /\ CallTypes /\ LoopTypes /\ BatchIsTheResponse /\ CallsAreAnswered
  BY DEF TurnInv
<1>2. /\ status = "idle" /\ runs < MaxRuns /\ status' = "ask" /\ turn' = 0 /\ runs' = runs + 1
      /\ messages' = Append(messages, UserText(<<"prompt">>))
      /\ UNCHANGED callVars /\ UNCHANGED batchVars
  BY DEF Prompt
<1>3. BatchInv' /\ intents' = intents /\ CallTypes'
  BY <1>1, <1>2, BatchStill, CallsStill
<1>4. messages' \in Seq(Message) /\ CallsAreAnswered'
  <2>1. ~Asks(UserText(<<"prompt">>))
    BY PromptIs DEF Asks
  <2> QED
    BY <1>1, <1>2, <2>1, PromptIs, QuietMessage DEF LoopTypes
<1>5. LoopTypes'
  BY <1>1, <1>2, <1>4, TurnAssumption DEF LoopTypes
<1>6. BatchIsTheResponse'
  BY <1>1, <1>2, <1>3 DEF BatchIsTheResponse
<1> QED
  BY <1>2, <1>3, <1>4, <1>5, <1>6 DEF Preserved, TurnInv

LEMMA AskKeeps == ASSUME TurnInv, Ask PROVE Preserved
<1>1. BatchInv /\ CallTypes /\ LoopTypes /\ BatchIsTheResponse /\ CallsAreAnswered
  BY DEF TurnInv
<1>2. /\ status = "ask" /\ turn < MaxTurns /\ status' = "asking" /\ turn' = turn + 1
      /\ runs' = runs /\ messages' = messages /\ Call(messages) /\ UNCHANGED batchVars
  BY DEF Ask
<1>3. BatchInv' /\ intents' = intents
  BY <1>1, <1>2, BatchStill
<1>4. CallTypes'
  <2>1. /\ adapter' = adapter /\ phase' = "sending" /\ attempt' = 0 /\ answers' = <<>>
        /\ sent' = 0 /\ acc' = NothingYet /\ result' = NoResult
    BY <1>2 DEF Call
  <2>2. whole' \in BOOLEAN
    BY <1>2 DEF Call
  <2>3. <<>> \in Seq(Answer) /\ 0 \in 0 .. MAX_ATTEMPTS - 1
    BY ProviderAssumption
  <2> QED
    BY <1>1, <2>1, <2>2, <2>3, InitialValues DEF CallTypes
<1>5. LoopTypes'
  BY <1>1, <1>2, TurnAssumption DEF LoopTypes
<1>6. BatchIsTheResponse' /\ CallsAreAnswered'
  BY <1>1, <1>2, <1>3, MessagesStill DEF BatchIsTheResponse
<1> QED
  BY <1>2, <1>3, <1>4, <1>5, <1>6 DEF Preserved, TurnInv

LEMMA TurnLimitKeeps == ASSUME TurnInv, TurnLimit PROVE Preserved
<1>1. BatchInv /\ CallTypes /\ LoopTypes /\ BatchIsTheResponse /\ CallsAreAnswered
  BY DEF TurnInv
<1>2. /\ status = "ask" /\ status' = "idle" /\ turn' = turn /\ runs' = runs /\ messages' = messages
      /\ UNCHANGED callVars /\ UNCHANGED batchVars
  BY DEF TurnLimit
<1>3. BatchInv' /\ intents' = intents /\ CallTypes'
  BY <1>1, <1>2, BatchStill, CallsStill
<1>4. LoopTypes'
  BY <1>1, <1>2 DEF LoopTypes
<1>5. BatchIsTheResponse' /\ CallsAreAnswered'
  BY <1>1, <1>2, <1>3, MessagesStill DEF BatchIsTheResponse
<1> QED
  BY <1>2, <1>3, <1>4, <1>5 DEF Preserved, TurnInv

LEMMA ProvideKeeps == ASSUME TurnInv, Provide PROVE Preserved
<1>1. BatchInv /\ CallTypes /\ LoopTypes /\ BatchIsTheResponse /\ CallsAreAnswered
  BY DEF TurnInv
<1>2. /\ status = "asking" /\ status' = status /\ turn' = turn /\ runs' = runs
      /\ messages' = messages /\ CallStep /\ UNCHANGED batchVars
  BY DEF Provide
<1>3. BatchInv' /\ intents' = intents /\ CallTypes'
  BY <1>1, <1>2, BatchStill, CallKeeps
<1>4. LoopTypes'
  BY <1>1, <1>2 DEF LoopTypes
<1>5. BatchIsTheResponse' /\ CallsAreAnswered'
  BY <1>1, <1>2, <1>3, MessagesStill DEF BatchIsTheResponse
<1> QED
  BY <1>2, <1>3, <1>4, <1>5 DEF Preserved, TurnInv

LEMMA ErrorKeeps == ASSUME TurnInv, ProviderError PROVE Preserved
<1>1. BatchInv /\ CallTypes /\ LoopTypes /\ BatchIsTheResponse /\ CallsAreAnswered
  BY DEF TurnInv
<1>2. /\ status = "asking" /\ status' = "idle" /\ turn' = turn /\ runs' = runs
      /\ messages' = messages /\ Take /\ UNCHANGED batchVars
  BY DEF ProviderError, Take
<1>3. BatchInv' /\ intents' = intents /\ CallTypes'
  BY <1>1, <1>2, BatchStill, TakeIs
<1>4. LoopTypes'
  BY <1>1, <1>2 DEF LoopTypes
<1>5. BatchIsTheResponse' /\ CallsAreAnswered'
  BY <1>1, <1>2, <1>3, MessagesStill DEF BatchIsTheResponse
<1> QED
  BY <1>2, <1>3, <1>4, <1>5 DEF Preserved, TurnInv

LEMMA FinalKeeps == ASSUME TurnInv, FinalAnswer PROVE Preserved
<1>1. BatchInv /\ CallTypes /\ LoopTypes /\ BatchIsTheResponse /\ CallsAreAnswered
  BY DEF TurnInv
<1>2. /\ status = "asking" /\ status' = "idle" /\ turn' = turn /\ runs' = runs
      /\ result.ok /\ Calls = <<>> /\ messages' = Append(messages, Assistant(result.content))
      /\ Take /\ UNCHANGED batchVars
  BY DEF FinalAnswer, Take
<1>3. BatchInv' /\ intents' = intents /\ CallTypes'
  BY <1>1, <1>2, BatchStill, TakeIs
<1>4. messages' \in Seq(Message) /\ CallsAreAnswered'
  <2>1. ~Asks(Assistant(result.content))
    BY <1>2 DEF Asks, Assistant, Calls
  <2>2. Assistant(result.content) \in Message
    BY <1>1, <1>2, AssistantIs DEF CallTypes
  <2> QED
    BY <1>1, <1>2, <2>1, <2>2, QuietMessage DEF LoopTypes
<1>5. LoopTypes'
  BY <1>1, <1>2, <1>4 DEF LoopTypes
<1>6. BatchIsTheResponse'
  BY <1>1, <1>2, <1>3 DEF BatchIsTheResponse
<1> QED
  BY <1>2, <1>3, <1>4, <1>5, <1>6 DEF Preserved, TurnInv

LEMMA RequestKeeps == ASSUME TurnInv, RequestTools PROVE Preserved
<1>1. BatchInv /\ CallTypes /\ LoopTypes /\ BatchIsTheResponse /\ CallsAreAnswered
  BY DEF TurnInv
<1>2. /\ status = "asking" /\ status' = "batch" /\ turn' = turn /\ runs' = runs
      /\ result.ok /\ messages' = messages /\ Take
      /\ BeginBatch([k \in DOMAIN Calls |-> Calls[k].name])
  BY DEF RequestTools, Take
<1>3. PICK names : names = [k \in DOMAIN Calls |-> Calls[k].name]
  OBVIOUS
<1>4. names \in Seq(Names)
  BY <1>1, <1>2, <1>3, NamesAre DEF CallTypes
<1>5. BeginBatch(names)
  BY <1>2, <1>3
<1>6. BatchNext
  BY <1>4, <1>5 DEF BatchNext
<1>7. BatchInv' /\ intents' = names
  BY <1>1, <1>5, <1>6, StepInv DEF BeginBatch
<1>8. CallTypes' /\ result' = result
  BY <1>1, <1>2, TakeIs
<1>9. LoopTypes'
  BY <1>1, <1>2 DEF LoopTypes
<1>10. BatchIsTheResponse'
  <2>1. Calls' = Calls
    BY <1>8 DEF Calls
  <2> QED
    BY <1>2, <1>3, <1>7, <1>8, <2>1 DEF BatchIsTheResponse
<1>11. CallsAreAnswered'
  BY <1>1, <1>2, MessagesStill
<1> QED
  BY <1>6, <1>7, <1>8, <1>9, <1>10, <1>11 DEF Preserved, TurnInv

LEMMA RunToolsKeeps == ASSUME TurnInv, RunTools PROVE Preserved
<1>1. BatchInv /\ CallTypes /\ LoopTypes /\ BatchIsTheResponse /\ CallsAreAnswered
  BY DEF TurnInv
<1>2. /\ status = "batch" /\ status' = status /\ turn' = turn /\ runs' = runs
      /\ messages' = messages /\ BatchStep /\ UNCHANGED callVars
  BY DEF RunTools
<1>3. BatchNext /\ BatchInv' /\ intents' = intents
  BY <1>1, <1>2, BatchStepIs
<1>4. CallTypes' /\ result' = result
  BY <1>1, <1>2, CallsStill DEF callVars
<1>5. LoopTypes'
  BY <1>1, <1>2 DEF LoopTypes
<1>6. BatchIsTheResponse'
  <2>1. Calls' = Calls
    BY <1>4 DEF Calls
  <2> QED
    BY <1>1, <1>2, <1>3, <1>4, <2>1 DEF BatchIsTheResponse
<1>7. CallsAreAnswered'
  BY <1>1, <1>2, MessagesStill
<1> QED
  BY <1>3, <1>4, <1>5, <1>6, <1>7 DEF Preserved, TurnInv

LEMMA ToolsAnswerKeeps == ASSUME TurnInv, ToolsAnswer PROVE Preserved
<1>1. BatchInv /\ CallTypes /\ LoopTypes /\ BatchIsTheResponse /\ CallsAreAnswered
  BY DEF TurnInv
<1>2. /\ status = "batch" /\ status' = "ask" /\ turn' = turn /\ runs' = runs
      /\ messages' = messages \o <<Assistant(result.content), ToolResults(BatchResults)>>
      /\ TakeOutputs /\ UNCHANGED callVars
  BY DEF ToolsAnswer, BatchResults
<1>3. BatchNext /\ BatchInv' /\ intents' = <<>>
  <2>1. BatchNext
    BY <1>2 DEF BatchNext
  <2> QED
    BY <1>1, <1>2, <2>1, StepInv DEF TakeOutputs
<1>4. CallTypes'
  BY <1>1, <1>2, CallsStill
<1>5. PICK m, answer : m = Assistant(result.content) /\ answer = ToolResults(BatchResults)
  OBVIOUS
<1>6. result.ok /\ result \in Results
  BY <1>1, <1>2 DEF BatchIsTheResponse, CallTypes
<1>7. m \in Message /\ ToolUses(m.content) = Calls
  BY <1>5, <1>6, AssistantIs DEF Assistant, Calls
<1>8. /\ BatchResults \in Seq(ResultBlock)
      /\ DOMAIN BatchResults = DOMAIN Calls
      /\ \A n \in DOMAIN Calls :
            IsResult(BatchResults[n]) /\ BatchResults[n].tool_use_id = Calls[n].id
  BY <1>1, <1>2, <1>6, ResultsAre DEF BatchInv, TakeOutputs
<1>9. answer.role = "user" /\ answer.content = BatchResults
  BY <1>5 DEF ToolResults
<1>10. answer \in Message
  <2>1. PICK results : results = BatchResults
    OBVIOUS
  <2>2. results \in Seq(TextBlock \union ResultBlock)
    BY <1>8, <2>1
  <2> QED
    BY <1>5, <2>1, <2>2 DEF ToolResults, Message
<1>11. ~Asks(answer) /\ Answers(answer, Calls)
  BY <1>8, <1>9 DEF Asks, Answers
<1>12. messages' \in Seq(Message) /\ CallsAreAnswered'
  <2>1. messages' = messages \o <<m, answer>> /\ messages \in Seq(Message)
    BY <1>1, <1>2, <1>5 DEF LoopTypes
  <2>2. Answers(answer, ToolUses(m.content))
    BY <1>7, <1>11, Zenon
  <2> QED
    BY <1>1, <1>7, <1>10, <1>11, <2>1, <2>2, AnsweredMessage
<1>13. LoopTypes'
  BY <1>1, <1>2, <1>12 DEF LoopTypes
<1>14. BatchIsTheResponse'
  BY <1>2, <1>3 DEF BatchIsTheResponse
<1> QED
  BY <1>3, <1>4, <1>12, <1>13, <1>14 DEF Preserved, TurnInv

LEMMA StutterKeeps == ASSUME TurnInv, UNCHANGED vars PROVE Preserved
<1>1. BatchInv /\ CallTypes /\ LoopTypes /\ BatchIsTheResponse /\ CallsAreAnswered
  BY DEF TurnInv
<1>2. /\ status' = status /\ turn' = turn /\ runs' = runs /\ messages' = messages
      /\ UNCHANGED callVars /\ UNCHANGED batchVars
  BY DEF vars
<1>3. BatchInv' /\ intents' = intents /\ CallTypes' /\ result' = result
  BY <1>1, <1>2, BatchStill, CallsStill DEF callVars
<1>4. LoopTypes'
  BY <1>1, <1>2 DEF LoopTypes
<1>5. BatchIsTheResponse' /\ CallsAreAnswered'
  <2>1. Calls' = Calls
    BY <1>3 DEF Calls
  <2> QED
    BY <1>1, <1>2, <1>3, <2>1, MessagesStill DEF BatchIsTheResponse
<1> QED
  BY <1>2, <1>3, <1>4, <1>5 DEF Preserved, TurnInv

LEMMA TurnStep == TurnInv /\ [Next]_vars => TurnInv' /\ [BatchNext]_batchVars
<1> SUFFICES ASSUME TurnInv, [Next]_vars PROVE Preserved
  BY DEF Preserved
<1> QED
  BY PromptKeeps, AskKeeps, TurnLimitKeeps, ProvideKeeps, ErrorKeeps, FinalKeeps, RequestKeeps,
     RunToolsKeeps, ToolsAnswerKeeps, StutterKeeps DEF Next, Work

-----------------------------------------------------------------------------
\* The invariant of the loop and of the provider call within it
\* (agent/src/lib.rs:186-280, llm/src/anthropic.rs:165-252).
THEOREM TurnInvariant == Spec => []TurnInv
BY InitTurn, TurnStep, PTL DEF Spec

\* Whatever the model answers, however its stream is cut, garbled or broken off
\* and whatever the adapter, the loop holds what it should: a call that returned
\* has a response or an error, no call is retried beyond the limit
\* (llm/src/retry.rs:5, agent/src/lib.rs:186-206).
THEOREM AgentTypes == Spec => []TypeOK
<1>1. TurnInv => TypeOK
  <2> SUFFICES ASSUME TurnInv PROVE TypeOK
    OBVIOUS
  <2>1. BatchTypeOK /\ CallTypes /\ LoopTypes
    BY DEF TurnInv, BatchInv
  <2>2. ~result.ok => result.error \in ErrorKinds \union {"none"}
    BY <2>1 DEF CallTypes, Results
  <2>3. \A k \in DOMAIN messages : messages[k].role \in {"user", "assistant"}
    <3>1. messages \in Seq(Message)
      BY <2>1 DEF LoopTypes
    <3>2. \A m \in Message : m.role \in {"user", "assistant"}
      BY DEF Message
    <3>3. \A k \in DOMAIN messages : messages[k] \in Message
      BY <3>1
    <3> QED
      BY <3>2, <3>3
  <2>4. /\ adapter \in Adapters /\ attempt \in 0 .. MAX_ATTEMPTS - 1 /\ answers \in Seq(Answer)
        /\ phase \in {"idle", "sending", "backoff", "streaming", "done"} /\ sent \in Nat
    BY <2>1 DEF CallTypes
  <2>5. whole \in BOOLEAN
    BY <2>1 DEF CallTypes
  <2>6. status \in {"idle", "ask", "asking", "batch"} /\ turn \in 0 .. MaxTurns /\ runs \in 0 .. MaxRuns
    BY <2>1 DEF LoopTypes
  <2> QED
    BY <2>1, <2>2, <2>3, <2>4, <2>5, <2>6 DEF TypeOK
<1> QED
  BY <1>1, TurnInvariant, PTL

\* The loop uses the batch as its specification says: it begins one with the
\* calls of a response, lets it run and takes its outputs when it is done
\* (agent/src/lib.rs:258-276).
THEOREM LoopRunsBatches == Spec => BatchSpec
<1>1. Init => BatchInit
  BY DEF Init
<1> QED
  BY <1>1, TurnInvariant, TurnStep, PTL DEF Spec, BatchSpec

\* So what holds of batches holds of those of the loop (agent/src/lib.rs:285-327).
THEOREM BatchesInTheLoop ==
    Spec => [](SerialCallRunsAlone /\ PermitsHold /\ EffectsLookSequential /\ OutputsInRequestOrder)
BY LoopRunsBatches, SerialCallsAreAlone, PermitsAreHeld, BatchIsSequential, OutputsAreOrdered, PTL

\* In the transcript the results of a message's calls are the message after it,
\* one for each call, in the order of the calls, however the tools were
\* scheduled and whichever of them failed (agent/src/lib.rs:262-276).
THEOREM EveryCallIsAnswered == Spec => []CallsAreAnswered
<1>1. TurnInv => CallsAreAnswered
  BY DEF TurnInv
<1> QED
  BY <1>1, TurnInvariant, PTL
=============================================================================
