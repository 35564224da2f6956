-------------------------- MODULE DurableRunProofs --------------------------
(***************************************************************************)
(* Proofs about DurableRun, for any number of processes, turns, runs and   *)
(* tool calls and any set of faults.                                       *)
(*                                                                         *)
(* The types come first; then the record log and the session lock: at most *)
(* one open run, one sequence for both tables, and silence after a run is  *)
(* closed.  These three rest on the shape of a step, which touches at most *)
(* one of the two tables, and on the lock, which lets only its holder take *)
(* steps.                                                                  *)
(*                                                                         *)
(* Then the transcript: what the parent chain from the lane leaf reads     *)
(* back is the entries table in insertion order, so it only grows at its   *)
(* end; the holder of the lock keeps that transcript in memory; and a run  *)
(* that is closed was settled first.                                       *)
(*                                                                         *)
(* Last, for a provider that does not repeat a tool_use id within a run:   *)
(* no tool runs without its intents, results follow their calls, and       *)
(* DurableRun implements TranscriptContract.  The record of an intent is   *)
(* named by run and tool_use id alone, so it is written only if no earlier *)
(* attempt of the run has used the id, and recovery reads the interrupted  *)
(* calls from the log.  Each store write, effect, fault and step of        *)
(* recovery maps to one step of the contract or to none.                   *)
(***************************************************************************)
EXTENDS DurableRunRefinement, FiniteSetTheorems, TLAPS

-----------------------------------------------------------------------------
(* What the two appends do to the types of the store.                      *)

\* An append keeps the entries table typed, whether the id exists or not.
LEMMA AppendEntryType ==
    ASSUME StoreTypeOK, NEW id \in EntryId, NEW msg \in Message, AppendEntry(id, msg)
    PROVE  /\ entries' \in Seq(Entry)
           /\ leaf' \in EntryId \union {NoEntry}
           /\ nextSeq' \in Nat
<1>1. CASE EntryExists(id)
  BY <1>1 DEF AppendEntry, StoreTypeOK
<1>2. CASE ~EntryExists(id)
  <2> DEFINE new == [id |-> id, parent |-> leaf, seq |-> nextSeq, msg |-> msg]
  <2>1. new \in Entry
    BY DEF StoreTypeOK, Entry
  <2>2. entries' = Append(entries, new) /\ leaf' = id /\ nextSeq' = nextSeq + 1
    BY <1>2 DEF AppendEntry
  <2> HIDE DEF new
  <2>3. entries \in Seq(Entry) /\ nextSeq \in Nat
    BY DEF StoreTypeOK
  <2>4. QED
    BY <2>1, <2>2, <2>3
<1>3. QED
  BY <1>1, <1>2

\* The primary-key part of a record: all of it but the number.
Row == [kind : RecordKind, run : Nat, step : Nat, call : Calls \union {NoCall},
        outcome : Outcome \union {"none"}]

\* An append keeps the records table typed, whether the id exists or not.
LEMMA AppendRecordType ==
    ASSUME StoreTypeOK, NEW row \in Row, AppendRecord(row)
    PROVE  records' \in Seq(Record) /\ nextSeq' \in Nat
<1>1. CASE RecordExists(row)
  BY <1>1 DEF AppendRecord, StoreTypeOK
<1>2. CASE ~RecordExists(row)
  <2>1. Numbered(row, nextSeq) \in Record
    BY DEF StoreTypeOK, Record, Numbered, Row
  <2>2. records' = Append(records, Numbered(row, nextSeq)) /\ nextSeq' = nextSeq + 1
    BY <1>2 DEF AppendRecord
  <2>3. records \in Seq(Record) /\ nextSeq \in Nat
    BY DEF StoreTypeOK
  <2>4. QED
    BY <2>1, <2>2, <2>3
<1>3. QED
  BY <1>1, <1>2

\* The rows and entry ids the handlers build are well typed.
LEMMA RowTypes ==
    ASSUME NEW r \in Nat, NEW n \in Nat, NEW c \in Calls, NEW o \in Outcome
    PROVE  /\ StartedRow(r) \in Row
           /\ StepRow(r, n) \in Row
           /\ ToolRow(r, n, c) \in Row
           /\ FinishedRow(r, o) \in Row
BY DEF Row, StartedRow, StepRow, ToolRow, FinishedRow, RecordKind, Outcome

\* The entry ids that runs allocate are well typed.
LEMMA IdTypes ==
    ASSUME NEW r \in Nat, NEW n \in Nat
    PROVE  /\ UserId(r) \in EntryId
           /\ AssistantId(r, n) \in EntryId
           /\ ResultsId(r, n) \in EntryId
           /\ ClosingId(r) \in EntryId
BY DEF UserId, AssistantId, ResultsId, ClosingId, EntryId, EntryKind

\* The messages the loop and the recovery append are well typed.
LEMMA MessageTypes ==
    ASSUME NEW cs \in Seq(Calls)
    PROVE  /\ UserMessage \in Message
           /\ ClosingMessage \in Message
           /\ AssistantMessage(cs) \in Message
           /\ ResultsMessage(cs) \in Message
           /\ InterruptedMessage(cs) \in Message
BY DEF UserMessage, ClosingMessage, AssistantMessage, ResultsMessage, InterruptedMessage,
       Message, MessageKind

-----------------------------------------------------------------------------
(* What the inputs of a run can be.                                        *)

\* A response and a recovered batch are lists of tool_use ids.
LEMMA ListTypes ==
    ASSUME RunAssumption, TypeOK, NEW r \in Nat, NEW n \in Nat
    PROVE  /\ Responses(r) \subseteq Seq(Calls)
           /\ IntentLists(r, n) \subseteq Seq(Calls)
           /\ UnfulfilledSteps(r) \subseteq Nat
           /\ OpenRuns \subseteq Nat
<1>1. records \in Seq(Record)
  BY DEF TypeOK, StoreTypeOK
<1>2. Responses(r) \subseteq Seq(Calls)
  <2> SUFFICES ASSUME NEW cs \in Responses(r) PROVE cs \in Seq(Calls)
    OBVIOUS
  <2>1. PICK k \in 0 .. MaxCalls : cs \in [1 .. k -> Calls]
    BY DEF Responses
  <2> QED
    BY <2>1, RunAssumption DEF RunAssumption
<1>3. Cardinality(Intents(r, n)) \in Nat
  <2>1. Intents(r, n) \subseteq 1 .. Len(records)
    BY <1>1 DEF Intents, RecordsOf
  <2>2. IsFiniteSet(1 .. Len(records))
    BY <1>1, FS_Interval
  <2> QED
    BY <2>1, <2>2, FS_Subset, FS_CardinalityType
<1>4. IntentLists(r, n) \subseteq Seq(Calls)
  BY <1>3 DEF IntentLists
<1>5. \A i \in DOMAIN records : records[i].step \in Nat /\ records[i].run \in Nat
  <2> SUFFICES ASSUME NEW i \in DOMAIN records
               PROVE records[i].step \in Nat /\ records[i].run \in Nat
    OBVIOUS
  <2>1. records[i] \in Record
    BY <1>1
  <2> QED
    BY <2>1 DEF Record
<1> QED
  BY <1>2, <1>4, <1>5 DEF UnfulfilledSteps, OpenRuns, StartedRuns, RecordsOf

-----------------------------------------------------------------------------
(* Type correctness.                                                       *)

\* Why LogIntent always has a next call to log: a batch starts at the first
\* of a non-empty list and leaves "intents" with the last.
LoggedInv ==
    \A p \in Procs :
        /\ At(p, "assistant") => task[p].logged = 0
        /\ At(p, "intents") => task[p].logged < Len(task[p].calls)

TypeInv == TypeOK /\ LoggedInv

\* The initial state is typed.
LEMMA TypeInit == ASSUME RunAssumption, Init PROVE TypeInv
BY RunAssumption DEF RunAssumption, Init, TypeInv, TypeOK, StoreInit, StoreTypeOK, LoggedInv, At,
   IdleTask, Task, Outcome, Pc, NoEntry

\* Taking and leaving the lock, and every step of recovery, keep the types.
LEMMA TypePrepare ==
    ASSUME RunAssumption, TypeInv, NEW p \in Procs, Acquire(p) \/ Prepare(p) \/ GiveUp(p) \/ Exit(p)
    PROVE  TypeInv'
<1> USE DEF TypeInv
<1>0. IdleTask \in Task /\ IdleTask.logged = 0
  BY DEF IdleTask, Task, Outcome
<1>1. CASE Acquire(p)
  BY <1>1 DEF Acquire, TypeOK, StoreTypeOK, storeVars, Goto, At, Pc, PreparePc, LoggedInv
<1>2. CASE ReadOpenRun(p)
  <2>1. StoreTypeOK' /\ lock' = lock
    BY <1>2 DEF ReadOpenRun, TypeOK, StoreTypeOK, storeVars
  <2>2. CASE LoadTranscript(p)
    BY <1>0, <2>1, <2>2 DEF LoadTranscript, TypeOK, Goto, At, Pc, LoggedInv
  <2>3. CASE \E r \in OpenRuns : task' = [task EXCEPT ![p].run = r] /\ Goto(p, "batches")
    <3>1. PICK r \in OpenRuns : task' = [task EXCEPT ![p].run = r] /\ Goto(p, "batches")
      BY <2>3
    <3>2. r \in Nat
      BY ListTypes, <3>1
    <3> QED
      BY <2>1, <3>1, <3>2 DEF TypeOK, Goto, At, Pc, PreparePc, LoggedInv, Task
  <2>4. CASE task' = task /\ Goto(p, "exit")
    BY <2>1, <2>4 DEF TypeOK, Goto, At, Pc, LoggedInv
  <2> QED
    BY <1>2, <2>2, <2>3, <2>4 DEF ReadOpenRun
<1>3. CASE RecoverBatch(p)
  <2>1. task[p].run \in Nat
    BY DEF TypeOK, Task
  <2>2. StoreTypeOK'
    <3>1. CASE UNCHANGED <<entries, leaf, nextSeq>>
      BY <1>3, <3>1 DEF RecoverBatch, TypeOK, StoreTypeOK
    <3>2. CASE \E n \in UnfulfilledSteps(task[p].run) : \E cs \in IntentLists(task[p].run, n) :
                  AppendEntry(ResultsId(task[p].run, n), InterruptedMessage(cs))
      <4>1. PICK n \in UnfulfilledSteps(task[p].run) : \E cs \in IntentLists(task[p].run, n) :
                  AppendEntry(ResultsId(task[p].run, n), InterruptedMessage(cs))
        BY <3>2
      <4>2. n \in Nat
        BY <2>1, <4>1, ListTypes
      <4>3. PICK cs \in IntentLists(task[p].run, n) :
                  AppendEntry(ResultsId(task[p].run, n), InterruptedMessage(cs))
        BY <4>1
      <4>4. cs \in Seq(Calls)
        BY <2>1, <4>2, <4>3, ListTypes
      <4>5. ResultsId(task[p].run, n) \in EntryId /\ InterruptedMessage(cs) \in Message
        BY <2>1, <4>2, <4>4, IdTypes, MessageTypes
      <4>6. entries' \in Seq(Entry) /\ leaf' \in EntryId \union {NoEntry} /\ nextSeq' \in Nat
        BY <4>3, <4>5, AppendEntryType DEF TypeOK
      <4> QED
        BY <1>3, <4>6 DEF RecoverBatch, TypeOK, StoreTypeOK
    <3> QED
      BY <1>3, <3>1, <3>2 DEF RecoverBatch
  <2>3. task' = task /\ lock' = lock /\ (pc' = pc \/ Goto(p, "closing"))
    BY <1>3 DEF RecoverBatch
  <2> QED
    BY <2>2, <2>3 DEF TypeOK, Goto, At, Pc, PreparePc, LoggedInv
<1>4. CASE CloseTranscript(p)
  <2>1. ClosingId(task[p].run) \in EntryId /\ ClosingMessage \in Message
    <3>1. <<>> \in Seq(Calls)
      OBVIOUS
    <3> QED
      BY <3>1, IdTypes, MessageTypes DEF TypeOK, Task
  <2>2. entries' \in Seq(Entry) /\ leaf' \in EntryId \union {NoEntry} /\ nextSeq' \in Nat
    BY <1>4, <2>1, AppendEntryType DEF CloseTranscript, TypeOK, StoreTypeOK
  <2> QED
    BY <1>4, <2>2 DEF CloseTranscript, TypeOK, StoreTypeOK, Goto, At, Pc, PreparePc, LoggedInv
<1>5. CASE AbortRun(p)
  <2>1. FinishedRow(task[p].run, "aborted") \in Row
    BY DEF FinishedRow, Row, RecordKind, Outcome, TypeOK, Task
  <2>2. records' \in Seq(Record) /\ nextSeq' \in Nat
    BY <1>5, <2>1, AppendRecordType DEF AbortRun, TypeOK
  <2> QED
    BY <1>5, <2>2 DEF AbortRun, TypeOK, StoreTypeOK, Goto, At, Pc, PreparePc, LoggedInv
<1>6. CASE AbortMarker(p)
  <2>1. StoreTypeOK' /\ lock' = lock
    BY <1>6 DEF AbortMarker, ClearMarker, TypeOK, StoreTypeOK
  <2> QED
    BY <1>0, <1>6, <2>1 DEF AbortMarker, LoadTranscript, TypeOK, Goto, At, Pc, LoggedInv
<1>7. CASE GiveUp(p)
  BY <1>7 DEF GiveUp, TypeOK, StoreTypeOK, storeVars, Goto, At, Pc, LoggedInv
<1>8. CASE Exit(p)
  BY <1>0, <1>8 DEF Exit, TypeOK, StoreTypeOK, storeVars, Goto, At, Pc, LoggedInv
<1> QED
  BY <1>1, <1>2, <1>3, <1>4, <1>5, <1>6, <1>7, <1>8 DEF Prepare

\* run_started and the provider loop keep the types.
LEMMA TypeSend ==
    ASSUME RunAssumption, TypeInv, NEW p \in Procs, Send(p)
    PROVE  TypeInv'
<1> USE DEF TypeInv
<1>0. /\ task[p] \in Task
      /\ task[p].run \in Nat /\ task[p].attempt \in Nat /\ task[p].logged \in Nat
      /\ task[p].calls \in Seq(Calls)
      /\ task[p].outcome \in Outcome \union {"none"}
  BY DEF TypeOK, Task
<1>1. CASE CheckNoOpenRun(p)
  BY <1>1 DEF CheckNoOpenRun, TypeOK, StoreTypeOK, storeVars, Goto, At, Pc, SendPc, LoggedInv
<1>2. CASE StartRun(p)
  <2>1. nextSeq \in Nat
    BY DEF TypeOK, StoreTypeOK
  <2>2. StartedRow(nextSeq) \in Row
    BY <2>1 DEF StartedRow, Row, RecordKind, Outcome
  <2>3. records' \in Seq(Record) /\ nextSeq' \in Nat
    BY <1>2, <2>2, AppendRecordType DEF StartRun, TypeOK
  <2>4. task' \in [Procs -> Task]
    BY <1>2, <2>1 DEF StartRun, TypeOK, Task
  <2> QED
    BY <1>2, <2>3, <2>4 DEF StartRun, TypeOK, StoreTypeOK, Goto, At, Pc, SendPc, LoggedInv
<1>3. CASE MarkRun(p)
  BY <1>0, <1>3 DEF MarkRun, SetMarker, TypeOK, StoreTypeOK, Goto, At, Pc, SendPc, LoggedInv
<1>4. CASE AppendUser(p)
  <2>1. UserId(task[p].run) \in EntryId /\ UserMessage \in Message
    <3>1. <<>> \in Seq(Calls)
      OBVIOUS
    <3> QED
      BY <1>0, <3>1, IdTypes, MessageTypes
  <2>2. entries' \in Seq(Entry) /\ leaf' \in EntryId \union {NoEntry} /\ nextSeq' \in Nat
    BY <1>4, <2>1, AppendEntryType DEF AppendUser, TypeOK
  <2>3. task' \in [Procs -> Task]
    BY <1>4 DEF AppendUser, TypeOK, Task
  <2> QED
    BY <1>4, <2>2, <2>3 DEF AppendUser, TypeOK, StoreTypeOK, Goto, At, Pc, SendPc, LoggedInv
<1>5. CASE StepAttempt(p)
  <2>1. StepRow(task[p].run, task[p].attempt) \in Row
    BY <1>0 DEF StepRow, Row, RecordKind, Outcome
  <2>2. records' \in Seq(Record) /\ nextSeq' \in Nat
    BY <1>5, <2>1, AppendRecordType DEF StepAttempt, TypeOK
  <2> QED
    BY <1>5, <2>2 DEF StepAttempt, TypeOK, StoreTypeOK, Goto, At, Pc, SendPc, LoggedInv
<1>6. CASE MaxTurnsReached(p)
  <2>1. task' \in [Procs -> Task]
    BY <1>6 DEF MaxTurnsReached, Fail, TypeOK, Task, Outcome
  <2> QED
    BY <1>6, <2>1 DEF MaxTurnsReached, Fail, TypeOK, StoreTypeOK, storeVars, Goto, At, Pc, FinishPc, LoggedInv
<1>7. CASE ProviderResponds(p)
  <2>1. PICK cs \in Responses(task[p].run), s \in {"end_turn", "max_tokens"} :
           task' = [task EXCEPT ![p].calls = cs, ![p].stop = s, ![p].logged = 0]
    BY <1>7 DEF ProviderResponds
  <2>2. cs \in Seq(Calls)
    BY <1>0, ListTypes
  <2>3. task' = [task EXCEPT ![p] = [task[p] EXCEPT !.calls = cs, !.stop = s, !.logged = 0]]
    BY <2>1 DEF TypeOK
  <2>4. [task[p] EXCEPT !.calls = cs, !.stop = s, !.logged = 0] \in Task
    BY <1>0, <2>2 DEF Task
  <2>5. task' \in [Procs -> Task] /\ task'[p].logged = 0
    BY <1>0, <2>3, <2>4 DEF TypeOK, Task
  <2>6. \A q \in Procs \ {p} : task'[q] = task[q]
    BY <2>3 DEF TypeOK
  <2> QED
    BY <1>7, <2>5, <2>6 DEF ProviderResponds, TypeOK, StoreTypeOK, storeVars, Goto, At, Pc, SendPc, LoggedInv
<1>8. CASE AppendAssistant(p)
  <2>1. AssistantId(task[p].run, task[p].attempt) \in EntryId /\ AssistantMessage(task[p].calls) \in Message
    BY <1>0, IdTypes, MessageTypes
  <2>2. entries' \in Seq(Entry) /\ leaf' \in EntryId \union {NoEntry} /\ nextSeq' \in Nat
    BY <1>8, <2>1, AppendEntryType DEF AppendAssistant, TypeOK
  <2>3. StoreTypeOK' /\ lock' \in Procs \union {NoProc}
    BY <1>8, <2>2 DEF AppendAssistant, TypeOK, StoreTypeOK
  <2>4. CASE task[p].calls # <<>> /\ Goto(p, "intents") /\ task' = task
    <3>1. task[p].logged < Len(task[p].calls)
      BY <1>0, <1>8, <2>4 DEF AppendAssistant, LoggedInv
    <3> QED
      BY <2>3, <2>4, <3>1 DEF TypeOK, Goto, At, Pc, SendPc, LoggedInv
  <2>5. CASE /\ task' = [task EXCEPT
                  ![p].outcome = IF task[p].stop = "max_tokens" THEN "truncated" ELSE "completed"]
             /\ Goto(p, "finish")
    <3>1. PICK o \in Outcome : task' = [task EXCEPT ![p].outcome = o]
      BY <2>5 DEF Outcome
    <3>2. task' \in [Procs -> Task]
      BY <3>1 DEF TypeOK, Task
    <3> QED
      BY <2>3, <2>5, <3>2 DEF TypeOK, Goto, At, Pc, FinishPc, LoggedInv
  <2> QED
    BY <1>8, <2>4, <2>5 DEF AppendAssistant
<1>9. CASE LogIntent(p)
  <2>1. task[p].calls[task[p].logged + 1] \in Calls
    BY <1>0, <1>9 DEF LogIntent, LoggedInv
  <2>2. ToolRow(task[p].run, task[p].attempt, task[p].calls[task[p].logged + 1]) \in Row
    BY <1>0, <2>1 DEF ToolRow, Row, RecordKind, Outcome
  <2>3. records' \in Seq(Record) /\ nextSeq' \in Nat
    BY <1>9, <2>2, AppendRecordType DEF LogIntent, TypeOK
  <2>4. task' = [task EXCEPT ![p] = [task[p] EXCEPT !.logged = task[p].logged + 1]]
    BY <1>9 DEF LogIntent, TypeOK
  <2>5. task' \in [Procs -> Task]
    <3>1. [task[p] EXCEPT !.logged = task[p].logged + 1] \in Task
      BY <1>0 DEF Task
    <3> QED
      BY <2>4, <3>1 DEF TypeOK
  <2>6. \/ pc' = [pc EXCEPT ![p] = "tools"]
        \/ pc' = [pc EXCEPT ![p] = "intents"] /\ task[p].logged + 1 # Len(task[p].calls)
    BY <1>9 DEF LogIntent, Goto
  <2>7. LoggedInv'
    <3> SUFFICES ASSUME NEW q \in Procs
                 PROVE  /\ (At(q, "assistant"))' => task'[q].logged = 0
                        /\ (At(q, "intents"))' => task'[q].logged < Len(task'[q].calls)
      BY DEF LoggedInv
    <3>1. CASE q # p
      BY <2>4, <2>6, <3>1 DEF LoggedInv, At, TypeOK
    <3>2. CASE q = p
      <4>1. task[p].logged < Len(task[p].calls)
        BY <1>9 DEF LogIntent, LoggedInv
      <4>2. task'[p].logged = task[p].logged + 1 /\ task'[p].calls = task[p].calls
        BY <1>0, <2>4 DEF TypeOK, Task
      <4> QED
        BY <1>0, <2>6, <3>2, <4>1, <4>2 DEF At, TypeOK
    <3> QED
      BY <3>1, <3>2
  <2> QED
    BY <1>9, <2>3, <2>5, <2>6, <2>7 DEF LogIntent, TypeOK, StoreTypeOK, Pc, SendPc
<1>10. CASE RunTools(p)
  BY <1>10 DEF RunTools, TypeOK, StoreTypeOK, storeVars, Goto, At, Pc, SendPc, LoggedInv
<1>11. CASE AppendResults(p)
  <2>1. ResultsId(task[p].run, task[p].attempt) \in EntryId /\ ResultsMessage(task[p].calls) \in Message
    BY <1>0, IdTypes, MessageTypes
  <2>2. entries' \in Seq(Entry) /\ leaf' \in EntryId \union {NoEntry} /\ nextSeq' \in Nat
    BY <1>11, <2>1, AppendEntryType DEF AppendResults, TypeOK
  <2>3. task' = [task EXCEPT ![p] = [task[p] EXCEPT !.attempt = task[p].attempt + 1]]
    BY <1>11 DEF AppendResults, TypeOK
  <2>4. [task[p] EXCEPT !.attempt = task[p].attempt + 1] \in Task
    BY <1>0 DEF Task
  <2>5. task' \in [Procs -> Task]
    BY <2>3, <2>4 DEF TypeOK
  <2> QED
    BY <1>11, <2>2, <2>3, <2>5 DEF AppendResults, TypeOK, StoreTypeOK, Goto, At, Pc, SendPc, LoggedInv
<1>12. CASE FinishRun(p)
  <2>2. FinishedRow(task[p].run, task[p].outcome) \in Row
    BY <1>0 DEF FinishedRow, Row, RecordKind, Outcome
  <2>3. records' \in Seq(Record) /\ nextSeq' \in Nat
    BY <1>12, <2>2, AppendRecordType DEF FinishRun, TypeOK
  <2> QED
    BY <1>12, <2>3 DEF FinishRun, TypeOK, StoreTypeOK, Goto, At, Pc, FinishPc, LoggedInv
<1>13. CASE FinishMarker(p)
  BY <1>0, <1>13 DEF FinishMarker, ClearMarker, TypeOK, StoreTypeOK, Goto, At, Pc, FinishPc, LoggedInv
<1>14. CASE UpdateMeta(p)
  BY <1>14 DEF UpdateMeta, TypeOK, StoreTypeOK, storeVars, Goto, At, Pc, LoggedInv
<1> QED
  BY <1>1, <1>2, <1>3, <1>4, <1>5, <1>6, <1>7, <1>8, <1>9, <1>10, <1>11,
     <1>12, <1>13, <1>14 DEF Send

\* Faults write nothing: at most the process moves and notes its outcome.
LEMMA TypeFault ==
    ASSUME RunAssumption, TypeInv, NEW p \in Procs, FaultStep(p)
    PROVE  TypeInv'
<1> USE DEF TypeInv
<1>1. StoreTypeOK' /\ lock' \in Procs \union {NoProc}
  BY DEF FaultStep, ProviderFails, WriteFails, Cancel, Crash, TypeOK, StoreTypeOK, storeVars
<1>2. \/ \E o \in Outcome : Fail(p, o)
      \/ task' = task /\ Goto(p, "exit")
      \/ task' = [task EXCEPT ![p] = IdleTask] /\ Goto(p, "down")
  BY DEF FaultStep, ProviderFails, WriteFails, Cancel, Crash, Outcome
<1>3. CASE \E o \in Outcome : Fail(p, o)
  <2>1. PICK o \in Outcome : Fail(p, o)
    BY <1>3
  <2>2. task' \in [Procs -> Task] /\ pc' \in [Procs -> Pc]
    BY <2>1 DEF Fail, Goto, TypeOK, Task, Pc, FinishPc
  <2> QED
    BY <1>1, <2>1, <2>2 DEF Fail, Goto, At, TypeOK, LoggedInv
<1>4. CASE task' = task /\ Goto(p, "exit")
  BY <1>1, <1>4 DEF Goto, At, Pc, TypeOK, LoggedInv
<1>5. CASE task' = [task EXCEPT ![p] = IdleTask] /\ Goto(p, "down")
  <2>1. IdleTask \in Task
    BY DEF IdleTask, Task, Outcome
  <2> QED
    BY <1>1, <1>5, <2>1 DEF Goto, At, Pc, TypeOK, LoggedInv
<1> QED
  BY <1>2, <1>3, <1>4, <1>5

\* A step that changes nothing keeps the types.
LEMMA TypeStutter == ASSUME TypeInv, UNCHANGED vars PROVE TypeInv'
BY DEF TypeInv, TypeOK, StoreTypeOK, LoggedInv, At, vars

\* TypeInv is inductive.
LEMMA TypeStep == ASSUME RunAssumption, TypeInv, [Next]_vars PROVE TypeInv'
<1>1. CASE UNCHANGED vars
  BY <1>1, TypeStutter
<1>2. CASE Next
  <2>1. PICK p \in Procs : Acquire(p) \/ Progress(p) \/ FaultStep(p)
    BY <1>2 DEF Next
  <2> QED
    BY <2>1, TypePrepare, TypeSend, TypeFault DEF Progress
<1> QED
  BY <1>1, <1>2

\* The strengthened type invariant, for the proofs that build on it.
THEOREM TypeInvariant == Spec => []TypeInv
<1>1. Init => TypeInv
  BY RunAssumption, TypeInit
<1>2. TypeInv /\ [Next]_vars => TypeInv'
  BY RunAssumption, TypeStep
<1> QED
  BY <1>1, <1>2, PTL DEF Spec

\* The store and the state of every process keep their types for any number
\* of processes, turns, calls and runs, whatever faults occur.
THEOREM TypeCorrect == Spec => []TypeOK
<1>1. TypeInv => TypeOK
  BY DEF TypeInv
<1> QED
  BY <1>1, TypeInvariant, PTL


-----------------------------------------------------------------------------
(* What one step of one process may do to the store.                       *)

\* Where a process writes entries, step attempts and intents for its run.
WritingPc == {"mark", "user", "step", "provider", "assistant", "intents", "tools",
              "results", "batches", "closing"}

\* A step appends to entries for the process's own run, or appends to records,
\* or leaves both tables alone.
EntryStep(p, id, msg) ==
    /\ AppendEntry(id, msg)
    /\ records' = records
    /\ id.run = task[p].run
    /\ pc[p] \in WritingPc

RecordStep(p, row) ==
    /\ AppendRecord(row)
    /\ UNCHANGED <<entries, leaf>>
    /\ \/ /\ row.kind = "operation_started"
          /\ row.run = nextSeq
          /\ pc[p] = "start" /\ pc'[p] = "mark" /\ task'[p].run = nextSeq
       \/ /\ row.kind \in {"step_attempt", "tool_started"}
          /\ row.run = task[p].run
          /\ pc[p] \in WritingPc
       \/ /\ row.kind = "operation_finished"
          /\ row.run = task[p].run
          /\ pc'[p] \in {"clear", "unmarking"}

QuietStep == UNCHANGED <<entries, records, leaf, nextSeq>>

\* Every step has one of those shapes.
LEMMA StepShape ==
    ASSUME RunAssumption, TypeInv, NEW p \in Procs, Acquire(p) \/ Progress(p) \/ FaultStep(p)
    PROVE  \/ QuietStep
           \/ \E id \in EntryId, msg \in Message : EntryStep(p, id, msg)
           \/ \E row \in Row : RecordStep(p, row)
<1>0. /\ task \in [Procs -> Task] /\ pc \in [Procs -> Pc] /\ nextSeq \in Nat
      /\ task[p].run \in Nat /\ task[p].attempt \in Nat /\ task[p].calls \in Seq(Calls)
      /\ task[p].outcome \in Outcome \union {"none"} /\ task[p].logged \in Nat
  BY DEF TypeInv, TypeOK, StoreTypeOK, Task
<1>1. CASE \/ Acquire(p) \/ ReadOpenRun(p) \/ AbortMarker(p) \/ GiveUp(p) \/ CheckNoOpenRun(p)
           \/ MarkRun(p) \/ MaxTurnsReached(p) \/ ProviderResponds(p) \/ RunTools(p)
           \/ FinishMarker(p) \/ UpdateMeta(p) \/ Exit(p) \/ FaultStep(p)
  BY <1>1 DEF Acquire, ReadOpenRun, AbortMarker, GiveUp, CheckNoOpenRun, MarkRun, MaxTurnsReached,
     ProviderResponds, RunTools, FinishMarker, UpdateMeta, Exit, FaultStep, ProviderFails, WriteFails,
     Cancel, Crash, storeVars, QuietStep
<1>2. CASE RecoverBatch(p)
  <2>1. CASE UNCHANGED <<entries, leaf, nextSeq>>
    BY <1>2, <2>1 DEF RecoverBatch, QuietStep
  <2>2. CASE \E n \in UnfulfilledSteps(task[p].run) : \E cs \in IntentLists(task[p].run, n) :
                AppendEntry(ResultsId(task[p].run, n), InterruptedMessage(cs))
    <3>1. PICK n \in UnfulfilledSteps(task[p].run) : \E cs \in IntentLists(task[p].run, n) :
                AppendEntry(ResultsId(task[p].run, n), InterruptedMessage(cs))
      BY <2>2
    <3>2. n \in Nat
      BY <1>0, <3>1, ListTypes DEF TypeInv
    <3>3. PICK cs \in IntentLists(task[p].run, n) :
                AppendEntry(ResultsId(task[p].run, n), InterruptedMessage(cs))
      BY <3>1
    <3>4. ResultsId(task[p].run, n) \in EntryId /\ InterruptedMessage(cs) \in Message
      <4>1. cs \in Seq(Calls)
        BY <1>0, <3>2, <3>3, ListTypes DEF TypeInv
      <4> QED
        BY <1>0, <3>2, <4>1, IdTypes, MessageTypes
    <3>5. EntryStep(p, ResultsId(task[p].run, n), InterruptedMessage(cs))
      BY <1>2, <3>3 DEF RecoverBatch, EntryStep, ResultsId, At, WritingPc
    <3> QED
      BY <3>4, <3>5
  <2> QED
    BY <1>2, <2>1, <2>2 DEF RecoverBatch
<1>3. CASE CloseTranscript(p)
  <2>1. ClosingId(task[p].run) \in EntryId /\ ClosingMessage \in Message
    <3>1. <<>> \in Seq(Calls)
      OBVIOUS
    <3> QED
      BY <1>0, <3>1, IdTypes, MessageTypes
  <2>2. EntryStep(p, ClosingId(task[p].run), ClosingMessage) \/ QuietStep
    BY <1>3 DEF CloseTranscript, EntryStep, QuietStep, ClosingId, At, WritingPc
  <2> QED
    BY <2>1, <2>2
<1>4. CASE AbortRun(p)
  <2>1. FinishedRow(task[p].run, "aborted") \in Row
    BY <1>0 DEF FinishedRow, Row, RecordKind, Outcome
  <2>2. RecordStep(p, FinishedRow(task[p].run, "aborted"))
    BY <1>0, <1>4 DEF AbortRun, RecordStep, FinishedRow, Goto
  <2> QED
    BY <2>1, <2>2
<1>5. CASE StartRun(p)
  <2>1. StartedRow(nextSeq) \in Row
    BY <1>0 DEF StartedRow, Row, RecordKind, Outcome
  <2>2. task'[p].run = nextSeq
    BY <1>0, <1>5 DEF StartRun, Task
  <2>3. RecordStep(p, StartedRow(nextSeq))
    BY <1>0, <1>5, <2>2 DEF StartRun, RecordStep, StartedRow, Goto, At
  <2> QED
    BY <2>1, <2>3
<1>6. CASE AppendUser(p)
  <2>1. UserId(task[p].run) \in EntryId /\ UserMessage \in Message
    <3>1. <<>> \in Seq(Calls)
      OBVIOUS
    <3> QED
      BY <1>0, <3>1, IdTypes, MessageTypes
  <2>2. EntryStep(p, UserId(task[p].run), UserMessage)
    BY <1>6 DEF AppendUser, EntryStep, UserId, At, WritingPc
  <2> QED
    BY <2>1, <2>2
<1>7. CASE StepAttempt(p)
  <2>1. StepRow(task[p].run, task[p].attempt) \in Row
    BY <1>0 DEF StepRow, Row, RecordKind, Outcome
  <2>2. RecordStep(p, StepRow(task[p].run, task[p].attempt))
    BY <1>7 DEF StepAttempt, RecordStep, StepRow, At, WritingPc
  <2> QED
    BY <2>1, <2>2
<1>8. CASE AppendAssistant(p)
  <2>1. AssistantId(task[p].run, task[p].attempt) \in EntryId /\ AssistantMessage(task[p].calls) \in Message
    BY <1>0, IdTypes, MessageTypes
  <2>2. EntryStep(p, AssistantId(task[p].run, task[p].attempt), AssistantMessage(task[p].calls))
    BY <1>8 DEF AppendAssistant, EntryStep, AssistantId, At, WritingPc
  <2> QED
    BY <2>1, <2>2
<1>9. CASE LogIntent(p)
  <2>1. task[p].calls[task[p].logged + 1] \in Calls
    BY <1>0, <1>9 DEF LogIntent, TypeInv, LoggedInv
  <2>2. ToolRow(task[p].run, task[p].attempt, task[p].calls[task[p].logged + 1]) \in Row
    BY <1>0, <2>1 DEF ToolRow, Row, RecordKind, Outcome
  <2>3. RecordStep(p, ToolRow(task[p].run, task[p].attempt, task[p].calls[task[p].logged + 1]))
    BY <1>9 DEF LogIntent, RecordStep, ToolRow, At, WritingPc
  <2> QED
    BY <2>2, <2>3
<1>10. CASE AppendResults(p)
  <2>1. ResultsId(task[p].run, task[p].attempt) \in EntryId /\ ResultsMessage(task[p].calls) \in Message
    BY <1>0, IdTypes, MessageTypes
  <2>2. EntryStep(p, ResultsId(task[p].run, task[p].attempt), ResultsMessage(task[p].calls))
    BY <1>10 DEF AppendResults, EntryStep, ResultsId, At, WritingPc
  <2> QED
    BY <2>1, <2>2
<1>11. CASE FinishRun(p)
  <2>1. FinishedRow(task[p].run, task[p].outcome) \in Row
    BY <1>0 DEF FinishedRow, Row, RecordKind, Outcome
  <2>2. RecordStep(p, FinishedRow(task[p].run, task[p].outcome))
    BY <1>0, <1>11 DEF FinishRun, RecordStep, FinishedRow, Goto
  <2> QED
    BY <2>1, <2>2
<1> QED
  BY <1>1, <1>2, <1>3, <1>4, <1>5, <1>6, <1>7, <1>8, <1>9, <1>10, <1>11 DEF Progress, Prepare, Send

-----------------------------------------------------------------------------
(* The session lock.                                                       *)

\* Only the holder of the lock is anywhere but at rest.
LockInv == \A p \in Procs : ~At(p, "down") => lock = p

\* A step moves one process and nobody else.
LEMMA OthersStay ==
    ASSUME TypeInv, NEW p \in Procs, Acquire(p) \/ Progress(p) \/ FaultStep(p),
           NEW q \in Procs, q # p
    PROVE  pc'[q] = pc[q] /\ task'[q] = task[q]
<1>1. /\ pc \in [Procs -> Pc] /\ task \in [Procs -> Task]
  BY DEF TypeInv, TypeOK
<1>2. \E l : pc' = [pc EXCEPT ![p] = l] \/ pc' = pc
  BY DEF Progress, Prepare, Send, FaultStep, Goto, Fail, LoadTranscript,
     Acquire, ReadOpenRun, RecoverBatch, CloseTranscript, AbortRun, AbortMarker, GiveUp, CheckNoOpenRun,
     StartRun, MarkRun, AppendUser, StepAttempt, MaxTurnsReached, ProviderResponds, AppendAssistant,
     LogIntent, RunTools, AppendResults, FinishRun, FinishMarker, UpdateMeta, Exit, ProviderFails,
     WriteFails, Cancel, Crash
<1>3. \E t : task' = [task EXCEPT ![p] = t] \/ task' = task
  BY <1>1 DEF Progress, Prepare, Send, FaultStep, Goto, Fail, LoadTranscript,
     Acquire, ReadOpenRun, RecoverBatch, CloseTranscript, AbortRun, AbortMarker, GiveUp, CheckNoOpenRun,
     StartRun, MarkRun, AppendUser, StepAttempt, MaxTurnsReached, ProviderResponds, AppendAssistant,
     LogIntent, RunTools, AppendResults, FinishRun, FinishMarker, UpdateMeta, Exit, ProviderFails,
     WriteFails, Cancel, Crash
<1> QED
  BY <1>1, <1>2, <1>3

\* The lock changes hands only when it is free, and is let go only at rest.
LEMMA LockStep ==
    ASSUME RunAssumption, TypeInv, LockInv, [Next]_vars
    PROVE  LockInv'
<1>1. CASE UNCHANGED vars
  BY <1>1 DEF vars, LockInv, At
<1>2. CASE Next
  <2>1. PICK p \in Procs : Acquire(p) \/ Progress(p) \/ FaultStep(p)
    BY <1>2 DEF Next
  <2>2. NoProc \notin Procs /\ pc \in [Procs -> Pc]
    BY RunAssumption DEF RunAssumption, TypeInv, TypeOK
  <2>3. \A q \in Procs \ {p} : pc'[q] = pc[q]
    BY <2>1, OthersStay
  <2>4. CASE Acquire(p)
    BY <2>2, <2>3, <2>4 DEF Acquire, LockInv, At, Goto
  <2>5. CASE Exit(p) \/ Crash(p)
    BY <2>2, <2>3, <2>5 DEF Exit, Crash, LockInv, At, Goto
  <2>6. CASE lock' = lock /\ ~At(p, "down")
    BY <2>2, <2>3, <2>6 DEF LockInv, At
  <2>7. \/ Acquire(p) \/ Exit(p) \/ Crash(p)
        \/ lock' = lock /\ ~At(p, "down")
    BY <2>1 DEF Progress, Prepare, Send, FaultStep, At, storeVars,
       ReadOpenRun, RecoverBatch, CloseTranscript, AbortRun, AbortMarker, GiveUp, CheckNoOpenRun,
       StartRun, MarkRun, AppendUser, StepAttempt, MaxTurnsReached, ProviderResponds, AppendAssistant,
       LogIntent, RunTools, AppendResults, FinishRun, FinishMarker, UpdateMeta, ProviderFails,
       WriteFails, Cancel, PreparePc, FinishPc
  <2> QED
    BY <2>4, <2>5, <2>6, <2>7
<1> QED
  BY <1>1, <1>2

\* While one process takes a step, every other one is at rest.
LEMMA OthersRest ==
    ASSUME RunAssumption, TypeInv, LockInv,
           NEW p \in Procs, Acquire(p) \/ Progress(p) \/ FaultStep(p), NEW q \in Procs, q # p
    PROVE  At(q, "down")
<1> SUFFICES ASSUME ~At(q, "down") PROVE FALSE
  OBVIOUS
<1>1. lock = q /\ q # NoProc
  BY RunAssumption DEF LockInv, RunAssumption
<1>2. At(p, "down")
  BY <1>1 DEF LockInv
<1> QED
  BY <1>1, <1>2 DEF Acquire, Progress, Prepare, Send, FaultStep, At,
       ReadOpenRun, RecoverBatch, CloseTranscript, AbortRun, AbortMarker, GiveUp, CheckNoOpenRun,
       StartRun, MarkRun, AppendUser, StepAttempt, MaxTurnsReached, ProviderResponds, AppendAssistant,
       LogIntent, RunTools, AppendResults, FinishRun, FinishMarker, UpdateMeta, Exit, ProviderFails,
       WriteFails, Cancel, Crash, PreparePc, FinishPc

-----------------------------------------------------------------------------
(* What an append does to the readings of the record log.                  *)

\* A record adds its run to the open runs at most, and only if it starts it;
\* it finishes at most its own run, and only if it says so.
LEMMA AppendRecordReads ==
    ASSUME StoreTypeOK, NEW row \in Row, AppendRecord(row)
    PROVE  /\ StartedRuns' \subseteq StartedRuns \union {row.run}
           /\ row.kind # "operation_started" => StartedRuns' = StartedRuns
           /\ FinishedRuns \subseteq FinishedRuns'
           /\ row.kind # "operation_finished" => FinishedRuns' = FinishedRuns
           /\ row.kind = "operation_finished" => row.run \in FinishedRuns'
<1>0. records \in Seq(Record) /\ nextSeq \in Nat
  BY DEF StoreTypeOK
<1>1. CASE RecordExists(row)
  BY <1>1 DEF AppendRecord, RecordExists, SameRecordId, StartedRuns, FinishedRuns, RecordsOf
<1>2. CASE ~RecordExists(row)
  <2> DEFINE new == Numbered(row, nextSeq)
  <2>1. records' = Append(records, new)
    BY <1>2 DEF AppendRecord
  <2>2. new \in Record /\ new.kind = row.kind /\ new.run = row.run
    BY <1>0 DEF Numbered, Row, Record
  <2> HIDE DEF new
  <2>3. /\ DOMAIN records' = 1 .. Len(records) + 1
        /\ DOMAIN records = 1 .. Len(records)
        /\ Len(records) \in Nat
        /\ \A i \in 1 .. Len(records) : records'[i] = records[i]
        /\ records'[Len(records) + 1] = new
    BY <1>0, <2>1, <2>2
  <2>4. \A k : /\ RecordsOf(k) \subseteq RecordsOf(k)'
               /\ RecordsOf(k)' \subseteq RecordsOf(k) \union {Len(records) + 1}
               /\ row.kind # k => RecordsOf(k)' = RecordsOf(k)
    BY <2>2, <2>3 DEF RecordsOf
  <2>5. /\ \A k : \A i \in RecordsOf(k) : records'[i].run = records[i].run
        /\ Len(records) + 1 \in RecordsOf(row.kind)'
    BY <2>2, <2>3 DEF RecordsOf
  <2> QED
    BY <2>2, <2>3, <2>4, <2>5 DEF StartedRuns, FinishedRuns
<1> QED
  BY <1>1, <1>2

-----------------------------------------------------------------------------
(* At most one open run.                                                   *)

\* Points of a process that has found no open run, or has just closed it, and
\* points of a recovery that has not closed its run yet.
SettledPc   == {"ready", "start", "unmarking"}
RecoveryPc  == {"batches", "closing", "aborting"}

\* What a process read from the log is still true when it acts on it: recovery
\* works for the only open run, and nothing has been opened since.
RecoveryInv ==
    \A p \in Procs :
        /\ pc[p] \in SettledPc => OpenRuns = {}
        /\ pc[p] \in RecoveryPc => OpenRuns \subseteq {task[p].run}

OneRunInv == TypeInv /\ LockInv /\ RecoveryInv /\ AtMostOneOpenRun

\* How a process comes to one of those points.
LEMMA RecoveryMove ==
    ASSUME TypeInv, NEW p \in Procs, Acquire(p) \/ Progress(p) \/ FaultStep(p)
    PROVE  /\ pc'[p] \in SettledPc => pc[p] \in SettledPc \/ OpenRuns = {} \/ AbortRun(p)
           /\ pc'[p] \in RecoveryPc =>
                 \/ pc[p] \in RecoveryPc /\ task'[p].run = task[p].run
                 \/ OpenRuns = {task'[p].run}
<1>0. /\ pc \in [Procs -> Pc] /\ task \in [Procs -> Task] /\ task[p] \in Task
  BY DEF TypeInv, TypeOK
<1>1. CASE ReadOpenRun(p)
  <2>1. CASE OpenRuns = {} /\ LoadTranscript(p)
    BY <1>0, <2>1 DEF LoadTranscript, Goto, RecoveryPc
  <2>2. CASE \E r \in OpenRuns :
               OpenRuns = {r} /\ task' = [task EXCEPT ![p].run = r] /\ Goto(p, "batches")
    <3>1. PICK r \in OpenRuns :
               OpenRuns = {r} /\ task' = [task EXCEPT ![p].run = r] /\ Goto(p, "batches")
      BY <2>2
    <3>2. task'[p].run = r
      BY <1>0, <3>1 DEF Task
    <3> QED
      BY <1>0, <3>1, <3>2 DEF Goto, SettledPc
  <2>3. CASE Goto(p, "exit")
    BY <1>0, <2>3 DEF Goto, SettledPc, RecoveryPc
  <2> QED
    BY <1>1, <2>1, <2>2, <2>3 DEF ReadOpenRun
<1>2. CASE RecoverBatch(p) \/ CloseTranscript(p) \/ AbortRun(p)
  BY <1>0, <1>2 DEF RecoverBatch, CloseTranscript, AbortRun, Goto, At, SettledPc, RecoveryPc
<1>3. CASE AbortMarker(p) \/ CheckNoOpenRun(p)
  BY <1>0, <1>3 DEF AbortMarker, LoadTranscript, CheckNoOpenRun, Goto, At, SettledPc, RecoveryPc
<1>4. CASE \/ Acquire(p) \/ GiveUp(p) \/ StartRun(p) \/ MarkRun(p) \/ AppendUser(p) \/ StepAttempt(p)
           \/ MaxTurnsReached(p) \/ ProviderResponds(p) \/ AppendAssistant(p) \/ LogIntent(p)
           \/ RunTools(p) \/ AppendResults(p) \/ FinishRun(p) \/ FinishMarker(p) \/ UpdateMeta(p)
           \/ Exit(p) \/ FaultStep(p)
  BY <1>0, <1>4 DEF Acquire, GiveUp, StartRun, MarkRun, AppendUser, StepAttempt, MaxTurnsReached,
     ProviderResponds, AppendAssistant, LogIntent, RunTools, AppendResults, FinishRun, FinishMarker,
     UpdateMeta, Exit, FaultStep, ProviderFails, WriteFails, Cancel, Crash, Fail, Goto, SettledPc, RecoveryPc
<1> QED
  BY <1>1, <1>2, <1>3, <1>4 DEF Progress, Prepare, Send

\* OneRunInv is inductive: a record opens a run only in the hands of the lock
\* holder, who has read that none is open, and recovery's last record closes
\* the one that was.
LEMMA OneRunStep ==
    ASSUME RunAssumption, OneRunInv, [Next]_vars
    PROVE  OneRunInv'
<1>1. TypeInv' /\ LockInv' /\ StoreTypeOK
  BY TypeStep, LockStep DEF OneRunInv, TypeInv, TypeOK
<1>2. CASE UNCHANGED vars
  <2>1. OpenRuns' = OpenRuns
    BY <1>2 DEF vars, OpenRuns, StartedRuns, FinishedRuns, RecordsOf
  <2> QED
    BY <1>1, <1>2, <2>1 DEF OneRunInv, vars, RecoveryInv, AtMostOneOpenRun
<1>3. CASE Next
  <2>1. PICK p \in Procs : Acquire(p) \/ Progress(p) \/ FaultStep(p)
    BY <1>3 DEF Next
  <2>2. \A q \in Procs \ {p} : pc'[q] = "down"
    BY <2>1, RunAssumption, OthersStay, OthersRest DEF At, OneRunInv
  <2>3. ASSUME OpenRuns' \subseteq OpenRuns, ~AbortRun(p) PROVE OneRunInv'
    <3>1. /\ pc'[p] \in SettledPc => OpenRuns' = {}
          /\ pc'[p] \in RecoveryPc => OpenRuns' \subseteq {task'[p].run}
      BY <2>1, <2>3, RecoveryMove DEF OneRunInv, RecoveryInv
    <3> QED
      BY <1>1, <2>2, <2>3, <3>1 DEF OneRunInv, RecoveryInv, AtMostOneOpenRun, SettledPc, RecoveryPc
  <2>4. CASE AbortRun(p)
    <3>1. AppendRecord(FinishedRow(task[p].run, "aborted")) /\ pc[p] \in RecoveryPc
      BY <2>4 DEF AbortRun, At, RecoveryPc
    <3>2. FinishedRow(task[p].run, "aborted") \in Row
      BY DEF OneRunInv, TypeInv, TypeOK, Task, FinishedRow, Row, RecordKind, Outcome
    <3>3. OpenRuns' \subseteq OpenRuns /\ task[p].run \notin OpenRuns'
      BY <1>1, <3>1, <3>2, AppendRecordReads DEF FinishedRow, OpenRuns
    <3>4. OpenRuns' = {}
      BY <3>1, <3>3 DEF OneRunInv, RecoveryInv
    <3> QED
      BY <1>1, <2>2, <3>4 DEF OneRunInv, RecoveryInv, AtMostOneOpenRun, SettledPc, RecoveryPc
  <2>5. CASE records' = records
    <3>1. OpenRuns' = OpenRuns
      BY <2>5 DEF OpenRuns, StartedRuns, FinishedRuns, RecordsOf
    <3> QED
      BY <2>3, <2>4, <3>1
  <2>6. ASSUME NEW row \in Row, RecordStep(p, row) PROVE OneRunInv'
    <3>1. CASE row.kind = "operation_started"
      <4>1. pc[p] = "start" /\ pc'[p] = "mark"
        BY <2>6, <3>1 DEF RecordStep
      <4>2. OpenRuns = {}
        BY <4>1 DEF OneRunInv, RecoveryInv, SettledPc
      <4>3. OpenRuns' \subseteq {row.run}
        BY <1>1, <2>6, <4>2, AppendRecordReads DEF RecordStep, OpenRuns
      <4> QED
        BY <1>1, <2>2, <4>1, <4>3 DEF OneRunInv, RecoveryInv, AtMostOneOpenRun, SettledPc, RecoveryPc
    <3>2. CASE row.kind # "operation_started"
      <4>1. OpenRuns' \subseteq OpenRuns
        BY <1>1, <2>6, <3>2, AppendRecordReads DEF RecordStep, OpenRuns
      <4> QED
        BY <2>3, <2>4, <4>1
    <3> QED
      BY <3>1, <3>2
  <2> QED
    BY <2>1, <2>5, <2>6, RunAssumption, StepShape DEF OneRunInv, QuietStep, EntryStep
<1> QED
  BY <1>2, <1>3

\* The lock, what recovery knows of the log, and a single open run, together.
THEOREM OneRunInvariant == Spec => []OneRunInv
<1>1. Init => OneRunInv
  <2> SUFFICES ASSUME Init PROVE OneRunInv
    OBVIOUS
  <2>1. TypeInv
    BY RunAssumption, TypeInit
  <2>2. OpenRuns = {}
    BY DEF Init, StoreInit, OpenRuns, StartedRuns, RecordsOf
  <2> QED
    BY <2>1, <2>2 DEF Init, OneRunInv, LockInv, RecoveryInv, AtMostOneOpenRun, At, SettledPc, RecoveryPc
<1>2. OneRunInv /\ [Next]_vars => OneRunInv'
  BY RunAssumption, OneRunStep
<1> QED
  BY <1>1, <1>2, PTL DEF Spec

\* open_run never finds two open operations, however many processes are
\* started on the session and wherever they are killed.
THEOREM OneOpenRun == Spec => []AtMostOneOpenRun
<1>1. OneRunInv => AtMostOneOpenRun
  BY DEF OneRunInv
<1> QED
  BY <1>1, OneRunInvariant, PTL

\* A session is handed to the agent only when the run the last process left
\* open, wherever that one or its recovery died, has been closed.
THEOREM ReadyIsRecovered == Spec => []ReadySessionIsRecovered
<1>1. OneRunInv => ReadySessionIsRecovered
  BY DEF OneRunInv, RecoveryInv, ReadySessionIsRecovered, SettledPc, At
<1> QED
  BY <1>1, OneRunInvariant, PTL

-----------------------------------------------------------------------------
(* One sequence for both tables.                                           *)

\* An entry takes the next number and leaves the older ones their own.
LEMMA EntrySequence ==
    ASSUME StoreTypeOK, SharedSequence, NEW id \in EntryId, NEW msg \in Message,
           AppendEntry(id, msg), records' = records
    PROVE  SharedSequence' /\ nextSeq' \in Nat /\ nextSeq' >= nextSeq
<1>0. entries \in Seq(Entry) /\ records \in Seq(Record) /\ nextSeq \in Nat
  BY DEF StoreTypeOK
<1>1. CASE EntryExists(id)
  BY <1>0, <1>1 DEF AppendEntry, SharedSequence
<1>2. CASE ~EntryExists(id)
  <2> DEFINE new == [id |-> id, parent |-> leaf, seq |-> nextSeq, msg |-> msg]
  <2>1. entries' = Append(entries, new) /\ nextSeq' = nextSeq + 1
    BY <1>2 DEF AppendEntry
  <2>2. new.seq = nextSeq
    OBVIOUS
  <2> HIDE DEF new
  <2>3. /\ DOMAIN entries' = 1 .. Len(entries) + 1
        /\ DOMAIN entries = 1 .. Len(entries)
        /\ Len(entries) \in Nat
        /\ \A i \in 1 .. Len(entries) : entries'[i] = entries[i] /\ entries[i].seq \in Nat
        /\ entries'[Len(entries) + 1] = new
        /\ \A i \in DOMAIN records : records[i].seq \in Nat
    <3>1. \A i \in 1 .. Len(entries) : entries[i] \in Entry
      BY <1>0
    <3>2. \A i \in DOMAIN records : records[i] \in Record
      BY <1>0
    <3> QED
      BY <1>0, <2>1, <3>1, <3>2 DEF Entry, Record
  <2> QED
    BY <1>0, <2>1, <2>2, <2>3 DEF SharedSequence
<1> QED
  BY <1>1, <1>2

\* So does a record.
LEMMA RecordSequence ==
    ASSUME StoreTypeOK, SharedSequence, NEW row \in Row, AppendRecord(row), entries' = entries
    PROVE  SharedSequence' /\ nextSeq' \in Nat /\ nextSeq' >= nextSeq
<1>0. entries \in Seq(Entry) /\ records \in Seq(Record) /\ nextSeq \in Nat
  BY DEF StoreTypeOK
<1>1. CASE RecordExists(row)
  BY <1>0, <1>1 DEF AppendRecord, SharedSequence
<1>2. CASE ~RecordExists(row)
  <2> DEFINE new == Numbered(row, nextSeq)
  <2>1. records' = Append(records, new) /\ nextSeq' = nextSeq + 1
    BY <1>2 DEF AppendRecord
  <2>2. new.seq = nextSeq
    BY DEF Numbered
  <2> HIDE DEF new
  <2>3. /\ DOMAIN records' = 1 .. Len(records) + 1
        /\ DOMAIN records = 1 .. Len(records)
        /\ Len(records) \in Nat
        /\ \A i \in 1 .. Len(records) : records'[i] = records[i] /\ records[i].seq \in Nat
        /\ records'[Len(records) + 1] = new
        /\ \A i \in DOMAIN entries : entries[i].seq \in Nat
    <3>1. \A i \in 1 .. Len(records) : records[i] \in Record
      BY <1>0
    <3>2. \A i \in DOMAIN entries : entries[i] \in Entry
      BY <1>0
    <3> QED
      BY <1>0, <2>1, <3>1, <3>2 DEF Entry, Record
  <2> QED
    BY <1>0, <2>1, <2>2, <2>3 DEF SharedSequence
<1> QED
  BY <1>1, <1>2

\* The numbers of entries and records are unique across both tables and grow
\* with the order of insertion, in any interleaving of any processes.
THEOREM OneSequence == Spec => []SharedSequence
<1> DEFINE Inv == TypeInv /\ SharedSequence
<1>1. Init => Inv
  <2>1. Init => SharedSequence
    BY DEF Init, StoreInit, SharedSequence
  <2> QED
    BY <2>1, RunAssumption, TypeInit
<1>2. Inv /\ [Next]_vars => Inv'
  <2> SUFFICES ASSUME Inv, [Next]_vars PROVE SharedSequence'
    BY RunAssumption, TypeStep
  <2>0. StoreTypeOK
    BY DEF TypeInv, TypeOK
  <2>1. CASE UNCHANGED <<entries, records, nextSeq>>
    BY <2>1 DEF SharedSequence
  <2>2. CASE Next
    <3>1. PICK p \in Procs : Acquire(p) \/ Progress(p) \/ FaultStep(p)
      BY <2>2 DEF Next
    <3>2. \/ QuietStep
          \/ \E id \in EntryId, msg \in Message : EntryStep(p, id, msg)
          \/ \E row \in Row : RecordStep(p, row)
      BY <3>1, RunAssumption, StepShape
    <3>3. ASSUME NEW id \in EntryId, NEW msg \in Message, EntryStep(p, id, msg) PROVE SharedSequence'
      BY <2>0, <3>3, EntrySequence DEF EntryStep
    <3>4. ASSUME NEW row \in Row, RecordStep(p, row) PROVE SharedSequence'
      BY <2>0, <3>4, RecordSequence DEF RecordStep
    <3> QED
      BY <2>1, <3>2, <3>3, <3>4 DEF QuietStep
  <2> QED
    BY <2>1, <2>2 DEF vars
<1> QED
  BY <1>1, <1>2, PTL DEF Spec

-----------------------------------------------------------------------------
(* Silence after the finish record.                                        *)

\* A run that a process writes for has not been finished.
WriterInv == \A p \in Procs : pc[p] \in WritingPc => task[p].run \notin FinishedRuns

\* Run ids are allocated from the counter, so the next one is new.
RunsBelow ==
    /\ nextSeq > 0
    /\ \A i \in DOMAIN records : records[i].run < nextSeq
    /\ \A p \in Procs : task[p].run < nextSeq

ClosedInv == TypeInv /\ LockInv /\ SharedSequence /\ WriterInv /\ RunsBelow /\ ClosedRunIsQuiet

\* A process comes to write for a run by starting it, by finding it open, or
\* by going on with it.
LEMMA WriterMove ==
    ASSUME TypeInv, NEW p \in Procs, Acquire(p) \/ Progress(p) \/ FaultStep(p)
    PROVE  /\ \/ task'[p].run = task[p].run
              \/ task'[p].run = 0
              \/ StartRun(p) /\ task'[p].run = nextSeq
              \/ ReadOpenRun(p) /\ task'[p].run \in OpenRuns
           /\ pc'[p] \in WritingPc =>
              \/ pc[p] \in WritingPc /\ task'[p].run = task[p].run
              \/ StartRun(p)
              \/ ReadOpenRun(p) /\ task'[p].run \in OpenRuns
<1>0. /\ pc \in [Procs -> Pc] /\ task \in [Procs -> Task] /\ task[p] \in Task
  BY DEF TypeInv, TypeOK
<1>1. CASE StartRun(p)
  BY <1>0, <1>1 DEF StartRun, Task
<1>2. CASE ReadOpenRun(p)
  <2>1. CASE LoadTranscript(p)
    BY <1>0, <2>1 DEF LoadTranscript, Goto, IdleTask, WritingPc
  <2>2. CASE task' = task /\ Goto(p, "exit")
    BY <1>0, <2>2 DEF Goto, WritingPc
  <2>3. CASE \E r \in OpenRuns : task' = [task EXCEPT ![p].run = r]
    <3>1. PICK r \in OpenRuns : task' = [task EXCEPT ![p].run = r]
      BY <2>3
    <3>2. task'[p].run = r
      BY <1>0, <3>1 DEF Task
    <3> QED
      BY <1>2, <3>2
  <2> QED
    BY <1>2, <2>1, <2>2, <2>3 DEF ReadOpenRun
<1>3. CASE AbortMarker(p) \/ Exit(p) \/ Crash(p)
  BY <1>0, <1>3 DEF AbortMarker, LoadTranscript, Exit, Crash, Goto, IdleTask, WritingPc
<1>4. CASE \/ Acquire(p) \/ RecoverBatch(p) \/ CloseTranscript(p) \/ AbortRun(p) \/ GiveUp(p)
           \/ CheckNoOpenRun(p) \/ MarkRun(p) \/ StepAttempt(p) \/ RunTools(p) \/ FinishRun(p)
           \/ FinishMarker(p) \/ UpdateMeta(p) \/ Cancel(p)
  <2>1. task' = task
    BY <1>4 DEF Acquire, RecoverBatch, CloseTranscript, AbortRun, GiveUp, CheckNoOpenRun, MarkRun,
       StepAttempt, RunTools, FinishRun, FinishMarker, UpdateMeta, Cancel
  <2>2. pc'[p] \in WritingPc => pc[p] \in WritingPc
    BY <1>0, <1>4 DEF Acquire, RecoverBatch, CloseTranscript, AbortRun, GiveUp, CheckNoOpenRun, MarkRun,
       StepAttempt, RunTools, FinishRun, FinishMarker, UpdateMeta, Cancel, Goto, At, WritingPc
  <2> QED
    BY <2>1, <2>2
<1>5. CASE MaxTurnsReached(p) \/ ProviderFails(p) \/ WriteFails(p)
  <2>1. (\E o : Fail(p, o)) \/ (task' = task /\ Goto(p, "exit"))
    BY <1>5 DEF MaxTurnsReached, ProviderFails, WriteFails
  <2> QED
    BY <1>0, <2>1 DEF Fail, Goto, Task, WritingPc
<1>6. CASE AppendUser(p) \/ AppendResults(p)
  <2>1. \E n : task' = [task EXCEPT ![p].attempt = n]
    BY <1>6 DEF AppendUser, AppendResults
  <2> QED
    BY <1>0, <1>6, <2>1 DEF AppendUser, AppendResults, At, Task, WritingPc
<1>7. CASE ProviderResponds(p)
  <2>1. PICK cs, s : task' = [task EXCEPT ![p].calls = cs, ![p].stop = s, ![p].logged = 0]
    BY <1>7 DEF ProviderResponds
  <2>2. task'[p].run = task[p].run
    BY <1>0, <2>1 DEF Task
  <2> QED
    BY <1>7, <2>2 DEF ProviderResponds, At, WritingPc
<1>8. CASE AppendAssistant(p)
  <2>1. task' = task \/ \E o : task' = [task EXCEPT ![p].outcome = o]
    BY <1>8 DEF AppendAssistant
  <2>2. task'[p].run = task[p].run
    BY <1>0, <2>1 DEF Task
  <2> QED
    BY <1>8, <2>2 DEF AppendAssistant, At, WritingPc
<1>9. CASE LogIntent(p)
  <2>1. task' = [task EXCEPT ![p].logged = task[p].logged + 1]
    BY <1>9 DEF LogIntent
  <2>2. task'[p].run = task[p].run
    BY <1>0, <2>1 DEF Task
  <2> QED
    BY <1>9, <2>2 DEF LogIntent, At, WritingPc
<1> QED
  BY <1>1, <1>2, <1>3, <1>4, <1>5, <1>6, <1>7, <1>8, <1>9 DEF Progress, Prepare, Send, FaultStep

\* An entry of a run that is not finished disturbs no finished one.
LEMMA ClosedEntry ==
    ASSUME StoreTypeOK, ClosedRunIsQuiet, NEW id \in EntryId, NEW msg \in Message,
           AppendEntry(id, msg), records' = records, id.run \notin FinishedRuns
    PROVE  ClosedRunIsQuiet'
<1>0. entries \in Seq(Entry) /\ RecordsOf("operation_finished")' = RecordsOf("operation_finished")
  BY DEF StoreTypeOK, RecordsOf
<1>1. CASE EntryExists(id)
  BY <1>0, <1>1 DEF AppendEntry, ClosedRunIsQuiet
<1>2. CASE ~EntryExists(id)
  <2> DEFINE new == [id |-> id, parent |-> leaf, seq |-> nextSeq, msg |-> msg]
  <2>1. entries' = Append(entries, new) /\ new.id.run = id.run
    BY <1>2 DEF AppendEntry
  <2> HIDE DEF new
  <2>2. \A j \in DOMAIN entries' :
          \/ j \in DOMAIN entries /\ entries'[j] = entries[j]
          \/ entries'[j] = new
    BY <1>0, <2>1
  <2>3. \A i \in RecordsOf("operation_finished") : records[i].run # new.id.run
    BY <2>1 DEF FinishedRuns
  <2> QED
    BY <1>0, <2>2, <2>3 DEF ClosedRunIsQuiet
<1> QED
  BY <1>1, <1>2

\* A finish record that is really written is the first of its run.
LEMMA FinishIsFirst ==
    ASSUME NEW row \in Row, row.kind = "operation_finished", ~RecordExists(row)
    PROVE  row.run \notin FinishedRuns
BY DEF RecordExists, SameRecordId, FinishedRuns, RecordsOf

\* Nor does a record of a run that is not finished, or its finish record.
LEMMA ClosedRecord ==
    ASSUME StoreTypeOK, SharedSequence, ClosedRunIsQuiet, NEW row \in Row, AppendRecord(row),
           entries' = entries,
           row.kind = "operation_finished" \/ row.run \notin FinishedRuns
    PROVE  ClosedRunIsQuiet'
<1>0. records \in Seq(Record) /\ nextSeq \in Nat /\ entries \in Seq(Entry)
  BY DEF StoreTypeOK
<1>1. CASE RecordExists(row)
  BY <1>1 DEF AppendRecord, ClosedRunIsQuiet, RecordsOf
<1>2. CASE ~RecordExists(row)
  <2> DEFINE new == Numbered(row, nextSeq)
  <2>1. records' = Append(records, new)
    BY <1>2 DEF AppendRecord
  <2>2. new.seq = nextSeq /\ new.kind = row.kind /\ new.run = row.run
    BY DEF Numbered
  <2> HIDE DEF new
  <2>3. row.run \notin FinishedRuns
    BY <1>2, FinishIsFirst
  <2>4. /\ DOMAIN records' = 1 .. Len(records) + 1
        /\ DOMAIN records = 1 .. Len(records)
        /\ Len(records) \in Nat
        /\ \A i \in DOMAIN records : records'[i] = records[i] /\ records[i].seq \in Nat
        /\ records'[Len(records) + 1] = new
        /\ \A i \in DOMAIN entries : entries[i].seq \in Nat
    <3>1. \A i \in DOMAIN records : records[i] \in Record
      BY <1>0
    <3>2. \A i \in DOMAIN entries : entries[i] \in Entry
      BY <1>0
    <3> QED
      BY <1>0, <2>1, <3>1, <3>2 DEF Entry, Record
  <2> SUFFICES ASSUME NEW i \in RecordsOf("operation_finished")'
               PROVE  /\ \A j \in DOMAIN records' :
                            records'[j].run = records'[i].run => records'[j].seq <= records'[i].seq
                      /\ \A j \in DOMAIN entries :
                            entries[j].id.run = records'[i].run => entries[j].seq < records'[i].seq
    BY DEF ClosedRunIsQuiet
  <2>5. CASE i \in DOMAIN records
    <3>1. i \in RecordsOf("operation_finished") /\ records'[i] = records[i]
      BY <2>4, <2>5 DEF RecordsOf
    <3>2. new.run # records[i].run
      BY <2>2, <2>3, <3>1 DEF FinishedRuns
    <3> QED
      BY <2>4, <3>1, <3>2 DEF ClosedRunIsQuiet
  <2>6. CASE i = Len(records) + 1
    <3>1. \A j \in DOMAIN records : records[j].seq < nextSeq
      BY DEF SharedSequence
    <3>2. \A j \in DOMAIN entries : entries[j].seq < nextSeq
      BY DEF SharedSequence
    <3>3. records'[i].seq = nextSeq
      BY <2>2, <2>4, <2>6
    <3> QED
      BY <1>0, <2>2, <2>4, <3>1, <3>2, <3>3
  <2> QED
    BY <2>4, <2>5, <2>6 DEF RecordsOf
<1> QED
  BY <1>1, <1>2

\* Every run id named anywhere stays below the counter.
LEMMA RunsBelowStep ==
    ASSUME RunAssumption, TypeInv, LockInv, SharedSequence, RunsBelow,
           NEW p \in Procs, Acquire(p) \/ Progress(p) \/ FaultStep(p)
    PROVE  RunsBelow'
<1>0. /\ nextSeq \in Nat /\ records \in Seq(Record) /\ StoreTypeOK
      /\ \A q \in Procs : task[q].run \in Nat
      /\ \A q \in Procs \ {p} : task'[q] = task[q]
  BY OthersStay DEF TypeInv, TypeOK, StoreTypeOK, Task
<1>1. OpenRuns \subseteq 0 .. nextSeq - 1
  <2>1. \A i \in DOMAIN records : records[i].run \in Nat
    <3>1. \A i \in DOMAIN records : records[i] \in Record
      BY <1>0
    <3> QED
      BY <3>1 DEF Record
  <2> QED
    BY <1>0, <2>1 DEF RunsBelow, OpenRuns, StartedRuns, RecordsOf
<1>2. \A i \in DOMAIN records : records[i].run \in Nat /\ records[i].run < nextSeq
  <2>1. \A i \in DOMAIN records : records[i] \in Record
    BY <1>0
  <2> QED
    BY <2>1 DEF Record, RunsBelow
<1>3. CASE StartRun(p)
  <2> DEFINE new == Numbered(StartedRow(nextSeq), nextSeq)
  <2>1. ~RecordExists(StartedRow(nextSeq))
    BY <1>0, <1>2 DEF RecordExists, SameRecordId, StartedRow
  <2>2. nextSeq' = nextSeq + 1 /\ records' = Append(records, new) /\ new.run = nextSeq
    BY <1>3, <2>1 DEF StartRun, AppendRecord, Numbered, StartedRow
  <2>3. task'[p].run = nextSeq
    BY <1>3 DEF StartRun, TypeInv, TypeOK, Task
  <2> HIDE DEF new
  <2>4. \A i \in DOMAIN records' : \/ i \in DOMAIN records /\ records'[i] = records[i]
                                   \/ records'[i] = new
    BY <1>0, <2>2
  <2>5. \A i \in DOMAIN records' : records'[i].run < nextSeq'
    BY <1>0, <1>2, <2>2, <2>4
  <2>6. \A q \in Procs : task'[q].run < nextSeq'
    BY <1>0, <2>2, <2>3 DEF RunsBelow
  <2> QED
    BY <1>0, <2>2, <2>5, <2>6 DEF RunsBelow
<1>4. CASE ~StartRun(p)
  <2>1. task'[p].run \in 0 .. nextSeq - 1
    <3>1. CASE task'[p].run = task[p].run \/ task'[p].run = 0
      BY <1>0, <3>1 DEF RunsBelow
    <3>2. CASE task'[p].run \in OpenRuns
      BY <1>1, <3>2
    <3> QED
      BY <1>4, <3>1, <3>2, WriterMove
  <2>2. \A q \in Procs : task'[q].run \in Nat /\ task'[q].run < nextSeq
    BY <1>0, <2>1 DEF RunsBelow
  <2>3. CASE QuietStep
    BY <1>0, <2>2, <2>3 DEF QuietStep, RunsBelow
  <2>4. ASSUME NEW id \in EntryId, NEW msg \in Message, EntryStep(p, id, msg) PROVE RunsBelow'
    <3>1. nextSeq' \in Nat /\ nextSeq' >= nextSeq /\ records' = records
      BY <1>0, <2>4, EntrySequence DEF EntryStep
    <3> QED
      BY <1>0, <1>2, <2>2, <3>1 DEF RunsBelow
  <2>5. ASSUME NEW row \in Row, RecordStep(p, row) PROVE RunsBelow'
    <3>1. nextSeq' \in Nat /\ nextSeq' >= nextSeq
      BY <1>0, <2>5, RecordSequence DEF RecordStep
    <3>2. row.run \in Nat /\ row.run < nextSeq
      <4>1. row.run = task[p].run \/ (row.run = nextSeq /\ task'[p].run = nextSeq)
        BY <2>5 DEF RecordStep
      <4> QED
        BY <1>0, <2>2, <4>1 DEF RunsBelow
    <3>3. \A i \in DOMAIN records' : \/ i \in DOMAIN records /\ records'[i] = records[i]
                                     \/ records'[i].run = row.run
      <4>1. records' = records \/ records' = Append(records, Numbered(row, nextSeq))
        BY <2>5 DEF RecordStep, AppendRecord
      <4>2. Numbered(row, nextSeq).run = row.run
        BY DEF Numbered
      <4> QED
        BY <1>0, <4>1, <4>2
    <3> QED
      BY <1>0, <1>2, <2>2, <3>1, <3>2, <3>3 DEF RunsBelow
  <2> QED
    BY <2>3, <2>4, <2>5, StepShape
<1> QED
  BY <1>3, <1>4

\* ClosedInv is inductive.
LEMMA ClosedStep ==
    ASSUME RunAssumption, ClosedInv, NEW p \in Procs, Acquire(p) \/ Progress(p) \/ FaultStep(p)
    PROVE  ClosedRunIsQuiet' /\ WriterInv'
<1>0. /\ StoreTypeOK /\ TypeInv /\ LockInv /\ SharedSequence /\ ClosedRunIsQuiet
      /\ nextSeq \in Nat
  BY DEF ClosedInv, TypeInv, TypeOK, StoreTypeOK
<1>1. nextSeq \notin FinishedRuns
  BY <1>0 DEF ClosedInv, RunsBelow, FinishedRuns, RecordsOf
<1>2. \A q \in Procs \ {p} : pc'[q] \notin WritingPc
  <2> TAKE q \in Procs \ {p}
  <2>1. At(q, "down") /\ pc'[q] = pc[q]
    BY <1>0, OthersRest, OthersStay
  <2> QED
    BY <2>1 DEF At, WritingPc
<1>3. pc'[p] \in WritingPc => task'[p].run \notin FinishedRuns
  <2>1. StartRun(p) => task'[p].run = nextSeq
    BY <1>0 DEF StartRun, TypeInv, TypeOK, Task
  <2> QED
    BY <1>0, <1>1, <2>1, WriterMove DEF ClosedInv, WriterInv, OpenRuns
<1>4. CASE QuietStep
  <2>1. FinishedRuns' = FinishedRuns /\ ClosedRunIsQuiet'
    BY <1>0, <1>4 DEF QuietStep, FinishedRuns, RecordsOf, ClosedRunIsQuiet
  <2> QED
    BY <1>2, <1>3, <2>1 DEF WriterInv
<1>5. ASSUME NEW id \in EntryId, NEW msg \in Message, EntryStep(p, id, msg)
      PROVE ClosedRunIsQuiet' /\ WriterInv'
  <2>1. FinishedRuns' = FinishedRuns
    BY <1>5 DEF EntryStep, FinishedRuns, RecordsOf
  <2>2. id.run \notin FinishedRuns
    BY <1>5 DEF EntryStep, ClosedInv, WriterInv
  <2>3. ClosedRunIsQuiet'
    BY <1>0, <1>5, <2>2, ClosedEntry DEF EntryStep
  <2> QED
    BY <1>2, <1>3, <2>1, <2>3 DEF WriterInv
<1>6. ASSUME NEW row \in Row, RecordStep(p, row)
      PROVE ClosedRunIsQuiet' /\ WriterInv'
  <2>1. row.kind = "operation_finished" \/ row.run \notin FinishedRuns
    BY <1>1, <1>6 DEF RecordStep, ClosedInv, WriterInv
  <2>2. ClosedRunIsQuiet'
    BY <1>0, <1>6, <2>1, ClosedRecord DEF RecordStep
  <2>3. CASE row.kind = "operation_finished"
    <3>1. pc'[p] \notin WritingPc
      BY <1>6, <2>3 DEF RecordStep, WritingPc
    <3> QED
      BY <1>2, <2>2, <3>1 DEF WriterInv
  <2>4. CASE row.kind # "operation_finished"
    <3>1. FinishedRuns' = FinishedRuns
      BY <1>0, <1>6, <2>4, AppendRecordReads DEF RecordStep
    <3> QED
      BY <1>2, <1>3, <2>2, <3>1 DEF WriterInv
  <2> QED
    BY <2>3, <2>4
<1> QED
  BY <1>0, <1>4, <1>5, <1>6, StepShape

\* Run ids, the writer and the closed runs, together.
THEOREM ClosedInvariant == Spec => []ClosedInv
<1> DEFINE Own == LockInv /\ WriterInv /\ RunsBelow /\ ClosedRunIsQuiet
<1>1. Init => Own
  BY DEF Init, StoreInit, WriterInv, RunsBelow, LockInv, ClosedRunIsQuiet, At, WritingPc, RecordsOf, IdleTask
<1>2. TypeInv /\ SharedSequence /\ Own /\ [Next]_vars => Own'
  <2> SUFFICES ASSUME ClosedInv, [Next]_vars
               PROVE  LockInv' /\ WriterInv' /\ RunsBelow' /\ ClosedRunIsQuiet'
    BY DEF ClosedInv
  <2>1. LockInv'
    BY RunAssumption, LockStep DEF ClosedInv
  <2>2. CASE UNCHANGED vars
    BY <2>1, <2>2 DEF ClosedInv, vars, WriterInv, RunsBelow, ClosedRunIsQuiet, FinishedRuns, RecordsOf
  <2>3. CASE Next
    <3>1. PICK p \in Procs : Acquire(p) \/ Progress(p) \/ FaultStep(p)
      BY <2>3 DEF Next
    <3>2. RunsBelow'
      BY <3>1, RunAssumption, RunsBelowStep DEF ClosedInv
    <3> QED
      BY <2>1, <3>1, <3>2, RunAssumption, ClosedStep
  <2> QED
    BY <2>2, <2>3
<1>3. TypeInv /\ SharedSequence /\ Own => ClosedInv
  BY DEF ClosedInv
<1> HIDE DEF Own
<1> QED
  BY <1>1, <1>2, <1>3, TypeInvariant, OneSequence, PTL DEF Spec

\* After a run's finish record nothing of that run is written any more, by its
\* own process or by a recovery, wherever processes are killed or writes fail.
THEOREM ClosedRunStaysQuiet == Spec => []ClosedRunIsQuiet
<1>1. ClosedInv => ClosedRunIsQuiet
  BY DEF ClosedInv
<1> QED
  BY <1>1, ClosedInvariant, PTL

-----------------------------------------------------------------------------
(* Reading the parent chain.                                               *)

\* A non-empty set of naturals has a least member.  This is the induction the
\* proof about the recursive path function rests on; it comes from the subset
\* ordering of finite sets being well-founded.
LEMMA NatLeast ==
    ASSUME NEW T, T \subseteq Nat, T # {}
    PROVE  \E x \in T : \A y \in T : x <= y
<1> DEFINE U == {0 .. n : n \in T}
<1>1. IsWellFoundedOn(StrictSubsetOrdering(Nat), FiniteSubsetsOf(Nat))
  BY FS_StrictSubsetOrderingWellFounded
<1>2. U \subseteq FiniteSubsetsOf(Nat) /\ U # {}
  <2>1. ASSUME NEW n \in T
        PROVE  0 .. n \in FiniteSubsetsOf(Nat)
    <3>1. IsFiniteSet(0 .. n)
      BY FS_Interval
    <3> QED
      BY <3>1 DEF FiniteSubsetsOf
  <2> QED
    BY <2>1
<1>3. PICK X \in U : \A Y \in U : ~ (<<Y, X>> \in StrictSubsetOrdering(Nat))
  <2> HIDE DEF U
  <2> QED
    BY <1>1, <1>2, WFMin
<1>4. PICK x \in T : X = 0 .. x
  OBVIOUS
<1>5. ASSUME NEW y \in T, y < x
      PROVE  FALSE
  <2>1. /\ 0 .. y \subseteq 0 .. x /\ x \in 0 .. x /\ x \notin 0 .. y
        /\ 0 .. y \in SUBSET Nat /\ 0 .. x \in SUBSET Nat
    BY <1>5
  <2>2. <<0 .. y, X>> \in StrictSubsetOrdering(Nat)
    BY <1>4, <2>1 DEF StrictSubsetOrdering
  <2> QED
    BY <1>3, <2>2
<1> QED
  BY <1>5

\* The messages in the order their entries were inserted.
Transcript == [i \in 1 .. Len(entries) |-> entries[i].msg]

\* Entry ids are unique, each entry hangs under the one inserted before it, and
\* the lane's leaf is the last one.
ChainInv ==
    /\ \A i, j \in DOMAIN entries : entries[i].id = entries[j].id => i = j
    /\ \A i \in DOMAIN entries : entries[i].parent = IF i = 1 THEN NoEntry ELSE entries[i - 1].id
    /\ leaf = IF entries = <<>> THEN NoEntry ELSE entries[Len(entries)].id

\* The transcript is a list of messages.
LEMMA TranscriptType ==
    ASSUME StoreTypeOK
    PROVE  Transcript \in Seq(Message) /\ Len(Transcript) = Len(entries)
<1>1. entries \in Seq(Entry)
  BY DEF StoreTypeOK
<1>2. \A i \in 1 .. Len(entries) : entries[i].msg \in Message
  <2>1. \A i \in 1 .. Len(entries) : entries[i] \in Entry
    BY <1>1
  <2> QED
    BY <2>1 DEF Entry
<1> QED
  BY <1>1, <1>2 DEF Transcript

\* On such a table the parent chain that ends at the leaf is the whole table.
\* The prefixes of the table solve the recursion of path_messages, and nothing
\* else does: consider the least index at which a solution differs.
LEMMA PathIsTranscript ==
    ASSUME StoreTypeOK, ChainInv
    PROVE  PathMessages = Transcript
<1> DEFINE n == Len(entries)
           Step(f) == [i \in 0 .. n |-> IF i = 0 THEN <<>>
                           ELSE Append(f[IndexOf(entries[i].parent)], entries[i].msg)]
           F == CHOOSE f : f = Step(f)
           g == [i \in 0 .. n |-> [k \in 1 .. i |-> entries[k].msg]]
<1>0. entries \in Seq(Entry) /\ n \in Nat /\ DOMAIN entries = 1 .. n
  BY DEF StoreTypeOK
<1>1. \A i \in 1 .. n : entries[i].id \in EntryId /\ entries[i].id # NoEntry /\ entries[i].msg \in Message
  <2>1. \A i \in 1 .. n : entries[i] \in Entry
    BY <1>0
  <2>2. NoEntry \notin EntryId
    BY DEF NoEntry, EntryId, EntryKind
  <2> QED
    BY <2>1, <2>2 DEF Entry
<1>2. \A i \in 1 .. n : IndexOf(entries[i].id) = i
  <2> TAKE i \in 1 .. n
  <2>1. i \in DOMAIN entries /\ \A j \in DOMAIN entries : entries[j].id = entries[i].id => j = i
    BY <1>0 DEF ChainInv
  <2> QED
    BY <1>1, <2>1 DEF IndexOf
<1>3. \A i \in 1 .. n : IndexOf(entries[i].parent) = i - 1
  <2> TAKE i \in 1 .. n
  <2>1. CASE i = 1
    BY <1>0, <2>1 DEF ChainInv, IndexOf
  <2>2. CASE i # 1
    <3>1. i - 1 \in 1 .. n /\ entries[i].parent = entries[i - 1].id
      BY <1>0, <2>2 DEF ChainInv
    <3> QED
      BY <1>2, <3>1
  <2> QED
    BY <2>1, <2>2
<1>4. IndexOf(leaf) = n
  <2>1. CASE entries = <<>>
    BY <2>1 DEF ChainInv, IndexOf
  <2>2. CASE entries # <<>>
    <3>1. n \in 1 .. n /\ leaf = entries[n].id
      BY <1>0, <2>2 DEF ChainInv
    <3> QED
      BY <1>2, <3>1
  <2> QED
    BY <2>1, <2>2
<1>5. g = Step(g)
  <2>1. ASSUME NEW i \in 1 .. n
        PROVE  g[i] = Append(g[IndexOf(entries[i].parent)], entries[i].msg)
    <3>1. \A k \in 1 .. i : k \in 1 .. n /\ entries[k].msg \in Message
      BY <1>0, <1>1
    <3>2. /\ [k \in 1 .. i |-> entries[k].msg] \in Seq(Message)
          /\ [k \in 1 .. i - 1 |-> entries[k].msg] \in Seq(Message)
          /\ entries[i].msg \in Message
      BY <1>0, <3>1
    <3>3. [k \in 1 .. i |-> entries[k].msg]
             = Append([k \in 1 .. i - 1 |-> entries[k].msg], entries[i].msg)
      BY <1>0, <3>2
    <3>4. /\ g[i] = [k \in 1 .. i |-> entries[k].msg]
          /\ g[i - 1] = [k \in 1 .. i - 1 |-> entries[k].msg]
      BY <1>0
    <3> QED
      BY <1>3, <3>3, <3>4
  <2>2. g[0] = <<>>
    BY <1>0
  <2>3. \A i \in 0 .. n : g[i] = Step(g)[i]
    <3> HIDE DEF g
    <3> TAKE i \in 0 .. n
    <3>1. Step(g)[i] = IF i = 0 THEN <<>> ELSE Append(g[IndexOf(entries[i].parent)], entries[i].msg)
      OBVIOUS
    <3>2. i = 0 \/ i \in 1 .. n
      BY <1>0
    <3> HIDE DEF Step
    <3> QED
      BY <2>1, <2>2, <3>1, <3>2
  <2>4. g = [i \in 0 .. n |-> g[i]]
    OBVIOUS
  <2> HIDE DEF g
  <2> QED
    BY <2>3, <2>4
<1>6. F = Step(F)
  <2> HIDE DEF g
  <2>1. \E f : f = Step(f)
    BY <1>5
  <2> HIDE DEF Step
  <2> QED
    BY <2>1
<1>7. \A i \in 0 .. n : F[i] = g[i]
  <2> DEFINE T == {i \in 0 .. n : F[i] # g[i]}
  <2> SUFFICES ASSUME T # {}
               PROVE  FALSE
    OBVIOUS
  <2> HIDE DEF F, g
  <2>1. PICK i \in T : \A j \in T : i <= j
    <3>1. T \subseteq Nat
      BY <1>0
    <3> HIDE DEF T
    <3> QED
      BY <3>1, NatLeast
  <2>2. F[i] = Step(F)[i] /\ g[i] = Step(g)[i]
    BY <1>5, <1>6
  <2>3. i # 0
    BY <1>0, <2>2
  <2>4. i \in 1 .. n /\ i - 1 \in 0 .. n /\ ~(i <= i - 1)
    BY <1>0, <2>3
  <2>5. F[i - 1] = g[i - 1]
    BY <2>1, <2>4
  <2> QED
    BY <1>3, <2>2, <2>4, <2>5
<1>8. PathMessages = F[IndexOf(leaf)]
  BY DEF PathMessages
<1>9. n \in 0 .. n
  BY <1>0
<1> QED
  BY <1>4, <1>7, <1>8, <1>9 DEF Transcript

-----------------------------------------------------------------------------
(* What an append does to the tables.                                      *)

\* An appended entry leaves the others alone and adds the calls it carries.
LEMMA EntryReads ==
    ASSUME StoreTypeOK, NEW id \in EntryId, NEW msg \in Message, AppendEntry(id, msg)
    PROVE  /\ nextSeq' >= nextSeq
           /\ \A i \in DOMAIN entries : i \in DOMAIN entries' /\ entries'[i] = entries[i]
           /\ \A i \in DOMAIN entries' : \/ i \in DOMAIN entries /\ entries'[i] = entries[i]
                                         \/ entries'[i].id = id /\ entries'[i].msg = msg
           /\ ~EntryExists(id) => \E i \in DOMAIN entries' : entries'[i].id = id /\ entries'[i].msg = msg
<1>0. entries \in Seq(Entry) /\ nextSeq \in Nat
  BY DEF StoreTypeOK
<1>1. CASE EntryExists(id)
  BY <1>0, <1>1 DEF AppendEntry
<1>2. CASE ~EntryExists(id)
  <2> DEFINE new == [id |-> id, parent |-> leaf, seq |-> nextSeq, msg |-> msg]
  <2>1. entries' = Append(entries, new) /\ nextSeq' = nextSeq + 1
    BY <1>2 DEF AppendEntry
  <2>2. new.id = id /\ new.msg = msg
    OBVIOUS
  <2> HIDE DEF new
  <2>3. /\ DOMAIN entries' = 1 .. Len(entries) + 1 /\ DOMAIN entries = 1 .. Len(entries)
        /\ Len(entries) \in Nat
        /\ \A i \in 1 .. Len(entries) : entries'[i] = entries[i]
        /\ entries'[Len(entries) + 1] = new
    BY <1>0, <2>1
  <2> QED
    BY <1>0, <2>1, <2>2, <2>3
<1> QED
  BY <1>1, <1>2

\* A record leaves the others alone, and is there afterwards if its key is new.
LEMMA RecordReads ==
    ASSUME StoreTypeOK, NEW row \in Row, AppendRecord(row)
    PROVE  /\ nextSeq' >= nextSeq
           /\ \A i \in DOMAIN records : i \in DOMAIN records' /\ records'[i] = records[i]
           /\ \A i \in DOMAIN records' : \/ i \in DOMAIN records /\ records'[i] = records[i]
                                         \/ records'[i] = Numbered(row, nextSeq)
           /\ ~RecordExists(row) => \E i \in DOMAIN records' : records'[i] = Numbered(row, nextSeq)
<1>0. records \in Seq(Record) /\ nextSeq \in Nat
  BY DEF StoreTypeOK
<1>1. CASE RecordExists(row)
  BY <1>0, <1>1 DEF AppendRecord
<1>2. CASE ~RecordExists(row)
  <2> DEFINE new == Numbered(row, nextSeq)
  <2>1. records' = Append(records, new) /\ nextSeq' = nextSeq + 1
    BY <1>2 DEF AppendRecord
  <2> HIDE DEF new
  <2>2. /\ DOMAIN records' = 1 .. Len(records) + 1 /\ DOMAIN records = 1 .. Len(records)
        /\ Len(records) \in Nat
        /\ \A i \in 1 .. Len(records) : records'[i] = records[i]
        /\ records'[Len(records) + 1] = new
    BY <1>0, <2>1
  <2>3. /\ nextSeq' >= nextSeq
        /\ \A i \in DOMAIN records : i \in DOMAIN records' /\ records'[i] = records[i]
        /\ \A i \in DOMAIN records' : (i \in DOMAIN records /\ records'[i] = records[i]) \/ records'[i] = new
        /\ \E i \in DOMAIN records' : records'[i] = new
    BY <1>0, <2>1, <2>2
  <2> QED
    BY <2>3 DEF new
<1> QED
  BY <1>1, <1>2

\* An appended entry is the last one, hangs under the one before it, and adds
\* its message at the end of the transcript.
LEMMA EntryChain ==
    ASSUME StoreTypeOK, ChainInv, NEW id \in EntryId, NEW msg \in Message, AppendEntry(id, msg)
    PROVE  /\ ChainInv'
           /\ EntryExists(id) => UNCHANGED <<entries, leaf, nextSeq>> /\ Transcript' = Transcript
           /\ ~EntryExists(id) =>
                 /\ DOMAIN entries = 1 .. Len(entries) /\ Len(entries) \in Nat
                 /\ Len(entries') = Len(entries) + 1
                 /\ DOMAIN entries' = 1 .. Len(entries) + 1
                 /\ \A i \in 1 .. Len(entries) : entries'[i] = entries[i]
                 /\ entries'[Len(entries) + 1].id = id
                 /\ entries'[Len(entries) + 1].msg = msg
                 /\ entries'[Len(entries) + 1].parent = leaf
                 /\ leaf' = id
                 /\ nextSeq' = nextSeq + 1
                 /\ Transcript' = Append(Transcript, msg)
<1>0. entries \in Seq(Entry) /\ nextSeq \in Nat
  BY DEF StoreTypeOK
<1>1. CASE EntryExists(id)
  BY <1>0, <1>1 DEF AppendEntry, ChainInv, Transcript
<1>2. CASE ~EntryExists(id)
  <2> DEFINE new == [id |-> id, parent |-> leaf, seq |-> nextSeq, msg |-> msg]
             n == Len(entries)
  <2>1. entries' = Append(entries, new) /\ leaf' = id /\ nextSeq' = nextSeq + 1
    BY <1>2 DEF AppendEntry
  <2>2. new.id = id /\ new.msg = msg /\ new.parent = leaf
    OBVIOUS
  <2> HIDE DEF new
  <2>3. /\ DOMAIN entries = 1 .. n /\ n \in Nat /\ Len(entries') = n + 1
        /\ DOMAIN entries' = 1 .. n + 1 /\ entries' # <<>>
        /\ \A i \in 1 .. n : entries'[i] = entries[i]
        /\ entries'[n + 1] = new
        /\ n = 0 <=> entries = <<>>
    BY <1>0, <2>1
  <2>4. Transcript' = Append(Transcript, msg)
    <3>1. Transcript \in Seq(Message) /\ Len(Transcript) = n
      BY TranscriptType
    <3>2. \A i \in 1 .. n : Transcript[i] = entries[i].msg
      BY <2>3 DEF Transcript
    <3>3. /\ Transcript' \in Seq(Message) /\ Len(Transcript') = n + 1
          /\ \A i \in 1 .. n : Transcript'[i] = Transcript[i]
          /\ Transcript'[n + 1] = msg
      <4>1. \A i \in 1 .. n + 1 : entries'[i].msg \in Message
        BY <2>2, <2>3, <3>1, <3>2
      <4> QED
        BY <2>2, <2>3, <3>2, <4>1 DEF Transcript
    <3> DEFINE t == Transcript
               u == Transcript'
    <3>4. /\ t \in Seq(Message) /\ u \in Seq(Message) /\ Len(t) = n /\ Len(u) = n + 1
          /\ \A i \in 1 .. n : u[i] = t[i]
          /\ u[n + 1] = msg
      BY <3>1, <3>3
    <3> HIDE DEF t, u
    <3>5. u = Append(t, msg)
      BY <2>3, <3>4
    <3> QED
      BY <3>5 DEF t, u
  <2>5. \A i \in 1 .. n : entries[i].id # id
    BY <1>2, <2>3 DEF EntryExists
  <2>6. \A i, j \in DOMAIN entries' : entries'[i].id = entries'[j].id => i = j
    BY <2>2, <2>3, <2>5 DEF ChainInv
  <2>7. \A i \in DOMAIN entries' :
           entries'[i].parent = IF i = 1 THEN NoEntry ELSE entries'[i - 1].id
    <3> TAKE i \in DOMAIN entries'
    <3>1. CASE i \in 1 .. n
      <4>1. i # 1 => i - 1 \in 1 .. n
        BY <2>3, <3>1
      <4> QED
        BY <2>3, <3>1, <4>1 DEF ChainInv
    <3>2. CASE i = n + 1
      <4>1. n # 0 => n \in 1 .. n
        BY <2>3
      <4>2. i = 1 <=> n = 0
        BY <2>3, <3>2
      <4>3. i - 1 = n
        BY <2>3, <3>2
      <4> QED
        BY <2>2, <2>3, <3>2, <4>1, <4>2, <4>3 DEF ChainInv
    <3> QED
      BY <2>3, <3>1, <3>2
  <2>8. ChainInv'
    BY <2>1, <2>2, <2>3, <2>6, <2>7 DEF ChainInv
  <2> QED
    BY <1>2, <2>1, <2>2, <2>3, <2>4, <2>8
<1> QED
  BY <1>1, <1>2

\* Whatever a step does, the chain stays one, and the transcript keeps what it
\* held and gets at most one message more.
LEMMA ChainStep ==
    ASSUME RunAssumption, TypeInv, ChainInv, [Next]_vars
    PROVE  /\ ChainInv'
           /\ Transcript' = Transcript \/ \E msg \in Message : Transcript' = Append(Transcript, msg)
<1>1. StoreTypeOK
  BY DEF TypeInv, TypeOK
<1>2. CASE UNCHANGED <<entries, leaf>>
  BY <1>2 DEF ChainInv, Transcript
<1>3. ASSUME NEW id \in EntryId, NEW msg \in Message, AppendEntry(id, msg)
      PROVE  /\ ChainInv'
             /\ Transcript' = Transcript \/ Transcript' = Append(Transcript, msg)
  BY <1>1, <1>3, EntryChain
<1>4. CASE Next
  <2>1. PICK p \in Procs : Acquire(p) \/ Progress(p) \/ FaultStep(p)
    BY <1>4 DEF Next
  <2> QED
    BY <1>2, <1>3, <2>1, RunAssumption, StepShape DEF QuietStep, EntryStep, RecordStep
<1> QED
  BY <1>2, <1>4 DEF vars

PathInv == PathMessages = Transcript

\* The transcript a session reads back is its entries table, message for
\* message, in every reachable state.
THEOREM PathInvariant == Spec => [](ChainInv /\ PathInv)
<1>1. Init => ChainInv
  BY DEF Init, StoreInit, ChainInv
<1>2. TypeInv /\ ChainInv /\ [Next]_vars => ChainInv'
  BY RunAssumption, ChainStep
<1>3. TypeInv /\ ChainInv => PathInv
  BY PathIsTranscript DEF TypeInv, TypeOK, PathInv
<1> QED
  BY <1>1, <1>2, <1>3, TypeInvariant, PTL DEF Spec

\* What a provider would be sent only ever grows at its end, across crashes,
\* recoveries and new processes: nothing is spliced in earlier or dropped.
THEOREM ContextOnlyGrows == Spec => ContextGrowsAtTail
<1> DEFINE before == PathMessages
           after == PathMessages'
           Grows == Len(before) <= Len(after) /\ before = SubSeq(after, 1, Len(before))
<1>1. TypeInv /\ ChainInv /\ PathInv /\ PathInv' /\ [Next]_vars => Grows
  <2> SUFFICES ASSUME TypeInv, ChainInv, PathInv, PathInv', [Next]_vars
               PROVE  Grows
    OBVIOUS
  <2>1. before = Transcript /\ after = Transcript'
    BY DEF PathInv
  <2>2. Transcript \in Seq(Message)
    BY TranscriptType DEF TypeInv, TypeOK
  <2>3. Transcript' = Transcript \/ \E msg \in Message : Transcript' = Append(Transcript, msg)
    BY RunAssumption, ChainStep
  <2> HIDE DEF before, after
  <2>4. CASE Transcript' = Transcript
    BY <2>1, <2>2, <2>4
  <2>5. ASSUME NEW msg \in Message, Transcript' = Append(Transcript, msg)
        PROVE  Grows
    <3> DEFINE t == Transcript
    <3>1. t \in Seq(Message) /\ before = t /\ after = Append(t, msg)
      BY <2>1, <2>2, <2>5
    <3> HIDE DEF t
    <3> QED
      BY <3>1
  <2> QED
    BY <2>3, <2>4, <2>5
<1>2. ContextGrowsAtTail <=> [][Grows]_<<entries, leaf>>
  BY DEF ContextGrowsAtTail
<1> HIDE DEF Grows
<1> QED
  BY <1>1, <1>2, TypeInvariant, PathInvariant, PTL DEF Spec

-----------------------------------------------------------------------------
(* The end of the transcript, and what the lock holder knows of it.        *)

\* Entry ids say what message they carry.
MessageInv ==
    \A i \in DOMAIN entries :
        LET e == entries[i] IN
        /\ e.id.kind = "user" => e.msg = UserMessage
        /\ e.id.kind = "assistant" => e.msg.kind = "assistant"
        /\ e.id.kind = "results" => e.msg.kind \in {"results", "interrupted"}
        /\ e.id.kind = "closing" => e.msg = ClosingMessage

\* An intent was logged under the assistant entry of its attempt; as long as
\* the run is open, a batch without results and the closing note of recovery
\* can only be the last thing in the transcript.
OpenEnd(r) ==
    /\ \A n \in UnfulfilledSteps(r) : leaf = AssistantId(r, n)
    /\ EntryExists(ClosingId(r)) => leaf = ClosingId(r)

EndInv ==
    /\ MessageInv
    /\ \A i \in DOMAIN entries : entries[i].id.run < nextSeq
    /\ \A i \in RecordsOf("tool_started") : EntryExists(AssistantId(records[i].run, records[i].step))
    /\ \A r \in OpenRuns : OpenEnd(r)

\* Before, and after, the assistant entry of the current attempt.
ThinkingPc == {"step", "provider", "assistant"}
ActingPc   == {"intents", "tools", "results"}

\* The first k entries hold, of run r, its prompt and attempts before the n-th.
EarlierAttempts(r, n, k) ==
    \A i \in 1 .. k : entries[i].id.run = r =>
        /\ entries[i].id.kind # "closing"
        /\ entries[i].id.kind # "user" => entries[i].id.step < n

\* What the journal, the loop and the in-memory transcript of a process say
\* of the store at each of its program points.
Knows(p) ==
    LET t == task[p] IN
    /\ pc[p] \in WritingPc \union {"aborting"} => t.run \in OpenRuns
    /\ pc[p] \in {"mark", "user"} => \A i \in DOMAIN entries : entries[i].id.run # t.run
    /\ pc[p] \in ThinkingPc =>
          /\ UnfulfilledSteps(t.run) = {}
          /\ EarlierAttempts(t.run, t.attempt, Len(entries))
          /\ EndsOnUser(Transcript)
    /\ pc[p] \in ActingPc =>
          /\ leaf = AssistantId(t.run, t.attempt)
          /\ EarlierAttempts(t.run, t.attempt, Len(entries) - 1)
          /\ t.calls # <<>>
          /\ Transcript = Append(mem[p], AssistantMessage(t.calls))
    /\ pc[p] \in {"closing", "aborting"} => UnfulfilledSteps(t.run) = {}
    /\ pc[p] = "aborting" => ~EndsOnUser(Transcript)
    /\ pc[p] \in ThinkingPc \union ActingPc \union FinishPc => EntryExists(UserId(t.run))
    /\ pc[p] \in FinishPc =>
          /\ OpenRuns \subseteq {t.run}
          /\ t.outcome \in {"completed", "truncated", "failed"}
          /\ t.outcome # "failed" =>
                /\ leaf = AssistantId(t.run, t.attempt)
                /\ Transcript[Len(Transcript)] = AssistantMessage(<<>>)
    /\ pc[p] \in {"ready", "start", "mark", "user"} \union ThinkingPc => mem[p] = Transcript

MemType == mem \in [Procs -> Seq(Message)]

EndsInv == MemType /\ EndInv /\ \A p \in Procs : Knows(p)

\* The invariants proved before, which the steps below use.
Before == OneRunInv /\ RunsBelow /\ ChainInv

\* Points at which Knows says something.
KnowingPc == WritingPc \union FinishPc \union {"aborting", "ready", "start"}

-----------------------------------------------------------------------------
(* How these readings change.                                              *)

\* An entry of run r makes no batch unfulfilled and adds one id.
LEMMA EntryIds ==
    ASSUME StoreTypeOK, ChainInv, NEW id \in EntryId, NEW msg \in Message, AppendEntry(id, msg),
           records' = records
    PROVE  /\ \A x : EntryExists(x)' <=> EntryExists(x) \/ x = id
           /\ \A r, n : Intents(r, n)' = Intents(r, n)
           /\ \A r : UnfulfilledSteps(r)' =
                        {n \in UnfulfilledSteps(r) : ResultsId(r, n) # id}
           /\ OpenRuns' = OpenRuns
           /\ \A k : RecordsOf(k)' = RecordsOf(k)
<1>1. \A x : EntryExists(x)' <=> EntryExists(x) \/ x = id
  <2>1. CASE EntryExists(id)
    BY <2>1, EntryChain DEF EntryExists
  <2>2. CASE ~EntryExists(id)
    <3>1. /\ DOMAIN entries = 1 .. Len(entries) /\ Len(entries) \in Nat
          /\ DOMAIN entries' = 1 .. Len(entries) + 1
          /\ \A i \in 1 .. Len(entries) : entries'[i] = entries[i]
          /\ entries'[Len(entries) + 1].id = id
      BY <2>2, EntryChain
    <3>2. \A i \in DOMAIN entries' : i \in 1 .. Len(entries) \/ i = Len(entries) + 1
      BY <3>1
    <3>3. 1 .. Len(entries) \subseteq DOMAIN entries' /\ Len(entries) + 1 \in DOMAIN entries'
      BY <3>1
    <3> QED
      BY <3>1, <3>2, <3>3 DEF EntryExists
  <2> QED
    BY <2>1, <2>2
<1>2. /\ \A k : RecordsOf(k)' = RecordsOf(k)
      /\ \A r, n : Intents(r, n)' = Intents(r, n)
  BY DEF RecordsOf, Intents
<1>3. OpenRuns' = OpenRuns
  BY DEF OpenRuns, StartedRuns, FinishedRuns, RecordsOf
<1>4. ASSUME NEW r
      PROVE  UnfulfilledSteps(r)' = {n \in UnfulfilledSteps(r) : ResultsId(r, n) # id}
  BY <1>1, <1>2 DEF UnfulfilledSteps
<1> QED
  BY <1>1, <1>2, <1>3, <1>4

\* A record is an intent of one batch at most.
LEMMA RecordIntents ==
    ASSUME StoreTypeOK, NEW row \in Row, AppendRecord(row), entries' = entries
    PROVE  /\ \A x : EntryExists(x)' <=> EntryExists(x)
           /\ row.kind # "tool_started" => \A r : UnfulfilledSteps(r)' = UnfulfilledSteps(r)
           /\ row.kind = "tool_started" =>
                 \A r : \A n \in UnfulfilledSteps(r)' :
                     n \in UnfulfilledSteps(r) \/ (r = row.run /\ n = row.step)
<1>1. \A x : EntryExists(x)' <=> EntryExists(x)
  BY DEF EntryExists
<1>2. /\ \A i \in DOMAIN records : i \in DOMAIN records' /\ records'[i] = records[i]
      /\ \A i \in DOMAIN records' : \/ i \in DOMAIN records /\ records'[i] = records[i]
                                    \/ records'[i] = Numbered(row, nextSeq)
  BY RecordReads
<1>3. /\ Numbered(row, nextSeq).kind = row.kind /\ Numbered(row, nextSeq).run = row.run
      /\ Numbered(row, nextSeq).step = row.step
  BY DEF Numbered
<1>4. ASSUME row.kind # "tool_started", NEW r
      PROVE  UnfulfilledSteps(r)' = UnfulfilledSteps(r)
  <2>1. RecordsOf("tool_started")' = RecordsOf("tool_started")
    BY <1>2, <1>3, <1>4 DEF RecordsOf
  <2>2. \A i \in RecordsOf("tool_started") : records'[i] = records[i]
    BY <1>2 DEF RecordsOf
  <2>3. \A n : Intents(r, n)' = Intents(r, n)
    BY <2>1, <2>2 DEF Intents
  <2> QED
    BY <1>1, <2>1, <2>2, <2>3 DEF UnfulfilledSteps
<1>5. ASSUME NEW r, NEW n \in UnfulfilledSteps(r)'
      PROVE  n \in UnfulfilledSteps(r) \/ (r = row.run /\ n = row.step)
  <2>1. PICK i \in Intents(r, n)' : ~EntryExists(ResultsId(r, n))
    BY <1>1 DEF UnfulfilledSteps
  <2>2. i \in DOMAIN records' /\ records'[i].kind = "tool_started"
        /\ records'[i].run = r /\ records'[i].step = n
    BY DEF Intents, RecordsOf
  <2>3. CASE i \in DOMAIN records /\ records'[i] = records[i]
    <3>1. i \in RecordsOf("tool_started") /\ i \in Intents(r, n)
      BY <2>2, <2>3 DEF Intents, RecordsOf
    <3>2. n = records[i].step
      BY <2>2, <2>3
    <3> QED
      BY <2>1, <3>1, <3>2 DEF UnfulfilledSteps
  <2>4. CASE records'[i] = Numbered(row, nextSeq)
    BY <1>3, <2>2, <2>4
  <2> QED
    BY <1>2, <2>2, <2>3, <2>4
<1> QED
  BY <1>1, <1>4, <1>5

-----------------------------------------------------------------------------
(* The store's part of the invariant.                                      *)

\* The leaf names an entry, the last one, unless there is none.
LEMMA LeafIsLast ==
    ASSUME StoreTypeOK, ChainInv, NEW x \in EntryId, leaf = x
    PROVE  /\ entries # <<>> /\ Len(entries) \in DOMAIN entries
           /\ entries[Len(entries)].id = x
           /\ EntryExists(x)
           /\ Transcript[Len(Transcript)] = entries[Len(entries)].msg
           /\ Transcript # <<>>
<1>1. entries \in Seq(Entry) /\ x # NoEntry
  BY DEF StoreTypeOK, EntryId, NoEntry, EntryKind
<1>2. entries # <<>> /\ entries[Len(entries)].id = x
  BY <1>1 DEF ChainInv
<1>3. Len(entries) \in 1 .. Len(entries) /\ DOMAIN entries = 1 .. Len(entries)
  BY <1>1, <1>2
<1>4. Len(Transcript) = Len(entries) /\ Transcript[Len(entries)] = entries[Len(entries)].msg
  BY <1>3, TranscriptType DEF Transcript
<1>5. Transcript # <<>>
  BY <1>3, <1>4, TranscriptType
<1> QED
  BY <1>2, <1>3, <1>4, <1>5 DEF EntryExists

\* A step that leaves both tables alone keeps it.
LEMMA EndQuiet == ASSUME EndInv, QuietStep PROVE EndInv'
<1>1. /\ RecordsOf("tool_started")' = RecordsOf("tool_started")
      /\ \A x : EntryExists(x)' = EntryExists(x)
      /\ \A r, n : Intents(r, n)' = Intents(r, n)
      /\ OpenRuns' = OpenRuns
      /\ records' = records /\ entries' = entries /\ nextSeq' = nextSeq /\ leaf' = leaf
  BY DEF QuietStep, RecordsOf, EntryExists, Intents, OpenRuns, StartedRuns, FinishedRuns
<1>2. \A r : UnfulfilledSteps(r)' = UnfulfilledSteps(r)
  BY <1>1 DEF UnfulfilledSteps
<1>3. \A r : OpenEnd(r)' = OpenEnd(r)
  BY <1>1, <1>2 DEF OpenEnd
<1>4. MessageInv'
  BY <1>1 DEF EndInv, MessageInv
<1> QED
  BY <1>1, <1>3, <1>4 DEF EndInv

\* A new run has written nothing yet.
LEMMA NewRunIsEmpty ==
    ASSUME TypeInv, RunsBelow, EndInv
    PROVE  UnfulfilledSteps(nextSeq) = {} /\ \A i \in DOMAIN entries : entries[i].id.run # nextSeq
<1>1. nextSeq \in Nat
  BY DEF TypeInv, TypeOK, StoreTypeOK
<1>2. \A i \in DOMAIN records : records[i].run # nextSeq
  BY <1>1 DEF RunsBelow
<1>3. \A i \in DOMAIN entries : entries[i].id.run # nextSeq
  BY <1>1 DEF EndInv
<1> QED
  BY <1>2, <1>3 DEF UnfulfilledSteps, Intents, RecordsOf

\* Which runs a record opens: at most the one it starts.
LEMMA RecordOpens ==
    ASSUME StoreTypeOK, NEW row \in Row, AppendRecord(row)
    PROVE  /\ OpenRuns' \subseteq OpenRuns \union {row.run}
           /\ row.kind # "operation_started" => OpenRuns' \subseteq OpenRuns
           /\ row.kind \in {"step_attempt", "tool_started"} => OpenRuns' = OpenRuns
BY AppendRecordReads DEF OpenRuns

\* A record keeps it, an intent if the last entry is that of its attempt.
LEMMA EndRecord ==
    ASSUME Before, EndInv, NEW p \in Procs, NEW row \in Row, RecordStep(p, row),
           row.kind = "tool_started" => leaf = AssistantId(row.run, row.step)
    PROVE  EndInv'
<1>0. /\ StoreTypeOK /\ TypeInv /\ ChainInv /\ RunsBelow
      /\ AppendRecord(row) /\ entries' = entries /\ leaf' = leaf /\ nextSeq \in Nat
  BY DEF Before, OneRunInv, TypeInv, TypeOK, StoreTypeOK, RecordStep
<1>1. \A x : EntryExists(x)' <=> EntryExists(x)
  BY <1>0, RecordIntents
<1>2. nextSeq' \in Nat /\ nextSeq' >= nextSeq
  BY <1>0, RecordReads, AppendRecordType
<1>3. \A i \in DOMAIN entries : entries[i].id.run \in Nat
  <2>1. \A i \in DOMAIN entries : entries[i] \in Entry
    BY <1>0 DEF StoreTypeOK
  <2> QED
    BY <2>1 DEF Entry, EntryId
<1>4. \A i \in DOMAIN entries' : entries'[i].id.run < nextSeq'
  BY <1>0, <1>2, <1>3 DEF EndInv
<1>5. ASSUME NEW i \in RecordsOf("tool_started")'
      PROVE  EntryExists(AssistantId(records[i].run, records[i].step))'
  <2>1. i \in DOMAIN records' /\ records'[i].kind = "tool_started"
    BY DEF RecordsOf
  <2>2. CASE i \in DOMAIN records /\ records'[i] = records[i]
    <3>1. EntryExists(AssistantId(records[i].run, records[i].step))
      BY <2>1, <2>2 DEF EndInv, RecordsOf
    <3> QED
      BY <1>1, <2>2, <3>1
  <2>3. CASE records'[i] = Numbered(row, nextSeq)
    <3>1. /\ records'[i].kind = row.kind /\ records'[i].run = row.run /\ records'[i].step = row.step
      BY <2>3 DEF Numbered
    <3>2. AssistantId(row.run, row.step) \in EntryId
      BY IdTypes DEF Row
    <3>3. EntryExists(AssistantId(row.run, row.step))
      BY <1>0, <2>1, <3>1, <3>2, LeafIsLast
    <3> QED
      BY <1>1, <3>1, <3>3
  <2> QED
    BY <1>0, <2>1, <2>2, <2>3, RecordReads
<1>6. ASSUME NEW r \in OpenRuns'
      PROVE  OpenEnd(r)'
  <2>1. EntryExists(ClosingId(r))' <=> EntryExists(ClosingId(r))
    BY <1>1
  <2>2. CASE row.kind = "operation_started"
    <3>1. UnfulfilledSteps(r)' = UnfulfilledSteps(r)
      BY <1>0, <2>2, RecordIntents
    <3>2. CASE r \in OpenRuns
      BY <1>0, <2>1, <3>1, <3>2 DEF EndInv, OpenEnd
    <3>3. CASE r \notin OpenRuns
      <4>1. r = nextSeq
        BY <1>0, <2>2, <3>3, RecordOpens DEF RecordStep
      <4>2. UnfulfilledSteps(r) = {} /\ ~EntryExists(ClosingId(r))
        BY <1>0, <4>1, NewRunIsEmpty DEF EntryExists, ClosingId
      <4> QED
        BY <2>1, <3>1, <4>2 DEF OpenEnd
    <3> QED
      BY <3>2, <3>3
  <2>3. CASE row.kind # "operation_started"
    <3>1. r \in OpenRuns /\ OpenEnd(r)
      BY <1>0, <2>3, RecordOpens DEF EndInv
    <3>2. \A n \in UnfulfilledSteps(r)' : leaf = AssistantId(r, n)
      BY <1>0, <3>1, RecordIntents DEF OpenEnd
    <3> QED
      BY <1>0, <2>1, <3>1, <3>2 DEF OpenEnd
  <2> QED
    BY <2>2, <2>3
<1>7. MessageInv'
  BY <1>0 DEF EndInv, MessageInv
<1> QED
  BY <1>4, <1>5, <1>6, <1>7 DEF EndInv

\* An entry of the only open run keeps it, if it leaves no batch without
\* results and recovery has not closed the transcript before.
LEMMA EndEntry ==
    ASSUME Before, EndInv, NEW id \in EntryId, NEW msg \in Message, AppendEntry(id, msg),
           records' = records, ~EntryExists(id), id.run < nextSeq, OpenRuns \subseteq {id.run},
           UnfulfilledSteps(id.run)' = {}, ~EntryExists(ClosingId(id.run)),
           id.kind = "user" => msg = UserMessage,
           id.kind = "assistant" => msg.kind = "assistant",
           id.kind = "results" => msg.kind \in {"results", "interrupted"},
           id.kind = "closing" => msg = ClosingMessage
    PROVE  EndInv'
<1>0. StoreTypeOK /\ TypeInv /\ ChainInv /\ nextSeq \in Nat /\ id.run \in Nat
  BY DEF Before, OneRunInv, TypeInv, TypeOK, StoreTypeOK, EntryId
<1>1. /\ DOMAIN entries = 1 .. Len(entries) /\ Len(entries) \in Nat
      /\ DOMAIN entries' = 1 .. Len(entries) + 1
      /\ \A i \in 1 .. Len(entries) : entries'[i] = entries[i]
      /\ entries'[Len(entries) + 1].id = id
      /\ entries'[Len(entries) + 1].msg = msg
      /\ leaf' = id
      /\ nextSeq' = nextSeq + 1
  BY <1>0, EntryChain
<1>2. /\ \A x : EntryExists(x)' <=> EntryExists(x) \/ x = id
      /\ RecordsOf("tool_started")' = RecordsOf("tool_started")
      /\ OpenRuns' = OpenRuns
  BY <1>0, EntryIds
<1>3. \A i \in DOMAIN entries' : i \in DOMAIN entries \/ i = Len(entries) + 1
  BY <1>1
<1>4. MessageInv'
  BY <1>1, <1>3 DEF EndInv, MessageInv
<1>5. \A i \in DOMAIN entries' : entries'[i].id.run < nextSeq'
  <2>1. \A i \in DOMAIN entries : entries[i].id.run \in Nat
    <3>1. \A i \in DOMAIN entries : entries[i] \in Entry
      BY <1>0 DEF StoreTypeOK
    <3> QED
      BY <3>1 DEF Entry, EntryId
  <2> QED
    BY <1>0, <1>1, <1>3, <2>1 DEF EndInv
<1>6. \A i \in RecordsOf("tool_started")' : EntryExists(AssistantId(records[i].run, records[i].step))'
  BY <1>2 DEF EndInv
<1>7. ASSUME NEW r \in OpenRuns'
      PROVE  OpenEnd(r)'
  <2>1. r = id.run
    BY <1>2
  <2> QED
    BY <1>1, <1>2, <2>1 DEF OpenEnd
<1> QED
  BY <1>4, <1>5, <1>6, <1>7 DEF EndInv

-----------------------------------------------------------------------------
(* The part of the process that moves.                                     *)

\* A step that leaves both tables alone changes no reading of them.
LEMMA QuietReads ==
    ASSUME QuietStep
    PROVE  /\ entries' = entries /\ leaf' = leaf /\ Transcript' = Transcript /\ OpenRuns' = OpenRuns
           /\ \A x : EntryExists(x)' = EntryExists(x)
           /\ \A r : UnfulfilledSteps(r)' = UnfulfilledSteps(r)
           /\ \A r, n, k : EarlierAttempts(r, n, k)' = EarlierAttempts(r, n, k)
<1>1. /\ RecordsOf("tool_started")' = RecordsOf("tool_started")
      /\ \A x : EntryExists(x)' = EntryExists(x)
      /\ \A r, n : Intents(r, n)' = Intents(r, n)
      /\ OpenRuns' = OpenRuns
      /\ records' = records /\ entries' = entries /\ leaf' = leaf
  BY DEF QuietStep, RecordsOf, EntryExists, Intents, OpenRuns, StartedRuns, FinishedRuns
<1>2. \A r : UnfulfilledSteps(r)' = UnfulfilledSteps(r)
  BY <1>1 DEF UnfulfilledSteps
<1> QED
  BY <1>1, <1>2 DEF Transcript, EarlierAttempts

\* The run a process writes for is the only open one.
LEMMA OnlyOpenRun ==
    ASSUME AtMostOneOpenRun, NEW p \in Procs, Knows(p), pc[p] \in WritingPc \union {"aborting"}
    PROVE  task[p].run \in OpenRuns /\ OpenRuns \subseteq {task[p].run}
BY DEF Knows, AtMostOneOpenRun

\* Preparing the session: the transcript is loaded from the store.
LEMMA KnowsPrepare ==
    ASSUME TypeInv, ChainInv, AtMostOneOpenRun, MemType, NEW p \in Procs, Knows(p),
           \/ Acquire(p) \/ ReadOpenRun(p) \/ AbortMarker(p) \/ GiveUp(p) \/ CheckNoOpenRun(p)
           \/ UpdateMeta(p) \/ Exit(p) \/ Cancel(p) \/ Crash(p)
    PROVE  Knows(p)'
<1>0. /\ pc \in [Procs -> Pc] /\ task \in [Procs -> Task] /\ task[p] \in Task
      /\ mem \in [Procs -> Seq(Message)]
  BY DEF TypeInv, TypeOK, MemType
<1>1. QuietStep
  BY DEF Acquire, ReadOpenRun, AbortMarker, GiveUp, CheckNoOpenRun, UpdateMeta, Exit, Cancel, Crash,
     storeVars, QuietStep
<1>2. Transcript' = Transcript /\ OpenRuns' = OpenRuns
  BY <1>1, QuietReads
<1>3. PathMessages = Transcript
  BY PathIsTranscript DEF TypeInv, TypeOK
<1>4. CASE LoadTranscript(p)
  <2>1. pc'[p] = "ready" /\ mem'[p] = Transcript'
    BY <1>0, <1>2, <1>3, <1>4 DEF LoadTranscript, Goto
  <2> QED
    BY <2>1 DEF Knows, WritingPc, ThinkingPc, ActingPc, FinishPc
<1>5. CASE CheckNoOpenRun(p)
  <2>1. pc[p] = "ready" /\ pc'[p] \in {"start", "exit"} /\ mem' = mem
    BY <1>0, <1>5 DEF CheckNoOpenRun, Goto, At
  <2>2. mem[p] = Transcript
    BY <2>1 DEF Knows
  <2> QED
    BY <1>2, <2>1, <2>2 DEF Knows, WritingPc, ThinkingPc, ActingPc, FinishPc
<1>6. CASE \E r \in OpenRuns : task' = [task EXCEPT ![p].run = r] /\ Goto(p, "batches")
  <2>1. PICK r \in OpenRuns : task' = [task EXCEPT ![p].run = r] /\ Goto(p, "batches")
    BY <1>6
  <2>2. pc'[p] = "batches" /\ task'[p].run = r
    BY <1>0, <2>1 DEF Goto, Task
  <2> QED
    BY <1>2, <2>1, <2>2 DEF Knows, WritingPc, ThinkingPc, ActingPc, FinishPc
<1>7. CASE pc'[p] \in {"recover", "exit", "down"}
  BY <1>7 DEF Knows, WritingPc, ThinkingPc, ActingPc, FinishPc
<1> QED
  BY <1>0, <1>4, <1>5, <1>6, <1>7 DEF Acquire, ReadOpenRun, AbortMarker, GiveUp, UpdateMeta, Exit,
     Cancel, Crash, Goto

\* The points of a run at which nothing is written.
LEMMA KnowsTurn ==
    ASSUME TypeInv, AtMostOneOpenRun, MemType, NEW p \in Procs, Knows(p),
           MarkRun(p) \/ ProviderResponds(p) \/ RunTools(p) \/ FinishMarker(p)
    PROVE  Knows(p)'
<1>0. /\ pc \in [Procs -> Pc] /\ task \in [Procs -> Task] /\ task[p] \in Task
  BY DEF TypeInv, TypeOK
<1>1. QuietStep /\ mem' = mem
  BY DEF MarkRun, ProviderResponds, RunTools, FinishMarker, storeVars, QuietStep
<1>2. /\ entries' = entries /\ leaf' = leaf /\ Transcript' = Transcript /\ OpenRuns' = OpenRuns
      /\ \A x : EntryExists(x)' = EntryExists(x)
      /\ \A r : UnfulfilledSteps(r)' = UnfulfilledSteps(r)
      /\ \A r, n, k : EarlierAttempts(r, n, k)' = EarlierAttempts(r, n, k)
  BY <1>1, QuietReads
<1>3. CASE MarkRun(p) \/ RunTools(p) \/ FinishMarker(p)
  <2>1. task' = task
    BY <1>3 DEF MarkRun, RunTools, FinishMarker
  <2>2. \/ pc[p] = "mark" /\ pc'[p] = "user"
        \/ pc[p] = "tools" /\ pc'[p] = "results"
        \/ pc[p] = "clear" /\ pc'[p] = "meta"
    BY <1>0, <1>3 DEF MarkRun, RunTools, FinishMarker, At, Goto
  <2> QED
    BY <1>1, <1>2, <2>1, <2>2 DEF Knows, WritingPc, ThinkingPc, ActingPc, FinishPc
<1>4. CASE ProviderResponds(p)
  <2>1. pc[p] = "provider" /\ pc'[p] = "assistant"
    BY <1>0, <1>4 DEF ProviderResponds, At, Goto
  <2>2. task'[p].run = task[p].run /\ task'[p].attempt = task[p].attempt
    <3>1. PICK cs, s : task' = [task EXCEPT ![p].calls = cs, ![p].stop = s, ![p].logged = 0]
      BY <1>4 DEF ProviderResponds
    <3>2. task' = [task EXCEPT ![p] = [task[p] EXCEPT !.calls = cs, !.stop = s, !.logged = 0]]
      BY <1>0, <3>1
    <3> QED
      BY <1>0, <3>2 DEF Task
  <2> QED
    BY <1>1, <1>2, <2>1, <2>2 DEF Knows, WritingPc, ThinkingPc, ActingPc, FinishPc
<1> QED
  BY <1>3, <1>4

\* A run that fails has its prompt in the store and is the only one that can
\* still be open.
LEMMA KnowsFailure ==
    ASSUME TypeInv, AtMostOneOpenRun, MemType, NEW p \in Procs, Knows(p),
           MaxTurnsReached(p) \/ ProviderFails(p) \/ WriteFails(p)
    PROVE  Knows(p)'
<1>0. /\ pc \in [Procs -> Pc] /\ task \in [Procs -> Task] /\ task[p] \in Task
  BY DEF TypeInv, TypeOK
<1>1. QuietStep
  BY DEF MaxTurnsReached, ProviderFails, WriteFails, storeVars, QuietStep
<1>2. OpenRuns' = OpenRuns /\ \A x : EntryExists(x)' = EntryExists(x)
  BY <1>1, QuietReads
<1>3. CASE Goto(p, "exit")
  BY <1>0, <1>3 DEF Goto, Knows, WritingPc, ThinkingPc, ActingPc, FinishPc
<1>4. CASE Fail(p, "failed") /\ pc[p] \in ThinkingPc \union ActingPc \union FinishPc
  <2>1. pc'[p] = "finish" /\ task'[p].run = task[p].run /\ task'[p].outcome = "failed"
    BY <1>0, <1>4 DEF Fail, Goto, Task
  <2>2. EntryExists(UserId(task[p].run))
    BY <1>4 DEF Knows
  <2>3. OpenRuns \subseteq {task[p].run}
    <3>1. CASE pc[p] \in FinishPc
      BY <3>1 DEF Knows
    <3>2. CASE pc[p] \in WritingPc
      BY <3>2, OnlyOpenRun
    <3> QED
      BY <1>4, <3>1, <3>2 DEF ThinkingPc, ActingPc, WritingPc
  <2> QED
    BY <1>2, <2>1, <2>2, <2>3 DEF Knows, WritingPc, ThinkingPc, ActingPc, FinishPc
<1>5. \/ Goto(p, "exit")
      \/ Fail(p, "failed") /\ pc[p] \in ThinkingPc \union ActingPc \union FinishPc
  BY DEF MaxTurnsReached, ProviderFails, WriteFails, At, ThinkingPc, ActingPc, FinishPc
<1> QED
  BY <1>3, <1>4, <1>5

\* A run that starts is open.
LEMMA StartOpens ==
    ASSUME TypeInv, RunsBelow, AppendRecord(StartedRow(nextSeq))
    PROVE  nextSeq \in OpenRuns'
<1> DEFINE row == StartedRow(nextSeq)
<1>0. StoreTypeOK /\ nextSeq \in Nat
  BY DEF TypeInv, TypeOK, StoreTypeOK
<1>1. row \in Row /\ row.kind = "operation_started" /\ row.run = nextSeq
  BY <1>0 DEF StartedRow, Row, RecordKind, Outcome
<1>2. \A i \in DOMAIN records : records[i].run # nextSeq
  BY <1>0 DEF RunsBelow
<1> HIDE DEF row
<1>3. ~RecordExists(row)
  BY <1>1, <1>2 DEF RecordExists, SameRecordId
<1>4. PICK i \in DOMAIN records' : records'[i] = Numbered(row, nextSeq)
  BY <1>0, <1>1, <1>3, RecordReads DEF row
<1>5. nextSeq \in StartedRuns'
  <2>1. records'[i].kind = "operation_started" /\ records'[i].run = nextSeq
    BY <1>1, <1>4 DEF Numbered
  <2> QED
    BY <2>1 DEF StartedRuns, RecordsOf
<1>6. FinishedRuns' = FinishedRuns
  BY <1>0, <1>1, AppendRecordReads DEF row
<1>7. nextSeq \notin FinishedRuns
  BY <1>2 DEF FinishedRuns, RecordsOf
<1> QED
  BY <1>5, <1>6, <1>7 DEF OpenRuns

\* Steps that write a record.
LEMMA KnowsRecord ==
    ASSUME RunAssumption, Before, EndInv, MemType, NEW p \in Procs, Knows(p),
           StartRun(p) \/ StepAttempt(p) \/ LogIntent(p) \/ AbortRun(p) \/ FinishRun(p)
    PROVE  EndInv' /\ Knows(p)'
<1> PICK r, n : r = task[p].run /\ n = task[p].attempt
  OBVIOUS
<1>0. /\ pc \in [Procs -> Pc] /\ task \in [Procs -> Task] /\ task[p] \in Task
      /\ r \in Nat /\ n \in Nat /\ task[p].outcome \in Outcome \union {"none"}
      /\ task[p].calls \in Seq(Calls) /\ task[p].logged \in Nat
      /\ StoreTypeOK /\ nextSeq \in Nat /\ TypeInv /\ RunsBelow
  BY DEF Before, OneRunInv, TypeInv, TypeOK, StoreTypeOK, Task
<1>1. entries' = entries /\ leaf' = leaf /\ mem' = mem
  BY DEF StartRun, StepAttempt, LogIntent, AbortRun, FinishRun
<1>2. /\ Transcript' = Transcript /\ \A x : EntryExists(x)' = EntryExists(x)
      /\ \A s, m, k : EarlierAttempts(s, m, k)' = EarlierAttempts(s, m, k)
  BY <1>1 DEF Transcript, EntryExists, EarlierAttempts
<1>3. CASE StartRun(p)
  <2>1. StartedRow(nextSeq) \in Row
    BY <1>0 DEF StartedRow, Row, RecordKind, Outcome
  <2>2. pc[p] = "start" /\ pc'[p] = "mark" /\ task'[p].run = nextSeq
    BY <1>0, <1>3 DEF StartRun, Goto, At, Task
  <2>3. RecordStep(p, StartedRow(nextSeq))
    BY <1>1, <1>3, <2>2 DEF StartRun, RecordStep, StartedRow
  <2>4. EndInv'
    BY <2>1, <2>3, EndRecord DEF StartedRow
  <2>5. nextSeq \in OpenRuns'
    BY <1>0, <1>3, StartOpens DEF StartRun
  <2>6. \A i \in DOMAIN entries : entries[i].id.run # nextSeq
    BY <1>0, NewRunIsEmpty
  <2>7. mem[p] = Transcript
    BY <2>2 DEF Knows
  <2> QED
    BY <1>1, <1>2, <2>2, <2>4, <2>5, <2>6, <2>7 DEF Knows, WritingPc, ThinkingPc, ActingPc, FinishPc
<1>4. CASE StepAttempt(p)
  <2>1. /\ StepRow(r, n) \in Row /\ StepRow(r, n).kind = "step_attempt"
    BY <1>0 DEF StepRow, Row, RecordKind, Outcome
  <2>2. pc[p] = "step" /\ pc'[p] = "provider" /\ task' = task
    BY <1>0, <1>4 DEF StepAttempt, Goto, At
  <2>3. RecordStep(p, StepRow(r, n))
    BY <1>1, <1>4, <2>2 DEF StepAttempt, RecordStep, StepRow, WritingPc
  <2>4. EndInv'
    BY <2>1, <2>3, EndRecord
  <2>5. OpenRuns' = OpenRuns /\ UnfulfilledSteps(r)' = UnfulfilledSteps(r)
    <3>1. AppendRecord(StepRow(r, n))
      BY <2>3 DEF RecordStep
    <3>2. OpenRuns' = OpenRuns
      BY <1>0, <2>1, <3>1, RecordOpens
    <3>3. UnfulfilledSteps(r)' = UnfulfilledSteps(r)
      BY <1>0, <1>1, <2>1, <3>1, RecordIntents
    <3> QED
      BY <3>2, <3>3
  <2> QED
    BY <1>1, <1>2, <2>2, <2>4, <2>5 DEF Knows, WritingPc, ThinkingPc, ActingPc, FinishPc
<1>5. CASE LogIntent(p)
  <2> DEFINE row == ToolRow(r, n, task[p].calls[task[p].logged + 1])
  <2>1. task[p].calls[task[p].logged + 1] \in Calls
    BY <1>0, <1>5 DEF LogIntent, TypeInv, LoggedInv
  <2>2. row \in Row /\ row.kind = "tool_started" /\ row.run = r /\ row.step = n
    BY <1>0, <2>1 DEF ToolRow, Row, RecordKind, Outcome
  <2>3. pc[p] = "intents" /\ pc'[p] \in {"intents", "tools"}
    BY <1>0, <1>5 DEF LogIntent, Goto, At
  <2>4. task'[p].run = r /\ task'[p].attempt = n /\ task'[p].calls = task[p].calls
    <3>1. task' = [task EXCEPT ![p] = [task[p] EXCEPT !.logged = task[p].logged + 1]]
      BY <1>0, <1>5 DEF LogIntent
    <3> QED
      BY <1>0, <3>1 DEF Task
  <2>5. RecordStep(p, row)
    BY <1>1, <1>5, <2>3 DEF LogIntent, RecordStep, ToolRow, WritingPc
  <2>6. leaf = AssistantId(r, n)
    BY <2>3 DEF Knows, ActingPc
  <2>7. EndInv'
    BY <2>2, <2>5, <2>6, EndRecord
  <2>8. OpenRuns' = OpenRuns
    BY <1>0, <2>2, <2>5, RecordOpens DEF RecordStep
  <2> QED
    BY <1>1, <1>2, <2>3, <2>4, <2>7, <2>8 DEF Knows, WritingPc, ThinkingPc, ActingPc, FinishPc
<1>6. CASE AbortRun(p)
  <2>1. FinishedRow(r, "aborted") \in Row /\ FinishedRow(r, "aborted").kind = "operation_finished"
    BY <1>0 DEF FinishedRow, Row, RecordKind, Outcome
  <2>2. pc'[p] = "unmarking"
    BY <1>0, <1>6 DEF AbortRun, Goto
  <2>3. RecordStep(p, FinishedRow(r, "aborted"))
    BY <1>1, <1>6, <2>2 DEF AbortRun, RecordStep, FinishedRow
  <2>4. EndInv'
    BY <2>1, <2>3, EndRecord
  <2> QED
    BY <2>2, <2>4 DEF Knows, WritingPc, ThinkingPc, ActingPc, FinishPc
<1>7. CASE FinishRun(p)
  <2>1. /\ FinishedRow(r, task[p].outcome) \in Row
        /\ FinishedRow(r, task[p].outcome).kind = "operation_finished"
    BY <1>0 DEF FinishedRow, Row, RecordKind, Outcome
  <2>2. pc[p] = "finish" /\ pc'[p] = "clear" /\ task' = task
    BY <1>0, <1>7 DEF FinishRun, Goto, At
  <2>3. RecordStep(p, FinishedRow(r, task[p].outcome))
    BY <1>1, <1>7, <2>2 DEF FinishRun, RecordStep, FinishedRow
  <2>4. EndInv'
    BY <2>1, <2>3, EndRecord
  <2>5. OpenRuns' \subseteq OpenRuns
    BY <1>0, <2>1, <2>3, RecordOpens DEF RecordStep
  <2> QED
    BY <1>1, <1>2, <2>2, <2>4, <2>5 DEF Knows, WritingPc, ThinkingPc, ActingPc, FinishPc
<1> QED
  BY <1>3, <1>4, <1>5, <1>6, <1>7

\* The last message of a transcript that has just got one more.
LEMMA LastMessage ==
    ASSUME NEW t \in Seq(Message), NEW msg \in Message
    PROVE  /\ Append(t, msg) # <<>>
           /\ Append(t, msg)[Len(Append(t, msg))] = msg
           /\ EndsOnUser(Append(t, msg)) <=> Role(msg) = "user"
<1>1. /\ Append(t, msg) # <<>>
      /\ Append(t, msg)[Len(Append(t, msg))] = msg
  OBVIOUS
<1> QED
  BY <1>1 DEF EndsOnUser

\* The prompt opens the run's part of the transcript.
LEMMA KnowsUser ==
    ASSUME RunAssumption, Before, EndInv, MemType, NEW p \in Procs, Knows(p), AppendUser(p)
    PROVE  EndInv' /\ Knows(p)'
<1> PICK r : r = task[p].run
  OBVIOUS
<1> DEFINE id == UserId(r)
<1>0. /\ pc \in [Procs -> Pc] /\ task \in [Procs -> Task] /\ task[p] \in Task
      /\ r \in Nat /\ r < nextSeq /\ mem \in [Procs -> Seq(Message)]
      /\ StoreTypeOK /\ ChainInv /\ AtMostOneOpenRun
  BY DEF Before, OneRunInv, RunsBelow, TypeInv, TypeOK, Task, MemType
<1>1. /\ pc[p] = "user" /\ pc'[p] = "step" /\ task'[p].run = r /\ task'[p].attempt = 1
      /\ AppendEntry(id, UserMessage) /\ records' = records
      /\ mem'[p] = Append(mem[p], UserMessage)
  BY <1>0 DEF AppendUser, At, Goto, Task
<1>2. id \in EntryId /\ UserMessage \in Message /\ id.kind = "user" /\ id.run = r
  BY <1>0, IdTypes DEF UserMessage, Message, MessageKind, UserId
<1>3. \A i \in DOMAIN entries : entries[i].id.run # r
  BY <1>1 DEF Knows
<1>4. \A x : x.run = r => ~EntryExists(x)
  BY <1>3 DEF EntryExists
<1>5. UnfulfilledSteps(r) = {}
  <2>1. \A i \in RecordsOf("tool_started") : records[i].run # r
    BY <1>4 DEF EndInv, AssistantId
  <2> QED
    BY <2>1 DEF UnfulfilledSteps, Intents
<1>6. r \in OpenRuns /\ OpenRuns \subseteq {r} /\ mem[p] = Transcript
  BY <1>0, <1>1, OnlyOpenRun DEF Knows, WritingPc
<1>7. ~EntryExists(id) /\ ~EntryExists(ClosingId(r))
  BY <1>2, <1>4 DEF ClosingId
<1> HIDE DEF id
<1>8. /\ UnfulfilledSteps(r)' = {} /\ OpenRuns' = OpenRuns /\ EntryExists(id)'
  BY <1>0, <1>1, <1>2, <1>5, EntryIds
<1>9. EndInv'
  BY <1>0, <1>1, <1>2, <1>6, <1>7, <1>8, EndEntry
<1>10. /\ DOMAIN entries = 1 .. Len(entries) /\ Len(entries) \in Nat
       /\ Len(entries') = Len(entries) + 1
       /\ \A i \in 1 .. Len(entries) : entries'[i] = entries[i]
       /\ entries'[Len(entries) + 1].id = id
       /\ Transcript' = Append(Transcript, UserMessage)
  BY <1>0, <1>1, <1>2, <1>7, EntryChain
<1>11. EarlierAttempts(r, 1, Len(entries))'
  <2>1. \A i \in 1 .. Len(entries') : i \in 1 .. Len(entries) \/ i = Len(entries) + 1
    BY <1>10
  <2> QED
    BY <1>2, <1>3, <1>10, <2>1 DEF EarlierAttempts
<1>12. EndsOnUser(Transcript)' /\ mem'[p] = Transcript'
  <2>1. Role(UserMessage) = "user"
    BY DEF Role, UserMessage
  <2> QED
    BY <1>0, <1>1, <1>2, <1>6, <1>10, <2>1, TranscriptType, LastMessage
<1> QED
  BY <1>1, <1>6, <1>8, <1>9, <1>11, <1>12 DEF Knows, WritingPc, ThinkingPc, ActingPc, FinishPc, id

\* The assistant entry: the run is over, or its batch is at the leaf.
LEMMA KnowsAssistant ==
    ASSUME RunAssumption, Before, EndInv, MemType, NEW p \in Procs, Knows(p), AppendAssistant(p)
    PROVE  EndInv' /\ Knows(p)'
<1> PICK r, n, cs : r = task[p].run /\ n = task[p].attempt /\ cs = task[p].calls
  OBVIOUS
<1> DEFINE id == AssistantId(r, n)
           msg == AssistantMessage(cs)
<1>0. /\ pc \in [Procs -> Pc] /\ task \in [Procs -> Task] /\ task[p] \in Task
      /\ r \in Nat /\ r < nextSeq /\ n \in Nat /\ cs \in Seq(Calls) /\ mem \in [Procs -> Seq(Message)]
      /\ StoreTypeOK /\ ChainInv /\ AtMostOneOpenRun
  BY DEF Before, OneRunInv, RunsBelow, TypeInv, TypeOK, Task, MemType
<1>1. pc[p] = "assistant" /\ AppendEntry(id, msg) /\ records' = records
  BY DEF AppendAssistant, At
<1>2. /\ id \in EntryId /\ msg \in Message /\ id.kind = "assistant" /\ id.run = r /\ id.step = n
      /\ msg.kind = "assistant"
  BY <1>0, IdTypes, MessageTypes DEF AssistantId, AssistantMessage
<1>3. /\ UnfulfilledSteps(r) = {} /\ EarlierAttempts(r, n, Len(entries))
      /\ EntryExists(UserId(r)) /\ mem[p] = Transcript
  BY <1>1 DEF Knows, ThinkingPc
<1>4. r \in OpenRuns /\ OpenRuns \subseteq {r}
  BY <1>0, <1>1, OnlyOpenRun DEF WritingPc
<1>5. ~EntryExists(id) /\ ~EntryExists(ClosingId(r))
  <2>1. DOMAIN entries = 1 .. Len(entries)
    BY <1>0 DEF StoreTypeOK
  <2>2. ClosingId(r).run = r /\ ClosingId(r).kind = "closing"
    BY DEF ClosingId
  <2> HIDE DEF id
  <2>3. ASSUME NEW i \in 1 .. Len(entries)
        PROVE  entries[i].id # id /\ entries[i].id # ClosingId(r)
    <3>1. entries[i].id.run = r => /\ entries[i].id.kind # "closing"
                                   /\ entries[i].id.kind # "user" => entries[i].id.step < n
      BY <1>3 DEF EarlierAttempts
    <3> QED
      BY <1>0, <1>2, <2>2, <3>1
  <2> QED
    BY <2>1, <2>3 DEF EntryExists
<1> HIDE DEF id
<1>6. /\ UnfulfilledSteps(r)' = {} /\ OpenRuns' = OpenRuns /\ EntryExists(UserId(r))'
  BY <1>0, <1>1, <1>2, <1>3, EntryIds
<1>7. EndInv'
  BY <1>0, <1>1, <1>2, <1>4, <1>5, <1>6, EndEntry
<1>8. /\ DOMAIN entries = 1 .. Len(entries) /\ Len(entries) \in Nat
      /\ Len(entries') = Len(entries) + 1
      /\ \A i \in 1 .. Len(entries) : entries'[i] = entries[i]
      /\ leaf' = id
      /\ Transcript' = Append(Transcript, msg)
  BY <1>0, <1>1, <1>2, <1>5, EntryChain
<1>9. CASE cs # <<>> /\ Goto(p, "intents") /\ task' = task /\ mem' = mem
  <2>1. pc'[p] = "intents"
    BY <1>0, <1>9 DEF Goto
  <2>2. EarlierAttempts(r, n, Len(entries) - 1)'
    BY <1>3, <1>8 DEF EarlierAttempts
  <2> QED
    BY <1>3, <1>4, <1>6, <1>7, <1>8, <1>9, <2>1, <2>2
       DEF Knows, WritingPc, ThinkingPc, ActingPc, FinishPc, id
<1>10. CASE /\ cs = <<>> /\ Goto(p, "finish")
            /\ task' = [task EXCEPT ![p].outcome = IF task[p].stop = "max_tokens" THEN "truncated" ELSE "completed"]
  <2>1. pc'[p] = "finish" /\ task'[p].run = r /\ task'[p].attempt = n
        /\ task'[p].outcome \in {"completed", "truncated"}
    BY <1>0, <1>10 DEF Goto, Task
  <2>2. Transcript'[Len(Transcript')] = AssistantMessage(<<>>)
    BY <1>0, <1>2, <1>8, <1>10, TranscriptType, LastMessage
  <2> QED
    BY <1>4, <1>6, <1>7, <1>8, <2>1, <2>2 DEF Knows, WritingPc, ThinkingPc, ActingPc, FinishPc, id
<1> QED
  BY <1>9, <1>10 DEF AppendAssistant

\* The results go under the assistant entry, and both into memory.
LEMMA KnowsResults ==
    ASSUME RunAssumption, Before, EndInv, MemType, NEW p \in Procs, Knows(p), AppendResults(p)
    PROVE  EndInv' /\ Knows(p)'
<1> PICK r, n, cs : r = task[p].run /\ n = task[p].attempt /\ cs = task[p].calls
  OBVIOUS
<1> DEFINE id == ResultsId(r, n)
           msg == ResultsMessage(cs)
<1>0. /\ pc \in [Procs -> Pc] /\ task \in [Procs -> Task] /\ task[p] \in Task
      /\ r \in Nat /\ r < nextSeq /\ n \in Nat /\ cs \in Seq(Calls) /\ mem \in [Procs -> Seq(Message)]
      /\ StoreTypeOK /\ ChainInv /\ AtMostOneOpenRun
  BY DEF Before, OneRunInv, RunsBelow, TypeInv, TypeOK, Task, MemType
<1>1. /\ pc[p] = "results" /\ pc'[p] = "step" /\ AppendEntry(id, msg) /\ records' = records
      /\ mem'[p] = mem[p] \o <<AssistantMessage(cs), msg>>
      /\ task'[p].run = r /\ task'[p].attempt = n + 1
  BY <1>0 DEF AppendResults, At, Goto, Task
<1>2. /\ id \in EntryId /\ msg \in Message /\ id.kind = "results" /\ id.run = r /\ id.step = n
      /\ msg.kind = "results"
  BY <1>0, IdTypes, MessageTypes DEF ResultsId, ResultsMessage
<1>3. /\ leaf = AssistantId(r, n) /\ EarlierAttempts(r, n, Len(entries) - 1)
      /\ EntryExists(UserId(r)) /\ Transcript = Append(mem[p], AssistantMessage(cs))
  BY <1>1 DEF Knows, ActingPc
<1>4. r \in OpenRuns /\ OpenRuns \subseteq {r}
  BY <1>0, <1>1, OnlyOpenRun DEF WritingPc
<1>5. /\ DOMAIN entries = 1 .. Len(entries) /\ Len(entries) \in Nat
      /\ entries[Len(entries)].id = AssistantId(r, n)
      /\ \A i \in 1 .. Len(entries) : i \in 1 .. Len(entries) - 1 \/ i = Len(entries)
  BY <1>0, <1>3, IdTypes, LeafIsLast DEF StoreTypeOK
<1>6. ~EntryExists(id) /\ ~EntryExists(ClosingId(r))
  <2>1. AssistantId(r, n).kind = "assistant"
    BY DEF AssistantId
  <2>2. ClosingId(r).run = r /\ ClosingId(r).kind = "closing"
    BY DEF ClosingId
  <2> HIDE DEF id
  <2>3. ASSUME NEW i \in 1 .. Len(entries)
        PROVE  entries[i].id # id /\ entries[i].id # ClosingId(r)
    <3>1. CASE i \in 1 .. Len(entries) - 1
      <4>1. entries[i].id.run = r => /\ entries[i].id.kind # "closing"
                                     /\ entries[i].id.kind # "user" => entries[i].id.step < n
        BY <1>3, <3>1 DEF EarlierAttempts
      <4> QED
        BY <1>0, <1>2, <2>2, <4>1
    <3>2. CASE i = Len(entries)
      BY <1>2, <1>5, <2>1, <2>2, <3>2
    <3> QED
      BY <1>5, <3>1, <3>2
  <2> QED
    BY <1>5, <2>3 DEF EntryExists
<1>7. /\ UnfulfilledSteps(r)' = {m \in UnfulfilledSteps(r) : ResultsId(r, m) # id}
      /\ OpenRuns' = OpenRuns /\ EntryExists(UserId(r))'
  BY <1>0, <1>1, <1>2, <1>3, EntryIds
<1>8. UnfulfilledSteps(r)' = {}
  <2>1. \A m \in UnfulfilledSteps(r) : AssistantId(r, n) = AssistantId(r, m)
    BY <1>3, <1>4 DEF EndInv, OpenEnd
  <2>2. \A m \in UnfulfilledSteps(r) : m = n
    BY <2>1 DEF AssistantId
  <2> QED
    BY <1>7, <2>2
<1> HIDE DEF id
<1>9. EndInv'
  BY <1>0, <1>1, <1>2, <1>4, <1>6, <1>8, EndEntry
<1>10. /\ Len(entries') = Len(entries) + 1
       /\ \A i \in 1 .. Len(entries) : entries'[i] = entries[i]
       /\ entries'[Len(entries) + 1].id = id
       /\ Transcript' = Append(Transcript, msg)
  BY <1>0, <1>1, <1>2, <1>6, EntryChain
<1>11. EarlierAttempts(r, n + 1, Len(entries))'
  <2> DEFINE k == Len(entries)
  <2>1. k \in Nat /\ Len(entries') = k + 1 /\ entries'[k + 1].id = id
    BY <1>5, <1>10
  <2>2. \A i \in 1 .. k : entries'[i] = entries[i] /\ entries[i].id.step \in Nat
    <3>1. \A i \in 1 .. k : entries[i] \in Entry
      BY <1>0 DEF StoreTypeOK
    <3> QED
      BY <1>10, <3>1 DEF Entry, EntryId
  <2>3. \A i \in 1 .. k - 1 : entries[i].id.run = r =>
           entries[i].id.kind # "closing" /\ (entries[i].id.kind # "user" => entries[i].id.step < n)
    BY <1>3 DEF EarlierAttempts
  <2>4. entries[k].id.kind = "assistant" /\ entries[k].id.step = n
    <3>1. entries[k].id = AssistantId(r, n)
      BY <1>5
    <3> QED
      BY <3>1 DEF AssistantId
  <2> HIDE DEF k
  <2> SUFFICES ASSUME NEW i \in 1 .. k + 1, entries'[i].id.run = r
               PROVE  /\ entries'[i].id.kind # "closing"
                      /\ entries'[i].id.kind # "user" => entries'[i].id.step < n + 1
    BY <2>1 DEF EarlierAttempts
  <2>5. i \in 1 .. k - 1 \/ i = k \/ i = k + 1
    BY <2>1
  <2>6. CASE i \in 1 .. k - 1
    <3>1. i \in 1 .. k
      BY <2>1, <2>6
    <3> QED
      BY <1>0, <2>2, <2>3, <2>6, <3>1
  <2>7. CASE i = k
    <3>1. k \in 1 .. k \/ k = 0
      BY <2>1
    <3> QED
      BY <1>0, <2>2, <2>4, <2>7, <3>1
  <2>8. CASE i = k + 1
    BY <1>0, <1>2, <2>1, <2>8
  <2> QED
    BY <2>5, <2>6, <2>7, <2>8
<1>12. EndsOnUser(Transcript)' /\ mem'[p] = Transcript'
  <2>1. Role(msg) = "user"
    BY DEF Role, ResultsMessage
  <2>2. EndsOnUser(Transcript)'
    BY <1>0, <1>2, <1>10, <2>1, TranscriptType, LastMessage
  <2> DEFINE m == mem[p]
             a == AssistantMessage(cs)
  <2>3. m \in Seq(Message) /\ a \in Message /\ msg \in Message
    BY <1>0, <1>2, MessageTypes
  <2> HIDE DEF m, a, msg
  <2>4. m \o <<a, msg>> = Append(Append(m, a), msg)
    BY <2>3
  <2> QED
    BY <1>1, <1>3, <1>10, <2>2, <2>4 DEF m, a
<1> QED
  BY <1>1, <1>4, <1>7, <1>8, <1>9, <1>11, <1>12 DEF Knows, WritingPc, ThinkingPc, ActingPc, FinishPc

\* Recovery answers a batch that was left without results, of which there is
\* at most one, directly under its assistant entry.
LEMMA KnowsBatch ==
    ASSUME RunAssumption, Before, EndInv, MemType, NEW p \in Procs, Knows(p), RecoverBatch(p)
    PROVE  EndInv' /\ Knows(p)'
<1> PICK r : r = task[p].run
  OBVIOUS
<1>0. /\ pc \in [Procs -> Pc] /\ task \in [Procs -> Task] /\ task[p] \in Task
      /\ r \in Nat /\ r < nextSeq /\ TypeOK
      /\ StoreTypeOK /\ ChainInv /\ AtMostOneOpenRun
  BY DEF Before, OneRunInv, RunsBelow, TypeInv, TypeOK, Task
<1>1. pc[p] = "batches" /\ task' = task /\ records' = records /\ mem' = mem
  BY DEF RecoverBatch, At
<1>2. r \in OpenRuns /\ OpenRuns \subseteq {r} /\ OpenEnd(r)
  <2>1. r \in OpenRuns /\ OpenRuns \subseteq {r}
    BY <1>0, <1>1, OnlyOpenRun DEF WritingPc
  <2> QED
    BY <2>1 DEF EndInv
<1>3. CASE UnfulfilledSteps(r) = {} /\ Goto(p, "closing") /\ UNCHANGED <<entries, leaf, nextSeq>>
  <2>1. QuietStep
    BY <1>1, <1>3 DEF QuietStep
  <2>2. OpenRuns' = OpenRuns /\ UnfulfilledSteps(r)' = UnfulfilledSteps(r)
    BY <2>1, QuietReads
  <2>3. pc'[p] = "closing"
    BY <1>0, <1>3 DEF Goto
  <2>4. EndInv'
    BY <2>1, EndQuiet
  <2> QED
    BY <1>1, <1>2, <1>3, <2>2, <2>3, <2>4 DEF Knows, WritingPc, ThinkingPc, ActingPc, FinishPc
<1>4. ASSUME NEW n \in UnfulfilledSteps(r), NEW cs \in IntentLists(r, n), UNCHANGED pc,
             AppendEntry(ResultsId(r, n), InterruptedMessage(cs))
      PROVE  EndInv' /\ Knows(p)'
  <2> DEFINE id == ResultsId(r, n)
             msg == InterruptedMessage(cs)
  <2>1. n \in Nat /\ cs \in Seq(Calls)
    <3>1. n \in Nat
      BY <1>0, RunAssumption, ListTypes
    <3> QED
      BY <1>0, <3>1, RunAssumption, ListTypes
  <2>2. /\ id \in EntryId /\ msg \in Message /\ id.kind = "results" /\ id.run = r
        /\ msg.kind = "interrupted"
    BY <1>0, <2>1, IdTypes, MessageTypes DEF ResultsId, InterruptedMessage
  <2>3. leaf = AssistantId(r, n) /\ ~EntryExists(id)
    BY <1>2 DEF OpenEnd, UnfulfilledSteps
  <2>4. \A m \in UnfulfilledSteps(r) : m = n
    <3>1. \A m \in UnfulfilledSteps(r) : AssistantId(r, m) = AssistantId(r, n)
      BY <1>2, <2>3 DEF OpenEnd
    <3> QED
      BY <3>1 DEF AssistantId
  <2>5. ~EntryExists(ClosingId(r))
    <3>1. AssistantId(r, n) # ClosingId(r)
      BY DEF AssistantId, ClosingId
    <3> QED
      BY <1>2, <2>3, <3>1 DEF OpenEnd
  <2>6. /\ UnfulfilledSteps(r)' = {m \in UnfulfilledSteps(r) : ResultsId(r, m) # id}
        /\ OpenRuns' = OpenRuns
    <3> HIDE DEF id, msg
    <3> QED
      BY <1>0, <1>1, <1>4, <2>2, EntryIds DEF id, msg
  <2>7. UnfulfilledSteps(r)' = {}
    BY <2>4, <2>6
  <2>8. EndInv'
    <3> HIDE DEF id, msg
    <3>1. AppendEntry(id, msg)
      BY <1>4 DEF id, msg
    <3> QED
      BY <1>0, <1>1, <1>2, <2>2, <2>3, <2>5, <2>7, <3>1, EndEntry
  <2> QED
    BY <1>1, <1>2, <1>4, <2>6, <2>8 DEF Knows, WritingPc, ThinkingPc, ActingPc, FinishPc
<1> QED
  BY <1>3, <1>4 DEF RecoverBatch

\* The closing note: afterwards the transcript does not end on a user message.
LEMMA KnowsClosing ==
    ASSUME RunAssumption, Before, EndInv, MemType, NEW p \in Procs, Knows(p), CloseTranscript(p)
    PROVE  EndInv' /\ Knows(p)'
<1> PICK r : r = task[p].run
  OBVIOUS
<1> DEFINE id == ClosingId(r)
<1>0. /\ pc \in [Procs -> Pc] /\ task \in [Procs -> Task] /\ task[p] \in Task
      /\ r \in Nat /\ r < nextSeq
      /\ StoreTypeOK /\ ChainInv /\ AtMostOneOpenRun
  BY DEF Before, OneRunInv, RunsBelow, TypeInv, TypeOK, Task
<1>1. /\ pc[p] = "closing" /\ pc'[p] = "aborting" /\ task' = task /\ records' = records
      /\ PathMessages = Transcript
  BY <1>0, PathIsTranscript DEF CloseTranscript, At, Goto
<1>2. r \in OpenRuns /\ OpenRuns \subseteq {r} /\ OpenEnd(r) /\ UnfulfilledSteps(r) = {}
  <2>1. r \in OpenRuns /\ OpenRuns \subseteq {r}
    BY <1>0, <1>1, OnlyOpenRun DEF WritingPc
  <2> QED
    BY <1>1, <2>1 DEF EndInv, Knows
<1>3. CASE ~EndsOnUser(Transcript) /\ UNCHANGED <<entries, leaf, nextSeq>>
  <2>1. QuietStep
    BY <1>1, <1>3 DEF QuietStep
  <2>2. OpenRuns' = OpenRuns /\ UnfulfilledSteps(r)' = UnfulfilledSteps(r) /\ Transcript' = Transcript
    BY <2>1, QuietReads
  <2>3. EndInv'
    BY <2>1, EndQuiet
  <2> QED
    BY <1>1, <1>2, <1>3, <2>2, <2>3 DEF Knows, WritingPc, ThinkingPc, ActingPc, FinishPc, EndsOnUser
<1>4. CASE EndsOnUser(Transcript) /\ AppendEntry(id, ClosingMessage)
  <2>1. id \in EntryId /\ id.kind = "closing" /\ id.run = r /\ ClosingMessage \in Message
    <3>1. <<>> \in Seq(Calls)
      OBVIOUS
    <3> QED
      BY <1>0, <3>1, IdTypes, MessageTypes DEF ClosingId
  <2>2. Role(ClosingMessage) = "assistant"
    BY DEF Role, ClosingMessage
  <2>3. ~EntryExists(id)
    <3> SUFFICES ASSUME EntryExists(id)
                 PROVE  FALSE
      OBVIOUS
    <3>1. leaf = id
      BY <1>2 DEF OpenEnd
    <3>2. /\ Len(entries) \in DOMAIN entries /\ entries[Len(entries)].id = id
          /\ Transcript[Len(Transcript)] = entries[Len(entries)].msg
      BY <1>0, <2>1, <3>1, LeafIsLast
    <3>3. entries[Len(entries)].msg = ClosingMessage
      BY <2>1, <3>2 DEF EndInv, MessageInv
    <3> QED
      BY <1>4, <2>2, <3>2, <3>3 DEF EndsOnUser
  <2> HIDE DEF id
  <2>4. /\ \A m \in UnfulfilledSteps(r)' : m \in UnfulfilledSteps(r)
        /\ OpenRuns' = OpenRuns
    BY <1>0, <1>1, <1>4, <2>1, EntryIds
  <2>5. UnfulfilledSteps(r)' = {}
    BY <1>2, <2>4
  <2>6. Transcript' = Append(Transcript, ClosingMessage)
    BY <1>0, <1>4, <2>1, <2>3, EntryChain
  <2>7. ~EndsOnUser(Transcript')
    BY <1>0, <2>1, <2>2, <2>6, TranscriptType, LastMessage
  <2>8. EndInv'
    BY <1>0, <1>1, <1>2, <1>4, <2>1, <2>3, <2>5, EndEntry DEF id
  <2> QED
    BY <1>1, <1>2, <2>4, <2>5, <2>7, <2>8 DEF Knows, WritingPc, ThinkingPc, ActingPc, FinishPc
<1> QED
  BY <1>1, <1>3, <1>4 DEF CloseTranscript

\* What a process knows stays true while it takes its steps.
LEMMA KnowsStep ==
    ASSUME RunAssumption, Before, EndInv, MemType, NEW p \in Procs, Knows(p),
           Acquire(p) \/ Progress(p) \/ FaultStep(p)
    PROVE  EndInv' /\ Knows(p)'
<1>0. TypeInv /\ ChainInv /\ AtMostOneOpenRun
  BY DEF Before, OneRunInv
<1>1. CASE \/ Acquire(p) \/ ReadOpenRun(p) \/ AbortMarker(p) \/ GiveUp(p) \/ CheckNoOpenRun(p)
           \/ UpdateMeta(p) \/ Exit(p) \/ Cancel(p) \/ Crash(p)
  <2>1. QuietStep
    BY <1>1 DEF Acquire, ReadOpenRun, AbortMarker, GiveUp, CheckNoOpenRun, UpdateMeta, Exit, Cancel,
       Crash, storeVars, QuietStep
  <2> QED
    BY <1>0, <1>1, <2>1, EndQuiet, KnowsPrepare
<1>2. CASE MarkRun(p) \/ ProviderResponds(p) \/ RunTools(p) \/ FinishMarker(p)
  <2>1. QuietStep
    BY <1>2 DEF MarkRun, ProviderResponds, RunTools, FinishMarker, storeVars, QuietStep
  <2> QED
    BY <1>0, <1>2, <2>1, EndQuiet, KnowsTurn
<1>3. CASE MaxTurnsReached(p) \/ ProviderFails(p) \/ WriteFails(p)
  <2>1. QuietStep
    BY <1>3 DEF MaxTurnsReached, ProviderFails, WriteFails, storeVars, QuietStep
  <2> QED
    BY <1>0, <1>3, <2>1, EndQuiet, KnowsFailure
<1>4. CASE StartRun(p) \/ StepAttempt(p) \/ LogIntent(p) \/ AbortRun(p) \/ FinishRun(p)
  BY <1>4, KnowsRecord
<1> QED
  BY <1>1, <1>2, <1>3, <1>4, RunAssumption, KnowsUser, KnowsAssistant, KnowsResults, KnowsBatch,
     KnowsClosing DEF Progress, Prepare, Send, FaultStep

\* The messages in memory are messages.
LEMMA MemStep ==
    ASSUME RunAssumption, TypeInv, ChainInv, MemType, NEW p \in Procs,
           Acquire(p) \/ Progress(p) \/ FaultStep(p)
    PROVE  MemType'
<1>0. /\ mem \in [Procs -> Seq(Message)] /\ mem[p] \in Seq(Message)
      /\ task[p] \in Task /\ task[p].calls \in Seq(Calls)
      /\ PathMessages \in Seq(Message)
  BY PathIsTranscript, TranscriptType DEF MemType, TypeInv, TypeOK, Task
<1>1. \/ mem' = mem
      \/ \E t \in Seq(Message) : mem' = [mem EXCEPT ![p] = t]
  <2>1. <<>> \in Seq(Message)
    OBVIOUS
  <2>2. /\ UserMessage \in Message
        /\ AssistantMessage(task[p].calls) \in Message
        /\ ResultsMessage(task[p].calls) \in Message
    BY <1>0, MessageTypes
  <2> DEFINE a == AssistantMessage(task[p].calls)
             m == ResultsMessage(task[p].calls)
  <2>3. /\ Append(mem[p], UserMessage) \in Seq(Message)
        /\ Append(mem[p], a) \in Seq(Message)
        /\ mem[p] \o <<a, m>> \in Seq(Message)
    <3> DEFINE t == mem[p]
    <3>1. t \in Seq(Message) /\ a \in Message /\ m \in Message /\ UserMessage \in Message
      BY <1>0, <2>2
    <3> HIDE DEF t, a, m
    <3>2. Append(t, UserMessage) \in Seq(Message) /\ Append(t, a) \in Seq(Message)
          /\ t \o <<a, m>> \in Seq(Message)
      BY <3>1
    <3> QED
      BY <3>2 DEF t
  <2>4. CASE \/ ReadOpenRun(p) \/ AbortMarker(p)
    BY <1>0, <2>4 DEF ReadOpenRun, AbortMarker, LoadTranscript
  <2>5. CASE AppendUser(p)
    BY <2>3, <2>5 DEF AppendUser
  <2>6. CASE AppendAssistant(p)
    BY <2>3, <2>6 DEF AppendAssistant
  <2>7. CASE AppendResults(p)
    BY <2>3, <2>7 DEF AppendResults
  <2>8. CASE Exit(p) \/ Crash(p)
    BY <2>1, <2>8 DEF Exit, Crash
  <2>9. CASE \/ Acquire(p) \/ RecoverBatch(p) \/ CloseTranscript(p) \/ AbortRun(p) \/ GiveUp(p)
             \/ CheckNoOpenRun(p) \/ StartRun(p) \/ MarkRun(p) \/ StepAttempt(p) \/ MaxTurnsReached(p)
             \/ ProviderResponds(p) \/ LogIntent(p) \/ RunTools(p) \/ FinishRun(p) \/ FinishMarker(p)
             \/ UpdateMeta(p) \/ ProviderFails(p) \/ WriteFails(p) \/ Cancel(p)
    BY <2>9 DEF Acquire, RecoverBatch, CloseTranscript, AbortRun, GiveUp, CheckNoOpenRun, StartRun,
       MarkRun, StepAttempt, MaxTurnsReached, ProviderResponds, LogIntent, RunTools, FinishRun,
       FinishMarker, UpdateMeta, ProviderFails, WriteFails, Cancel
  <2> QED
    BY <2>4, <2>5, <2>6, <2>7, <2>8, <2>9 DEF Progress, Prepare, Send, FaultStep
<1> QED
  BY <1>0, <1>1 DEF MemType

\* EndsInv is inductive on top of the invariants proved before.
LEMMA EndsStep ==
    ASSUME RunAssumption, Before, EndsInv, [Next]_vars
    PROVE  EndsInv'
<1>0. TypeInv /\ LockInv /\ ChainInv /\ MemType /\ EndInv /\ \A q \in Procs : Knows(q)
  BY DEF Before, OneRunInv, EndsInv
<1>1. CASE UNCHANGED vars
  <2>1. QuietStep /\ pc' = pc /\ task' = task /\ mem' = mem
    BY <1>1 DEF vars, QuietStep
  <2>2. EndInv'
    BY <1>0, <2>1, EndQuiet
  <2>3. /\ entries' = entries /\ leaf' = leaf /\ Transcript' = Transcript /\ OpenRuns' = OpenRuns
        /\ \A x : EntryExists(x)' = EntryExists(x)
        /\ \A r : UnfulfilledSteps(r)' = UnfulfilledSteps(r)
        /\ \A r, n, k : EarlierAttempts(r, n, k)' = EarlierAttempts(r, n, k)
    BY <2>1, QuietReads
  <2>4. ASSUME NEW q \in Procs
        PROVE  Knows(q)'
    <3>1. Knows(q)
      BY <1>0
    <3> QED
      BY <2>1, <2>3, <3>1 DEF Knows
  <2> QED
    BY <1>0, <2>1, <2>2, <2>4 DEF EndsInv, MemType
<1>2. CASE Next
  <2>1. PICK p \in Procs : Acquire(p) \/ Progress(p) \/ FaultStep(p)
    BY <1>2 DEF Next
  <2>2. EndInv' /\ Knows(p)'
    BY <1>0, <2>1, RunAssumption, KnowsStep
  <2>3. ASSUME NEW q \in Procs, q # p
        PROVE  Knows(q)'
    <3>1. pc'[q] = "down"
      BY <1>0, <2>1, <2>3, RunAssumption, OthersStay, OthersRest DEF At
    <3> QED
      BY <3>1 DEF Knows, WritingPc, ThinkingPc, ActingPc, FinishPc
  <2>4. MemType'
    BY <1>0, <2>1, RunAssumption, MemStep
  <2> QED
    BY <2>2, <2>3, <2>4 DEF EndsInv
<1> QED
  BY <1>1, <1>2

\* The end of the transcript of an open run, and what its process knows of it,
\* in every reachable state.
THEOREM EndsInvariant == Spec => []EndsInv
<1>1. Init => EndsInv
  <2> SUFFICES ASSUME Init
               PROVE  EndsInv
    OBVIOUS
  <2>1. /\ entries = <<>> /\ records = <<>> /\ OpenRuns = {} /\ RecordsOf("tool_started") = {}
    BY DEF Init, StoreInit, OpenRuns, StartedRuns, RecordsOf
  <2>2. EndInv
    BY <2>1 DEF EndInv, MessageInv
  <2>3. MemType
    <3>1. <<>> \in Seq(Message)
      OBVIOUS
    <3> QED
      BY <3>1 DEF Init, MemType
  <2>4. \A p \in Procs : Knows(p)
    BY DEF Init, Knows, WritingPc, ThinkingPc, ActingPc, FinishPc
  <2> QED
    BY <2>2, <2>3, <2>4 DEF EndsInv
<1>2. OneRunInv /\ ClosedInv /\ ChainInv /\ EndsInv /\ [Next]_vars => EndsInv'
  BY RunAssumption, EndsStep DEF Before, ClosedInv
<1> QED
  BY <1>1, <1>2, OneRunInvariant, ClosedInvariant, PathInvariant, PTL DEF Spec

\* At every provider call the messages in memory are those a restarted process
\* would rebuild from the store: the model is never shown anything else.
THEOREM ModelSeesTheTranscript == Spec => []ModelSeesDurableTranscript
<1>1. PathInv /\ EndsInv => ModelSeesDurableTranscript
  BY DEF PathInv, EndsInv, Knows, ModelSeesDurableTranscript, At, ThinkingPc
<1> QED
  BY <1>1, PathInvariant, EndsInvariant, PTL

-----------------------------------------------------------------------------
(* What a finish record claims is so.                                      *)

\* The claim of the i-th record, a finish record.
Settled(i) ==
    /\ records[i].outcome = "completed" =>
          \E j \in DOMAIN entries :
              /\ entries[j].id.run = records[i].run
              /\ entries[j].msg = AssistantMessage(<<>>)
              /\ \A k \in DOMAIN entries : entries[k].id.run = records[i].run => k <= j
    /\ records[i].outcome = "aborted" =>
          /\ UnfulfilledSteps(records[i].run) = {}
          /\ \A j \in DOMAIN entries :
               (/\ entries[j].seq < records[i].seq
                /\ \A k \in DOMAIN entries : k > j => entries[k].seq > records[i].seq)
               => Role(entries[j].msg) = "assistant"

LEMMA SettledParts == ClosedRunIsSettled <=> \A i \in RecordsOf("operation_finished") : Settled(i)
BY DEF ClosedRunIsSettled, Settled

LEMMA SettledPartsNext ==
    ClosedRunIsSettled' <=> \A i \in RecordsOf("operation_finished")' : Settled(i)'
BY DEF ClosedRunIsSettled, Settled

\* An entry of a run that is not finished changes none of the claims.
LEMMA SettledEntry ==
    ASSUME StoreTypeOK, ChainInv, SharedSequence, NEW id \in EntryId, NEW msg \in Message,
           AppendEntry(id, msg), records' = records, id.run \notin FinishedRuns,
           NEW i \in RecordsOf("operation_finished"), Settled(i)
    PROVE  Settled(i)'
<1>0. /\ i \in DOMAIN records /\ records[i].run # id.run
      /\ records[i].run \in Nat /\ records[i].seq \in Nat /\ records[i].seq < nextSeq
      /\ nextSeq \in Nat
  <2>1. records[i] \in Record
    BY DEF StoreTypeOK, RecordsOf
  <2> QED
    BY <2>1 DEF FinishedRuns, RecordsOf, Record, SharedSequence, StoreTypeOK
<1>1. UnfulfilledSteps(records[i].run)' \subseteq UnfulfilledSteps(records[i].run)
  <2> PICK r : r = records[i].run
    OBVIOUS
  <2>1. UnfulfilledSteps(r)' \subseteq UnfulfilledSteps(r)
    BY EntryIds
  <2> QED
    BY <2>1
<1>2. CASE EntryExists(id)
  <2>1. entries' = entries
    BY <1>2 DEF AppendEntry
  <2> QED
    BY <1>1, <2>1 DEF Settled
<1>3. CASE ~EntryExists(id)
  <2> DEFINE n == Len(entries)
  <2>1. /\ DOMAIN entries = 1 .. n /\ n \in Nat /\ DOMAIN entries' = 1 .. n + 1
        /\ \A j \in 1 .. n : entries'[j] = entries[j]
        /\ entries'[n + 1].id = id
    BY <1>3, EntryChain
  <2>2. entries'[n + 1].seq = nextSeq
    <3>1. entries' = Append(entries, [id |-> id, parent |-> leaf, seq |-> nextSeq, msg |-> msg])
      BY <1>3 DEF AppendEntry
    <3> QED
      BY <3>1 DEF StoreTypeOK
  <2>3. n + 1 \in DOMAIN entries' /\ \A j \in DOMAIN entries : j \in DOMAIN entries'
    BY <2>1
  <2>4. \A j \in DOMAIN entries' : j \in DOMAIN entries \/ j = n + 1
    BY <2>1
  <2> HIDE DEF n
  <2>5. ASSUME records[i].outcome = "completed"
        PROVE  \E j \in DOMAIN entries' :
                  /\ entries'[j].id.run = records[i].run
                  /\ entries'[j].msg = AssistantMessage(<<>>)
                  /\ \A k \in DOMAIN entries' : entries'[k].id.run = records[i].run => k <= j
    <3>1. PICK j \in DOMAIN entries :
                  /\ entries[j].id.run = records[i].run
                  /\ entries[j].msg = AssistantMessage(<<>>)
                  /\ \A k \in DOMAIN entries : entries[k].id.run = records[i].run => k <= j
      BY <2>5 DEF Settled
    <3>2. \A k \in DOMAIN entries' : entries'[k].id.run = records[i].run => k \in DOMAIN entries
      BY <1>0, <2>1, <2>4
    <3> QED
      BY <2>1, <2>3, <3>1, <3>2
  <2>6. ASSUME records[i].outcome = "aborted", NEW j \in DOMAIN entries',
               entries'[j].seq < records[i].seq,
               \A k \in DOMAIN entries' : k > j => entries'[k].seq > records[i].seq
        PROVE  Role(entries'[j].msg) = "assistant"
    <3>1. j \in DOMAIN entries
      BY <1>0, <2>2, <2>4, <2>6
    <3>2. \A k \in DOMAIN entries : k > j => entries[k].seq > records[i].seq
      BY <2>1, <2>3, <2>6
    <3> QED
      BY <2>1, <2>6, <3>1, <3>2 DEF Settled
  <2>7. records[i].outcome = "aborted" => UnfulfilledSteps(records[i].run)' = {}
    BY <1>1 DEF Settled
  <2> QED
    BY <2>5, <2>6, <2>7 DEF Settled
<1> QED
  BY <1>2, <1>3

\* Nor does a record, unless it is an intent of the same run.
LEMMA SettledRecord ==
    ASSUME StoreTypeOK, NEW row \in Row, AppendRecord(row), entries' = entries,
           NEW i \in RecordsOf("operation_finished"), Settled(i),
           row.kind = "tool_started" => row.run # records[i].run
    PROVE  Settled(i)'
<1>1. records'[i] = records[i]
  BY RecordReads DEF RecordsOf
<1>2. UnfulfilledSteps(records[i].run)' \subseteq UnfulfilledSteps(records[i].run)
  <2> PICK r : r = records[i].run
    OBVIOUS
  <2>1. UnfulfilledSteps(r)' \subseteq UnfulfilledSteps(r)
    BY RecordIntents
  <2> QED
    BY <1>1, <2>1
<1> QED
  BY <1>1, <1>2 DEF Settled

\* A finish record is written only when what it claims is so.
LEMMA SettledFinish ==
    ASSUME Before, EndsInv, SharedSequence, NEW p \in Procs, FinishRun(p) \/ AbortRun(p),
           NEW i \in RecordsOf("operation_finished")', i \notin RecordsOf("operation_finished")
    PROVE  Settled(i)'
<1> PICK r, o : /\ r = task[p].run
                /\ o = IF AbortRun(p) THEN "aborted" ELSE task[p].outcome
  OBVIOUS
<1> DEFINE row == FinishedRow(r, o)
<1>0. /\ task[p] \in Task /\ r \in Nat /\ o \in Outcome \union {"none"}
      /\ StoreTypeOK /\ ChainInv /\ nextSeq \in Nat
      /\ DOMAIN entries = 1 .. Len(entries) /\ Len(entries) \in Nat
  BY DEF Before, OneRunInv, TypeInv, TypeOK, StoreTypeOK, Task, Outcome
<1>1. AppendRecord(row) /\ entries' = entries
  BY DEF FinishRun, AbortRun, At
<1>2. row \in Row /\ row.kind = "operation_finished" /\ row.run = r /\ row.outcome = o
  BY <1>0 DEF FinishedRow, Row, RecordKind
<1> HIDE DEF row
<1>3. records'[i].run = r /\ records'[i].outcome = o /\ records'[i].seq = nextSeq
  <2>1. i \in DOMAIN records' /\ records'[i].kind = "operation_finished"
    BY DEF RecordsOf
  <2>2. ~(i \in DOMAIN records /\ records'[i] = records[i])
    BY <2>1 DEF RecordsOf
  <2>3. records'[i] = Numbered(row, nextSeq)
    BY <1>0, <1>1, <1>2, <2>1, <2>2, RecordReads
  <2> QED
    BY <1>2, <2>3 DEF Numbered
<1>4. UnfulfilledSteps(r)' = UnfulfilledSteps(r)
  BY <1>0, <1>1, <1>2, RecordIntents
<1>5. Transcript \in Seq(Message) /\ Len(Transcript) = Len(entries)
  BY <1>0, TranscriptType
<1>6. CASE AbortRun(p)
  <2>1. o = "aborted" /\ UnfulfilledSteps(r) = {} /\ ~EndsOnUser(Transcript)
    BY <1>6 DEF AbortRun, At, EndsInv, Knows
  <2>2. ASSUME NEW j \in DOMAIN entries, \A k \in DOMAIN entries : k > j => entries[k].seq > nextSeq
        PROVE  Role(entries[j].msg) = "assistant"
    <3>1. \A k \in DOMAIN entries : ~(entries[k].seq > nextSeq)
      <4>1. \A k \in DOMAIN entries : entries[k] \in Entry
        BY <1>0 DEF StoreTypeOK
      <4>2. \A k \in DOMAIN entries : entries[k].seq \in Nat
        BY <4>1 DEF Entry
      <4> QED
        BY <1>0, <4>2 DEF SharedSequence
    <3>2. j = Len(entries)
      BY <1>0, <2>2, <3>1
    <3>3. Transcript[Len(Transcript)] = entries[j].msg /\ Transcript # <<>>
      BY <1>0, <1>5, <3>2 DEF Transcript
    <3>4. Role(entries[j].msg) # "user"
      BY <2>1, <3>3 DEF EndsOnUser
    <3> QED
      BY <3>4 DEF Role
  <2>3. UnfulfilledSteps(records[i].run)' = {}
    BY <1>3, <1>4, <2>1
  <2> QED
    BY <1>1, <1>3, <2>1, <2>2, <2>3 DEF Settled
<1>7. CASE FinishRun(p) /\ ~AbortRun(p)
  <2>1. o = task[p].outcome /\ pc[p] \in FinishPc /\ Knows(p)
    BY <1>7 DEF FinishRun, At, FinishPc, EndsInv
  <2>2. o \in {"completed", "truncated", "failed"}
    BY <2>1 DEF Knows
  <2>3. CASE o = "completed"
    <3>1. leaf = AssistantId(r, task[p].attempt)
          /\ Transcript[Len(Transcript)] = AssistantMessage(<<>>)
      BY <2>1, <2>3 DEF Knows
    <3>2. AssistantId(r, task[p].attempt) \in EntryId /\ AssistantId(r, task[p].attempt).run = r
      BY <1>0, IdTypes DEF AssistantId, Task
    <3>3. Len(entries) \in DOMAIN entries /\ entries[Len(entries)].id.run = r
          /\ entries[Len(entries)].msg = AssistantMessage(<<>>)
      BY <1>0, <3>1, <3>2, LeafIsLast
    <3>4. \A k \in DOMAIN entries : k <= Len(entries)
      BY <1>0
    <3> QED
      BY <1>1, <1>3, <2>3, <3>3, <3>4 DEF Settled
  <2>4. CASE o # "completed"
    BY <1>3, <2>2, <2>4 DEF Settled
  <2> QED
    BY <2>3, <2>4
<1> QED
  BY <1>6, <1>7

\* What closes a run is true, and no later step makes it false: a run recorded
\* as completed ends in a final answer, and one recovered as aborted has a
\* result for each intent and did not end on a user message.
THEOREM ClosedRunsAreSettled == Spec => []ClosedRunIsSettled
<1>1. Init => ClosedRunIsSettled
  BY DEF Init, StoreInit, ClosedRunIsSettled, RecordsOf
<1>2. OneRunInv /\ ClosedInv /\ ChainInv /\ EndsInv /\ ClosedRunIsSettled /\ [Next]_vars
         => ClosedRunIsSettled'
  <2> SUFFICES ASSUME OneRunInv, ClosedInv, ChainInv, EndsInv, ClosedRunIsSettled, [Next]_vars
               PROVE  ClosedRunIsSettled'
    OBVIOUS
  <2>0. TypeInv /\ StoreTypeOK /\ SharedSequence /\ Before
        /\ \A i \in RecordsOf("operation_finished") : Settled(i)
    BY SettledParts DEF ClosedInv, TypeInv, TypeOK, Before
  <2>1. CASE QuietStep
    <3>1. \A r : UnfulfilledSteps(r)' = UnfulfilledSteps(r)
      BY <2>1, QuietReads
    <3>2. /\ RecordsOf("operation_finished")' = RecordsOf("operation_finished")
          /\ records' = records /\ entries' = entries
      BY <2>1 DEF QuietStep, RecordsOf
    <3> QED
      BY <2>0, <3>1, <3>2, SettledPartsNext DEF Settled
  <2>2. CASE Next
    <3>1. PICK p \in Procs : Acquire(p) \/ Progress(p) \/ FaultStep(p)
      BY <2>2 DEF Next
    <3>2. ASSUME NEW id \in EntryId, NEW msg \in Message, EntryStep(p, id, msg)
          PROVE  ClosedRunIsSettled'
      <4>1. id.run \notin FinishedRuns
        BY <3>2 DEF EntryStep, ClosedInv, WriterInv
      <4>2. RecordsOf("operation_finished")' = RecordsOf("operation_finished")
        BY <3>2 DEF EntryStep, RecordsOf
      <4>3. \A i \in RecordsOf("operation_finished") : Settled(i)'
        BY <2>0, <3>2, <4>1, SettledEntry DEF EntryStep
      <4> QED
        BY <4>2, <4>3, SettledPartsNext
    <3>3. ASSUME NEW row \in Row, RecordStep(p, row)
          PROVE  ClosedRunIsSettled'
      <4>1. AppendRecord(row) /\ entries' = entries
        BY <3>3 DEF RecordStep
      <4>2. ASSUME NEW i \in RecordsOf("operation_finished")
            PROVE  Settled(i)'
        <5>1. row.kind = "tool_started" => row.run \notin FinishedRuns
          BY <3>3 DEF RecordStep, ClosedInv, WriterInv
        <5>2. row.kind = "tool_started" => row.run # records[i].run
          BY <5>1 DEF FinishedRuns
        <5> QED
          BY <2>0, <4>1, <5>2, SettledRecord
      <4>3. ASSUME NEW i \in RecordsOf("operation_finished")', i \notin RecordsOf("operation_finished")
            PROVE  Settled(i)'
        <5>1. row.kind = "operation_finished"
          BY <2>0, <4>1, <4>3, RecordReads DEF RecordsOf, Numbered
        <5>2. pc'[p] \in {"clear", "unmarking"} /\ records' # records
          BY <3>3, <4>3, <5>1 DEF RecordStep, RecordsOf
        <5>3. FinishRun(p) \/ AbortRun(p)
          <6>1. pc \in [Procs -> Pc]
            BY <2>0 DEF TypeInv, TypeOK
          <6>2. ~(StartRun(p) \/ StepAttempt(p) \/ LogIntent(p))
            BY <5>2, <6>1 DEF StartRun, StepAttempt, LogIntent, Goto
          <6>3. \/ FinishRun(p) \/ AbortRun(p) \/ StartRun(p) \/ StepAttempt(p) \/ LogIntent(p)
                \/ records' = records
            BY <3>1 DEF Progress, Prepare, Send, FaultStep, Acquire, ReadOpenRun, RecoverBatch,
               CloseTranscript, AbortMarker, GiveUp, CheckNoOpenRun, MarkRun, AppendUser,
               MaxTurnsReached, ProviderResponds, AppendAssistant, RunTools, AppendResults,
               FinishMarker, UpdateMeta, Exit, ProviderFails, WriteFails, Cancel, Crash, storeVars
          <6> QED
            BY <5>2, <6>2, <6>3
        <5> QED
          BY <2>0, <4>3, <5>3, SettledFinish
      <4> QED
        BY <4>2, <4>3, SettledPartsNext
    <3> QED
      BY <2>0, <2>1, <3>1, <3>2, <3>3, RunAssumption, StepShape
  <2> QED
    BY <2>1, <2>2 DEF vars, QuietStep
<1> QED
  BY <1>1, <1>2, OneRunInvariant, ClosedInvariant, PathInvariant, EndsInvariant, PTL DEF Spec

-----------------------------------------------------------------------------
(* Settled calls, and the contract.                                         *)

\* Some entry of run r has the tool_use id c.
Used(r, c) ==
    \E i \in DOMAIN entries : /\ entries[i].id.run = r
                              /\ \E j \in DOMAIN entries[i].msg.calls : entries[i].msg.calls[j] = c

Journaled(r, n, c) ==
    \E i \in RecordsOf("tool_started") :
        records[i].run = r /\ records[i].step = n /\ records[i].call = c

\* Of the attempts of a run, those before the current one have assistant
\* entries at most; a run that has just started has no entries at all.
Attempts(r, n) ==
    \A i \in DOMAIN entries :
        (entries[i].id.run = r /\ entries[i].id.kind = "assistant") => entries[i].id.step < n

FreshInv ==
    /\ \A i \in DOMAIN entries : entries[i].id.run < nextSeq
    /\ \A p \in Procs :
          /\ pc[p] \in {"mark", "user"} => \A i \in DOMAIN entries : entries[i].id.run # task[p].run
          /\ pc[p] \in {"step", "provider", "assistant"} => Attempts(task[p].run, task[p].attempt)
          /\ pc[p] \in {"intents", "tools", "results"} => Attempts(task[p].run, task[p].attempt + 1)

Distinct(cs) == \A i, j \in DOMAIN cs : cs[i] = cs[j] => i = j

\* Who has journaled what: an intent belongs to a call of the transcript, the
\* calls of a new response to none, and a batch in progress is journaled as far
\* as it is logged and no farther.
BatchInv ==
    /\ \A i \in RecordsOf("tool_started") : Used(records[i].run, records[i].call)
    /\ \A p \in Procs :
          LET t == task[p] IN
          /\ pc[p] = "assistant" =>
                Distinct(t.calls) /\ \A c \in DOMAIN t.calls : ~Used(t.run, t.calls[c])
          /\ pc[p] = "intents" =>
                /\ Distinct(t.calls)
                /\ \A c \in DOMAIN t.calls :
                      /\ Used(t.run, t.calls[c])
                      /\ c <= t.logged => Journaled(t.run, t.attempt, t.calls[c])
                      /\ c > t.logged => \A i \in RecordsOf("tool_started") :
                             records[i].run = t.run => records[i].call # t.calls[c]
          /\ pc[p] = "tools" =>
                \A c \in DOMAIN t.calls : Journaled(t.run, t.attempt, t.calls[c])

IntentInv == FreshInv /\ BatchInv
-----------------------------------------------------------------------------
(* The steps.                                                              *)

\* The ids a provider asks for are new to the run and differ.
LEMMA NewCalls ==
    ASSUME ReuseIds = FALSE, NEW r, NEW cs \in Responses(r)
    PROVE  Distinct(cs) /\ \A c \in DOMAIN cs : ~Used(r, cs[c])
<1>1. /\ \A i, j \in DOMAIN cs : cs[i] = cs[j] => i = j
      /\ \A i \in DOMAIN cs : cs[i] \notin UsedCalls(r)
  BY DEF Responses
<1>2. \A c : Used(r, c) => c \in UsedCalls(r)
  BY DEF Used, UsedCalls
<1> QED
  BY <1>1, <1>2 DEF Distinct

\* Points where the invariant says something about the run of a process.
RunPc == {"mark", "user", "step", "provider", "assistant", "intents", "tools", "results"}

\* What holds of the store, and of the process that moves, holds of all: the
\* others are at rest.
LEMMA OneMoves ==
    ASSUME RunAssumption, TypeInv, LockInv, NEW p \in Procs, Acquire(p) \/ Progress(p) \/ FaultStep(p),
           NEW q \in Procs, q # p
    PROVE  pc'[q] \notin RunPc
<1>1. pc'[q] = "down"
  BY OthersStay, OthersRest DEF At
<1> QED
  BY <1>1 DEF RunPc

\* The store part of the invariant.
StoreIntents ==
    /\ \A i \in DOMAIN entries : entries[i].id.run < nextSeq
    /\ \A i \in RecordsOf("tool_started") : Used(records[i].run, records[i].call)

\* An entry of a run that has been numbered keeps it.
LEMMA EntryKeeps ==
    ASSUME TypeInv, StoreIntents, NEW id \in EntryId, NEW msg \in Message, AppendEntry(id, msg),
           id.run < nextSeq, records' = records
    PROVE  StoreIntents'
<1>0. StoreTypeOK /\ nextSeq \in Nat /\ RecordsOf("tool_started")' = RecordsOf("tool_started")
  BY DEF TypeInv, TypeOK, StoreTypeOK, RecordsOf
<1>1. nextSeq' \in Nat
  BY <1>0, AppendEntryType
<1>2. \A i \in DOMAIN entries : entries[i].id.run \in Nat
  <2>1. \A i \in DOMAIN entries : entries[i] \in Entry
    BY <1>0 DEF StoreTypeOK
  <2> QED
    BY <2>1 DEF Entry, EntryId
<1>3. id.run \in Nat
  BY DEF EntryId
<1>4. \A i \in DOMAIN entries' : entries'[i].id.run < nextSeq'
  BY <1>0, <1>1, <1>2, <1>3, EntryReads DEF StoreIntents
<1>5. \A i \in RecordsOf("tool_started") : Used(records[i].run, records[i].call)'
  <2> TAKE i \in RecordsOf("tool_started")
  <2>1. Used(records[i].run, records[i].call)
    BY DEF StoreIntents
  <2>2. \A j \in DOMAIN entries : j \in DOMAIN entries' /\ entries'[j] = entries[j]
    BY <1>0, EntryReads
  <2> QED
    BY <2>1, <2>2 DEF Used
<1> QED
  BY <1>0, <1>4, <1>5 DEF StoreIntents
\* What FreshInv and BatchInv say of one process.
Own(p) ==
    /\ pc[p] \in {"mark", "user"} => \A i \in DOMAIN entries : entries[i].id.run # task[p].run
    /\ pc[p] \in {"step", "provider", "assistant"} => Attempts(task[p].run, task[p].attempt)
    /\ pc[p] \in {"intents", "tools", "results"} => Attempts(task[p].run, task[p].attempt + 1)
    /\ pc[p] = "assistant" =>
          /\ Distinct(task[p].calls)
          /\ \A c \in DOMAIN task[p].calls : ~Used(task[p].run, task[p].calls[c])
    /\ pc[p] = "intents" =>
          /\ Distinct(task[p].calls)
          /\ \A c \in DOMAIN task[p].calls :
                /\ Used(task[p].run, task[p].calls[c])
                /\ c <= task[p].logged => Journaled(task[p].run, task[p].attempt, task[p].calls[c])
                /\ c > task[p].logged => \A i \in RecordsOf("tool_started") :
                       records[i].run = task[p].run => records[i].call # task[p].calls[c]
    /\ pc[p] = "tools" =>
          \A c \in DOMAIN task[p].calls : Journaled(task[p].run, task[p].attempt, task[p].calls[c])

LEMMA IntentParts == IntentInv <=> StoreIntents /\ \A p \in Procs : Own(p)
BY DEF IntentInv, FreshInv, BatchInv, StoreIntents, Own

LEMMA IntentPartsNext == IntentInv' <=> StoreIntents' /\ \A p \in Procs : Own(p)'
BY DEF IntentInv, FreshInv, BatchInv, StoreIntents, Own

\* Steps that leave entries and records alone.
LEMMA OwnQuiet ==
    ASSUME RunAssumption, ReuseIds = FALSE, TypeInv, StoreIntents, NEW p \in Procs, Own(p),
           \/ Acquire(p) \/ ReadOpenRun(p) \/ AbortMarker(p) \/ GiveUp(p) \/ CheckNoOpenRun(p)
           \/ MarkRun(p) \/ MaxTurnsReached(p) \/ ProviderResponds(p) \/ RunTools(p)
           \/ FinishMarker(p) \/ UpdateMeta(p) \/ Exit(p) \/ FaultStep(p)
    PROVE  StoreIntents' /\ Own(p)'
<1> QuietStep
  BY DEF Acquire, ReadOpenRun, AbortMarker, GiveUp, CheckNoOpenRun, MarkRun, MaxTurnsReached,
     ProviderResponds, RunTools, FinishMarker, UpdateMeta, Exit, FaultStep, ProviderFails, WriteFails,
     Cancel, Crash, storeVars, QuietStep
<1>0. pc \in [Procs -> Pc] /\ task \in [Procs -> Task] /\ task[p] \in Task
  BY DEF TypeInv, TypeOK
<1>1. /\ \A k : RecordsOf(k)' = RecordsOf(k)
      /\ \A r, n : Attempts(r, n)' = Attempts(r, n)
      /\ \A r, c : Used(r, c)' = Used(r, c)
      /\ \A r, n, c : Journaled(r, n, c)' = Journaled(r, n, c)
      /\ records' = records /\ entries' = entries /\ nextSeq' = nextSeq
  BY DEF QuietStep, RecordsOf, Attempts, Used, Journaled
<1>2. StoreIntents'
  BY <1>1 DEF StoreIntents
<1>3. CASE MarkRun(p) \/ RunTools(p)
  <2>1. task' = task /\ \/ pc[p] = "mark" /\ pc'[p] = "user"
                        \/ pc[p] = "tools" /\ pc'[p] = "results"
    BY <1>0, <1>3 DEF MarkRun, RunTools, At, Goto
  <2> QED
    BY <1>1, <1>2, <2>1 DEF Own
<1>4. CASE ProviderResponds(p)
  <2>1. PICK cs \in Responses(task[p].run), s \in {"end_turn", "max_tokens"} :
           task' = [task EXCEPT ![p].calls = cs, ![p].stop = s, ![p].logged = 0]
    BY <1>4 DEF ProviderResponds
  <2>2. task' = [task EXCEPT ![p] = [task[p] EXCEPT !.calls = cs, !.stop = s, !.logged = 0]]
    BY <1>0, <2>1
  <2>3. task'[p].run = task[p].run /\ task'[p].attempt = task[p].attempt /\ task'[p].calls = cs
    BY <1>0, <2>2 DEF Task
  <2>4. pc[p] = "provider" /\ pc'[p] = "assistant"
    BY <1>0, <1>4 DEF ProviderResponds, At, Goto
  <2>5. Distinct(cs) /\ \A c \in DOMAIN cs : ~Used(task[p].run, cs[c])
    BY NewCalls
  <2> QED
    BY <1>1, <1>2, <2>3, <2>4, <2>5 DEF Own
<1>5. CASE pc'[p] \notin RunPc
  BY <1>2, <1>5 DEF Own, RunPc
<1>6. MarkRun(p) \/ RunTools(p) \/ ProviderResponds(p) \/ pc'[p] \notin RunPc
  BY <1>0 DEF Acquire, FaultStep, ReadOpenRun, LoadTranscript, AbortMarker, GiveUp, CheckNoOpenRun,
     MaxTurnsReached, FinishMarker, UpdateMeta, Exit, ProviderFails, WriteFails, Cancel, Crash, Fail, Goto,
     RunPc
<1> QED
  BY <1>3, <1>4, <1>5, <1>6
\* A record keeps it too, if the call of an intent is in the transcript.
LEMMA RecordKeeps ==
    ASSUME TypeInv, StoreIntents, NEW row \in Row, AppendRecord(row), entries' = entries,
           row.kind = "tool_started" => Used(row.run, row.call)
    PROVE  StoreIntents'
<1>0. StoreTypeOK /\ nextSeq \in Nat
  BY DEF TypeInv, TypeOK, StoreTypeOK
<1>1. nextSeq' \in Nat
  BY <1>0, AppendRecordType
<1>2. \A i \in DOMAIN entries : entries[i].id.run \in Nat
  <2>1. \A i \in DOMAIN entries : entries[i] \in Entry
    BY <1>0 DEF StoreTypeOK
  <2> QED
    BY <2>1 DEF Entry, EntryId
<1>3. \A i \in DOMAIN entries' : entries'[i].id.run < nextSeq'
  BY <1>0, <1>1, <1>2, RecordReads DEF StoreIntents
<1>4. \A r, c : Used(r, c)' = Used(r, c)
  BY DEF Used
<1>5. /\ Numbered(row, nextSeq).run = row.run /\ Numbered(row, nextSeq).call = row.call
      /\ Numbered(row, nextSeq).kind = row.kind
  BY DEF Numbered
<1>6. ASSUME NEW i \in RecordsOf("tool_started")'
      PROVE  Used(records'[i].run, records'[i].call)
  <2>1. i \in DOMAIN records' /\ records'[i].kind = "tool_started"
    BY DEF RecordsOf
  <2>2. CASE i \in DOMAIN records /\ records'[i] = records[i]
    BY <2>1, <2>2 DEF StoreIntents, RecordsOf
  <2>3. CASE records'[i] = Numbered(row, nextSeq)
    BY <1>5, <2>1, <2>3
  <2> QED
    BY <1>0, <2>1, <2>2, <2>3, RecordReads
<1> QED
  BY <1>3, <1>4, <1>6 DEF StoreIntents

\* Recovery, and the two ends of a run.
LEMMA OwnEnd ==
    ASSUME RunAssumption, TypeInv, StoreIntents, RunsBelow, NEW p \in Procs,
           RecoverBatch(p) \/ CloseTranscript(p) \/ AbortRun(p) \/ FinishRun(p)
    PROVE  StoreIntents' /\ Own(p)'
<1>0. /\ pc \in [Procs -> Pc] /\ task[p] \in Task /\ task[p].run \in Nat /\ task[p].run < nextSeq
      /\ task[p].outcome \in Outcome \union {"none"}
  BY DEF TypeInv, TypeOK, Task, RunsBelow
<1>1. pc'[p] \notin RunPc
  BY <1>0 DEF RecoverBatch, CloseTranscript, AbortRun, FinishRun, Goto, At, RunPc
<1>2. Own(p)'
  BY <1>1 DEF Own, RunPc
<1>3. Progress(p)
  BY DEF Progress, Prepare, Send
<1>4. CASE QuietStep
  <2>1. /\ RecordsOf("tool_started")' = RecordsOf("tool_started")
        /\ \A r, c : Used(r, c)' = Used(r, c)
        /\ records' = records /\ entries' = entries /\ nextSeq' = nextSeq
    BY <1>4 DEF QuietStep, RecordsOf, Used
  <2> QED
    BY <1>2, <2>1 DEF StoreIntents
<1>5. ASSUME NEW id \in EntryId, NEW msg \in Message, EntryStep(p, id, msg)
      PROVE  StoreIntents'
  BY <1>0, <1>5, EntryKeeps DEF EntryStep
<1>6. ASSUME AbortRun(p) \/ FinishRun(p)
      PROVE  StoreIntents'
  <2>1. PICK o \in Outcome \union {"none"} : AppendRecord(FinishedRow(task[p].run, o)) /\ entries' = entries
    BY <1>0, <1>6 DEF AbortRun, FinishRun, Outcome
  <2>2. FinishedRow(task[p].run, o) \in Row /\ FinishedRow(task[p].run, o).kind # "tool_started"
    BY <1>0, <2>1 DEF FinishedRow, Row, RecordKind
  <2> QED
    BY <2>1, <2>2, RecordKeeps
<1>7. ASSUME RecoverBatch(p) \/ CloseTranscript(p), NEW row \in Row, RecordStep(p, row)
      PROVE  QuietStep
  <2>1. records' = records /\ (entries' = entries => nextSeq' = nextSeq /\ leaf' = leaf)
    <3>1. CASE UNCHANGED <<entries, leaf, nextSeq>>
      BY <1>7, <3>1 DEF RecoverBatch, CloseTranscript
    <3>2. ASSUME NEW id, NEW msg, AppendEntry(id, msg)
          PROVE  entries' = entries => nextSeq' = nextSeq /\ leaf' = leaf
      <4>1. entries \in Seq(Entry)
        BY DEF TypeInv, TypeOK, StoreTypeOK
      <4>2. CASE ~EntryExists(id)
        <5> DEFINE new == [id |-> id, parent |-> leaf, seq |-> nextSeq, msg |-> msg]
        <5>1. entries' = Append(entries, new)
          BY <3>2, <4>2 DEF AppendEntry
        <5> HIDE DEF new
        <5>2. Len(entries') = Len(entries) + 1 /\ Len(entries) \in Nat
          BY <4>1, <5>1
        <5> QED
          BY <5>2
      <4> QED
        BY <3>2, <4>2 DEF AppendEntry
    <3> QED
      BY <1>7, <3>1, <3>2 DEF RecoverBatch, CloseTranscript
  <2> QED
    BY <1>7, <2>1 DEF RecordStep, QuietStep
<1> QED
  BY <1>2, <1>3, <1>4, <1>5, <1>6, <1>7, StepShape
\* The run starts, with a number no entry carries, and gets its prompt.
LEMMA OwnStart ==
    ASSUME RunAssumption, TypeInv, StoreIntents, RunsBelow, NEW p \in Procs, Own(p),
           StartRun(p) \/ AppendUser(p) \/ StepAttempt(p)
    PROVE  StoreIntents' /\ Own(p)'
<1>0. /\ pc \in [Procs -> Pc] /\ task \in [Procs -> Task] /\ task[p] \in Task /\ task[p].run \in Nat
      /\ task[p].run < nextSeq /\ task[p].attempt \in Nat /\ nextSeq \in Nat /\ StoreTypeOK
  BY DEF TypeInv, TypeOK, StoreTypeOK, Task, RunsBelow
<1>1. CASE StartRun(p)
  <2>1. StartedRow(nextSeq) \in Row /\ StartedRow(nextSeq).kind # "tool_started"
    BY <1>0 DEF StartedRow, Row, RecordKind, Outcome
  <2>2. StoreIntents'
    BY <1>1, <2>1, RecordKeeps DEF StartRun
  <2>3. pc'[p] = "mark" /\ task'[p].run = nextSeq /\ entries' = entries
    BY <1>0, <1>1 DEF StartRun, Goto, Task
  <2>4. \A i \in DOMAIN entries : entries[i].id.run # nextSeq
    BY <1>0 DEF StoreIntents
  <2> QED
    BY <2>2, <2>3, <2>4 DEF Own
<1>2. CASE AppendUser(p)
  <2>1. UserId(task[p].run) \in EntryId /\ UserMessage \in Message
    <3>1. <<>> \in Seq(Calls)
      OBVIOUS
    <3> QED
      BY <1>0, <3>1, IdTypes, MessageTypes
  <2>2. AppendEntry(UserId(task[p].run), UserMessage) /\ records' = records
    BY <1>2 DEF AppendUser
  <2>3. UserId(task[p].run).run = task[p].run /\ UserId(task[p].run).kind = "user"
    BY DEF UserId
  <2>4. StoreIntents'
    BY <1>0, <2>1, <2>2, <2>3, EntryKeeps
  <2>5. pc'[p] = "step" /\ pc[p] = "user" /\ task'[p].run = task[p].run
    BY <1>0, <1>2 DEF AppendUser, Goto, At, Task
  <2>6. \A i \in DOMAIN entries' : entries'[i].id.run # task[p].run \/ entries'[i].id.kind = "user"
    BY <1>0, <2>1, <2>2, <2>3, <2>5, EntryReads DEF Own
  <2>7. \A i \in DOMAIN entries' : ~(entries'[i].id.run = task'[p].run /\ entries'[i].id.kind = "assistant")
    BY <2>5, <2>6
  <2> QED
    BY <2>4, <2>5, <2>7 DEF Own, Attempts
<1>3. CASE StepAttempt(p)
  <2>1. /\ StepRow(task[p].run, task[p].attempt) \in Row
        /\ StepRow(task[p].run, task[p].attempt).kind # "tool_started"
    BY <1>0 DEF StepRow, Row, RecordKind, Outcome
  <2>2. StoreIntents'
    BY <1>3, <2>1, RecordKeeps DEF StepAttempt
  <2>3. pc[p] = "step" /\ pc'[p] = "provider" /\ task' = task /\ entries' = entries
    BY <1>0, <1>3 DEF StepAttempt, Goto, At
  <2> QED
    BY <2>2, <2>3 DEF Own, Attempts
<1> QED
  BY <1>1, <1>2, <1>3

\* The assistant entry is new, and so brings the calls into the transcript; no
\* intent names them yet.
LEMMA OwnAssistant ==
    ASSUME RunAssumption, TypeInv, StoreIntents, RunsBelow, NEW p \in Procs, Own(p), AppendAssistant(p)
    PROVE  StoreIntents' /\ Own(p)'
<1> DEFINE r == task[p].run
           n == task[p].attempt
           cs == task[p].calls
<1>0. /\ pc \in [Procs -> Pc] /\ task \in [Procs -> Task] /\ task[p] \in Task /\ r \in Nat
      /\ r < nextSeq /\ n \in Nat /\ cs \in Seq(Calls) /\ StoreTypeOK
  BY DEF TypeInv, TypeOK, StoreTypeOK, Task, RunsBelow
<1>1. pc[p] = "assistant" /\ AppendEntry(AssistantId(r, n), AssistantMessage(cs)) /\ records' = records
  BY DEF AppendAssistant, At
<1>2. AssistantId(r, n) \in EntryId /\ AssistantMessage(cs) \in Message
  BY <1>0, IdTypes, MessageTypes
<1>3. /\ AssistantId(r, n).run = r /\ AssistantId(r, n).kind = "assistant" /\ AssistantId(r, n).step = n
      /\ AssistantMessage(cs).calls = cs
  BY DEF AssistantId, AssistantMessage
<1>4. StoreIntents'
  BY <1>0, <1>1, <1>2, <1>3, EntryKeeps
<1>5. CASE pc'[p] \notin RunPc
  BY <1>4, <1>5 DEF Own, RunPc
<1>6. CASE pc'[p] = "intents" /\ task' = task
  <2>1. \A i \in DOMAIN entries : entries[i].id.run = r /\ entries[i].id.kind = "assistant"
                                       => entries[i].id.step < n
    BY <1>1 DEF Own, Attempts
  <2>2. ~EntryExists(AssistantId(r, n))
    BY <1>0, <1>3, <2>1 DEF EntryExists
  <2>3. \A c \in DOMAIN cs : Used(r, cs[c])'
    BY <1>0, <1>1, <1>2, <1>3, <1>6, <2>2, EntryReads DEF Used
  <2>4. Attempts(r, n + 1)'
    <3>1. \A i \in DOMAIN entries : entries[i].id.step \in Nat
      <4>1. \A i \in DOMAIN entries : entries[i] \in Entry
        BY <1>0 DEF StoreTypeOK
      <4> QED
        BY <4>1 DEF Entry, EntryId
    <3>2. \A i \in DOMAIN entries' : \/ i \in DOMAIN entries /\ entries'[i] = entries[i]
                                     \/ entries'[i].id = AssistantId(r, n)
      BY <1>0, <1>1, <1>2, EntryReads
    <3> QED
      BY <1>0, <1>3, <1>6, <2>1, <3>1, <3>2 DEF Attempts
  <2>5. task[p].logged = 0 /\ Distinct(cs) /\ \A c \in DOMAIN cs : ~Used(r, cs[c])
    BY <1>1 DEF TypeInv, LoggedInv, At, Own
  <2>6. \A c \in DOMAIN cs, i \in RecordsOf("tool_started")' :
            records'[i].run = r => records'[i].call # cs[c]
    BY <1>1, <2>5 DEF StoreIntents, RecordsOf
  <2>7. \A c \in DOMAIN cs : ~(c <= 0)
    BY <1>0
  <2> QED
    BY <1>4, <1>6, <2>3, <2>4, <2>5, <2>6, <2>7 DEF Own
<1> QED
  BY <1>0, <1>5, <1>6 DEF AppendAssistant, Goto, RunPc

\* The intent about to be written has no namesake in the log.
LEMMA IntentIsNew ==
    ASSUME TypeInv, NEW p \in Procs, Own(p), LogIntent(p)
    PROVE  ~RecordExists(ToolRow(task[p].run, task[p].attempt, task[p].calls[task[p].logged + 1]))
<1> DEFINE cs == task[p].calls
           k == task[p].logged + 1
           row == ToolRow(task[p].run, task[p].attempt, cs[k])
<1>1. pc[p] = "intents" /\ cs \in Seq(Calls) /\ task[p].logged \in Nat
  BY DEF LogIntent, At, TypeInv, TypeOK, Task
<1>2. k \in DOMAIN cs /\ k > task[p].logged
  <2>1. task[p].logged < Len(cs)
    BY <1>1 DEF TypeInv, LoggedInv, At
  <2> QED
    BY <1>1, <2>1
<1>3. \A i \in RecordsOf("tool_started") : records[i].run = task[p].run => records[i].call # cs[k]
  BY <1>1, <1>2 DEF Own
<1>4. row.kind = "tool_started" /\ row.run = task[p].run /\ row.call = cs[k]
  BY DEF ToolRow
<1> HIDE DEF row
<1>5. ~RecordExists(row)
  BY <1>3, <1>4 DEF RecordExists, SameRecordId, RecordsOf
<1> QED
  BY <1>5 DEF row

\* An intent is written, for no intent of the run has its id; the ones written
\* before it stay, and it is not that of a later call of the batch.
LEMMA OwnIntent ==
    ASSUME RunAssumption, TypeInv, StoreIntents, RunsBelow, NEW p \in Procs, Own(p), LogIntent(p)
    PROVE  StoreIntents' /\ Own(p)'
<1> DEFINE r == task[p].run
           n == task[p].attempt
           cs == task[p].calls
           k == task[p].logged + 1
           row == ToolRow(r, n, cs[k])
<1>0. /\ pc \in [Procs -> Pc] /\ task \in [Procs -> Task] /\ task[p] \in Task /\ r \in Nat
      /\ r < nextSeq /\ n \in Nat /\ cs \in Seq(Calls) /\ task[p].logged \in Nat /\ StoreTypeOK
  BY DEF TypeInv, TypeOK, StoreTypeOK, Task, RunsBelow
<1>1. pc[p] = "intents" /\ AppendRecord(row) /\ entries' = entries
  BY DEF LogIntent, At
<1>2. k \in DOMAIN cs /\ k \in Nat /\ cs[k] \in Calls
  <2>1. task[p].logged < Len(cs)
    BY <1>1 DEF TypeInv, LoggedInv, At
  <2> QED
    BY <1>0, <2>1
<1>3. row \in Row /\ row.kind = "tool_started" /\ row.run = r /\ row.step = n /\ row.call = cs[k]
  BY <1>0, <1>2 DEF ToolRow, Row, RecordKind, Outcome
<1>4. /\ Distinct(cs)
      /\ \A c \in DOMAIN cs :
            /\ Used(r, cs[c])
            /\ c < k => Journaled(r, n, cs[c])
            /\ c >= k => \A i \in RecordsOf("tool_started") : records[i].run = r => records[i].call # cs[c]
      /\ Attempts(r, n + 1)
  BY <1>0, <1>1 DEF Own
<1>5. StoreIntents'
  BY <1>1, <1>2, <1>3, <1>4, RecordKeeps
<1>6. /\ task'[p].run = r /\ task'[p].attempt = n /\ task'[p].calls = cs /\ task'[p].logged = k
  <2>1. task' = [task EXCEPT ![p] = [task[p] EXCEPT !.logged = k]]
    BY <1>0 DEF LogIntent
  <2> QED
    BY <1>0, <2>1 DEF Task
<1>7. \/ pc'[p] = "intents"
      \/ pc'[p] = "tools" /\ k = Len(cs)
  BY <1>0 DEF LogIntent, Goto
<1>8. ~RecordExists(row)
  BY IntentIsNew
<1> HIDE DEF row
<1>9. /\ Numbered(row, nextSeq).run = r /\ Numbered(row, nextSeq).step = n
      /\ Numbered(row, nextSeq).call = cs[k] /\ Numbered(row, nextSeq).kind = "tool_started"
  BY <1>3 DEF Numbered
<1>10. ASSUME NEW c \in DOMAIN cs, c <= k
       PROVE  \E i \in RecordsOf("tool_started")' :
                 records'[i].run = r /\ records'[i].step = n /\ records'[i].call = cs[c]
  <2>1. CASE c < k
    <3>1. PICK i \in RecordsOf("tool_started") :
             records[i].run = r /\ records[i].step = n /\ records[i].call = cs[c]
      BY <1>4, <2>1 DEF Journaled
    <3> QED
      BY <1>0, <1>1, <1>3, <3>1, RecordReads DEF RecordsOf
  <2>2. CASE c = k
    <3>1. PICK i \in DOMAIN records' : records'[i] = Numbered(row, nextSeq)
      BY <1>0, <1>1, <1>3, <1>8, RecordReads
    <3> QED
      BY <1>9, <2>2, <3>1 DEF RecordsOf
  <2>3. c \in Nat
    BY <1>0
  <2>4. c < k \/ c = k
    BY <1>2, <1>10, <2>3
  <2> QED
    BY <2>1, <2>2, <2>4
<1>11. ASSUME NEW c \in DOMAIN cs, c > k, NEW i \in RecordsOf("tool_started")', records'[i].run = r
       PROVE  records'[i].call # cs[c]
  <2>1. c >= k /\ c # k
    BY <1>0, <1>2, <1>11
  <2>2. i \in DOMAIN records' /\ records'[i].kind = "tool_started"
    BY DEF RecordsOf
  <2>3. CASE i \in DOMAIN records /\ records'[i] = records[i]
    BY <1>4, <1>11, <2>1, <2>2, <2>3 DEF RecordsOf
  <2>4. CASE records'[i] = Numbered(row, nextSeq)
    BY <1>2, <1>4, <1>9, <2>1, <2>4 DEF Distinct
  <2> QED
    BY <1>0, <1>1, <1>3, <2>2, <2>3, <2>4, RecordReads
<1>12. \A c \in DOMAIN cs : Used(r, cs[c])'
  BY <1>1, <1>4, <1>6 DEF Used
<1>13. Attempts(r, n + 1)'
  BY <1>1, <1>4, <1>6 DEF Attempts
<1>14. CASE pc'[p] = "intents"
  <2>1. \A c \in DOMAIN cs : c <= k => Journaled(r, n, cs[c])'
    BY <1>6, <1>10 DEF Journaled
  <2> QED
    BY <1>4, <1>5, <1>6, <1>11, <1>12, <1>13, <1>14, <2>1 DEF Own
<1>15. CASE pc'[p] = "tools" /\ k = Len(cs)
  <2>1. \A c \in DOMAIN cs : Journaled(r, n, cs[c])'
    BY <1>0, <1>6, <1>10, <1>15 DEF Journaled
  <2> QED
    BY <1>5, <1>6, <1>13, <1>15, <2>1 DEF Own
<1> QED
  BY <1>7, <1>14, <1>15

\* The next attempt has no assistant entry yet.
LEMMA OwnResults ==
    ASSUME RunAssumption, TypeInv, StoreIntents, RunsBelow, NEW p \in Procs, Own(p), AppendResults(p)
    PROVE  StoreIntents' /\ Own(p)'
<1> DEFINE id == ResultsId(task[p].run, task[p].attempt)
           msg == ResultsMessage(task[p].calls)
<1>0. /\ pc \in [Procs -> Pc] /\ task \in [Procs -> Task] /\ task[p] \in Task /\ task[p].run \in Nat
      /\ task[p].run < nextSeq /\ task[p].attempt \in Nat /\ task[p].calls \in Seq(Calls) /\ StoreTypeOK
  BY DEF TypeInv, TypeOK, StoreTypeOK, Task, RunsBelow
<1>1. AppendEntry(id, msg) /\ records' = records
  BY DEF AppendResults
<1>2. id \in EntryId /\ msg \in Message
  BY <1>0, IdTypes, MessageTypes
<1>3. id.run = task[p].run /\ id.kind = "results"
  BY DEF ResultsId
<1> HIDE DEF id, msg
<1>4. StoreIntents'
  BY <1>0, <1>1, <1>2, <1>3, EntryKeeps
<1>5. /\ pc[p] = "results" /\ pc'[p] = "step"
      /\ task'[p].run = task[p].run /\ task'[p].attempt = task[p].attempt + 1
  BY <1>0 DEF AppendResults, At, Goto, Task
<1>6. \A i \in DOMAIN entries' : (entries'[i].id.run = task[p].run /\ entries'[i].id.kind = "assistant")
                                     => entries'[i].id.step < task[p].attempt + 1
  BY <1>0, <1>1, <1>2, <1>3, <1>5, EntryReads DEF Own, Attempts
<1> QED
  BY <1>4, <1>5, <1>6 DEF Own, Attempts

LEMMA IntentStep ==
    ASSUME RunAssumption, ReuseIds = FALSE, TypeInv, LockInv, RunsBelow, IntentInv, [Next]_vars
    PROVE  IntentInv'
<1>1. StoreIntents /\ \A p \in Procs : Own(p)
  BY IntentParts
<1>2. CASE UNCHANGED vars
  BY <1>2 DEF vars, IntentInv, FreshInv, BatchInv, RecordsOf, Attempts, Used, Journaled
<1>3. CASE Next
  <2>1. PICK p \in Procs : Acquire(p) \/ Progress(p) \/ FaultStep(p)
    BY <1>3 DEF Next
  <2>2. StoreIntents' /\ Own(p)'
    BY <1>1, <2>1, OwnQuiet, OwnEnd, OwnStart, OwnAssistant, OwnIntent, OwnResults
       DEF Progress, Prepare, Send
  <2>3. \A q \in Procs \ {p} : Own(q)'
    <3> TAKE q \in Procs \ {p}
    <3>1. pc'[q] \notin RunPc
      BY <2>1, OneMoves
    <3> QED
      BY <3>1 DEF Own, RunPc
  <2> QED
    BY <2>2, <2>3, IntentPartsNext
<1> QED
  BY <1>2, <1>3

\* What the log says of the batch in progress, in every reachable state.
THEOREM IntentInvariant == ASSUME ReuseIds = FALSE PROVE Spec => []IntentInv
<1>1. Init => IntentInv
  BY DEF Init, StoreInit, IntentInv, FreshInv, BatchInv, RecordsOf
<1>2. ClosedInv /\ IntentInv /\ [Next]_vars => IntentInv'
  BY RunAssumption, IntentStep DEF ClosedInv
<1> QED
  BY <1>1, <1>2, ClosedInvariant, PTL DEF Spec

\* A tool runs only when each call of its batch has an intent in the log that
\* names the entry the results will go to, whatever crashes and failing writes
\* went before; provided the provider does not repeat an id within a run.
THEOREM EffectsAreJournaled == ASSUME ReuseIds = FALSE PROVE Spec => []EffectHasIntent
<1>1. IntentInv => EffectHasIntent
  BY DEF IntentInv, BatchInv, EffectHasIntent, Journaled, At
<1> QED
  BY <1>1, IntentInvariant, PTL

-----------------------------------------------------------------------------
(* Results follow their calls.                                             *)

\* The calls of the last message of the transcript.
LastCalls == entries[Len(entries)].msg.calls

\* The first m of them are journaled as a batch: their intents follow one
\* another in the log, in request order, and there are no others.
LoggedUpTo(r, n, m) ==
    \E a \in Nat : /\ Intents(r, n) = a + 1 .. a + m
                   /\ \A c \in 1 .. m : records[a + c].call = LastCalls[c]

\* A batch that has no results yet is a leading part of the last message.
PrefixInv ==
    \A r \in OpenRuns : \A n \in UnfulfilledSteps(r) :
        \E m \in 1 .. Len(LastCalls) : LoggedUpTo(r, n, m)

\* While a batch is being journaled, its intents are the end of the log.
Logging(p) ==
    pc[p] = "intents" =>
        LET t == task[p]
            a == Len(records) - t.logged
        IN  /\ t.logged <= Len(records)
            /\ Intents(t.run, t.attempt) = a + 1 .. Len(records)
            /\ \A c \in 1 .. t.logged : records[a + c].call = t.calls[c]

ReplyInv == PrefixInv /\ (\A p \in Procs : Logging(p)) /\ ResultsFollowTheirCalls

\* During a batch the last entry is the assistant message that asks for it.
LEMMA BatchIsLast ==
    ASSUME Before, EndsInv, NEW p \in Procs, pc[p] \in ActingPc
    PROVE  /\ entries \in Seq(Entry) /\ Len(entries) \in DOMAIN entries
           /\ leaf = AssistantId(task[p].run, task[p].attempt)
           /\ entries[Len(entries)].id = leaf
           /\ LastCalls = task[p].calls
<1>1. /\ StoreTypeOK /\ ChainInv /\ mem[p] \in Seq(Message)
      /\ task[p].run \in Nat /\ task[p].attempt \in Nat /\ task[p].calls \in Seq(Calls)
  BY DEF Before, OneRunInv, TypeInv, TypeOK, EndsInv, MemType, Task
<1>2. /\ leaf = AssistantId(task[p].run, task[p].attempt)
      /\ Transcript = Append(mem[p], AssistantMessage(task[p].calls))
  BY DEF EndsInv, Knows
<1>3. /\ entries \in Seq(Entry) /\ Len(entries) \in DOMAIN entries
      /\ entries[Len(entries)].id = leaf
      /\ Transcript[Len(Transcript)] = entries[Len(entries)].msg
  BY <1>1, <1>2, IdTypes, LeafIsLast DEF StoreTypeOK
<1>4. Transcript[Len(Transcript)] = AssistantMessage(task[p].calls)
  BY <1>1, <1>2, MessageTypes, LastMessage
<1> QED
  BY <1>2, <1>3, <1>4 DEF LastCalls, AssistantMessage

\* The intents end the log after each step of the batch, and no intent of an
\* attempt precedes its assistant entry.
LEMMA LoggingStep ==
    ASSUME RunAssumption, Before, EndsInv, NEW p \in Procs, Own(p), Logging(p),
           Acquire(p) \/ Progress(p) \/ FaultStep(p)
    PROVE  Logging(p)'
<1> PICK r, n, cs, l : /\ r = task[p].run /\ n = task[p].attempt /\ cs = task[p].calls
                       /\ l = task[p].logged
  OBVIOUS
<1>0. /\ pc \in [Procs -> Pc] /\ task \in [Procs -> Task] /\ task[p] \in Task
      /\ r \in Nat /\ n \in Nat /\ cs \in Seq(Calls) /\ l \in Nat
      /\ StoreTypeOK /\ TypeInv /\ records \in Seq(Record) /\ Len(records) \in Nat
  <2>1. TypeInv /\ pc \in [Procs -> Pc] /\ task \in [Procs -> Task] /\ StoreTypeOK
    BY DEF Before, OneRunInv, TypeInv, TypeOK
  <2>2. task[p] \in Task /\ records \in Seq(Record)
    BY <2>1 DEF StoreTypeOK
  <2> QED
    BY <2>1, <2>2 DEF Task
<1>1. CASE AppendAssistant(p)
  <2>1. pc[p] = "assistant" /\ l = 0 /\ records' = records /\ Knows(p)
    BY <1>0, <1>1 DEF AppendAssistant, At, TypeInv, LoggedInv, EndsInv
  <2>2. pc'[p] = "intents" => task' = task
    BY <1>0, <1>1 DEF AppendAssistant, Goto
  <2>3. Intents(r, n) = {}
    <3> SUFFICES ASSUME NEW i \in Intents(r, n)
                 PROVE  FALSE
      OBVIOUS
    <3>1. EntryExists(AssistantId(r, n))
      BY DEF Intents, EndsInv, EndInv
    <3>2. PICK j \in DOMAIN entries : entries[j].id = AssistantId(r, n)
      BY <3>1 DEF EntryExists
    <3>3. EarlierAttempts(r, n, Len(entries)) /\ DOMAIN entries = 1 .. Len(entries)
      BY <1>0, <2>1 DEF Knows, ThinkingPc, StoreTypeOK
    <3> QED
      BY <1>0, <3>2, <3>3 DEF EarlierAttempts, AssistantId
  <2>4. Intents(r, n)' = {}
    BY <2>1, <2>3 DEF Intents, RecordsOf
  <2>5. Len(records) - l + 1 .. Len(records) = {} /\ 1 .. l = {} /\ l <= Len(records)
    BY <1>0, <2>1
  <2> QED
    BY <2>1, <2>2, <2>4, <2>5 DEF Logging
<1>2. CASE LogIntent(p)
  <2> DEFINE row == ToolRow(r, n, cs[l + 1])
             k == Len(records)
  <2>1. pc[p] = "intents" /\ AppendRecord(row) /\ cs[l + 1] \in Calls
    BY <1>0, <1>2 DEF LogIntent, At, TypeInv, LoggedInv
  <2>2. ~RecordExists(row)
    BY <1>0, <1>2, IntentIsNew
  <2>3. /\ row \in Row /\ row.kind = "tool_started" /\ row.run = r /\ row.step = n /\ row.call = cs[l + 1]
    BY <1>0, <2>1 DEF ToolRow, Row, RecordKind, Outcome
  <2> HIDE DEF row
  <2>4. Numbered(row, nextSeq).kind = "tool_started" /\ Numbered(row, nextSeq).run = r
        /\ Numbered(row, nextSeq).step = n /\ Numbered(row, nextSeq).call = cs[l + 1]
    BY <2>3 DEF Numbered
  <2>5. records' = Append(records, Numbered(row, nextSeq))
    BY <2>1, <2>2 DEF AppendRecord
  <2>6. task'[p].run = r /\ task'[p].attempt = n /\ task'[p].calls = cs /\ task'[p].logged = l + 1
    <3>1. task' = [task EXCEPT ![p] = [task[p] EXCEPT !.logged = l + 1]]
      BY <1>0, <1>2 DEF LogIntent
    <3> QED
      BY <1>0, <3>1 DEF Task
  <2>7. /\ Len(records') = k + 1 /\ DOMAIN records' = 1 .. k + 1 /\ DOMAIN records = 1 .. k
        /\ \A i \in 1 .. k : records'[i] = records[i]
        /\ records'[k + 1] = Numbered(row, nextSeq)
        /\ k \in Nat
    BY <1>0, <2>5
  <2>8. /\ l <= k /\ Intents(r, n) = k - l + 1 .. k
        /\ \A c \in 1 .. l : records[k - l + c].call = cs[c]
    BY <2>1 DEF Logging
  <2> HIDE DEF k
  <2>9. \A i : i \in Intents(r, n)' <=> i \in Intents(r, n) \/ i = k + 1
    <3>1. ASSUME NEW i
          PROVE  i \in Intents(r, n)' <=> i \in 1 .. k + 1 /\ records'[i].kind = "tool_started"
                                           /\ records'[i].run = r /\ records'[i].step = n
      BY <2>7 DEF Intents, RecordsOf
    <3>2. ASSUME NEW i
          PROVE  i \in Intents(r, n) <=> i \in 1 .. k /\ records[i].kind = "tool_started"
                                           /\ records[i].run = r /\ records[i].step = n
      BY <2>7 DEF Intents, RecordsOf
    <3>3. \A i : i \in 1 .. k + 1 <=> i \in 1 .. k \/ i = k + 1
      BY <2>7
    <3> QED
      BY <2>4, <2>7, <3>1, <3>2, <3>3
  <2>10. Intents(r, n)' = (k + 1) - (l + 1) + 1 .. k + 1
    <3>1. k \in Nat /\ l \in Nat /\ l <= k
      BY <1>0, <2>7, <2>8
    <3>2. \A i : i \in (k + 1) - (l + 1) + 1 .. k + 1 <=> i \in k - l + 1 .. k \/ i = k + 1
      BY <3>1
    <3>3. Intents(r, n) = k - l + 1 .. k
      BY <2>8
    <3>4. \A i : i \in Intents(r, n)' <=> i \in (k + 1) - (l + 1) + 1 .. k + 1
      BY <2>9, <3>2, <3>3
    <3> QED
      BY <3>4
  <2>11. \A c \in 1 .. l + 1 : records'[(k + 1) - (l + 1) + c].call = cs[c]
    <3> TAKE c \in 1 .. l + 1
    <3>1. CASE c \in 1 .. l
      <4>1. (k + 1) - (l + 1) + c = k - l + c /\ k - l + c \in 1 .. k
        <5>1. k \in Nat /\ l \in Nat /\ l <= k
          BY <1>0, <2>7, <2>8
        <5> QED
          BY <3>1, <5>1
      <4> QED
        BY <2>7, <2>8, <3>1, <4>1
    <3>2. CASE c = l + 1
      <4>1. (k + 1) - (l + 1) + c = k + 1
        BY <1>0, <2>7, <3>2
      <4> QED
        BY <2>4, <2>7, <3>2, <4>1
    <3> QED
      BY <1>0, <3>1, <3>2
  <2> QED
    BY <1>0, <2>6, <2>7, <2>8, <2>10, <2>11 DEF Logging
<1>3. CASE ~AppendAssistant(p) /\ ~LogIntent(p)
  <2>1. pc'[p] # "intents"
    BY <1>0, <1>3 DEF Progress, Prepare, Send, FaultStep, Acquire, ReadOpenRun, RecoverBatch,
       CloseTranscript, AbortRun, AbortMarker, GiveUp, CheckNoOpenRun, StartRun, MarkRun, AppendUser,
       StepAttempt, MaxTurnsReached, ProviderResponds, RunTools, AppendResults, FinishRun, FinishMarker,
       UpdateMeta, Exit, ProviderFails, WriteFails, Cancel, Crash, LoadTranscript, Fail, Goto, At
  <2> QED
    BY <2>1 DEF Logging
<1> QED
  BY <1>1, <1>2, <1>3

\* An entry leaves no batch of an open run without results.
LEMMA EntrySettles ==
    ASSUME Before, EndInv, EndInv', NEW id \in EntryId, NEW msg \in Message, AppendEntry(id, msg),
           records' = records, ~EntryExists(id), NEW r \in OpenRuns'
    PROVE  UnfulfilledSteps(r)' = {}
<1>0. StoreTypeOK /\ ChainInv
  BY DEF Before, OneRunInv, TypeInv, TypeOK
<1>1. /\ UnfulfilledSteps(r)' \subseteq UnfulfilledSteps(r)
      /\ OpenRuns' = OpenRuns
  BY <1>0, EntryIds
<1>2. leaf' = id
  BY <1>0, EntryChain
<1> SUFFICES ASSUME NEW n \in UnfulfilledSteps(r)'
             PROVE  FALSE
  OBVIOUS
<1>3. leaf' = AssistantId(r, n)
  BY DEF EndInv, OpenEnd
<1>4. leaf = AssistantId(r, n)
  BY <1>1 DEF EndInv, OpenEnd
<1> QED
  BY <1>0, <1>2, <1>3, <1>4, LeafIsLast

\* Steps that write neither table, or write a record that is no intent.
LEMMA PrefixQuiet ==
    ASSUME PrefixInv, QuietStep
    PROVE  PrefixInv'
<1>1. OpenRuns' = OpenRuns /\ \A r : UnfulfilledSteps(r)' = UnfulfilledSteps(r)
  BY QuietReads
<1>2. \A r, n, m : LoggedUpTo(r, n, m)' = LoggedUpTo(r, n, m)
  BY DEF QuietStep, LoggedUpTo, Intents, RecordsOf, LastCalls
<1>3. LastCalls' = LastCalls
  BY DEF QuietStep, LastCalls
<1> QED
  BY <1>1, <1>2, <1>3 DEF PrefixInv

LEMMA PrefixRecord ==
    ASSUME Before, EndInv, PrefixInv, NEW p \in Procs, NEW row \in Row, RecordStep(p, row),
           row.kind # "tool_started"
    PROVE  PrefixInv'
<1>0. /\ StoreTypeOK /\ TypeInv /\ RunsBelow /\ AppendRecord(row) /\ entries' = entries
      /\ LastCalls' = LastCalls
  BY DEF Before, OneRunInv, TypeInv, TypeOK, RecordStep, LastCalls
<1>1. /\ \A r : UnfulfilledSteps(r)' = UnfulfilledSteps(r)
      /\ OpenRuns' \subseteq OpenRuns \union {row.run}
      /\ row.kind # "operation_started" => OpenRuns' \subseteq OpenRuns
  BY <1>0, RecordIntents, RecordOpens
<1>2. \A i \in RecordsOf("tool_started") : i \in RecordsOf("tool_started")' /\ records'[i] = records[i]
  BY <1>0, RecordReads DEF RecordsOf
<1>3. \A i \in RecordsOf("tool_started")' : i \in RecordsOf("tool_started")
  BY <1>0, RecordReads DEF RecordsOf, Numbered
<1>4. ASSUME NEW r, NEW n, NEW m \in Nat, LoggedUpTo(r, n, m)
      PROVE  LoggedUpTo(r, n, m)'
  <2>1. PICK a \in Nat : /\ Intents(r, n) = a + 1 .. a + m
                         /\ \A c \in 1 .. m : records[a + c].call = LastCalls[c]
    BY <1>4 DEF LoggedUpTo
  <2>2. Intents(r, n)' = Intents(r, n)
    BY <1>2, <1>3 DEF Intents
  <2>3. \A c \in 1 .. m : a + c \in Intents(r, n)
    BY <2>1
  <2>4. \A c \in 1 .. m : records'[a + c] = records[a + c]
    BY <1>2, <2>3 DEF Intents
  <2> QED
    BY <1>0, <2>1, <2>2, <2>4 DEF LoggedUpTo
<1>5. ASSUME NEW r \in OpenRuns', NEW n \in UnfulfilledSteps(r)'
      PROVE  \E m \in 1 .. Len(LastCalls)' : LoggedUpTo(r, n, m)'
  <2>1. r \in OpenRuns
    <3>1. ASSUME r = row.run, row.kind = "operation_started"
          PROVE  FALSE
      <4>1. r = nextSeq
        BY <3>1 DEF RecordStep
      <4> QED
        BY <1>0, <1>1, <1>5, <4>1, NewRunIsEmpty
    <3> QED
      BY <1>1, <3>1
  <2>2. PICK m \in 1 .. Len(LastCalls) : LoggedUpTo(r, n, m)
    BY <1>1, <2>1 DEF PrefixInv
  <2> QED
    BY <1>0, <1>4, <2>2
<1> QED
  BY <1>5 DEF PrefixInv

\* An intent makes the batch of its process one longer.
LEMMA PrefixIntent ==
    ASSUME Before, EndsInv, EndsInv', PrefixInv, NEW p \in Procs, LogIntent(p), Logging(p),
           Own(p)
    PROVE  PrefixInv'
<1> PICK r, n, cs, l : /\ r = task[p].run /\ n = task[p].attempt /\ cs = task[p].calls
                       /\ l = task[p].logged
  OBVIOUS
<1> DEFINE row == ToolRow(r, n, cs[l + 1])
           k == Len(records)
           new == Numbered(row, nextSeq)
<1>0. /\ TypeInv /\ StoreTypeOK /\ AtMostOneOpenRun /\ pc[p] = "intents" /\ Knows(p)
  BY DEF Before, OneRunInv, TypeInv, TypeOK, LogIntent, At, EndsInv
<1>1. r \in Nat /\ n \in Nat /\ cs \in Seq(Calls) /\ l \in Nat /\ records \in Seq(Record) /\ k \in Nat
  <2>1. task[p] \in Task /\ records \in Seq(Record)
    BY <1>0 DEF TypeInv, TypeOK, StoreTypeOK
  <2> QED
    BY <2>1 DEF Task
<1>2. l + 1 \in 1 .. Len(cs) /\ cs[l + 1] \in Calls
  BY <1>0, <1>1 DEF TypeInv, LoggedInv, At
<1>3. LastCalls = cs /\ entries' = entries /\ LastCalls' = cs
  <2>1. LastCalls = cs
    BY <1>0, BatchIsLast DEF ActingPc
  <2> QED
    BY <2>1 DEF LogIntent, LastCalls
<1>4. records' = Append(records, new)
  <2>1. ~RecordExists(row)
    BY <1>0, IntentIsNew
  <2> QED
    BY <2>1 DEF LogIntent, AppendRecord
<1>5. new.kind = "tool_started" /\ new.run = r /\ new.step = n /\ new.call = cs[l + 1]
  BY DEF Numbered, ToolRow
<1>6. OpenRuns' \subseteq {r}
  <2>1. row \in Row /\ row.kind = "tool_started"
    BY <1>1, <1>2 DEF ToolRow, Row, RecordKind, Outcome
  <2>2. AppendRecord(row)
    BY DEF LogIntent
  <2>3. OpenRuns \subseteq {r}
    BY <1>0, OnlyOpenRun DEF WritingPc
  <2> HIDE DEF row
  <2> QED
    BY <1>0, <2>1, <2>2, <2>3, RecordOpens
<1>7. /\ l <= k /\ Intents(r, n) = k - l + 1 .. k
      /\ \A c \in 1 .. l : records[k - l + c].call = cs[c]
  BY <1>0 DEF Logging
<1> HIDE DEF row, new
<1>8. /\ DOMAIN records' = 1 .. k + 1 /\ DOMAIN records = 1 .. k
      /\ \A i \in 1 .. k : records'[i] = records[i]
      /\ records'[k + 1] = new
  BY <1>1, <1>4
<1> HIDE DEF k
<1>9. \A i : i \in Intents(r, n)' <=> i \in Intents(r, n) \/ i = k + 1
  <2>1. ASSUME NEW i
        PROVE  i \in Intents(r, n)' <=> i \in 1 .. k + 1 /\ records'[i].kind = "tool_started"
                                         /\ records'[i].run = r /\ records'[i].step = n
    BY <1>8 DEF Intents, RecordsOf
  <2>2. ASSUME NEW i
        PROVE  i \in Intents(r, n) <=> i \in 1 .. k /\ records[i].kind = "tool_started"
                                         /\ records[i].run = r /\ records[i].step = n
    BY <1>8 DEF Intents, RecordsOf
  <2>3. \A i : i \in 1 .. k + 1 <=> i \in 1 .. k \/ i = k + 1
    BY <1>1
  <2> QED
    BY <1>5, <1>8, <2>1, <2>2, <2>3
<1>10. LoggedUpTo(r, n, l + 1)'
  <2>1. Intents(r, n)' = (k - l) + 1 .. (k - l) + (l + 1)
    <3>1. \A i : i \in (k - l) + 1 .. (k - l) + (l + 1) <=> i \in k - l + 1 .. k \/ i = k + 1
      <4>1. k \in Nat /\ l \in Nat /\ l <= k
        BY <1>1, <1>7
      <4> QED
        BY <4>1
    <3>2. \A i : i \in Intents(r, n)' <=> i \in (k - l) + 1 .. (k - l) + (l + 1)
      BY <1>7, <1>9, <3>1
    <3> QED
      BY <3>2
  <2>2. \A c \in 1 .. l + 1 : records'[(k - l) + c].call = cs[c]
    <3> TAKE c \in 1 .. l + 1
    <3>1. CASE c \in 1 .. l
      <4>1. (k - l) + c \in 1 .. k
        <5>1. k \in Nat /\ l \in Nat /\ l <= k
          BY <1>1, <1>7
        <5> QED
          BY <3>1, <5>1
      <4> QED
        BY <1>7, <1>8, <3>1, <4>1
    <3>2. CASE c = l + 1
      <4>1. (k - l) + c = k + 1
        BY <1>1, <3>2
      <4> QED
        BY <1>5, <1>8, <3>2, <4>1
    <3> QED
      BY <1>1, <3>1, <3>2
  <2>3. k - l \in Nat
    BY <1>1, <1>7
  <2> QED
    BY <1>3, <2>1, <2>2, <2>3 DEF LoggedUpTo
<1>11. ASSUME NEW m \in UnfulfilledSteps(r)', r \in OpenRuns'
       PROVE  m = n
  <2>1. leaf' = AssistantId(r, m)
    BY <1>11 DEF EndsInv, EndInv, OpenEnd
  <2>2. leaf' = AssistantId(r, n)
    BY <1>0, BatchIsLast DEF ActingPc, LogIntent
  <2> QED
    BY <2>1, <2>2 DEF AssistantId
<1>12. Len(LastCalls)' = Len(cs)
  BY <1>3
<1> QED
  BY <1>2, <1>6, <1>10, <1>11, <1>12 DEF PrefixInv

\* A results entry repeats the calls of the last entry, or, when recovery
\* writes it, those of them that have intents.
LEMMA RepliesEntry ==
    ASSUME Before, EndsInv, PrefixInv, ResultsFollowTheirCalls, NEW p \in Procs,
           NEW id \in EntryId, NEW msg \in Message, EntryStep(p, id, msg), ~EntryExists(id),
           id.kind = "results" =>
               /\ leaf = AssistantId(id.run, id.step)
               /\ msg.kind = "results" => msg.calls = LastCalls
               /\ msg.kind = "interrupted" =>
                     /\ Len(msg.calls) \in 1 .. Len(LastCalls)
                     /\ msg.calls = SubSeq(LastCalls, 1, Len(msg.calls))
    PROVE  ResultsFollowTheirCalls'
<1> DEFINE n == Len(entries)
           Follows(e, i) ==
               e[i].id.kind = "results" =>
                   \E j \in 1 .. i - 1 :
                       /\ e[j].id = e[i].parent
                       /\ e[i].parent = AssistantId(e[i].id.run, e[i].id.step)
                       /\ e[i].msg.kind = "results" => e[i].msg.calls = e[j].msg.calls
                       /\ e[i].msg.kind = "interrupted" =>
                             /\ Len(e[i].msg.calls) \in 1 .. Len(e[j].msg.calls)
                             /\ e[i].msg.calls = SubSeq(e[j].msg.calls, 1, Len(e[i].msg.calls))
<1>0. StoreTypeOK /\ ChainInv /\ AppendEntry(id, msg)
  BY DEF Before, OneRunInv, TypeInv, TypeOK, EntryStep
<1>1. /\ DOMAIN entries = 1 .. n /\ n \in Nat /\ DOMAIN entries' = 1 .. n + 1
      /\ \A i \in 1 .. n : entries'[i] = entries[i]
      /\ entries'[n + 1].id = id /\ entries'[n + 1].msg = msg /\ entries'[n + 1].parent = leaf
  BY <1>0, EntryChain
<1>2. \A i \in DOMAIN entries : Follows(entries, i)
  BY DEF ResultsFollowTheirCalls
<1>3. ASSUME NEW i \in 1 .. n
      PROVE  Follows(entries', i)
  <2>1. \A j \in 1 .. i - 1 : j \in 1 .. n
    BY <1>1
  <2>2. entries'[i] = entries[i] /\ \A j \in 1 .. i - 1 : entries'[j] = entries[j]
    BY <1>1, <2>1
  <2>3. Follows(entries, i)
    BY <1>1, <1>2
  <2> QED
    BY <2>2, <2>3
<1>4. Follows(entries', n + 1)
  <2> SUFFICES ASSUME id.kind = "results"
               PROVE  Follows(entries', n + 1)
    BY <1>1
  <2>1. AssistantId(id.run, id.step) \in EntryId
    BY IdTypes DEF EntryId
  <2>2. n \in DOMAIN entries /\ entries[n].id = leaf
    BY <1>0, <2>1, LeafIsLast
  <2>3. n \in 1 .. (n + 1) - 1 /\ entries'[n].id = leaf /\ entries'[n].msg.calls = LastCalls
    BY <1>1, <2>2 DEF LastCalls
  <2> HIDE DEF n
  <2> QED
    BY <1>1, <2>3
<1>5. \A i \in DOMAIN entries' : Follows(entries', i)
  <2> HIDE DEF Follows
  <2>1. \A i \in 1 .. n + 1 : i \in 1 .. n \/ i = n + 1
    BY <1>1
  <2> QED
    BY <1>1, <1>3, <1>4, <2>1
<1> QED
  BY <1>5 DEF ResultsFollowTheirCalls

\* The intents of such a batch, listed in log order, are the calls themselves.
LEMMA ListsArePrefixes ==
    ASSUME NEW r, NEW n, NEW m \in Nat, LoggedUpTo(r, n, m), LastCalls \in Seq(Calls),
           m \in 1 .. Len(LastCalls), NEW cs \in IntentLists(r, n)
    PROVE  Len(cs) = m /\ cs = SubSeq(LastCalls, 1, m)
<1>1. PICK a \in Nat : /\ Intents(r, n) = a + 1 .. a + m
                       /\ \A c \in 1 .. m : records[a + c].call = LastCalls[c]
  BY DEF LoggedUpTo
<1>2. Cardinality(Intents(r, n)) = m
  <2>1. a + 1 \in Int /\ a + m \in Int /\ ~(a + 1 > a + m) /\ (a + m) - (a + 1) + 1 = m
    BY <1>1
  <2>2. Cardinality(a + 1 .. a + m) = m
    BY <2>1, FS_Interval
  <2> QED
    BY <1>1, <2>2
<1>3. cs \in [1 .. m -> Calls]
  BY <1>2 DEF IntentLists
<1>4. ASSUME NEW c \in 1 .. m
      PROVE  cs[c] = LastCalls[c]
  <2>1. a + c \in Intents(r, n)
    BY <1>1
  <2>2. {j \in Intents(r, n) : j <= a + c} = a + 1 .. a + c
    BY <1>1
  <2>3. Cardinality(a + 1 .. a + c) = c
    <3>1. a + 1 \in Int /\ a + c \in Int /\ ~(a + 1 > a + c) /\ (a + c) - (a + 1) + 1 = c
      <4>1. a \in Nat /\ c \in Nat /\ 1 <= c
        BY <1>1
      <4> QED
        BY <4>1
    <3> QED
      BY <3>1, FS_Interval
  <2>4. cs[Cardinality({j \in Intents(r, n) : j <= a + c})] = records[a + c].call
    BY <2>1 DEF IntentLists
  <2> QED
    BY <1>1, <2>2, <2>3, <2>4
<1> DEFINE s == LastCalls
<1>5. /\ s \in Seq(Calls) /\ m \in 1 .. Len(s) /\ cs \in [1 .. m -> Calls]
      /\ \A c \in 1 .. m : cs[c] = s[c]
  BY <1>3, <1>4
<1> HIDE DEF s
<1>6. cs = SubSeq(s, 1, m)
  BY <1>5
<1>7. Len(cs) = m
  BY <1>5
<1> QED
  BY <1>6, <1>7 DEF s

\* Both writers of results entries do so.
LEMMA RepliesStep ==
    ASSUME RunAssumption, Before, EndsInv, PrefixInv, ResultsFollowTheirCalls, NEW p \in Procs,
           Acquire(p) \/ Progress(p) \/ FaultStep(p), entries' # entries
    PROVE  ResultsFollowTheirCalls'
<1> PICK r, cs : r = task[p].run /\ cs = task[p].calls
  OBVIOUS
<1>0. /\ TypeInv /\ TypeOK /\ StoreTypeOK /\ ChainInv /\ AtMostOneOpenRun /\ Knows(p)
      /\ task[p] \in Task /\ r \in Nat /\ cs \in Seq(Calls)
  <2>1. TypeInv /\ StoreTypeOK /\ ChainInv /\ AtMostOneOpenRun /\ Knows(p) /\ task[p] \in Task
    BY DEF Before, OneRunInv, TypeInv, TypeOK, EndsInv
  <2> QED
    BY <2>1 DEF Task, TypeInv
<1>1. ASSUME NEW id \in EntryId, NEW msg \in Message, AppendEntry(id, msg)
      PROVE  ~EntryExists(id)
  BY <1>1 DEF AppendEntry
<1>2. CASE AppendResults(p)
  <2> DEFINE id == ResultsId(r, task[p].attempt)
             msg == ResultsMessage(cs)
  <2>1. /\ id \in EntryId /\ msg \in Message /\ id.run = r /\ id.step = task[p].attempt
        /\ msg.kind = "results" /\ msg.calls = cs
    BY <1>0, IdTypes, MessageTypes DEF ResultsId, ResultsMessage, Task
  <2>2. pc[p] = "results" /\ AppendEntry(id, msg) /\ records' = records
    BY <1>2 DEF AppendResults, At
  <2>3. leaf = AssistantId(r, task[p].attempt) /\ LastCalls = cs
    BY <2>2, BatchIsLast DEF ActingPc
  <2> HIDE DEF id, msg
  <2>4. EntryStep(p, id, msg) /\ ~EntryExists(id)
    BY <1>1, <2>1, <2>2 DEF EntryStep, WritingPc
  <2> QED
    BY <2>1, <2>3, <2>4, RepliesEntry
<1>3. CASE RecoverBatch(p)
  <2>0. PICK n \in UnfulfilledSteps(r) : \E xs \in IntentLists(r, n) :
               AppendEntry(ResultsId(r, n), InterruptedMessage(xs))
    BY <1>3 DEF RecoverBatch
  <2>1. PICK xs \in IntentLists(r, n) : AppendEntry(ResultsId(r, n), InterruptedMessage(xs))
    BY <2>0
  <2> DEFINE id == ResultsId(r, n)
             msg == InterruptedMessage(xs)
  <2>2. n \in Nat /\ xs \in Seq(Calls)
    <3>1. n \in Nat
      BY <1>0, RunAssumption, ListTypes
    <3> QED
      BY <1>0, <3>1, RunAssumption, ListTypes
  <2>3. /\ id \in EntryId /\ msg \in Message /\ id.run = r /\ id.step = n
        /\ msg.kind = "interrupted" /\ msg.calls = xs
    BY <1>0, <2>2, IdTypes, MessageTypes DEF ResultsId, InterruptedMessage
  <2>4. pc[p] = "batches" /\ AppendEntry(id, msg) /\ records' = records
    BY <1>3, <2>1 DEF RecoverBatch, At
  <2>5. r \in OpenRuns
    BY <1>0, <2>4, OnlyOpenRun DEF WritingPc
  <2>6. leaf = AssistantId(r, n)
    BY <2>5 DEF EndsInv, EndInv, OpenEnd
  <2>7. LastCalls \in Seq(Calls)
    <3>1. Len(entries) \in DOMAIN entries
      BY <1>0, <2>2, <2>6, IdTypes, LeafIsLast
    <3>2. entries[Len(entries)] \in Entry
      BY <1>0, <3>1 DEF StoreTypeOK
    <3> QED
      BY <3>2 DEF LastCalls, Entry, Message
  <2>8. PICK m \in 1 .. Len(LastCalls) : LoggedUpTo(r, n, m)
    BY <2>5 DEF PrefixInv
  <2>9. Len(xs) = m /\ xs = SubSeq(LastCalls, 1, m)
    <3>1. m \in Nat
      BY <2>7
    <3> QED
      BY <2>7, <2>8, <3>1, ListsArePrefixes
  <2> HIDE DEF id, msg
  <2>10. EntryStep(p, id, msg) /\ ~EntryExists(id)
    BY <1>1, <2>3, <2>4 DEF EntryStep, WritingPc
  <2> QED
    BY <2>3, <2>6, <2>9, <2>10, RepliesEntry
<1>4. CASE AppendUser(p) \/ AppendAssistant(p) \/ CloseTranscript(p)
  <2>1. \E id \in EntryId, msg \in Message : EntryStep(p, id, msg)
    BY <1>0, <1>4, RunAssumption, StepShape DEF QuietStep, RecordStep, Progress, Prepare, Send
  <2>2. PICK id \in EntryId, msg \in Message : EntryStep(p, id, msg)
    BY <2>1
  <2>3. leaf' = id /\ ~EntryExists(id)
    BY <1>1, <2>2 DEF EntryStep, AppendEntry
  <2>4. leaf' # leaf => leaf'.kind # "results"
    BY <1>4 DEF AppendUser, AppendAssistant, CloseTranscript, AppendEntry, UserId, AssistantId, ClosingId
  <2>5. leaf' # leaf
    BY <1>0, <2>3, LeafIsLast
  <2> QED
    BY <2>2, <2>3, <2>4, <2>5, RepliesEntry
<1> QED
  BY <1>2, <1>3, <1>4 DEF Progress, Prepare, Send, FaultStep, Acquire, ReadOpenRun, AbortRun,
     AbortMarker, GiveUp, CheckNoOpenRun, StartRun, MarkRun, StepAttempt, MaxTurnsReached,
     ProviderResponds, LogIntent, RunTools, FinishRun, FinishMarker, UpdateMeta, Exit, ProviderFails,
     WriteFails, Cancel, Crash, storeVars

\* ReplyInv is inductive on top of the invariants proved before.
LEMMA ReplyStep ==
    ASSUME RunAssumption, Before, EndsInv, EndsInv', IntentInv, ReplyInv, [Next]_vars
    PROVE  ReplyInv'
<1>0. /\ TypeInv /\ LockInv /\ StoreTypeOK /\ EndInv /\ EndInv' /\ PrefixInv /\ ResultsFollowTheirCalls
      /\ \A q \in Procs : Own(q) /\ Logging(q)
  BY IntentParts DEF Before, OneRunInv, TypeInv, TypeOK, EndsInv, ReplyInv
<1>1. CASE UNCHANGED vars
  <2>1. PrefixInv'
    BY <1>0, <1>1, PrefixQuiet DEF vars, QuietStep
  <2>2. \A q \in Procs : Logging(q)'
    BY <1>0, <1>1 DEF vars, Logging, Intents, RecordsOf
  <2>3. ResultsFollowTheirCalls'
    BY <1>0, <1>1 DEF vars, ResultsFollowTheirCalls
  <2> QED
    BY <2>1, <2>2, <2>3 DEF ReplyInv
<1>2. CASE Next
  <2>1. PICK p \in Procs : Acquire(p) \/ Progress(p) \/ FaultStep(p)
    BY <1>2 DEF Next
  <2>2. \A q \in Procs : Logging(q)'
    <3> TAKE q \in Procs
    <3>1. CASE q = p
      BY <1>0, <2>1, <3>1, RunAssumption, LoggingStep
    <3>2. CASE q # p
      <4>1. pc'[q] = "down"
        BY <1>0, <2>1, <3>2, RunAssumption, OthersStay, OthersRest DEF At
      <4> QED
        BY <4>1 DEF Logging
    <3> QED
      BY <3>1, <3>2
  <2>3. ResultsFollowTheirCalls'
    <3>1. CASE entries' = entries
      BY <1>0, <3>1 DEF ResultsFollowTheirCalls
    <3> QED
      BY <1>0, <2>1, <3>1, RunAssumption, RepliesStep
  <2>4. PrefixInv'
    <3>1. ASSUME NEW id \in EntryId, NEW msg \in Message, EntryStep(p, id, msg)
          PROVE  PrefixInv'
      <4>1. CASE EntryExists(id)
        BY <1>0, <3>1, <4>1, PrefixQuiet DEF EntryStep, AppendEntry, QuietStep
      <4>2. CASE ~EntryExists(id)
        BY <1>0, <3>1, <4>2, EntrySettles DEF EntryStep, PrefixInv
      <4> QED
        BY <4>1, <4>2
    <3>2. ASSUME NEW row \in Row, RecordStep(p, row), row.kind = "tool_started", ~LogIntent(p),
                 records' # records
          PROVE  FALSE
      <4>1. records'[Len(records')].kind = "tool_started"
        <5>1. records' = Append(records, Numbered(row, nextSeq)) /\ records \in Seq(Record)
          BY <1>0, <3>2 DEF RecordStep, AppendRecord, StoreTypeOK
        <5>2. Numbered(row, nextSeq).kind = "tool_started"
          BY <3>2 DEF Numbered
        <5> QED
          BY <5>1, <5>2
      <4>2. ASSUME NEW x, AppendRecord(x), x.kind # "tool_started"
            PROVE  FALSE
        <5>1. records' = Append(records, Numbered(x, nextSeq)) /\ records \in Seq(Record)
          BY <1>0, <3>2, <4>2 DEF AppendRecord, StoreTypeOK
        <5>2. Numbered(x, nextSeq).kind # "tool_started"
          BY <4>2 DEF Numbered
        <5> QED
          BY <4>1, <5>1, <5>2
      <4>3. \/ AppendRecord(FinishedRow(task[p].run, "aborted"))
            \/ AppendRecord(FinishedRow(task[p].run, task[p].outcome))
            \/ AppendRecord(StartedRow(nextSeq))
            \/ AppendRecord(StepRow(task[p].run, task[p].attempt))
        BY <2>1, <3>2 DEF Progress, Prepare, Send, FaultStep, Acquire, ReadOpenRun, RecoverBatch,
           CloseTranscript, AbortRun, AbortMarker, GiveUp, CheckNoOpenRun, StartRun, MarkRun, AppendUser,
           StepAttempt, MaxTurnsReached, ProviderResponds, AppendAssistant, RunTools, AppendResults,
           FinishRun, FinishMarker, UpdateMeta, Exit, ProviderFails, WriteFails, Cancel, Crash, storeVars
      <4> QED
        BY <4>2, <4>3 DEF FinishedRow, StartedRow, StepRow
    <3>3. ASSUME NEW row \in Row, RecordStep(p, row)
          PROVE  PrefixInv'
      <4>1. CASE row.kind # "tool_started"
        BY <1>0, <3>3, <4>1, PrefixRecord
      <4>2. CASE LogIntent(p)
        BY <1>0, <4>2, PrefixIntent
      <4>3. CASE records' = records
        <5>1. QuietStep
          BY <1>0, <3>3, <4>3 DEF RecordStep, AppendRecord, QuietStep, StoreTypeOK
        <5> QED
          BY <1>0, <5>1, PrefixQuiet
      <4> QED
        BY <3>2, <3>3, <4>1, <4>2, <4>3
    <3> QED
      BY <1>0, <2>1, <3>1, <3>3, RunAssumption, StepShape, PrefixQuiet
  <2> QED
    BY <2>2, <2>3, <2>4 DEF ReplyInv
<1> QED
  BY <1>1, <1>2

\* What the log says of a batch without results, in every reachable state.
THEOREM ReplyInvariant == ASSUME ReuseIds = FALSE PROVE Spec => []ReplyInv
<1>1. Init => ReplyInv
  <2> SUFFICES ASSUME Init
               PROVE  ReplyInv
    OBVIOUS
  <2>1. entries = <<>> /\ OpenRuns = {}
    BY DEF Init, StoreInit, OpenRuns, StartedRuns, RecordsOf
  <2>2. \A p \in Procs : pc[p] # "intents"
    BY DEF Init
  <2> QED
    BY <2>1, <2>2 DEF ReplyInv, PrefixInv, Logging, ResultsFollowTheirCalls
<1>2. OneRunInv /\ ClosedInv /\ ChainInv /\ EndsInv /\ EndsInv' /\ IntentInv /\ ReplyInv /\ [Next]_vars
         => ReplyInv'
  BY RunAssumption, ReplyStep DEF Before, ClosedInv
<1> QED
  BY <1>1, <1>2, OneRunInvariant, ClosedInvariant, PathInvariant, EndsInvariant, IntentInvariant,
     PTL DEF Spec

\* Every results entry hangs under the assistant entry of its attempt and
\* answers that message's calls in request order: all of them if the tools ran,
\* a leading part if recovery wrote it.  Recovery gets the calls from the log,
\* so this needs a log that names each of them once: the provider does not
\* repeat a tool_use id within a run.
THEOREM ResultsFollow == ASSUME ReuseIds = FALSE PROVE Spec => []ResultsFollowTheirCalls
<1>1. ReplyInv => ResultsFollowTheirCalls
  BY DEF ReplyInv
<1> QED
  BY <1>1, ReplyInvariant, PTL


-----------------------------------------------------------------------------
(* What the mapping needs to know of the loop beside the invariants.       *)

\* The calls of a response are one of the contract's requests, and a process
\* that finishes a run has started it and leaves none open.
LoopInv ==
    \A p \in Procs :
        /\ pc[p] = "assistant" => task[p].calls \in UNION {[1 .. n -> Calls] : n \in 0 .. MaxCalls}
        /\ pc[p] \in FinishPc => task[p].run \in StartedRuns
        /\ pc[p] \in {"clear", "meta"} => OpenRuns = {}

\* Started runs stay started.
LEMMA StartedStay ==
    ASSUME RunAssumption, TypeInv, NEW p \in Procs, Acquire(p) \/ Progress(p) \/ FaultStep(p)
    PROVE  StartedRuns \subseteq StartedRuns'
<1>0. StoreTypeOK
  BY DEF TypeInv, TypeOK
<1>1. ASSUME NEW row \in Row, AppendRecord(row)
      PROVE  StartedRuns \subseteq StartedRuns'
  BY <1>0, <1>1, RecordReads DEF StartedRuns, RecordsOf
<1>2. CASE records' = records
  BY <1>2 DEF StartedRuns, RecordsOf
<1> QED
  BY <1>1, <1>2, RunAssumption, StepShape DEF QuietStep, EntryStep, RecordStep

\* LoopInv is inductive on top of the invariants proved before.
LEMMA LoopStep ==
    ASSUME RunAssumption, Before, EndsInv, LoopInv, [Next]_vars
    PROVE  LoopInv'
<1>0. TypeInv /\ LockInv /\ StoreTypeOK /\ AtMostOneOpenRun
  BY DEF Before, OneRunInv, TypeInv, TypeOK
<1>1. CASE UNCHANGED vars
  BY <1>1 DEF vars, LoopInv, OpenRuns, StartedRuns, FinishedRuns, RecordsOf
<1>2. ASSUME NEW p \in Procs, Acquire(p) \/ Progress(p) \/ FaultStep(p)
      PROVE  /\ pc'[p] = "assistant" => task'[p].calls \in UNION {[1 .. n -> Calls] : n \in 0 .. MaxCalls}
             /\ pc'[p] \in FinishPc => task'[p].run \in StartedRuns'
             /\ pc'[p] \in {"clear", "meta"} => OpenRuns' = {}
  <2>0. pc \in [Procs -> Pc] /\ task \in [Procs -> Task] /\ task[p] \in Task /\ Knows(p)
    BY <1>0 DEF TypeInv, TypeOK, EndsInv
  <2>1. pc'[p] = "assistant" => ProviderResponds(p)
    BY <1>2, <2>0 DEF Progress, Prepare, Send, FaultStep, Acquire, ReadOpenRun, RecoverBatch,
       CloseTranscript, AbortRun, AbortMarker, GiveUp, CheckNoOpenRun, StartRun, MarkRun, AppendUser,
       StepAttempt, MaxTurnsReached, AppendAssistant, LogIntent, RunTools, AppendResults, FinishRun,
       FinishMarker, UpdateMeta, Exit, ProviderFails, WriteFails, Cancel, Crash, LoadTranscript, Fail,
       Goto, At
  <2>2. ASSUME ProviderResponds(p)
        PROVE  task'[p].calls \in UNION {[1 .. n -> Calls] : n \in 0 .. MaxCalls}
    <3>1. PICK cs \in Responses(task[p].run), s \in {"end_turn", "max_tokens"} :
             task' = [task EXCEPT ![p].calls = cs, ![p].stop = s, ![p].logged = 0]
      BY <2>2 DEF ProviderResponds
    <3>2. task' = [task EXCEPT ![p] = [task[p] EXCEPT !.calls = cs, !.stop = s, !.logged = 0]]
      BY <2>0, <3>1
    <3>3. task'[p].calls = cs
      BY <2>0, <3>2 DEF Task
    <3> QED
      BY <3>1, <3>3 DEF Responses
  <2>3. StartedRuns \subseteq StartedRuns'
    BY <1>0, <1>2, RunAssumption, StartedStay
  <2>4. ASSUME pc'[p] \in FinishPc
        PROVE  task'[p].run = task[p].run /\ task[p].run \in StartedRuns
    <3>1. pc[p] \in ThinkingPc \union ActingPc \union FinishPc
      BY <1>2, <2>0, <2>4 DEF Progress, Prepare, Send, FaultStep, Acquire, ReadOpenRun, RecoverBatch,
         CloseTranscript, AbortRun, AbortMarker, GiveUp, CheckNoOpenRun, StartRun, MarkRun, AppendUser,
         StepAttempt, MaxTurnsReached, ProviderResponds, AppendAssistant, LogIntent, RunTools,
         AppendResults, FinishRun, FinishMarker, UpdateMeta, Exit, ProviderFails, WriteFails, Cancel,
         Crash, LoadTranscript, Fail, Goto, At, ThinkingPc, ActingPc, FinishPc
    <3>2. task[p].run \in StartedRuns
      BY <2>0, <3>1 DEF LoopInv, Knows, OpenRuns, WritingPc, ThinkingPc, ActingPc
    <3>3. ~StartRun(p) /\ ~ReadOpenRun(p)
      BY <3>1 DEF StartRun, ReadOpenRun, At, ThinkingPc, ActingPc, FinishPc
    <3>4. ~(AbortMarker(p) \/ Exit(p) \/ Crash(p))
      BY <2>0, <2>4 DEF AbortMarker, LoadTranscript, Exit, Crash, Goto, FinishPc
    <3>5. CASE ~ProviderResponds(p)
      <4>1. \/ task' = task
            \/ \E x : task' = [task EXCEPT ![p].attempt = x]
            \/ \E x : task' = [task EXCEPT ![p].outcome = x]
            \/ \E x : task' = [task EXCEPT ![p].logged = x]
        BY <1>2, <3>3, <3>4, <3>5 DEF Progress, Prepare, Send, FaultStep, Acquire, RecoverBatch,
           CloseTranscript, AbortRun, GiveUp, CheckNoOpenRun, MarkRun, AppendUser, StepAttempt,
           MaxTurnsReached, AppendAssistant, LogIntent, RunTools, AppendResults, FinishRun, FinishMarker,
           UpdateMeta, ProviderFails, WriteFails, Cancel, Fail
      <4> QED
        BY <2>0, <3>2, <4>1 DEF Task
    <3>6. CASE ProviderResponds(p)
      BY <2>0, <2>4, <3>6 DEF ProviderResponds, Goto, FinishPc
    <3> QED
      BY <3>5, <3>6
  <2>5. ASSUME pc'[p] \in {"clear", "meta"}
        PROVE  OpenRuns' = {}
    <3>1. FinishRun(p) \/ FinishMarker(p)
      BY <1>2, <2>0, <2>5 DEF Progress, Prepare, Send, FaultStep, Acquire, ReadOpenRun, RecoverBatch,
         CloseTranscript, AbortRun, AbortMarker, GiveUp, CheckNoOpenRun, StartRun, MarkRun, AppendUser,
         StepAttempt, MaxTurnsReached, ProviderResponds, AppendAssistant, LogIntent, RunTools,
         AppendResults, UpdateMeta, Exit, ProviderFails, WriteFails, Cancel, Crash, LoadTranscript,
         Fail, Goto, At
    <3>2. CASE FinishMarker(p)
      <4>1. OpenRuns = {} /\ records' = records
        BY <3>2 DEF FinishMarker, At, LoopInv
      <4> QED
        BY <4>1 DEF OpenRuns, StartedRuns, FinishedRuns, RecordsOf
    <3>3. CASE FinishRun(p)
      <4> DEFINE row == FinishedRow(task[p].run, task[p].outcome)
      <4>1. row \in Row /\ row.kind = "operation_finished" /\ row.run = task[p].run
        BY <2>0 DEF FinishedRow, Row, RecordKind, Task, Outcome
      <4>2. OpenRuns \subseteq {task[p].run} /\ AppendRecord(row)
        BY <2>0, <3>3 DEF FinishRun, At, Knows, FinishPc
      <4> HIDE DEF row
      <4>3. OpenRuns' \subseteq OpenRuns /\ task[p].run \notin OpenRuns'
        BY <1>0, <4>1, <4>2, AppendRecordReads DEF OpenRuns
      <4> QED
        BY <4>2, <4>3
    <3> QED
      BY <3>1, <3>2, <3>3
  <2> QED
    BY <2>1, <2>2, <2>3, <2>4, <2>5
<1>3. CASE Next
  <2>1. PICK p \in Procs : Acquire(p) \/ Progress(p) \/ FaultStep(p)
    BY <1>3 DEF Next
  <2>2. \A q \in Procs \ {p} : pc'[q] = "down"
    BY <1>0, <2>1, RunAssumption, OthersStay, OthersRest DEF At
  <2> QED
    BY <1>2, <2>1, <2>2 DEF LoopInv, FinishPc
<1> QED
  BY <1>1, <1>3

-----------------------------------------------------------------------------
(* What the mapped variables are, program point by program point.          *)

\* A transcript that recovery has ended.
Close(t) == IF EndsOnUser(t) THEN Append(t, ClosingMessage) ELSE t

\* Outcome of the last finish record.
LastOutcome ==
    LET ends == RecordsOf("operation_finished") IN
    IF ends = {} THEN "none" ELSE records[CHOOSE i \in ends : \A j \in ends : j <= i].outcome

\* What recovery would make of the open run: nothing but a closing note, or the
\* results of the leading part of a batch that is in the log.
SettledInv ==
    \A r \in OpenRuns :
        /\ UnfulfilledSteps(r) = {} => SettledTranscript = Close(Transcript)
        /\ \A n \in UnfulfilledSteps(r) :
              \E k \in 1 .. Len(LastCalls) :
                  /\ IntentLists(r, n) = {SubSeq(LastCalls, 1, k)}
                  /\ SettledTranscript =
                        Append(Append(Transcript, InterruptedMessage(SubSeq(LastCalls, 1, k))), ClosingMessage)

\* The phase of a live run.
PhaseInv ==
    /\ ~Live => MappedPhase = "idle"
    /\ \A p \in Procs : OpenRuns # {} =>
          /\ pc[p] \in LivePc => Live
          /\ pc[p] \in {"mark", "user"} => MappedPhase = "begun" /\ UnfulfilledSteps(task[p].run) = {}
          /\ pc[p] \in ThinkingPc => MappedPhase = "turn"
          /\ pc[p] \in ActingPc =>
                MappedPhase = "called" /\ Transcript[Len(Transcript)].calls = task[p].calls
          /\ pc[p] = "finish" =>
                /\ MappedPhase \in {"turn", "called", "answered"}
                /\ task[p].outcome # "failed" => MappedPhase = "answered"
          /\ pc[p] \in LivePc => \A r \in OpenRuns : UnfulfilledSteps(r) # {} =>
                MappedPhase = "called" /\ Transcript[Len(Transcript)].calls = LastCalls

\* The three mapped variables where nothing is open, where a run is live, and
\* where it waits for recovery.
MappedInv ==
    /\ OpenRuns = {} => MappedTranscript = Transcript /\ MappedOutcome = LastOutcome
    /\ Live => MappedTranscript = Transcript /\ MappedOutcome = LastOutcome
    /\ OpenRuns # {} /\ ~Live => MappedTranscript = SettledTranscript /\ MappedOutcome = "aborted"

LEMMA MappedReads == ASSUME PathInv PROVE MappedInv
BY DEF MappedInv, PathInv, MappedTranscript, MappedOutcome, LastOutcome, Live

-----------------------------------------------------------------------------
(* The loop invariant, and the readings above, in every reachable state.   *)

THEOREM LoopInvariant == Spec => []LoopInv
<1>1. Init => LoopInv
  BY DEF Init, LoopInv, FinishPc
<1>2. OneRunInv /\ ClosedInv /\ ChainInv /\ EndsInv /\ LoopInv /\ [Next]_vars => LoopInv'
  BY RunAssumption, LoopStep DEF Before, ClosedInv
<1> QED
  BY <1>1, <1>2, OneRunInvariant, ClosedInvariant, PathInvariant, EndsInvariant, PTL DEF Spec

\* The intents of a batch, listed in log order, do have a list.
LEMMA ListExists ==
    ASSUME NEW r, NEW n, NEW m \in Nat, LoggedUpTo(r, n, m), LastCalls \in Seq(Calls),
           m \in 1 .. Len(LastCalls)
    PROVE  IntentLists(r, n) = {SubSeq(LastCalls, 1, m)}
<1>1. PICK a \in Nat : /\ Intents(r, n) = a + 1 .. a + m
                       /\ \A c \in 1 .. m : records[a + c].call = LastCalls[c]
  BY DEF LoggedUpTo
<1>2. Cardinality(Intents(r, n)) = m
  <2>1. a + 1 \in Int /\ a + m \in Int /\ ~(a + 1 > a + m) /\ (a + m) - (a + 1) + 1 = m
    BY <1>1
  <2>2. Cardinality(a + 1 .. a + m) = m
    BY <2>1, FS_Interval
  <2> QED
    BY <1>1, <2>2
<1> DEFINE s == LastCalls
<1>3. s \in Seq(Calls) /\ m \in 1 .. Len(s)
  OBVIOUS
<1> HIDE DEF s
<1>4. /\ SubSeq(s, 1, m) \in [1 .. m -> Calls]
      /\ \A c \in 1 .. m : SubSeq(s, 1, m)[c] = s[c]
  <2>1. SubSeq(s, 1, m) \in Seq(Calls) /\ Len(SubSeq(s, 1, m)) = m
    BY <1>3
  <2>2. \A c \in 1 .. m : SubSeq(s, 1, m)[c] = s[c]
    BY <1>3
  <2> DEFINE u == SubSeq(s, 1, m)
  <2>3. u \in Seq(Calls) /\ Len(u) = m
    BY <2>1
  <2> HIDE DEF u
  <2>4. u \in [1 .. m -> Calls]
    BY <2>3
  <2> QED
    BY <2>2, <2>4 DEF u
<1>5. ASSUME NEW i \in Intents(r, n)
      PROVE  SubSeq(s, 1, m)[Cardinality({j \in Intents(r, n) : j <= i})] = records[i].call
  <2>1. PICK c \in 1 .. m : i = a + c
    <3>1. i \in a + 1 .. a + m
      BY <1>1, <1>5
    <3>2. i - a \in 1 .. m /\ i = a + (i - a)
      BY <3>1
    <3> QED
      BY <3>2
  <2>2. {j \in Intents(r, n) : j <= i} = a + 1 .. a + c
    BY <1>1, <2>1
  <2>3. Cardinality(a + 1 .. a + c) = c
    <3>1. a + 1 \in Int /\ a + c \in Int /\ ~(a + 1 > a + c) /\ (a + c) - (a + 1) + 1 = c
      <4>1. a \in Nat /\ c \in Nat /\ 1 <= c
        BY <2>1
      <4> QED
        BY <4>1
    <3> QED
      BY <3>1, FS_Interval
  <2> QED
    BY <1>1, <1>4, <2>1, <2>2, <2>3 DEF s
<1>6. SubSeq(s, 1, m) \in IntentLists(r, n)
  BY <1>2, <1>4, <1>5 DEF IntentLists
<1> QED
  BY <1>6, ListsArePrefixes DEF s

\* The open run is the one recovery looks at, and it has one batch at most.
LEMMA SettledReads ==
    ASSUME Before, PathInv, EndsInv, PrefixInv
    PROVE  SettledInv
<1>0. /\ StoreTypeOK /\ ChainInv /\ AtMostOneOpenRun /\ PathMessages = Transcript
      /\ Transcript \in Seq(Message) /\ EndInv
  BY TranscriptType DEF Before, OneRunInv, TypeInv, TypeOK, PathInv, EndsInv
<1> SUFFICES ASSUME NEW r \in OpenRuns
             PROVE  /\ UnfulfilledSteps(r) = {} => SettledTranscript = Close(Transcript)
                    /\ \A n \in UnfulfilledSteps(r) :
                         \E k \in 1 .. Len(LastCalls) :
                           /\ IntentLists(r, n) = {SubSeq(LastCalls, 1, k)}
                           /\ SettledTranscript =
                                Append(Append(Transcript, InterruptedMessage(SubSeq(LastCalls, 1, k))),
                                       ClosingMessage)
  BY DEF SettledInv
<1>1. (CHOOSE x \in OpenRuns : TRUE) = r
  BY <1>0 DEF AtMostOneOpenRun
<1>2. UnfulfilledSteps(r) = {} => SettledTranscript = Close(Transcript)
  BY <1>0, <1>1 DEF SettledTranscript, Close
<1>3. ASSUME NEW n \in UnfulfilledSteps(r)
      PROVE  \E k \in 1 .. Len(LastCalls) :
                /\ IntentLists(r, n) = {SubSeq(LastCalls, 1, k)}
                /\ SettledTranscript =
                     Append(Append(Transcript, InterruptedMessage(SubSeq(LastCalls, 1, k))), ClosingMessage)
  <2>1. \A m \in UnfulfilledSteps(r) : leaf = AssistantId(r, m)
    BY <1>0 DEF EndInv, OpenEnd
  <2>2. \A m \in UnfulfilledSteps(r) : m = n
    <3>1. \A m \in UnfulfilledSteps(r) : AssistantId(r, m) = AssistantId(r, n)
      BY <2>1
    <3> QED
      BY <3>1 DEF AssistantId
  <2>3. PICK k \in 1 .. Len(LastCalls) : LoggedUpTo(r, n, k)
    BY DEF PrefixInv
  <2>4. LastCalls \in Seq(Calls)
    <3>1. /\ entries \in Seq(Entry) /\ entries # <<>>
      <4>1. leaf # NoEntry
        BY <2>1 DEF AssistantId, NoEntry
      <4> QED
        BY <1>0, <4>1 DEF ChainInv, StoreTypeOK
    <3>2. entries[Len(entries)] \in Entry
      BY <3>1
    <3> QED
      BY <3>2 DEF LastCalls, Entry, Message
  <2>5. k \in Nat /\ IntentLists(r, n) = {SubSeq(LastCalls, 1, k)}
    <3>1. k \in Nat
      BY <2>4
    <3> QED
      BY <2>3, <2>4, <3>1, ListExists
  <2> DEFINE cs == SubSeq(LastCalls, 1, k)
  <2>6. InterruptedMessage(cs) \in Message /\ Role(InterruptedMessage(cs)) = "user"
    <3> DEFINE s == LastCalls
    <3>1. s \in Seq(Calls) /\ k \in 1 .. Len(s)
      BY <2>4
    <3> HIDE DEF s
    <3>2. SubSeq(s, 1, k) \in Seq(Calls)
      BY <3>1
    <3>3. cs \in Seq(Calls)
      BY <3>2 DEF s
    <3> HIDE DEF cs
    <3> QED
      BY <3>3, MessageTypes DEF InterruptedMessage, Role
  <2>7. (CHOOSE m \in UnfulfilledSteps(r) : TRUE) = n /\ (CHOOSE x \in IntentLists(r, n) : TRUE) = cs
    BY <2>2, <2>5
  <2>8. EndsOnUser(Append(Transcript, InterruptedMessage(cs)))
    <3> HIDE DEF cs
    <3> QED
      BY <1>0, <2>6, LastMessage
  <2>9. SettledTranscript = Append(Append(Transcript, InterruptedMessage(cs)), ClosingMessage)
    <3> HIDE DEF cs
    <3> QED
      BY <1>0, <1>1, <2>7, <2>8 DEF SettledTranscript
  <2> QED
    BY <2>5, <2>9
<1> QED
  BY <1>2, <1>3

\* A live run has a process at one of its program points, and that process
\* knows where the transcript stands.
LEMMA PhaseReads ==
    ASSUME Before, PathInv, EndsInv, PrefixInv
    PROVE  PhaseInv
<1>0. /\ StoreTypeOK /\ ChainInv /\ AtMostOneOpenRun /\ PathMessages = Transcript
      /\ Transcript \in Seq(Message) /\ EndInv
  BY TranscriptType DEF Before, OneRunInv, TypeInv, TypeOK, PathInv, EndsInv
<1>1. ~Live => MappedPhase = "idle"
  BY DEF MappedPhase
<1>2. ASSUME NEW p \in Procs, OpenRuns # {}, pc[p] \in LivePc
      PROVE  /\ Live
             /\ pc[p] \in {"mark", "user"} => MappedPhase = "begun" /\ UnfulfilledSteps(task[p].run) = {}
             /\ pc[p] \in ThinkingPc => MappedPhase = "turn"
             /\ pc[p] \in ActingPc =>
                   MappedPhase = "called" /\ Transcript[Len(Transcript)].calls = task[p].calls
             /\ pc[p] = "finish" =>
                   /\ MappedPhase \in {"turn", "called", "answered"}
                   /\ task[p].outcome # "failed" => MappedPhase = "answered"
             /\ \A r \in OpenRuns : UnfulfilledSteps(r) # {} =>
                   MappedPhase = "called" /\ Transcript[Len(Transcript)].calls = LastCalls
  <2> DEFINE last == PathMessages[Len(PathMessages)]
  <2> PICK r : r = task[p].run
    OBVIOUS
  <2>1. Live
    BY <1>2 DEF Live
  <2>2. Knows(p) /\ OpenRuns = {r} /\ task[p] \in Task /\ task[p].calls \in Seq(Calls)
    <3>1. Knows(p)
      BY DEF EndsInv
    <3>2. task[p] \in Task
      BY DEF Before, OneRunInv, TypeInv, TypeOK
    <3>3. OpenRuns = {r}
      BY <1>0, <1>2, <3>1, OnlyOpenRun DEF Knows, LivePc, SendPc, WritingPc, FinishPc
    <3> QED
      BY <3>1, <3>2, <3>3 DEF Task
  <2>3. ASSUME pc[p] \in {"mark", "user"}
        PROVE  MappedPhase = "begun" /\ UnfulfilledSteps(r) = {}
    <3>1. \A i \in DOMAIN entries : entries[i].id.run # r
      BY <2>2, <2>3 DEF Knows
    <3>2. ~EntryExists(UserId(r))
      BY <3>1 DEF EntryExists, UserId
    <3>3. \A i \in RecordsOf("tool_started") : records[i].run # r
      <4> TAKE i \in RecordsOf("tool_started")
      <4>1. EntryExists(AssistantId(records[i].run, records[i].step))
        BY <1>0 DEF EndInv
      <4>2. AssistantId(records[i].run, records[i].step).run = records[i].run
        BY DEF AssistantId
      <4> QED
        BY <3>1, <4>1, <4>2 DEF EntryExists
    <3> QED
      BY <2>1, <2>2, <3>2, <3>3 DEF MappedPhase, UnfulfilledSteps, Intents
  <2>4. pc[p] \notin {"mark", "user"} =>
           MappedPhase = CASE Role(last) = "user" -> "turn"
                           [] Role(last) # "user" /\ last.calls = <<>> -> "answered"
                           [] OTHER -> "called"
    <3>1. pc[p] \notin {"mark", "user"} => EntryExists(UserId(r))
      BY <1>2, <2>2 DEF Knows, LivePc, SendPc, ThinkingPc, ActingPc, FinishPc
    <3> QED
      BY <2>1, <2>2, <3>1 DEF MappedPhase
  <2>5. last = Transcript[Len(Transcript)]
    BY <1>0
  <2> HIDE DEF last
  <2>6. pc[p] \in ThinkingPc => MappedPhase = "turn"
    BY <2>2, <2>4, <2>5 DEF Knows, EndsOnUser, ThinkingPc
  <2>7. ASSUME pc[p] \in ActingPc
        PROVE  MappedPhase = "called" /\ last.calls = task[p].calls
    <3>1. last = AssistantMessage(task[p].calls) /\ task[p].calls # <<>>
      <4>1. /\ Transcript = Append(mem[p], AssistantMessage(task[p].calls)) /\ task[p].calls # <<>>
        BY <2>2, <2>7 DEF Knows
      <4>2. mem[p] \in Seq(Message) /\ AssistantMessage(task[p].calls) \in Message
        BY <2>2, MessageTypes DEF EndsInv, MemType
      <4> QED
        BY <2>5, <4>1, <4>2, LastMessage
    <3> QED
      BY <2>4, <2>7, <3>1 DEF AssistantMessage, Role, ActingPc
  <2>8. ASSUME pc[p] = "finish"
        PROVE  /\ MappedPhase \in {"turn", "called", "answered"}
               /\ task[p].outcome # "failed" => MappedPhase = "answered"
    <3>1. task[p].outcome # "failed" => last = AssistantMessage(<<>>)
      BY <2>2, <2>5, <2>8 DEF Knows, FinishPc
    <3> QED
      BY <2>4, <2>8, <3>1 DEF AssistantMessage, Role
  <2>9. ASSUME NEW n \in UnfulfilledSteps(r)
        PROVE  MappedPhase = "called" /\ last.calls = LastCalls
    <3>1. leaf = AssistantId(r, n) /\ leaf \in EntryId
      <4>1. leaf = AssistantId(r, n)
        BY <1>0, <2>2 DEF EndInv, OpenEnd
      <4> QED
        BY <1>0, <4>1 DEF StoreTypeOK, AssistantId, NoEntry
    <3>2. /\ Len(entries) \in DOMAIN entries /\ entries[Len(entries)].id = leaf
          /\ last = entries[Len(entries)].msg
      BY <1>0, <2>5, <3>1, LeafIsLast
    <3>3. last.kind = "assistant" /\ last.calls = LastCalls
      BY <1>0, <3>1, <3>2 DEF EndInv, MessageInv, AssistantId, LastCalls
    <3>4. LastCalls # <<>>
      <4>1. PICK m \in 1 .. Len(LastCalls) : LoggedUpTo(r, n, m)
        BY <2>2 DEF PrefixInv
      <4>2. Len(<<>>) = 0
        OBVIOUS
      <4> QED
        BY <4>1, <4>2
    <3>5. pc[p] \notin {"mark", "user"}
      BY <2>3
    <3> QED
      BY <2>4, <3>3, <3>4, <3>5 DEF Role
  <2> QED
    BY <2>1, <2>2, <2>3, <2>5, <2>6, <2>7, <2>8, <2>9
<1> QED
  BY <1>1, <1>2 DEF PhaseInv, LivePc, SendPc, ThinkingPc, ActingPc

-----------------------------------------------------------------------------
(* The steps of the contract.                                              *)

\* A step of the contract, or none.
ContractStep == [Contract!ContractNext]_(Contract!contractVars)

Stutter ==
    /\ MappedTranscript' = MappedTranscript
    /\ MappedPhase' = MappedPhase
    /\ MappedOutcome' = MappedOutcome

LEMMA StutterMaps == ASSUME Stutter PROVE ContractStep
BY DEF Stutter, ContractStep, Contract!contractVars

LEMMA BeginMaps ==
    ASSUME MappedPhase = "idle", MappedPhase' = "begun", MappedTranscript' = MappedTranscript,
           MappedOutcome' = MappedOutcome
    PROVE  ContractStep
BY DEF ContractStep, Contract!ContractNext, Contract!Begin

LEMMA PromptMaps ==
    ASSUME MappedPhase = "begun", MappedPhase' = "turn", MappedOutcome' = MappedOutcome,
           MappedTranscript' = Append(MappedTranscript, UserMessage)
    PROVE  ContractStep
BY DEF ContractStep, Contract!ContractNext, Contract!Prompt, UserMessage

LEMMA RespondMaps ==
    ASSUME NEW cs \in UNION {[1 .. n -> Calls] : n \in 0 .. MaxCalls},
           MappedPhase = "turn", MappedPhase' = IF cs = <<>> THEN "answered" ELSE "called",
           MappedOutcome' = MappedOutcome,
           MappedTranscript' = Append(MappedTranscript, AssistantMessage(cs))
    PROVE  ContractStep
BY DEF ContractStep, Contract!ContractNext, Contract!Respond, AssistantMessage

LEMMA AnswerMaps ==
    ASSUME MappedPhase = "called", MappedPhase' = "turn", MappedOutcome' = MappedOutcome,
           MappedTranscript' =
              Append(MappedTranscript, ResultsMessage(MappedTranscript[Len(MappedTranscript)].calls))
    PROVE  ContractStep
BY DEF ContractStep, Contract!ContractNext, Contract!Answer, Contract!LastMessage, ResultsMessage

LEMMA FinishMaps ==
    ASSUME \/ MappedPhase = "answered" /\ MappedOutcome' \in {"completed", "truncated", "failed"}
           \/ MappedPhase \in {"turn", "called"} /\ MappedOutcome' = "failed",
           MappedPhase' = "idle", MappedTranscript' = MappedTranscript
    PROVE  ContractStep
BY DEF ContractStep, Contract!ContractNext, Contract!Finish

\* The contract and the store agree on what a transcript needs to be closed.
LEMMA ClosedIsClose ==
    ASSUME NEW t \in Seq(Message)
    PROVE  Contract!Closed(t) = Close(t)
<1>1. CASE t = <<>>
  BY <1>1 DEF Contract!Closed, Contract!EndsOnUserTurn, Close, EndsOnUser
<1>2. CASE t # <<>>
  <2>1. t[Len(t)] \in Message
    BY <1>2
  <2>2. Role(t[Len(t)]) = "user" <=> t[Len(t)].kind \in {"user", "results", "interrupted"}
    BY <2>1 DEF Role, Message, MessageKind
  <2> QED
    BY <1>2, <2>2 DEF Contract!Closed, Contract!EndsOnUserTurn, Close, EndsOnUser, ClosingMessage
<1> QED
  BY <1>1, <1>2

\* A run is cut short with nothing to answer, or with the first k calls of the
\* last message.
LEMMA AbortMaps ==
    ASSUME MappedTranscript \in Seq(Message), MappedPhase # "idle",
           MappedTranscript' = Close(MappedTranscript),
           MappedPhase' = "idle", MappedOutcome' = "aborted"
    PROVE  ContractStep
<1> DEFINE cs == MappedTranscript[Len(MappedTranscript)].calls
<1>1. CASE MappedPhase # "called"
  BY <1>1, ClosedIsClose DEF ContractStep, Contract!ContractNext, Contract!Abort
<1>2. CASE MappedPhase = "called"
  <2>1. Contract!Closed(Contract!Interrupted(0)) = Close(MappedTranscript)
    BY ClosedIsClose DEF Contract!Interrupted
  <2>2. 0 \in 0 .. Len(Contract!LastMessage.calls)
    OBVIOUS
  <2> QED
    BY <1>2, <2>1, <2>2 DEF ContractStep, Contract!ContractNext, Contract!Abort
<1> QED
  BY <1>1, <1>2

LEMMA AbortBatchMaps ==
    ASSUME NEW cs \in Seq(Calls), cs = MappedTranscript[Len(MappedTranscript)].calls, NEW k \in 1 .. Len(cs),
           MappedTranscript \in Seq(Message), MappedPhase = "called",
           MappedTranscript' = Append(Append(MappedTranscript, InterruptedMessage(SubSeq(cs, 1, k))), ClosingMessage),
           MappedPhase' = "idle", MappedOutcome' = "aborted"
    PROVE  ContractStep
<1> DEFINE t == Append(MappedTranscript, InterruptedMessage(SubSeq(cs, 1, k)))
<1>1. k # 0 /\ k \in 0 .. Len(cs)
  OBVIOUS
<1>2. Contract!Interrupted(k) = t
  BY <1>1 DEF Contract!Interrupted, Contract!LastMessage, InterruptedMessage
<1>3. InterruptedMessage(SubSeq(cs, 1, k)) \in Message /\ Role(InterruptedMessage(SubSeq(cs, 1, k))) = "user"
  <2>1. SubSeq(cs, 1, k) \in Seq(Calls)
    OBVIOUS
  <2> QED
    BY <2>1, MessageTypes DEF InterruptedMessage, Role
<1>4. t \in Seq(Message) /\ EndsOnUser(t)
  BY <1>3, LastMessage
<1> HIDE DEF t
<1>5. Contract!Closed(Contract!Interrupted(k)) = Append(t, ClosingMessage)
  BY <1>2, <1>4, ClosedIsClose DEF Close
<1>6. MappedTranscript' = Contract!Closed(Contract!Interrupted(k))
  BY <1>5 DEF t
<1>7. k \in 0 .. Len(Contract!LastMessage.calls)
  BY <1>1 DEF Contract!LastMessage
<1> QED
  BY <1>6, <1>7 DEF ContractStep, Contract!ContractNext, Contract!Abort

-----------------------------------------------------------------------------
(* The last finish record.                                                 *)

\* A non-empty set of positions in a list has a last one.
LEMMA LastPosition ==
    ASSUME NEW n \in Nat, NEW S, S \subseteq 1 .. n, S # {}
    PROVE  \E i \in S : \A j \in S : j <= i
<1> DEFINE T == {n - i : i \in S}
<1>1. T \subseteq Nat /\ T # {}
  <2>1. \A i \in S : i \in Nat /\ i <= n
    OBVIOUS
  <2>2. \A i \in S : n - i \in Nat
    BY <2>1
  <2> QED
    BY <2>2
<1>2. PICK x \in T : \A y \in T : x <= y
  <2> HIDE DEF T
  <2> QED
    BY <1>1, NatLeast
<1>3. PICK i \in S : x = n - i
  OBVIOUS
<1>4. \A j \in S : n - i <= n - j
  BY <1>2, <1>3
<1> QED
  BY <1>4

\* A record of another kind leaves it alone.
LEMMA OutcomeKept ==
    ASSUME StoreTypeOK, NEW row \in Row, AppendRecord(row), row.kind # "operation_finished"
    PROVE  LastOutcome' = LastOutcome
<1> DEFINE ends == RecordsOf("operation_finished")
<1>1. /\ records \in Seq(Record) /\ DOMAIN records = 1 .. Len(records) /\ Len(records) \in Nat
      /\ \A i \in DOMAIN records : i \in DOMAIN records' /\ records'[i] = records[i]
      /\ \A i \in DOMAIN records' : \/ i \in DOMAIN records /\ records'[i] = records[i]
                                    \/ records'[i] = Numbered(row, nextSeq)
  BY RecordReads DEF StoreTypeOK
<1>2. ends' = ends
  BY <1>1 DEF RecordsOf, Numbered
<1>3. CASE ends = {}
  BY <1>2, <1>3 DEF LastOutcome
<1>4. CASE ends # {}
  <2> DEFINE last == CHOOSE i \in ends : \A j \in ends : j <= i
  <2>1. last \in ends
    <3>1. ends \subseteq 1 .. Len(records)
      BY <1>1 DEF RecordsOf
    <3> HIDE DEF ends
    <3>2. \E i \in ends : \A j \in ends : j <= i
      BY <1>1, <1>4, <3>1, LastPosition
    <3> QED
      BY <3>2
  <2>2. records'[last] = records[last]
    BY <1>1, <2>1 DEF RecordsOf
  <2>3. LastOutcome = records[last].outcome
    BY <1>4 DEF LastOutcome
  <2>4. LastOutcome' = records'[last].outcome
    <3>1. LastOutcome' = IF ends' = {} THEN "none"
                         ELSE records'[CHOOSE i \in ends' : \A j \in ends' : j <= i].outcome
      BY DEF LastOutcome
    <3> HIDE DEF ends
    <3> QED
      BY <1>2, <1>4, <3>1
  <2> HIDE DEF last
  <2> QED
    BY <2>2, <2>3, <2>4
<1> QED
  BY <1>3, <1>4

\* A finish record that is really written becomes the last one.
LEMMA OutcomeNew ==
    ASSUME StoreTypeOK, NEW row \in Row, AppendRecord(row), row.kind = "operation_finished",
           ~RecordExists(row)
    PROVE  LastOutcome' = row.outcome
<1> DEFINE ends == RecordsOf("operation_finished")
           new == Numbered(row, nextSeq)
           n == Len(records)
<1>1. records \in Seq(Record) /\ records' = Append(records, new)
  BY DEF StoreTypeOK, AppendRecord
<1>2. new.kind = "operation_finished" /\ new.outcome = row.outcome
  BY DEF Numbered
<1> HIDE DEF new
<1>3. /\ n \in Nat /\ DOMAIN records' = 1 .. n + 1 /\ records'[n + 1] = new
  BY <1>1
<1>4. n + 1 \in ends' /\ \A j \in ends' : j <= n + 1
  BY <1>2, <1>3 DEF RecordsOf
<1>5. (CHOOSE i \in ends' : \A j \in ends' : j <= i) = n + 1
  <2>1. ends' \subseteq 1 .. n + 1
    BY <1>3 DEF RecordsOf
  <2>2. \A i \in ends' : (\A j \in ends' : j <= i) => i = n + 1
    BY <1>3, <1>4, <2>1
  <2> QED
    BY <1>4, <2>2
<1> QED
  BY <1>2, <1>3, <1>4, <1>5 DEF LastOutcome

-----------------------------------------------------------------------------
(* The steps of the run.                                                   *)

Maps == SettledInv /\ PhaseInv /\ MappedInv

\* A live run has the moving process at one of its points.
LEMMA LiveMover ==
    ASSUME RunAssumption, Before, NEW p \in Procs, Acquire(p) \/ Progress(p) \/ FaultStep(p)
    PROVE  /\ Live <=> OpenRuns # {} /\ pc[p] \in LivePc
           /\ Live' <=> OpenRuns' # {} /\ pc'[p] \in LivePc
<1>1. \A q \in Procs \ {p} : pc[q] = "down" /\ pc'[q] = "down"
  BY RunAssumption, OthersStay, OthersRest DEF At, Before, OneRunInv
<1>2. "down" \notin LivePc
  BY DEF LivePc, SendPc
<1> QED
  BY <1>1, <1>2 DEF Live

\* How a process comes to one of the points of a live run.
LEMMA LiveMove ==
    ASSUME TypeInv, NEW p \in Procs, Acquire(p) \/ Progress(p) \/ FaultStep(p), pc'[p] \in LivePc
    PROVE  pc[p] \in LivePc \union {"start", "clear", "meta"}
<1>0. pc \in [Procs -> Pc]
  BY DEF TypeInv, TypeOK
<1> QED
  BY <1>0 DEF Progress, Prepare, Send, FaultStep, Acquire, ReadOpenRun, RecoverBatch, CloseTranscript,
     AbortRun, AbortMarker, GiveUp, CheckNoOpenRun, StartRun, MarkRun, AppendUser, StepAttempt,
     MaxTurnsReached, ProviderResponds, AppendAssistant, LogIntent, RunTools, AppendResults, FinishRun,
     FinishMarker, UpdateMeta, Exit, ProviderFails, WriteFails, Cancel, Crash, LoadTranscript, Fail,
     Goto, At, LivePc, SendPc, FinishPc, PreparePc

LEMMA PhaseKept ==
    ASSUME PathInv, PathInv', Live, Live', OpenRuns' = OpenRuns, Transcript' = Transcript,
           \A x : EntryExists(x)' = EntryExists(x)
    PROVE  MappedPhase' = MappedPhase
<1>1. PathMessages' = PathMessages
  BY DEF PathInv
<1>2. \A r : EntryExists(UserId(r))' = EntryExists(UserId(r))
  BY DEF UserId
<1> QED
  BY <1>1, <1>2 DEF MappedPhase

\* What recovery would make of an open run stays the same.
LEMMA QuietSettles ==
    ASSUME Maps, Maps', QuietStep, OpenRuns # {}
    PROVE  SettledTranscript' = SettledTranscript
<1>1. /\ entries' = entries /\ records' = records /\ Transcript' = Transcript /\ OpenRuns' = OpenRuns
      /\ \A r : UnfulfilledSteps(r)' = UnfulfilledSteps(r)
  BY QuietReads DEF QuietStep
<1>2. \A r, n : IntentLists(r, n)' = IntentLists(r, n)
  BY <1>1 DEF IntentLists, Intents, RecordsOf
<1>3. PICK r \in OpenRuns : TRUE
  OBVIOUS
<1>4. CASE UnfulfilledSteps(r) = {}
  <2>1. SettledTranscript = Close(Transcript) /\ SettledTranscript' = Close(Transcript)'
    BY <1>1, <1>3, <1>4 DEF Maps, SettledInv
  <2> QED
    BY <1>1, <2>1 DEF Close, EndsOnUser
<1>5. ASSUME NEW n \in UnfulfilledSteps(r)
      PROVE  SettledTranscript' = SettledTranscript
  <2>1. PICK k : /\ IntentLists(r, n) = {SubSeq(LastCalls, 1, k)}
                 /\ SettledTranscript =
                      Append(Append(Transcript, InterruptedMessage(SubSeq(LastCalls, 1, k))), ClosingMessage)
    BY DEF Maps, SettledInv
  <2>2. PICK j : /\ IntentLists(r, n)' = {SubSeq(LastCalls', 1, j)}
                 /\ SettledTranscript' =
                      Append(Append(Transcript', InterruptedMessage(SubSeq(LastCalls', 1, j))), ClosingMessage)
    <3>1. SettledInv' /\ r \in OpenRuns' /\ n \in UnfulfilledSteps(r)'
      BY <1>1 DEF Maps
    <3> QED
      BY <3>1 DEF SettledInv
  <2>3. SubSeq(LastCalls, 1, k) = SubSeq(LastCalls', 1, j)
    BY <1>2, <2>1, <2>2
  <2> QED
    BY <1>1, <2>1, <2>2, <2>3
<1> QED
  BY <1>4, <1>5

\* Steps that leave entries and records alone: the run goes on, is cut short,
\* or is not live at all.
LEMMA QuietMaps ==
    ASSUME RunAssumption, Before, PathInv, PathInv', EndsInv, LoopInv, Maps, Maps',
           NEW p \in Procs, Acquire(p) \/ Progress(p) \/ FaultStep(p), QuietStep
    PROVE  ContractStep
<1>0. StoreTypeOK /\ TypeInv /\ Transcript \in Seq(Message)
  BY TranscriptType DEF Before, OneRunInv, TypeInv, TypeOK
<1>1. /\ entries' = entries /\ records' = records /\ Transcript' = Transcript /\ OpenRuns' = OpenRuns
      /\ \A x : EntryExists(x)' = EntryExists(x)
      /\ \A r : UnfulfilledSteps(r)' = UnfulfilledSteps(r)
  BY QuietReads DEF QuietStep
<1>2. LastOutcome' = LastOutcome /\ LastCalls' = LastCalls
  BY <1>1 DEF LastOutcome, LastCalls, RecordsOf
<1>3. CASE OpenRuns = {}
  <2>1. ~Live /\ ~Live'
    BY <1>1, <1>3 DEF Live
  <2> QED
    BY <1>1, <1>2, <1>3, <2>1, StutterMaps DEF Stutter, Maps, MappedInv, PhaseInv
<1>4. CASE OpenRuns # {} /\ Live /\ Live'
  BY <1>1, <1>2, <1>4, PhaseKept, StutterMaps DEF Stutter, Maps, MappedInv
<1>5. CASE OpenRuns # {} /\ Live /\ ~Live'
  <2>1. MappedTranscript = Transcript /\ MappedPhase # "idle"
    <3>1. MappedPhase # "idle"
      BY <1>5 DEF MappedPhase
    <3> QED
      BY <1>5, <3>1 DEF Maps, MappedInv
  <2>2. MappedPhase' = "idle" /\ MappedOutcome' = "aborted" /\ MappedTranscript' = SettledTranscript'
    BY <1>1, <1>5 DEF Maps, MappedInv, PhaseInv
  <2>3. PICK r \in OpenRuns : TRUE
    BY <1>5
  <2>4. CASE UnfulfilledSteps(r) = {}
    <3>1. SettledTranscript' = Close(Transcript)'
      BY <1>1, <2>3, <2>4 DEF Maps, SettledInv
    <3>2. Close(Transcript)' = Close(Transcript)
      BY <1>1 DEF Close, EndsOnUser
    <3> QED
      BY <1>0, <2>1, <2>2, <3>1, <3>2, AbortMaps
  <2>5. ASSUME NEW n \in UnfulfilledSteps(r)
        PROVE  ContractStep
    <3>1. PICK k \in 1 .. Len(LastCalls') :
             SettledTranscript' = Append(Append(Transcript', InterruptedMessage(SubSeq(LastCalls', 1, k))),
                                         ClosingMessage)
      BY <1>1 DEF Maps, SettledInv
    <3>2. pc[p] \in LivePc
      BY <1>5, RunAssumption, LiveMover
    <3>3. MappedPhase = "called" /\ Transcript[Len(Transcript)].calls = LastCalls
      BY <1>5, <3>2 DEF Maps, PhaseInv
    <3>4. LastCalls \in Seq(Calls)
      <4>1. Transcript # <<>>
        <5>1. leaf = AssistantId(r, n)
          BY DEF EndsInv, EndInv, OpenEnd
        <5>2. leaf \in EntryId
          BY <1>0, <5>1 DEF StoreTypeOK, AssistantId, NoEntry
        <5> QED
          BY <1>0, <5>2, LeafIsLast DEF Before
      <4>2. Transcript[Len(Transcript)] \in Message
        BY <1>0, <4>1
      <4> QED
        BY <3>3, <4>2 DEF Message
    <3>5. /\ k \in 1 .. Len(LastCalls)
          /\ MappedTranscript' =
               Append(Append(MappedTranscript, InterruptedMessage(SubSeq(LastCalls, 1, k))), ClosingMessage)
      BY <1>1, <1>2, <2>1, <2>2, <3>1
    <3> QED
      BY <1>0, <2>1, <2>2, <3>3, <3>4, <3>5, AbortBatchMaps
  <2> QED
    BY <2>4, <2>5
<1>6. CASE OpenRuns # {} /\ ~Live
  <2>1. pc[p] \notin LivePc /\ pc[p] \notin {"start", "clear", "meta"}
    <3>1. pc[p] \notin LivePc
      BY <1>6, RunAssumption, LiveMover
    <3>2. pc[p] # "start"
      BY <1>6 DEF Before, OneRunInv, RecoveryInv, SettledPc
    <3> QED
      BY <1>6, <3>1, <3>2 DEF LoopInv
  <2>2. ~Live'
    BY <1>0, <2>1, RunAssumption, LiveMove, LiveMover
  <2>3. SettledTranscript' = SettledTranscript
    BY <1>6, QuietSettles
  <2> QED
    BY <1>1, <1>6, <2>2, <2>3, StutterMaps DEF Stutter, Maps, MappedInv, PhaseInv
<1> QED
  BY <1>3, <1>4, <1>5, <1>6

\* An entry of a live run that stays live.
LEMMA LiveEntry ==
    ASSUME RunAssumption, Before, EndsInv, Maps, Maps',
           NEW p \in Procs, Acquire(p) \/ Progress(p) \/ FaultStep(p),
           NEW id \in EntryId, NEW msg \in Message, EntryStep(p, id, msg), ~EntryExists(id),
           pc[p] \in LivePc, pc'[p] \in LivePc
    PROVE  /\ OpenRuns # {} /\ OpenRuns' # {}
           /\ MappedTranscript = Transcript /\ Transcript \in Seq(Message)
           /\ MappedTranscript' = Append(MappedTranscript, msg)
           /\ MappedOutcome' = MappedOutcome
<1>0. /\ StoreTypeOK /\ ChainInv /\ AtMostOneOpenRun /\ Knows(p) /\ Transcript \in Seq(Message)
      /\ records' = records /\ AppendEntry(id, msg) /\ pc[p] \in WritingPc
  BY TranscriptType DEF Before, OneRunInv, TypeInv, TypeOK, EndsInv, EntryStep
<1>1. OpenRuns # {}
  BY <1>0, OnlyOpenRun
<1>2. OpenRuns' = OpenRuns
  BY <1>0, EntryIds
<1>3. Live /\ Live'
  BY <1>1, <1>2, RunAssumption, LiveMover
<1>4. MappedTranscript = Transcript /\ MappedTranscript' = Transcript'
  BY <1>3 DEF Maps, MappedInv
<1>5. MappedOutcome = LastOutcome /\ MappedOutcome' = LastOutcome'
  BY <1>3 DEF Maps, MappedInv
<1>6. LastOutcome' = LastOutcome
  BY <1>0 DEF LastOutcome, RecordsOf
<1>7. Transcript' = Append(Transcript, msg)
  BY <1>0, EntryChain
<1> QED
  BY <1>0, <1>1, <1>2, <1>4, <1>5, <1>6, <1>7

\* The prompt.
LEMMA UserMaps ==
    ASSUME RunAssumption, Before, EndsInv, Maps, Maps', NEW p \in Procs, AppendUser(p)
    PROVE  ContractStep
<1> PICK r : r = task[p].run
  OBVIOUS
<1> DEFINE id == UserId(r)
<1>0. /\ pc \in [Procs -> Pc] /\ r \in Nat /\ Knows(p)
  BY DEF Before, OneRunInv, TypeInv, TypeOK, Task, EndsInv
<1>1. pc[p] = "user" /\ pc'[p] = "step" /\ AppendEntry(id, UserMessage) /\ records' = records
  BY <1>0 DEF AppendUser, At, Goto
<1>2. id \in EntryId /\ UserMessage \in Message /\ id.run = r
  BY <1>0, IdTypes DEF UserMessage, Message, MessageKind, UserId
<1>3. ~EntryExists(id)
  BY <1>0, <1>1, <1>2 DEF Knows, EntryExists
<1> HIDE DEF id
<1>4. EntryStep(p, id, UserMessage)
  BY <1>1, <1>2 DEF EntryStep, WritingPc
<1>5. Acquire(p) \/ Progress(p) \/ FaultStep(p)
  BY DEF Progress, Send
<1>6. pc[p] \in LivePc /\ pc'[p] \in LivePc
  BY <1>1 DEF LivePc, SendPc
<1>7. /\ OpenRuns # {} /\ OpenRuns' # {} /\ MappedOutcome' = MappedOutcome
      /\ MappedTranscript' = Append(MappedTranscript, UserMessage)
  BY <1>2, <1>3, <1>4, <1>5, <1>6, RunAssumption, LiveEntry
<1>8. MappedPhase = "begun" /\ MappedPhase' = "turn"
  BY <1>1, <1>6, <1>7 DEF Maps, PhaseInv, ThinkingPc
<1> QED
  BY <1>7, <1>8, PromptMaps

\* A response, with which the run goes on or is over.
LEMMA AssistantMaps ==
    ASSUME RunAssumption, Before, EndsInv, LoopInv, Maps, Maps', NEW p \in Procs, AppendAssistant(p)
    PROVE  ContractStep
<1> PICK r, n, cs : r = task[p].run /\ n = task[p].attempt /\ cs = task[p].calls
  OBVIOUS
<1> DEFINE id == AssistantId(r, n)
<1>0. /\ pc \in [Procs -> Pc] /\ task \in [Procs -> Task] /\ task[p] \in Task
      /\ r \in Nat /\ n \in Nat /\ cs \in Seq(Calls) /\ Knows(p)
      /\ entries \in Seq(Entry) /\ DOMAIN entries = 1 .. Len(entries)
  BY DEF Before, OneRunInv, TypeInv, TypeOK, StoreTypeOK, Task, EndsInv
<1>1. /\ pc[p] = "assistant" /\ AppendEntry(id, AssistantMessage(cs)) /\ records' = records
      /\ \/ cs # <<>> /\ pc'[p] = "intents"
         \/ cs = <<>> /\ pc'[p] = "finish" /\ task'[p].outcome # "failed"
  <2>1. CASE cs # <<>> /\ Goto(p, "intents")
    BY <1>0, <2>1 DEF AppendAssistant, At, Goto
  <2>2. CASE /\ cs = <<>> /\ Goto(p, "finish")
             /\ task' = [task EXCEPT ![p].outcome =
                           IF task[p].stop = "max_tokens" THEN "truncated" ELSE "completed"]
    <3>1. task'[p].outcome # "failed"
      BY <1>0, <2>2 DEF Task
    <3> QED
      BY <1>0, <2>2, <3>1 DEF AppendAssistant, At, Goto
  <2> QED
    BY <2>1, <2>2 DEF AppendAssistant
<1>2. id \in EntryId /\ AssistantMessage(cs) \in Message /\ id.run = r /\ id.step = n /\ id.kind = "assistant"
  BY <1>0, IdTypes, MessageTypes DEF AssistantId
<1>3. ~EntryExists(id)
  <2>1. EarlierAttempts(r, n, Len(entries))
    BY <1>0, <1>1 DEF Knows, ThinkingPc
  <2>2. \A i \in DOMAIN entries : entries[i].id # id
    <3> SUFFICES ASSUME NEW i \in DOMAIN entries, entries[i].id = id
                 PROVE  FALSE
      OBVIOUS
    <3>1. id.step < n
      BY <1>0, <1>2, <2>1 DEF EarlierAttempts
    <3> QED
      BY <1>0, <1>2, <3>1
  <2> QED
    BY <2>2 DEF EntryExists
<1> HIDE DEF id
<1>4. EntryStep(p, id, AssistantMessage(cs))
  BY <1>1, <1>2 DEF EntryStep, WritingPc
<1>5. Acquire(p) \/ Progress(p) \/ FaultStep(p)
  BY DEF Progress, Send
<1>6. pc[p] \in LivePc /\ pc'[p] \in LivePc
  BY <1>1 DEF LivePc, SendPc
<1>7. /\ OpenRuns # {} /\ OpenRuns' # {} /\ MappedOutcome' = MappedOutcome
      /\ MappedTranscript' = Append(MappedTranscript, AssistantMessage(cs))
  BY <1>2, <1>3, <1>4, <1>5, <1>6, RunAssumption, LiveEntry
<1>8. MappedPhase = "turn" /\ MappedPhase' = IF cs = <<>> THEN "answered" ELSE "called"
  BY <1>1, <1>6, <1>7 DEF Maps, PhaseInv, ThinkingPc, ActingPc
<1>9. cs \in UNION {[1 .. k -> Calls] : k \in 0 .. MaxCalls}
  BY <1>1 DEF LoopInv
<1> QED
  BY <1>7, <1>8, <1>9, RespondMaps

\* The results of its tools.
LEMMA ResultsMaps ==
    ASSUME RunAssumption, Before, EndsInv, Maps, Maps', NEW p \in Procs, AppendResults(p)
    PROVE  ContractStep
<1> PICK r, n, cs : r = task[p].run /\ n = task[p].attempt /\ cs = task[p].calls
  OBVIOUS
<1> DEFINE id == ResultsId(r, n)
<1>0. /\ pc \in [Procs -> Pc] /\ r \in Nat /\ n \in Nat /\ cs \in Seq(Calls) /\ Knows(p)
      /\ entries \in Seq(Entry) /\ DOMAIN entries = 1 .. Len(entries) /\ Len(entries) \in Nat
  BY DEF Before, OneRunInv, TypeInv, TypeOK, StoreTypeOK, Task, EndsInv
<1>1. pc[p] = "results" /\ pc'[p] = "step" /\ AppendEntry(id, ResultsMessage(cs)) /\ records' = records
  BY <1>0 DEF AppendResults, At, Goto
<1>2. id \in EntryId /\ ResultsMessage(cs) \in Message /\ id.run = r /\ id.step = n /\ id.kind = "results"
  BY <1>0, IdTypes, MessageTypes DEF ResultsId
<1>3. ~EntryExists(id)
  <2>1. EarlierAttempts(r, n, Len(entries) - 1)
    BY <1>0, <1>1 DEF Knows, ActingPc
  <2>2. entries[Len(entries)].id.kind = "assistant"
    BY <1>1, BatchIsLast DEF ActingPc, AssistantId
  <2>3. \A i \in DOMAIN entries : entries[i].id # id
    <3> SUFFICES ASSUME NEW i \in DOMAIN entries, entries[i].id = id
                 PROVE  FALSE
      OBVIOUS
    <3>1. i \in 1 .. Len(entries) - 1
      <4>1. i # Len(entries)
        BY <1>2, <2>2
      <4> QED
        BY <1>0, <4>1
    <3>2. id.step < n
      BY <1>0, <1>2, <2>1, <3>1 DEF EarlierAttempts
    <3> QED
      BY <1>0, <1>2, <3>2
  <2> QED
    BY <2>3 DEF EntryExists
<1> HIDE DEF id
<1>4. EntryStep(p, id, ResultsMessage(cs))
  BY <1>1, <1>2 DEF EntryStep, WritingPc
<1>5. Acquire(p) \/ Progress(p) \/ FaultStep(p)
  BY DEF Progress, Send
<1>6. pc[p] \in LivePc /\ pc'[p] \in LivePc
  BY <1>1 DEF LivePc, SendPc
<1>7. /\ OpenRuns # {} /\ OpenRuns' # {} /\ MappedOutcome' = MappedOutcome
      /\ MappedTranscript = Transcript
      /\ MappedTranscript' = Append(MappedTranscript, ResultsMessage(cs))
  BY <1>2, <1>3, <1>4, <1>5, <1>6, RunAssumption, LiveEntry
<1>8. /\ MappedPhase = "called" /\ MappedPhase' = "turn"
      /\ MappedTranscript[Len(MappedTranscript)].calls = cs
  BY <1>1, <1>6, <1>7 DEF Maps, PhaseInv, ThinkingPc, ActingPc
<1> QED
  BY <1>7, <1>8, AnswerMaps

-----------------------------------------------------------------------------
(* The steps of recovery, which change nothing.                            *)

\* What recovery works on while its run is open.
LEMMA RecoveryReads ==
    ASSUME RunAssumption, Before, EndsInv, NEW p \in Procs,
           Acquire(p) \/ Progress(p) \/ FaultStep(p), pc[p] \in RecoveryPc
    PROVE  /\ task[p].run \in OpenRuns /\ ~Live /\ task[p].run \in Nat
           /\ pc'[p] \notin LivePc
<1>0. Knows(p) /\ task[p].run \in Nat /\ TypeInv /\ AtMostOneOpenRun
  BY DEF EndsInv, Before, OneRunInv, TypeInv, TypeOK, Task
<1>1. task[p].run \in OpenRuns
  BY <1>0, OnlyOpenRun DEF RecoveryPc, WritingPc
<1>2. pc[p] \notin LivePc \union {"start", "clear", "meta"}
  BY DEF RecoveryPc, LivePc, SendPc
<1>3. ~Live
  BY <1>2, RunAssumption, LiveMover
<1>4. pc'[p] \notin LivePc
  BY <1>0, <1>2, LiveMove
<1> QED
  BY <1>0, <1>1, <1>3, <1>4

\* The interrupted results.
LEMMA BatchMaps ==
    ASSUME RunAssumption, Before, PathInv, PathInv', EndsInv, EndsInv', LoopInv, Maps, Maps',
           NEW p \in Procs, RecoverBatch(p)
    PROVE  ContractStep
<1> PICK r : r = task[p].run
  OBVIOUS
<1>0. /\ TypeOK /\ StoreTypeOK /\ ChainInv /\ Transcript \in Seq(Message) /\ EndInv /\ EndInv'
      /\ Acquire(p) \/ Progress(p) \/ FaultStep(p)
  BY TranscriptType DEF Before, OneRunInv, TypeInv, TypeOK, EndsInv, Progress, Prepare
<1>1. pc[p] = "batches" /\ records' = records
  BY DEF RecoverBatch, At
<1>2. r \in OpenRuns /\ ~Live /\ r \in Nat /\ pc'[p] \notin LivePc
  BY <1>0, <1>1, RunAssumption, RecoveryReads DEF RecoveryPc
<1>3. CASE QuietStep
  BY <1>0, <1>3, RunAssumption, QuietMaps
<1>4. ASSUME NEW n \in UnfulfilledSteps(r), NEW cs \in IntentLists(r, n),
             AppendEntry(ResultsId(r, n), InterruptedMessage(cs))
      PROVE  ContractStep
  <2> DEFINE id == ResultsId(r, n)
             msg == InterruptedMessage(cs)
  <2>1. n \in Nat /\ cs \in Seq(Calls)
    <3>1. n \in Nat
      BY <1>0, <1>2, RunAssumption, ListTypes
    <3> QED
      BY <1>0, <1>2, <3>1, RunAssumption, ListTypes
  <2>2. /\ id \in EntryId /\ msg \in Message /\ Role(msg) = "user" /\ AppendEntry(id, msg)
        /\ ~EntryExists(id)
    BY <1>2, <1>4, <2>1, IdTypes, MessageTypes DEF InterruptedMessage, Role, UnfulfilledSteps
  <2>3. SettledTranscript = Append(Append(Transcript, msg), ClosingMessage)
    <3>1. PICK k : /\ IntentLists(r, n) = {SubSeq(LastCalls, 1, k)}
                   /\ SettledTranscript =
                        Append(Append(Transcript, InterruptedMessage(SubSeq(LastCalls, 1, k))), ClosingMessage)
      BY <1>2 DEF Maps, SettledInv
    <3>2. cs = SubSeq(LastCalls, 1, k)
      BY <3>1
    <3> QED
      BY <3>1, <3>2
  <2> HIDE DEF id, msg
  <2>4. OpenRuns' = OpenRuns /\ UnfulfilledSteps(r)' = {} /\ Transcript' = Append(Transcript, msg)
    <3>1. OpenRuns' = OpenRuns
      BY <1>0, <1>1, <2>2, EntryIds
    <3> QED
      BY <1>0, <1>1, <1>2, <2>2, <3>1, EntrySettles, EntryChain
  <2>5. SettledTranscript' = Close(Transcript)'
    BY <1>2, <2>4 DEF Maps, SettledInv
  <2>6. EndsOnUser(Transcript)'
    <3>1. EndsOnUser(Append(Transcript, msg))
      BY <1>0, <2>2, LastMessage
    <3> QED
      BY <2>4, <3>1 DEF EndsOnUser
  <2>7. SettledTranscript' = SettledTranscript
    BY <2>3, <2>4, <2>5, <2>6 DEF Close, ClosingMessage
  <2>8. ~Live'
    BY <1>0, <1>2, RunAssumption, LiveMover
  <2> QED
    BY <1>2, <2>4, <2>7, <2>8, StutterMaps DEF Stutter, Maps, MappedInv, PhaseInv
<1> QED
  BY <1>1, <1>3, <1>4 DEF RecoverBatch, QuietStep

\* The closing note.
LEMMA ClosingMaps ==
    ASSUME RunAssumption, Before, PathInv, PathInv', EndsInv, EndsInv', LoopInv, Maps, Maps',
           NEW p \in Procs, CloseTranscript(p)
    PROVE  ContractStep
<1> PICK r : r = task[p].run
  OBVIOUS
<1> DEFINE id == ClosingId(r)
<1>0. /\ StoreTypeOK /\ ChainInv /\ Transcript \in Seq(Message) /\ EndInv /\ EndInv' /\ Knows(p)
      /\ Acquire(p) \/ Progress(p) \/ FaultStep(p)
  BY TranscriptType DEF Before, OneRunInv, TypeInv, TypeOK, EndsInv, Progress, Prepare
<1>1. pc[p] = "closing" /\ records' = records
  BY DEF CloseTranscript, At
<1>2. r \in OpenRuns /\ ~Live /\ r \in Nat /\ pc'[p] \notin LivePc
  BY <1>0, <1>1, RunAssumption, RecoveryReads DEF RecoveryPc
<1>3. CASE QuietStep
  BY <1>0, <1>3, RunAssumption, QuietMaps
<1>4. CASE ~QuietStep
  <2>1. /\ EndsOnUser(Transcript) /\ AppendEntry(id, ClosingMessage) /\ ~EntryExists(id)
    BY <1>1, <1>4 DEF CloseTranscript, QuietStep, AppendEntry, PathInv
  <2>2. id \in EntryId /\ ClosingMessage \in Message /\ Role(ClosingMessage) = "assistant"
    <3>1. <<>> \in Seq(Calls)
      OBVIOUS
    <3> QED
      BY <1>2, <3>1, IdTypes, MessageTypes DEF ClosingMessage, Role
  <2>3. UnfulfilledSteps(r) = {}
    BY <1>0, <1>1 DEF Knows
  <2> HIDE DEF id
  <2>4. OpenRuns' = OpenRuns /\ UnfulfilledSteps(r)' = {} /\ Transcript' = Append(Transcript, ClosingMessage)
    <3>1. OpenRuns' = OpenRuns
      BY <1>0, <1>1, <2>1, <2>2, EntryIds
    <3> QED
      BY <1>0, <1>1, <1>2, <2>1, <2>2, <3>1, EntrySettles, EntryChain
  <2>5. SettledTranscript = Append(Transcript, ClosingMessage) /\ SettledTranscript' = Close(Transcript)'
    BY <1>2, <2>1, <2>3, <2>4 DEF Maps, SettledInv, Close
  <2>6. ~EndsOnUser(Transcript)'
    <3>1. ~EndsOnUser(Append(Transcript, ClosingMessage))
      BY <1>0, <2>2, LastMessage
    <3> QED
      BY <2>4, <3>1 DEF EndsOnUser
  <2>7. SettledTranscript' = SettledTranscript
    BY <2>4, <2>5, <2>6 DEF Close
  <2>8. ~Live'
    BY <1>0, <1>2, RunAssumption, LiveMover
  <2> QED
    BY <1>2, <2>4, <2>7, <2>8, StutterMaps DEF Stutter, Maps, MappedInv, PhaseInv
<1> QED
  BY <1>3, <1>4

\* The finish record recovery writes: the run is aborted to a reader already.
LEMMA AbortRunMaps ==
    ASSUME RunAssumption, Before, EndsInv, Maps, Maps', NEW p \in Procs, AbortRun(p)
    PROVE  ContractStep
<1> PICK r : r = task[p].run
  OBVIOUS
<1> DEFINE row == FinishedRow(r, "aborted")
<1>0. /\ StoreTypeOK /\ AtMostOneOpenRun /\ Knows(p)
      /\ Acquire(p) \/ Progress(p) \/ FaultStep(p)
  BY DEF Before, OneRunInv, TypeInv, TypeOK, EndsInv, Progress, Prepare
<1>1. pc[p] = "aborting" /\ AppendRecord(row) /\ UNCHANGED <<entries, leaf>>
  BY DEF AbortRun, At
<1>2. r \in OpenRuns /\ OpenRuns \subseteq {r} /\ ~Live /\ r \in Nat
  BY <1>0, <1>1, RunAssumption, RecoveryReads, OnlyOpenRun DEF RecoveryPc
<1>3. /\ row \in Row /\ row.kind = "operation_finished" /\ row.run = r /\ row.outcome = "aborted"
  BY <1>2 DEF FinishedRow, Row, RecordKind, Outcome
<1> HIDE DEF row
<1>4. ~RecordExists(row)
  BY <1>2, <1>3 DEF RecordExists, SameRecordId, OpenRuns, FinishedRuns, RecordsOf
<1>5. OpenRuns' = {}
  BY <1>0, <1>1, <1>2, <1>3, AppendRecordReads DEF OpenRuns
<1>6. LastOutcome' = "aborted"
  BY <1>0, <1>1, <1>3, <1>4, OutcomeNew
<1>7. SettledTranscript = Transcript
  <2>1. UnfulfilledSteps(r) = {} /\ ~EndsOnUser(Transcript)
    BY <1>0, <1>1 DEF Knows
  <2> QED
    BY <1>2, <2>1 DEF Maps, SettledInv, Close
<1>8. Transcript' = Transcript /\ ~Live'
  BY <1>1, <1>5 DEF Transcript, Live
<1> QED
  BY <1>2, <1>5, <1>6, <1>7, <1>8, StutterMaps DEF Stutter, Maps, MappedInv, PhaseInv

-----------------------------------------------------------------------------
(* The record steps of the run.                                            *)

LEMMA StartMaps ==
    ASSUME RunAssumption, Before, Maps, Maps', NEW p \in Procs, StartRun(p)
    PROVE  ContractStep
<1> DEFINE row == StartedRow(nextSeq)
<1>0. /\ pc \in [Procs -> Pc] /\ nextSeq \in Nat /\ StoreTypeOK /\ TypeInv /\ RunsBelow
      /\ Acquire(p) \/ Progress(p) \/ FaultStep(p)
  BY DEF Before, OneRunInv, TypeInv, TypeOK, StoreTypeOK, Progress, Send
<1>1. pc[p] = "start" /\ pc'[p] = "mark" /\ AppendRecord(row) /\ entries' = entries
  BY <1>0 DEF StartRun, At, Goto
<1>2. row \in Row /\ row.kind # "operation_finished"
  BY <1>0 DEF StartedRow, Row, RecordKind, Outcome
<1>3. OpenRuns = {} /\ ~Live
  BY <1>1 DEF Before, OneRunInv, RecoveryInv, SettledPc, Live
<1>4. OpenRuns' # {}
  BY <1>0, <1>1, StartOpens
<1> HIDE DEF row
<1>5. LastOutcome' = LastOutcome /\ Transcript' = Transcript
  BY <1>0, <1>1, <1>2, OutcomeKept DEF Transcript
<1>6. Live' /\ MappedPhase' = "begun"
  BY <1>1, <1>4 DEF Maps, PhaseInv, LivePc, SendPc
<1>7. MappedPhase = "idle"
  BY <1>3 DEF Maps, PhaseInv
<1> QED
  BY <1>3, <1>5, <1>6, <1>7, BeginMaps DEF Maps, MappedInv

\* A step attempt or an intent changes nothing a reader sees.
LEMMA LogMaps ==
    ASSUME RunAssumption, Before, PathInv, PathInv', EndsInv, Maps, Maps', NEW p \in Procs,
           StepAttempt(p) \/ LogIntent(p)
    PROVE  ContractStep
<1>0. /\ pc \in [Procs -> Pc] /\ StoreTypeOK /\ TypeInv /\ AtMostOneOpenRun /\ Knows(p)
      /\ Acquire(p) \/ Progress(p) \/ FaultStep(p)
  BY DEF Before, OneRunInv, TypeInv, TypeOK, EndsInv, Progress, Send
<1>1. /\ pc[p] \in {"step", "intents"} /\ entries' = entries
      /\ pc'[p] \in {"provider", "tools", "intents"}
  BY <1>0 DEF StepAttempt, LogIntent, At, Goto
<1>2. PICK row \in Row : AppendRecord(row) /\ row.kind \in {"step_attempt", "tool_started"}
  <2>1. /\ task[p].run \in Nat /\ task[p].attempt \in Nat
        /\ LogIntent(p) => task[p].calls[task[p].logged + 1] \in Calls
    BY <1>0 DEF TypeInv, TypeOK, Task, LogIntent, LoggedInv
  <2>2. CASE StepAttempt(p)
    <3>1. StepRow(task[p].run, task[p].attempt) \in Row
      BY <2>1 DEF StepRow, Row, RecordKind, Outcome
    <3> QED
      BY <2>2, <3>1 DEF StepAttempt, StepRow
  <2>3. CASE LogIntent(p)
    <3>1. ToolRow(task[p].run, task[p].attempt, task[p].calls[task[p].logged + 1]) \in Row
      BY <2>1, <2>3 DEF ToolRow, Row, RecordKind, Outcome
    <3> QED
      BY <2>3, <3>1 DEF LogIntent, ToolRow
  <2> QED
    BY <2>2, <2>3
<1>3. /\ OpenRuns' = OpenRuns /\ LastOutcome' = LastOutcome /\ Transcript' = Transcript
      /\ \A x : EntryExists(x)' = EntryExists(x)
  BY <1>0, <1>1, <1>2, RecordOpens, OutcomeKept DEF Transcript, EntryExists
<1>4. OpenRuns # {}
  BY <1>0, <1>1, OnlyOpenRun DEF WritingPc
<1>5. Live /\ Live'
  <2>1. pc[p] \in LivePc /\ pc'[p] \in LivePc
    BY <1>1 DEF LivePc, SendPc
  <2> QED
    BY <1>0, <1>3, <1>4, <2>1, RunAssumption, LiveMover
<1>6. MappedPhase' = MappedPhase
  BY <1>3, <1>5, PhaseKept
<1> QED
  BY <1>3, <1>5, <1>6, StutterMaps DEF Stutter, Maps, MappedInv

\* The finish record of the loop; writing it twice changes nothing.
LEMMA FinishRunMaps ==
    ASSUME RunAssumption, Before, EndsInv, LoopInv, Maps, Maps', NEW p \in Procs, FinishRun(p)
    PROVE  ContractStep
<1> PICK r, o : r = task[p].run /\ o = task[p].outcome
  OBVIOUS
<1> DEFINE row == FinishedRow(r, o)
<1>0. /\ pc \in [Procs -> Pc] /\ r \in Nat /\ o \in Outcome \union {"none"}
      /\ StoreTypeOK /\ TypeInv /\ Knows(p)
      /\ Acquire(p) \/ Progress(p) \/ FaultStep(p)
  BY DEF Before, OneRunInv, TypeInv, TypeOK, EndsInv, Progress, Send, Task
<1>1. pc[p] = "finish" /\ pc'[p] = "clear" /\ AppendRecord(row) /\ entries' = entries
  BY <1>0 DEF FinishRun, At, Goto
<1>2. /\ row \in Row /\ row.kind = "operation_finished" /\ row.run = r /\ row.outcome = o
  BY <1>0 DEF FinishedRow, Row, RecordKind, Outcome
<1>3. OpenRuns \subseteq {r} /\ r \in StartedRuns /\ o \in {"completed", "truncated", "failed"}
  BY <1>0, <1>1 DEF Knows, LoopInv, FinishPc
<1> HIDE DEF row
<1>4. RecordExists(row) <=> r \in FinishedRuns
  BY <1>2 DEF RecordExists, SameRecordId, FinishedRuns, RecordsOf
<1>5. OpenRuns' = {}
  BY <1>0, <1>1, <1>2, <1>3, AppendRecordReads DEF OpenRuns
<1>6. Transcript' = Transcript /\ ~Live'
  BY <1>1, <1>5 DEF Transcript, Live
<1>7. /\ MappedTranscript' = Transcript' /\ MappedOutcome' = LastOutcome' /\ MappedPhase' = "idle"
  BY <1>5, <1>6 DEF Maps, MappedInv, PhaseInv
<1>8. CASE OpenRuns = {}
  <2>1. records' = records
    BY <1>1, <1>3, <1>4, <1>8 DEF AppendRecord, OpenRuns
  <2>2. LastOutcome' = LastOutcome
    BY <2>1 DEF LastOutcome, RecordsOf
  <2>3. ~Live
    BY <1>8 DEF Live
  <2> QED
    BY <1>6, <1>7, <1>8, <2>2, <2>3, StutterMaps DEF Stutter, Maps, MappedInv, PhaseInv
<1>9. CASE OpenRuns # {}
  <2>1. LastOutcome' = o
    BY <1>0, <1>1, <1>2, <1>3, <1>4, <1>9, OutcomeNew DEF OpenRuns
  <2>2. pc[p] \in LivePc
    BY <1>1 DEF LivePc
  <2>3. /\ Live /\ MappedPhase \in {"turn", "called", "answered"}
        /\ o # "failed" => MappedPhase = "answered"
    BY <1>1, <1>9, <2>2 DEF Maps, PhaseInv
  <2>4. MappedTranscript = Transcript
    BY <2>3 DEF Maps, MappedInv
  <2> QED
    BY <1>3, <1>6, <1>7, <2>1, <2>3, <2>4, FinishMaps
<1> QED
  BY <1>8, <1>9

-----------------------------------------------------------------------------
(* The refinement.                                                         *)

\* Every step of every process is a step of the contract, or none.
LEMMA StepMaps ==
    ASSUME RunAssumption, Before, PathInv, PathInv', EndsInv, EndsInv', LoopInv, Maps, Maps', [Next]_vars
    PROVE  ContractStep
<1>1. CASE UNCHANGED vars
  <2>1. QuietStep /\ pc' = pc
    BY <1>1 DEF vars, QuietStep
  <2>2. /\ Transcript' = Transcript /\ OpenRuns' = OpenRuns /\ LastOutcome' = LastOutcome
        /\ \A x : EntryExists(x)' = EntryExists(x)
    BY <2>1, QuietReads DEF QuietStep, LastOutcome, RecordsOf
  <2>3. Live' = Live
    BY <2>1, <2>2 DEF Live
  <2>4. CASE OpenRuns = {} \/ Live
    <3>1. Live => MappedPhase' = MappedPhase
      BY <2>2, <2>3, PhaseKept
    <3>2. ~Live => MappedPhase' = MappedPhase
      BY <2>3 DEF Maps, PhaseInv
    <3> QED
      BY <2>2, <2>3, <2>4, <3>1, <3>2, StutterMaps DEF Stutter, Maps, MappedInv
  <2>5. CASE OpenRuns # {} /\ ~Live
    BY <2>1, <2>2, <2>3, <2>5, QuietSettles, StutterMaps DEF Stutter, Maps, MappedInv, PhaseInv
  <2> QED
    BY <2>4, <2>5
<1>2. CASE Next
  <2>1. PICK p \in Procs : Acquire(p) \/ Progress(p) \/ FaultStep(p)
    BY <1>2 DEF Next
  <2>2. CASE QuietStep
    BY <2>1, <2>2, QuietMaps
  <2>3. CASE ~QuietStep
    <3>1. \/ AppendUser(p) \/ AppendAssistant(p) \/ AppendResults(p) \/ RecoverBatch(p) \/ CloseTranscript(p)
          \/ AbortRun(p) \/ StartRun(p) \/ StepAttempt(p) \/ LogIntent(p) \/ FinishRun(p)
      BY <2>1, <2>3 DEF Acquire, Progress, Prepare, Send, FaultStep, ReadOpenRun, AbortMarker, GiveUp,
         CheckNoOpenRun, MarkRun, MaxTurnsReached, ProviderResponds, RunTools, FinishMarker, UpdateMeta,
         Exit, ProviderFails, WriteFails, Cancel, Crash, storeVars, QuietStep
    <3> QED
      BY <3>1, UserMaps, AssistantMaps, ResultsMaps, BatchMaps, ClosingMaps, AbortRunMaps, StartMaps,
         LogMaps, FinishRunMaps
  <2> QED
    BY <2>2, <2>3
<1> QED
  BY <1>1, <1>2

\* To a reader of the transcript the runs of a session are one at a time, grow
\* it at its end, and are settled in one step when they are cut short; a
\* recovery that is interrupted and repeated is the same as one that was not.
\* For a provider that does not repeat a tool_use id within a run.
THEOREM SessionKeepsItsContract == ASSUME ReuseIds = FALSE PROVE Spec => ImplementsContract
<1>1. Init => Contract!ContractInit
  <2> SUFFICES ASSUME Init
               PROVE  Contract!ContractInit
    OBVIOUS
  <2>1. /\ entries = <<>> /\ records = <<>> /\ leaf = NoEntry /\ OpenRuns = {}
        /\ RecordsOf("operation_finished") = {}
    BY DEF Init, StoreInit, OpenRuns, StartedRuns, RecordsOf
  <2>2. ChainInv /\ StoreTypeOK
    BY <2>1, RunAssumption, TypeInit DEF ChainInv, TypeInv, TypeOK
  <2>3. PathMessages = Transcript
    BY <2>2, PathIsTranscript
  <2>4. Transcript = <<>>
    <3>1. Transcript \in Seq(Message) /\ Len(Transcript) = Len(entries)
      BY <2>2, TranscriptType
    <3>2. Len(entries) = 0
      BY <2>1
    <3> DEFINE t == Transcript
    <3>3. t \in Seq(Message) /\ Len(t) = 0
      BY <3>1, <3>2
    <3> HIDE DEF t
    <3>4. t = <<>>
      BY <3>3
    <3> QED
      BY <3>4 DEF t
  <2>5. MappedTranscript = <<>> /\ MappedPhase = "idle" /\ MappedOutcome = "none"
    BY <2>1, <2>3, <2>4 DEF MappedTranscript, MappedPhase, MappedOutcome, Live
  <2> QED
    BY <2>5 DEF Contract!ContractInit
<1>2. OneRunInv /\ ClosedInv /\ ChainInv /\ PathInv /\ EndsInv /\ ReplyInv => Maps
  BY SettledReads, PhaseReads, MappedReads DEF Maps, Before, ClosedInv, ReplyInv
<1>3. OneRunInv /\ ClosedInv /\ ChainInv /\ PathInv /\ PathInv' /\ EndsInv /\ EndsInv' /\ LoopInv
         /\ Maps /\ Maps' /\ [Next]_vars
      => [Contract!ContractNext]_(Contract!contractVars)
  BY RunAssumption, StepMaps DEF Before, ClosedInv, ContractStep
<1> QED
  BY <1>1, <1>2, <1>3, OneRunInvariant, ClosedInvariant, PathInvariant, EndsInvariant, LoopInvariant,
     ReplyInvariant, PTL DEF Spec, ImplementsContract, Contract!ContractSpec
=============================================================================
