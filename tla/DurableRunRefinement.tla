------------------------ MODULE DurableRunRefinement ------------------------
(***************************************************************************)
(* The mapping that shows that DurableRun implements TranscriptContract.   *)
(***************************************************************************)
EXTENDS DurableRunProperties

-----------------------------------------------------------------------------
(* The mapping to TranscriptContract.  From the start record to the finish *)
(* record the run is live while its process is; a run whose process is     *)
(* gone counts as settled already, and recovery's writes change nothing.   *)

LivePc == (SendPc \ {"start"}) \union {"finish"}

Live == OpenRuns # {} /\ \E p \in Procs : pc[p] \in LivePc

\* The transcript recovery would leave, had it run to its end.
SettledTranscript ==
    LET run == CHOOSE r \in OpenRuns : TRUE
        answered == IF UnfulfilledSteps(run) = {} THEN PathMessages
                    ELSE LET n == CHOOSE k \in UnfulfilledSteps(run) : TRUE
                         IN  Append(PathMessages, InterruptedMessage(CHOOSE cs \in IntentLists(run, n) : TRUE))
    IN  IF EndsOnUser(answered) THEN Append(answered, ClosingMessage) ELSE answered

MappedTranscript == IF OpenRuns = {} \/ Live THEN PathMessages ELSE SettledTranscript

MappedPhase ==
    IF ~Live THEN "idle"
    ELSE LET last == PathMessages[Len(PathMessages)] IN
         CASE \A r \in OpenRuns : ~EntryExists(UserId(r)) -> "begun"
           [] OTHER ->
                CASE Role(last) = "user" -> "turn"
                  [] Role(last) # "user" /\ last.calls = <<>> -> "answered"
                  [] OTHER -> "called"

\* Store::last_run_outcome, or "aborted" for a run nobody drives any more.
MappedOutcome ==
    LET ends == RecordsOf("operation_finished") IN
    IF OpenRuns # {} /\ ~Live THEN "aborted"
    ELSE IF ends = {} THEN "none"
    ELSE records[CHOOSE i \in ends : \A j \in ends : j <= i].outcome

Contract == INSTANCE TranscriptContract WITH
    Requests <- UNION {[1 .. n -> Calls] : n \in 0 .. MaxCalls},
    transcript <- MappedTranscript,
    phase <- MappedPhase,
    outcome <- MappedOutcome

\* DurableRun implements TranscriptContract: to a reader of the transcript an
\* interrupted run is settled in one step, and a recovery that is interrupted
\* and repeated is the same as one that was not.
ImplementsContract == Contract!ContractSpec
=============================================================================
