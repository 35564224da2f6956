------------------------- MODULE TranscriptContract -------------------------
(***************************************************************************)
(* What a durable session promises to whoever reads its transcript: one    *)
(* run at a time, the transcript only grows, tool results directly follow  *)
(* the assistant message that asked for them, and a run that is cut short, *)
(* wherever that happens, is settled in ONE step: interrupted results for  *)
(* the calls whose intent was logged, a closing note if the transcript     *)
(* would end on a user message, outcome "aborted".  Nobody sees a          *)
(* half-finished recovery.                                                 *)
(*                                                                         *)
(* DurableRun implements this with many store writes and a recovery that   *)
(* may itself be cut short any number of times.                            *)
(***************************************************************************)
EXTENDS Naturals, Sequences

CONSTANT Requests    \* the tool-call lists a response may carry, <<>> included

VARIABLES
    transcript,      \* the messages a provider would be sent
    phase,           \* where the current run is, "idle" between runs
    outcome          \* of the run that ended last

contractVars == <<transcript, phase, outcome>>

Phase == {"idle", "begun", "turn", "called", "answered"}

LastMessage == transcript[Len(transcript)]

EndsOnUserTurn(t) == t # <<>> /\ t[Len(t)].kind \in {"user", "results", "interrupted"}

ContractInit ==
    /\ transcript = <<>>
    /\ phase = "idle"
    /\ outcome = "none"

Begin ==
    /\ phase = "idle"
    /\ phase' = "begun"
    /\ UNCHANGED <<transcript, outcome>>

Prompt ==
    /\ phase = "begun"
    /\ transcript' = Append(transcript, [kind |-> "user", calls |-> <<>>])
    /\ phase' = "turn"
    /\ UNCHANGED outcome

Respond ==
    /\ phase = "turn"
    /\ \E cs \in Requests :
         /\ transcript' = Append(transcript, [kind |-> "assistant", calls |-> cs])
         /\ phase' = IF cs = <<>> THEN "answered" ELSE "called"
    /\ UNCHANGED outcome

Answer ==
    /\ phase = "called"
    /\ transcript' = Append(transcript, [kind |-> "results", calls |-> LastMessage.calls])
    /\ phase' = "turn"
    /\ UNCHANGED outcome

\* Only a final answer completes (or truncates) a run; anything may fail.
Finish ==
    /\ \/ phase = "answered" /\ outcome' \in {"completed", "truncated", "failed"}
       \/ phase \in {"turn", "called"} /\ outcome' = "failed"
    /\ phase' = "idle"
    /\ UNCHANGED transcript

\* The transcript with the first k calls of its last message interrupted.
Interrupted(k) ==
    IF k = 0 THEN transcript
    ELSE Append(transcript, [kind |-> "interrupted", calls |-> SubSeq(LastMessage.calls, 1, k)])

Closed(t) ==
    IF EndsOnUserTurn(t) THEN Append(t, [kind |-> "closing", calls |-> <<>>]) ELSE t

Abort ==
    /\ phase # "idle"
    /\ \/ /\ phase = "called"
          /\ \E k \in 0 .. Len(LastMessage.calls) : transcript' = Closed(Interrupted(k))
       \/ /\ phase # "called"
          /\ transcript' = Closed(transcript)
    /\ phase' = "idle"
    /\ outcome' = "aborted"

ContractNext == Begin \/ Prompt \/ Respond \/ Answer \/ Finish \/ Abort

ContractSpec == ContractInit /\ [][ContractNext]_contractVars
=============================================================================
