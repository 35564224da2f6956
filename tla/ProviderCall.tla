---------------------------- MODULE ProviderCall ----------------------------
(***************************************************************************)
(* One provider call from the request to the response or the error: the    *)
(* retry loop that complete and complete_streaming share, the stream of    *)
(* the Anthropic adapter, the buffered bodies of the others.               *)
(*                                                                         *)
(* adapter names the four kinds: "anthropic" streams; "compatible" (GLM    *)
(* and Kimi) is the same adapter without streaming; "codex" fetches a      *)
(* token before each attempt; "openrouter" speaks Chat Completions.        *)
(***************************************************************************)
EXTENDS ModelServer

CONSTANTS
    Adapters,      \* the kinds of this instance
    Replies,       \* what the model may answer
    MAX_ATTEMPTS,  \* llm/src/retry.rs:5
    StreamFaults   \* {"cut", "garble", "error"}: how a stream may go wrong

ASSUME ProviderAssumption == MAX_ATTEMPTS \in Nat \ {0}

VARIABLES
    adapter,   \* the provider of the session, fixed when it was created
    phase,     \* idle, sending, backoff, streaming, done
    attempt,   \* as in the code, from 0
    answers,   \* what the attempts of this call met, until one succeeds (history)
    request,   \* the conversation on the wire
    reply,     \* what the model is answering, while it streams
    sent,      \* how many events of it have been handled
    whole,     \* whether the reply got here in one piece (history)
    acc,       \* the accumulator
    deltas,    \* the text sent to the sink
    result     \* what the call returned

callVars == <<adapter, phase, attempt, answers, request, reply, sent, whole, acc, deltas, result>>

\* An answer that is no success: a status, or 0 for an error of the transport,
\* which reqwest calls a timeout, a connect or request error, or something else.
Answer == [status : {400, 429, 529}, transient : {FALSE}]
          \union [status : {0}, transient : BOOLEAN]

retryable_status(status) == status = 429 \/ status = 529 \/ status \in 500 .. 599

Retryable(answer) == retryable_status(answer.status) \/ answer.transient

NoReply  == [blocks |-> <<>>, stop |-> "end"]
NoResult == [ok |-> FALSE, error |-> "none"]

ToWire(messages) ==
    CASE adapter \in {"anthropic", "compatible"} -> AnthropicWire(messages)
      [] adapter = "codex"      -> CodexInput(messages)
      [] adapter = "openrouter" -> ChatWire(messages)

\* What each way of calling makes of a reply that arrives whole.
FromWire(r) ==
    CASE adapter \in {"anthropic", "compatible"} -> AnthropicResponse(AnthropicBody(r))
      [] adapter = "codex"      -> ParseStream(CodexBody(CodexEvents(r)))
      [] adapter = "openrouter" -> ChatResponse(ChatBody(r))

-----------------------------------------------------------------------------
CallInit ==
    /\ adapter \in Adapters
    /\ phase = "idle" /\ attempt = 0 /\ answers = <<>> /\ request = <<>>
    /\ reply = NoReply /\ sent = 0 /\ whole = FALSE /\ acc = NothingYet
    /\ deltas = <<>> /\ result = NoResult

Call(messages) ==
    /\ phase = "idle"
    /\ phase' = "sending"
    /\ attempt' = 0 /\ answers' = <<>>
    /\ request' = ToWire(messages)
    /\ reply' = NoReply /\ sent' = 0 /\ whole' = FALSE /\ acc' = NothingYet
    /\ deltas' = <<>> /\ result' = NoResult
    /\ UNCHANGED adapter

\* The call is over.
Return(r) == phase' = "done" /\ result' = r

\* Codex asks for a token before every attempt, and a token that cannot be had
\* ends the call.
TokenFails ==
    /\ phase = "sending" /\ adapter = "codex"
    /\ Return(Failed("failure"))
    /\ UNCHANGED <<adapter, attempt, answers, request, reply, sent, whole, acc, deltas>>

Refused(answer) ==
    /\ phase = "sending"
    /\ answers' = Append(answers, answer)
    /\ IF Retryable(answer) /\ attempt + 1 < MAX_ATTEMPTS
       THEN phase' = "backoff" /\ UNCHANGED result
       ELSE Return(Failed(IF answer.status = 0 THEN "transport" ELSE "api"))
    /\ UNCHANGED <<adapter, attempt, request, reply, sent, whole, acc, deltas>>

\* The delay is over, however long Retry-After made it.
Wake ==
    /\ phase = "backoff"
    /\ phase' = "sending"
    /\ attempt' = attempt + 1
    /\ UNCHANGED <<adapter, answers, request, reply, sent, whole, acc, deltas, result>>

\* A whole response goes to the sink text by text.
Buffered(r, intact) ==
    /\ Return(r)
    /\ whole' = intact
    /\ deltas' = IF r.ok THEN TextOf(r.content) ELSE <<>>

\* A success status ends the retry loop.
Succeeds(r) == reply' = r /\ answers' = <<>> /\ attempt' = 0

\* A success without streaming: the body is there, or is cut off.  JSON cut off
\* does not parse; of Codex's events the first few arrive.
Accepted(r) ==
    /\ phase = "sending" /\ adapter # "anthropic"
    /\ Succeeds(r)
    /\ \/ Buffered(FromWire(r), TRUE)
       \/ "cut" \in StreamFaults /\ adapter # "codex" /\ Buffered(Failed("malformed"), FALSE)
       \/ /\ "cut" \in StreamFaults /\ adapter = "codex"
          /\ \E n \in 0 .. Len(CodexEvents(r)) - 1 :
                Buffered(ParseStream(CodexBody(SubSeq(CodexEvents(r), 1, n))), FALSE)
       \/ /\ "error" \in StreamFaults /\ adapter = "codex"
          /\ Buffered(ParseStream(CodexBody(Append(CodexEvents(r), [type |-> "failed"]))), FALSE)
    /\ UNCHANGED <<adapter, request, sent, acc>>

StreamStarts(r) ==
    /\ phase = "sending" /\ adapter = "anthropic"
    /\ phase' = "streaming"
    /\ Succeeds(r) /\ whole' = TRUE
    /\ UNCHANGED <<adapter, request, sent, acc, deltas, result>>

Events == AnthropicEvents(reply)

Handled(event) ==
    /\ acc' = Handle(acc, event)
    /\ deltas' = deltas \o Forwarded(event)

StreamEvent ==
    /\ phase = "streaming" /\ sent < Len(Events)
    /\ Handled(Events[sent + 1])
    /\ sent' = sent + 1
    /\ UNCHANGED <<adapter, phase, attempt, answers, request, reply, whole, result>>

\* Each chunk is decoded on its own: a character cut by the end of a chunk
\* comes out as replacement characters.  Bound: one such chunk in a stream.
GarbledEvent ==
    /\ "garble" \in StreamFaults /\ whole
    /\ phase = "streaming" /\ sent < Len(Events)
    /\ Forwarded(Events[sent + 1]) # <<>>
    /\ Handled([Events[sent + 1] EXCEPT !.part = "garbled"])
    /\ sent' = sent + 1
    /\ whole' = FALSE
    /\ UNCHANGED <<adapter, phase, attempt, answers, request, reply, result>>

\* The server gives up in the middle: an error event is its last.
ErrorEvent ==
    /\ "error" \in StreamFaults
    /\ phase = "streaming" /\ sent < Len(Events)
    /\ Handled([type |-> "error"])
    /\ sent' = Len(Events)
    /\ whole' = FALSE
    /\ UNCHANGED <<adapter, phase, attempt, answers, request, reply, result>>

\* The connection breaks: a chunk is an error, and nothing is retried.
StreamBreaks ==
    /\ phase = "streaming"
    /\ Return(Failed("transport"))
    /\ whole' = FALSE
    /\ UNCHANGED <<adapter, attempt, answers, request, reply, sent, acc, deltas>>

\* The body ends, after the last event or before.
StreamEnds ==
    /\ phase = "streaming"
    /\ sent = Len(Events) \/ "cut" \in StreamFaults
    /\ Return(Finish(acc))
    /\ whole' = (whole /\ sent = Len(Events))
    /\ UNCHANGED <<adapter, attempt, answers, request, reply, sent, acc, deltas>>

CallStep ==
    \/ TokenFails
    \/ \E a \in Answer : Refused(a)
    \/ Wake
    \/ \E r \in Replies : Accepted(r) \/ StreamStarts(r)
    \/ StreamEvent
    \/ GarbledEvent
    \/ ErrorEvent
    \/ StreamBreaks
    \/ StreamEnds
=============================================================================
