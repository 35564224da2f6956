------------------------ MODULE AgentTurnProperties ------------------------
(***************************************************************************)
(* What a provider call and a batch of tool calls must do to the           *)
(* conversation.  The properties of the batch are in BatchScheduler.       *)
(***************************************************************************)
EXTENDS AgentTurn

TypeOK ==
    /\ BatchTypeOK
    /\ adapter \in Adapters
    /\ phase \in {"idle", "sending", "backoff", "streaming", "done"}
    /\ attempt \in 0 .. MAX_ATTEMPTS - 1
    /\ answers \in Seq(Answer)
    /\ sent \in Nat
    /\ whole \in BOOLEAN
    /\ ~result.ok => result.error \in ErrorKinds \union {"none"}
    /\ \A k \in DOMAIN messages : messages[k].role \in {"user", "assistant"}
    /\ status \in {"idle", "ask", "asking", "batch"}
    /\ turn \in 0 .. MaxTurns
    /\ runs \in 0 .. MaxRuns

\* A response without its blank texts, which a stream leaves out.
Substance(response) ==
    [content |-> Select(response.content, LAMBDA b : ~IsText(b) \/ b.text # <<>>),
     stop_reason |-> response.stop_reason]

\* A reply that arrives whole comes out with all its text, and its calls with
\* their ids, inputs and order, and, blank texts aside, the same response
\* whether it was streamed or read at once; a call whose input is not JSON fails
\* the response.  And what the user was shown as it came is what the transcript
\* keeps: a delta for a block that does not take it would be shown and lost
\* (llm/src/anthropic.rs:315-387, llm/src/codex.rs:253-391).
WholeReplyIsDelivered ==
    /\ (phase = "done" /\ result.ok) => deltas = TextOf(result.content)
    /\ (phase = "done" /\ whole) =>
        IF \E k \in DOMAIN ToolUses(reply.blocks) : ~Parses(ToolUses(reply.blocks)[k].input)
        THEN adapter # "compatible" => ~result.ok
        ELSE /\ result.ok
             /\ Substance(result) = Substance(FromWire(reply))
             /\ ToolUses(result.content) = ToolUses(reply.blocks)
             /\ TextOf(result.content) = TextOf(reply.blocks)
             /\ (result.stop_reason = "MaxTokens") <=> (reply.stop = "length" /\
                    (adapter \in {"codex", "openrouter"} => ToolUses(reply.blocks) = <<>>))

Ids(calls) == [k \in DOMAIN calls |-> calls[k].id]

AnsweredByMessages(wire, callsOf(_), answerOf(_)) ==
    \A k \in DOMAIN wire :
        LET calls == callsOf(wire[k]) IN
        calls # <<>> =>
            /\ k + Len(calls) <= Len(wire)
            /\ \A n \in DOMAIN calls : answerOf(wire[k + n]) = calls[n]

\* The results of a message's calls come directly after it, one per call, in the
\* order of the calls.
CallsAnsweredNext(wire) ==
    CASE adapter \in {"anthropic", "compatible"} ->
             \A k \in DOMAIN wire :
                 LET calls == Ids(ToolUses(wire[k].content)) IN
                 calls # <<>> =>
                     /\ k < Len(wire)
                     /\ LET results == Select(wire[k + 1].content, IsResult)
                        IN  [n \in DOMAIN results |-> results[n].tool_use_id] = calls
      [] adapter = "openrouter" ->
             AnsweredByMessages(wire, LAMBDA m : Ids(m.tool_calls), LAMBDA m : m.tool_call_id)
      [] adapter = "codex" ->
             LET calls   == Select(wire, IsCallItem)
                 results == Select(wire, LAMBDA i : i.type = "function_call_output")
             IN  [k \in DOMAIN calls |-> calls[k].call_id]
                     = [k \in DOMAIN results |-> results[k].call_id]

\* The request says again all that was said, by both ends, in order: the same
\* text, calls, results and reasoning, whatever the wire format and however the
\* tools were scheduled; and it keeps each call next to its results, without
\* which a provider refuses it (llm/src/codex.rs:157-228,
\* llm/src/chatcompletions.rs:164-252, llm/src/anthropic.rs:440-480,
\* agent/src/lib.rs:10-11).
RequestIsFaithful ==
    phase = "sending" =>
        /\ RequestAtoms(adapter, request) = said
        /\ CallsAnsweredNext(request)

\* Every prompt gets an answer or an error: the retry loop ends, no stream and
\* no group of calls waits for ever (agent/src/lib.rs:294-327).
EveryRunEnds == (status # "idle") ~> (status = "idle")

\* A reply that was cut short does not enter the transcript: "Never persist
\* partial provider streams - retry or abandon" (ARCHITECTURE.md:189).  It
\* does: the end of the body is taken for the end of the message.
PartialRepliesStayOut ==
    [][\A k \in Len(messages) + 1 .. Len(messages') :
           messages'[k].role = "assistant" => whole]_vars
=============================================================================
