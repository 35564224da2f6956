-------------------------- MODULE ChatCompletions --------------------------
(***************************************************************************)
(* Wire conversion of the OpenAI-compatible Chat Completions API.          *)
(***************************************************************************)
EXTENDS Conversation

ChatMessage(role, text, calls, answers) ==
    [role |-> role, content |-> text, tool_calls |-> calls, tool_call_id |-> answers]

NoCall == "none"

\* One message per tool result, directly after the message with the calls; the
\* user's text follows.
ChatMessages(m) ==
    LET texts   == Select(m.content, IsText)
        results == Select(m.content, IsResult)
        calls   == ToolUses(m.content)
        text    == TextOf(m.content)
    IN  IF m.role = "assistant"
        THEN IF texts = <<>> /\ calls = <<>> THEN <<>>
             ELSE <<ChatMessage("assistant", text, calls, NoCall)>>
        ELSE [k \in DOMAIN results |->
                 [ChatMessage("tool", <<>>, <<>>, results[k].tool_use_id)
                      EXCEPT !.content = IF results[k].is_error THEN <<"ERROR">> ELSE <<>>]]
             \o IF texts = <<>> THEN <<>> ELSE <<ChatMessage("user", text, <<>>, NoCall)>>

ChatWire(messages) ==
    FlattenSeq([k \in DOMAIN messages |-> ChatMessages(messages[k])])

FinishReason(wire) ==
    CASE wire \in {"stop", "none"} -> "EndTurn"
      [] wire = "length"     -> "MaxTokens"
      [] wire = "tool_calls" -> "ToolUse"
      [] OTHER               -> "Other"

ChatResponse(body) ==
    IF body.choices = <<>> THEN Failed("malformed")
    ELSE LET message == Head(body.choices).message
             calls   == message.tool_calls
         IN  IF \E k \in DOMAIN calls : ~Parses(calls[k].input) THEN Failed("malformed")
             ELSE Response(
                      (IF message.content = <<>> THEN <<>> ELSE <<Text(message.content)>>) \o calls,
                      IF calls # <<>> THEN "ToolUse"
                                      ELSE FinishReason(Head(body.choices).finish_reason))
=============================================================================
