-------------------------------- MODULE Codex --------------------------------
(***************************************************************************)
(* Wire conversion of the Codex backend: a flat list of input items, and a *)
(* response put together from the events of a body read to its end.        *)
(***************************************************************************)
EXTENDS Conversation

MessageItem(role, parts) == [type |-> "message", role |-> role, content |-> parts]
CallItem(b)   == [type |-> "function_call", call_id |-> b.id, name |-> b.name,
                  arguments |-> b.input]
ResultItem(b) == [type |-> "function_call_output", call_id |-> b.tool_use_id,
                  error |-> b.is_error]

\* Reasoning may be sent back only with what the backend needs to accept it.
Replayable(b) == b.type = "opaque" /\ b.provider = "codex" /\ b.data.encrypted

Flush(role, s) ==
    IF s.parts = <<>> THEN s.out ELSE Append(s.out, MessageItem(role, s.parts))

\* Slip: the text waits for the end of the message.
ItemsThenText(content) ==
    LET put(s, b) ==
            CASE IsText(b) /\ b.text # <<>> -> [s EXCEPT !.parts = Append(@, b.text)]
              [] IsCall(b) -> [s EXCEPT !.out = Append(@, CallItem(b))]
              [] Replayable(b) -> [s EXCEPT !.out = Append(@, b.data)]
              [] OTHER -> s
        upTo[k \in 0 .. Len(content)] ==
            IF k = 0 THEN [out |-> <<>>, parts |-> <<>>] ELSE put(upTo[k - 1], content[k])
    IN  Flush("assistant", upTo[Len(content)])

\* Text is gathered into one message until something else comes.
Gather(s, b) ==
    CASE IsText(b) /\ b.text # <<>> -> [s EXCEPT !.parts = Append(@, b.text)]
      [] IsCall(b) ->
             [out |-> Append(Flush("assistant", s), CallItem(b)), parts |-> <<>>]
      [] Replayable(b) ->
             [out |-> Append(Flush("assistant", s), b.data), parts |-> <<>>]
      [] OTHER -> s

AssistantItems(content) ==
    LET upTo[k \in 0 .. Len(content)] ==
            IF k = 0 THEN [out |-> <<>>, parts |-> <<>>] ELSE Gather(upTo[k - 1], content[k])
    IN  Flush("assistant", upTo[Len(content)])

\* Results go out as they are met, all the text after them.
UserItems(content) ==
    LET results == Select(content, IsResult)
        texts   == Select(content, LAMBDA b : IsText(b) /\ b.text # <<>>)
    IN  Flush("user", [out   |-> [k \in DOMAIN results |-> ResultItem(results[k])],
                       parts |-> [k \in DOMAIN texts |-> texts[k].text]])

CodexInput(messages) ==
    FlattenSeq([k \in DOMAIN messages |->
        IF messages[k].role = "assistant" THEN AssistantItems(messages[k].content)
                                          ELSE UserItems(messages[k].content)])

-----------------------------------------------------------------------------
\* One output item as the content block it becomes, if it becomes one.
ItemBlock(item) ==
    CASE item.type = "message" /\ FlattenSeq(item.content) # <<>> ->
             <<Text(FlattenSeq(item.content))>>
      [] item.type = "function_call" ->
             <<ToolUse(item.call_id, item.name, item.arguments)>>
      [] item.type = "reasoning" -> <<Opaque(item)>>
      [] OTHER -> <<>>

IsCallItem(item) == item.type = "function_call"

CodexResponse(body) ==
    LET calls == Select(body.output, IsCallItem) IN
    IF body.error THEN Failed("failure")
    ELSE IF \E k \in DOMAIN calls : ~Parses(calls[k].arguments) THEN Failed("malformed")
    ELSE Response(FlattenSeq([k \in DOMAIN body.output |-> ItemBlock(body.output[k])]),
                  CASE calls # <<>> -> "ToolUse"
                    [] calls = <<>> /\ body.status = "max_output_tokens" -> "MaxTokens"
                    [] OTHER -> "EndTurn")

\* A body without events is the response itself.  Of a stream, an error wins,
\* a missing end is a failure, and the items stand in for an empty output.
ParseStream(body) ==
    LET of(type)  == Select(body.events, LAMBDA e : e.type = type)
        items     == of("output_item.done")
        completed == Select(body.events,
                               LAMBDA e : e.type \in {"completed", "incomplete"})
    IN  IF ~body.sse THEN CodexResponse(body.response)
        ELSE IF of("failed") # <<>> \/ completed = <<>> THEN Failed("failure")
        ELSE LET response == Last(completed).response IN
             CodexResponse(
                 IF response.output # <<>> THEN response
                 ELSE [response EXCEPT !.output = [k \in DOMAIN items |-> items[k].item]])
=============================================================================
