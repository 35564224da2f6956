----------------------------- MODULE Anthropic -----------------------------
(***************************************************************************)
(* Wire conversion of the Messages API: the request built from a           *)
(* transcript, the response read from one body, and the response put       *)
(* together from a stream of events.                                       *)
(***************************************************************************)
EXTENDS Conversation

\* Opaque blocks belong to another provider; a message left empty without
\* them is skipped.
AnthropicWire(messages) ==
    LET sent(m) ==
            LET kept == Select(m.content, LAMBDA b : b.type # "opaque")
            IN  IF kept = <<>> THEN <<>> ELSE <<[role |-> m.role, content |-> kept]>>
    IN  FlattenSeq([k \in DOMAIN messages |-> sent(messages[k])])

StopReason(wire) ==
    CASE wire \in {"end_turn", "stop_sequence"} -> "EndTurn"
      [] wire = "tool_use"   -> "ToolUse"
      [] wire = "max_tokens" -> "MaxTokens"
      [] OTHER               -> "Other"

\* A whole body; blocks this adapter does not know are dropped.
AnthropicResponse(body) ==
    IF body.stop_reason = "none" THEN Failed("malformed")
    ELSE Response(Select(body.content, LAMBDA b : b.type \in {"text", "tool_use"}),
                  StopReason(body.stop_reason))

-----------------------------------------------------------------------------
(* The stream accumulator.                                                 *)

NothingYet == [blocks |-> <<>>, stop_reason |-> "none"]

\* Every block takes a place, the unknown ones too: deltas name their block by
\* position.
Opened(block) ==
    CASE block.type = "text"     -> Text(block.text)
      [] block.type = "tool_use" -> ToolUse(block.id, block.name, <<>>)
      [] OTHER                   -> [type |-> "ignored"]

\* The block a delta is for takes it only if it is of the right kind.
Grown(blocks, event) ==
    IF event.index \notin DOMAIN blocks THEN blocks
    ELSE CASE event.delta = "text_delta" /\ IsText(blocks[event.index]) ->
                  [blocks EXCEPT ![event.index].text = Append(@, event.part)]
           [] event.delta = "input_json_delta" /\ IsCall(blocks[event.index]) ->
                  [blocks EXCEPT ![event.index].input = Append(@, event.part)]
           [] OTHER -> blocks

\* Slip: a block that is ignored takes no place.
HandleSkipsUnknown(acc, event) ==
    CASE event.type = "content_block_start" ->
             IF Opened(event.block).type = "ignored" THEN acc
             ELSE [acc EXCEPT !.blocks = Append(@, Opened(event.block))]
      [] event.type = "content_block_delta" ->
             [acc EXCEPT !.blocks = Grown(@, event)]
      [] event.type = "message_delta" -> [acc EXCEPT !.stop_reason = event.stop_reason]
      [] event.type = "error"         -> [acc EXCEPT !.stop_reason = "error"]
      [] OTHER                        -> acc

Handle(acc, event) ==
    CASE event.type = "content_block_start" ->
             [acc EXCEPT !.blocks = Append(@, Opened(event.block))]
      [] event.type = "content_block_delta" ->
             [acc EXCEPT !.blocks = Grown(@, event)]
      [] event.type = "message_delta" -> [acc EXCEPT !.stop_reason = event.stop_reason]
      [] event.type = "error"         -> [acc EXCEPT !.stop_reason = "error"]
      [] OTHER                        -> acc

\* Slip: whatever streams in is shown.
ForwardsEveryDelta(event) ==
    IF event.type = "content_block_delta" THEN <<event.part>> ELSE <<>>

\* What goes to the sink as the event is handled.
Forwarded(event) ==
    IF event.type = "content_block_delta" /\ event.delta = "text_delta"
    THEN <<event.part>> ELSE <<>>

\* A stream that named no stop reason is taken for the end of a turn.
Finish(acc) ==
    IF \E k \in DOMAIN acc.blocks : IsCall(acc.blocks[k]) /\ ~Parses(acc.blocks[k].input)
    THEN Failed("malformed")
    ELSE Response(Select(acc.blocks, LAMBDA b : IsCall(b) \/ (IsText(b) /\ b.text # <<>>)),
                  IF acc.stop_reason = "none" THEN "EndTurn" ELSE StopReason(acc.stop_reason))
=============================================================================
