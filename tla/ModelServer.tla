---------------------------- MODULE ModelServer ----------------------------
(***************************************************************************)
(* The other end of a provider call, as the adapters in bullpen-llm use    *)
(* it: a reply is a list of blocks and the reason the model stopped, and   *)
(* each wire format has its own way to say it.  None of this is bullpen's  *)
(* code.                                                                   *)
(***************************************************************************)
EXTENDS Anthropic, Codex, ChatCompletions

\* What a model may say.  Hidden thinking reaches bullpen as a block it does
\* not know (Anthropic), as a reasoning item (Codex) or not at all.
Thinking(item) == [type |-> "thinking", item |-> item]

Reasoning(name, encrypted) == [type |-> "reasoning", id |-> name, encrypted |-> encrypted]

IsThinking(b) == b.type = "thinking"

ReplyBlocks(names) ==
    [type : {"text"}, text : Seq(STRING)]
    \union [type : {"tool_use"}, id : STRING, name : names, input : Seq(STRING)]
    \union [type : {"thinking"},
             item : [type : {"reasoning"}, id : STRING, encrypted : BOOLEAN]]

\* The stop reason of each wire format for the neutral one.
AnthropicStop == [end |-> "end_turn", calls |-> "tool_use", length |-> "max_tokens"]
ChatStop      == [end |-> "stop", calls |-> "tool_calls", length |-> "length"]
CodexStatus   == [end |-> "completed", calls |-> "completed", length |-> "max_output_tokens"]

AnthropicBody(reply) ==
    [content |-> reply.blocks, stop_reason |-> AnthropicStop[reply.stop]]

\* A block is announced empty and filled by deltas that give its position.
BlockEvents(reply, k) ==
    LET b       == reply.blocks[k]
        parts   == CASE IsText(b) -> b.text [] IsCall(b) -> b.input [] OTHER -> <<"...">>
        delta   == CASE IsText(b) -> "text_delta" [] IsCall(b) -> "input_json_delta"
                     [] OTHER -> "thinking_delta"
        opening == IF IsText(b) THEN Text(<<>>) ELSE b
    IN  <<[type |-> "content_block_start", block |-> opening]>>
        \o [n \in DOMAIN parts |->
               [type |-> "content_block_delta", index |-> k, delta |-> delta, part |-> parts[n]]]

AnthropicEvents(reply) ==
    FlattenSeq([k \in DOMAIN reply.blocks |-> BlockEvents(reply, k)])
    \o <<[type |-> "message_delta", stop_reason |-> AnthropicStop[reply.stop]],
         [type |-> "message_stop"]>>

CodexItem(b) ==
    CASE IsText(b)     -> MessageItem("assistant", <<b.text>>)
      [] IsCall(b)     -> CallItem(b)
      [] IsThinking(b) -> b.item

\* Item by item, then the end, which leaves the output empty.
CodexEvents(reply) ==
    [k \in DOMAIN reply.blocks |->
        [type |-> "output_item.done", item |-> CodexItem(reply.blocks[k])]]
    \o <<[type |-> IF reply.stop = "length" THEN "incomplete" ELSE "completed",
          response |-> [output |-> <<>>, error |-> FALSE, status |-> CodexStatus[reply.stop]]]>>

CodexBody(events) == [sse |-> TRUE, events |-> events]

ChatBody(reply) ==
    [choices |-> <<[message |-> [content    |-> TextOf(reply.blocks),
                                 tool_calls |-> ToolUses(reply.blocks)],
                    finish_reason |-> ChatStop[reply.stop]]>>]

-----------------------------------------------------------------------------
(* A conversation as the list of what was said in it, in order: fragments  *)
(* of text, calls, results, and the reasoning a backend wants back.  Both  *)
(* ends have one.                                                          *)

Atoms(kind, names) == [k \in DOMAIN names |-> <<kind, names[k]>>]

ReplyAtoms(adapter, reply) ==
    LET of(b) == CASE IsText(b) -> Atoms("text", b.text)
                   [] IsCall(b) -> <<<<"call", b.id>>>>
                   [] OTHER -> IF adapter = "codex" /\ b.item.encrypted
                               THEN <<<<"reasoning", b.item.id>>>> ELSE <<>>
        said == [k \in DOMAIN reply.blocks |-> of(reply.blocks[k])]
    IN  IF adapter = "openrouter"
        THEN Atoms("text", TextOf(reply.blocks))
             \o [k \in DOMAIN ToolUses(reply.blocks) |-> <<"call", ToolUses(reply.blocks)[k].id>>]
        ELSE FlattenSeq(said)

\* What is heard of a reply that did not arrive whole is what the response has.
ContentAtoms(content) ==
    LET of(b) == CASE IsText(b) -> Atoms("text", b.text)
                   [] IsCall(b) -> <<<<"call", b.id>>>>
                   [] OTHER -> IF b.data.encrypted THEN <<<<"reasoning", b.data.id>>>> ELSE <<>>
    IN  FlattenSeq([k \in DOMAIN content |-> of(content[k])])

AnthropicAtoms(wire) ==
    LET of(b) == CASE IsText(b) -> Atoms("text", b.text)
                   [] IsCall(b) -> <<<<"call", b.id>>>>
                   [] IsResult(b) -> <<<<IF b.is_error THEN "error" ELSE "result",
                                         b.tool_use_id>>>>
        message(m) == FlattenSeq([k \in DOMAIN m.content |-> of(m.content[k])])
    IN  FlattenSeq([k \in DOMAIN wire |-> message(wire[k])])

CodexAtoms(input) ==
    LET of(item) ==
            CASE item.type = "message" -> Atoms("text", FlattenSeq(item.content))
              [] item.type = "function_call" -> <<<<"call", item.call_id>>>>
              [] item.type = "function_call_output" ->
                     <<<<IF item.error THEN "error" ELSE "result", item.call_id>>>>
              [] item.type = "reasoning" -> <<<<"reasoning", item.id>>>>
    IN  FlattenSeq([k \in DOMAIN input |-> of(input[k])])

ChatAtoms(wire) ==
    LET of(m) == IF m.role = "tool"
                 THEN <<<<IF m.content = <<>> THEN "result" ELSE "error", m.tool_call_id>>>>
                 ELSE Atoms("text", m.content)
                      \o [k \in DOMAIN m.tool_calls |-> <<"call", m.tool_calls[k].id>>]
    IN  FlattenSeq([k \in DOMAIN wire |-> of(wire[k])])

RequestAtoms(adapter, wire) ==
    CASE adapter \in {"anthropic", "compatible"} -> AnthropicAtoms(wire)
      [] adapter = "codex"      -> CodexAtoms(wire)
      [] adapter = "openrouter" -> ChatAtoms(wire)
=============================================================================
