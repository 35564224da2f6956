---------------------------- MODULE Conversation ----------------------------
(***************************************************************************)
(* The provider-neutral conversation of bullpen-llm: content blocks,       *)
(* messages and responses, and what a provider call returns.               *)
(*                                                                         *)
(* A text is a sequence of fragments, <<>> the empty string.  Tool input   *)
(* is a JSON text, a sequence of pieces of which only FullInput (and what  *)
(* stands for {}, NoInput) parses.  An opaque block holds a reasoning item *)
(* of Codex; all that matters of it is its name and whether it carries     *)
(* what a replay needs.                                                    *)
(***************************************************************************)
EXTENDS Naturals, SequencesExt

Text(text)          == [type |-> "text", text |-> text]
ToolUse(id, name, input) == [type |-> "tool_use", id |-> id, name |-> name, input |-> input]
ToolResult(id, bad) == [type |-> "tool_result", tool_use_id |-> id, is_error |-> bad]
Opaque(item)        == [type |-> "opaque", provider |-> "codex", data |-> item]

IsText(b)   == b.type = "text"
IsCall(b)   == b.type = "tool_use"
IsResult(b) == b.type = "tool_result"

FullInput == <<"{", "}">>
NoInput   == <<>>

\* serde_json::from_str on the text of a tool input, {} for a blank one.
Parses(json) == json \in {NoInput, FullInput}

UserText(text)        == [role |-> "user", content |-> <<Text(text)>>]
ToolResults(results)  == [role |-> "user", content |-> results]
Assistant(content)    == [role |-> "assistant", content |-> content]

\* SelectSeq, in a form that proofs can expand: a response is made with it.
Select(s, Test(_)) == FlattenSeq([k \in DOMAIN s |-> IF Test(s[k]) THEN <<s[k]>> ELSE <<>>])

ToolUses(content) == Select(content, IsCall)

\* The text a message shows: its text blocks one after the other.
TextOf(content) ==
    FlattenSeq([k \in DOMAIN content |-> IF IsText(content[k]) THEN content[k].text ELSE <<>>])

\* What complete returns: Ok(Response) or Err(ProviderError).
Response(content, stop) == [ok |-> TRUE, content |-> content, stop_reason |-> stop]
Failed(error)           == [ok |-> FALSE, error |-> error]
ErrorKinds == {"transport", "api", "malformed", "failure"}
=============================================================================
