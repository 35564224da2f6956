---------------------------- MODULE MCAgentTurn ----------------------------
(***************************************************************************)
(* TLC instances of AgentTurn.                                             *)
(***************************************************************************)
EXTENDS AgentTurnProperties

U(id, name) == ToolUse(id, name, FullInput)
T == Text(<<"one", "two">>)
H(n, encrypted) == Thinking(Reasoning(n, encrypted))

Said(blocks) ==
    [blocks |-> blocks, stop |-> IF ToolUses(blocks) = <<>> THEN "end" ELSE "calls"]

Batch(n1, n2, n3) == Said(<<U("c1", n1), U("c2", n2), U("c3", n3)>>)

\* Every order of text, thinking and calls that matters to a format, a blank
\* text, a call with no input, one cut off by the token limit, a group wider
\* than the permits, and groups before and after a serial call or an unknown
\* tool.
MCReplies ==
    {Said(<<H("r1", TRUE), T, T>>),
     [Said(<<T>>) EXCEPT !.stop = "length"],
     Said(<<Text(<<>>), ToolUse("c1", "read", NoInput)>>),
     Said(<<H("r1", TRUE), U("c1", "bash"), H("r2", FALSE), U("c2", "read")>>),
     Said(<<H("r1", FALSE), T, U("c1", "nope"), T>>),
     [blocks |-> <<T, ToolUse("c1", "bash", <<"{">>)>>, stop |-> "length"],
     [blocks |-> <<U("c1", "read")>>, stop |-> "length"],
     Batch("read", "read", "read"), Batch("read", "read", "bash")}

\* A short list, for long conversations.
FewReplies ==
    {Said(<<T>>), Said(<<H("r1", TRUE), T, U("c1", "read")>>),
     Said(<<H("r1", TRUE), U("c1", "bash"), H("r2", FALSE), U("c2", "read")>>)}
=============================================================================
