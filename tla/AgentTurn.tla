----------------------------- MODULE AgentTurn -----------------------------
(***************************************************************************)
(* The agent loop around its two long steps: a provider call made from the *)
(* transcript in memory, and the batch of tool calls the response asks     *)
(* for, whose results go into the transcript for the next call.            *)
(*                                                                         *)
(* DurableRun has the journal of this loop and takes each of the two steps *)
(* as one; here they are what takes the time, and the journal is left out. *)
(***************************************************************************)
EXTENDS ProviderCall, BatchScheduler

CONSTANTS
    MaxTurns,   \* AgentConfig::max_turns
    MaxRuns     \* bound: prompts given to the session

ASSUME TurnAssumption ==
    /\ Adapters \subseteq {"anthropic", "compatible", "codex", "openrouter"}
    /\ Replies \subseteq [blocks : Seq(ReplyBlocks(Names)), stop : DOMAIN AnthropicStop]
    /\ MaxTurns \in Nat /\ MaxRuns \in Nat

VARIABLES
    messages,   \* the transcript
    status,     \* idle, ask, asking, batch
    turn,       \* provider calls of this run
    runs,       \* prompts given
    said        \* what both ends said, in order (history)

vars == <<callVars, batchVars, messages, status, turn, runs, said>>

Init ==
    /\ CallInit /\ BatchInit
    /\ messages = <<>> /\ said = <<>>
    /\ status = "idle" /\ turn = 0 /\ runs = 0

Prompt ==
    /\ status = "idle" /\ runs < MaxRuns
    /\ messages' = Append(messages, UserText(<<"prompt">>))
    /\ said' = Append(said, <<"text", "prompt">>)
    /\ status' = "ask" /\ turn' = 0 /\ runs' = runs + 1
    /\ UNCHANGED <<callVars, batchVars>>

Ask ==
    /\ status = "ask" /\ turn < MaxTurns
    /\ Call(messages)
    /\ status' = "asking" /\ turn' = turn + 1
    /\ UNCHANGED <<batchVars, messages, runs, said>>

TurnLimit ==
    /\ status = "ask" /\ turn = MaxTurns
    /\ status' = "idle"
    /\ UNCHANGED <<callVars, batchVars, messages, turn, runs, said>>

Provide ==
    /\ status = "asking" /\ CallStep
    /\ UNCHANGED <<batchVars, messages, status, turn, runs, said>>

\* The loop takes what the call returned; the variables of the call are gone.
Take ==
    /\ status = "asking" /\ phase = "done"
    /\ phase' = "idle"
    /\ attempt' = 0 /\ answers' = <<>> /\ request' = <<>>
    /\ reply' = NoReply /\ sent' = 0 /\ acc' = NothingYet /\ deltas' = <<>>
    /\ UNCHANGED <<adapter, whole, result>>

ProviderError ==
    /\ Take /\ ~result.ok
    /\ status' = "idle"
    /\ UNCHANGED <<batchVars, messages, turn, runs, said>>

\* The model's part of the conversation: the reply itself, or what got here of
\* it.
Heard == IF whole THEN ReplyAtoms(adapter, reply) ELSE ContentAtoms(result.content)

Calls == ToolUses(result.content)

\* No calls: the run is over, completed or truncated.
FinalAnswer ==
    /\ Take /\ result.ok /\ Calls = <<>>
    /\ messages' = Append(messages, Assistant(result.content))
    /\ said' = said \o Heard
    /\ status' = "idle"
    /\ UNCHANGED <<batchVars, turn, runs>>

RequestTools ==
    /\ Take /\ result.ok
    /\ BeginBatch([k \in DOMAIN Calls |-> Calls[k].name])
    /\ said' = said \o Heard
    /\ status' = "batch"
    /\ UNCHANGED <<messages, turn, runs>>

RunTools ==
    /\ status = "batch" /\ BatchStep
    /\ UNCHANGED <<callVars, messages, status, turn, runs, said>>

\* Slip: a message for each result.
ResultsOneByOne ==
    /\ status = "batch" /\ TakeOutputs
    /\ messages' = messages \o <<Assistant(result.content)>>
           \o [k \in DOMAIN outputs |->
                  ToolResults(<<ToolResult(Calls[k].id, outputs[k].is_error)>>)]
    /\ said' = said
           \o [k \in Requests |-> <<IF call[k] = "error" THEN "error" ELSE "result", Calls[k].id>>]
    /\ status' = "ask"
    /\ UNCHANGED <<callVars, turn, runs>>

\* The outputs are paired with the calls by position.
ToolsAnswer ==
    /\ status = "batch" /\ TakeOutputs
    /\ messages' = messages
           \o <<Assistant(result.content),
                ToolResults([k \in DOMAIN outputs |-> ToolResult(Calls[k].id, outputs[k].is_error)])>>
    /\ said' = said
           \o [k \in Requests |-> <<IF call[k] = "error" THEN "error" ELSE "result", Calls[k].id>>]
    /\ status' = "ask"
    /\ UNCHANGED <<callVars, turn, runs>>

Work ==
    \/ Ask \/ TurnLimit
    \/ Provide
    \/ ProviderError \/ FinalAnswer \/ RequestTools
    \/ RunTools
    \/ ToolsAnswer

Next == Prompt \/ Work

Spec == Init /\ [][Next]_vars

\* The client times a request out after 600 s, and so do the tools the commands
\* they are asked to run.  That git and the version probe of ast_grep return,
\* for which the code sets no limit, is assumed.
FairSpec == Spec /\ WF_vars(Work)
=============================================================================
