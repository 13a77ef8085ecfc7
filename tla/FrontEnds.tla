------------------------------ MODULE FrontEnds ------------------------------
(***************************************************************************)
(* The places an application hands a text to the shield.  All of them read *)
(* the same report, and each decides in its own way what to do about it.   *)
(***************************************************************************)
EXTENDS Sequences

HTTP == {"fastapi", "flask", "django"}
Hosts == HTTP \cup {"guard", "agent", "filter", "server", "anthropic", "openai", "langchain",
                    "llamaindex", "haystack", "pydantic", "crewai", "cli", "hook", "pii hook"}
Modes == {"block", "sanitize", "flag"}

(* What a host uses of a ScanReport.  A text the blocklist matches has     *)
(* action "block" and no detections.                                       *)
Verdicts == {[action |-> "pass", found |-> FALSE], [action |-> "log", found |-> TRUE],
             [action |-> "flag", found |-> TRUE], [action |-> "block", found |-> TRUE],
             [action |-> "block", found |-> FALSE]}

Listed == [action |-> "block", found |-> FALSE]
Blocks(v) == v.action = "block"

(* A prompt, a message or the arguments of a tool call.                    *)
AgentRefusesInput(mode, v) == mode = "block" /\ (Blocks(v) \/ v.found)
FilterRefusesInput(mode, v) == Blocks(v)
AnthropicRefusesInput(mode, v) == mode = "block" /\ Blocks(v)
OpenAIRefusesInput(mode, v) == mode = "block" /\ Blocks(v)
LangChainRefusesInput(mode, v) == mode = "block" /\ Blocks(v)
LlamaIndexRefusesInput(mode, v) == mode = "block" /\ Blocks(v)
PydanticRefuses(mode, v) == mode = "block" /\ Blocks(v)
HaystackRefuses(mode, v) == mode = "block" /\ Blocks(v)
CrewRefuses(mode, v) == mode = "block" /\ v.action \in {"block", "flag"} /\ v.found
FastapiRefuses(mode, v) == Blocks(v)
FlaskRefuses(mode, v) == Blocks(v)
DjangoRefuses(mode, v) == Blocks(v)

(* Exit code 1: of `scan`, at either gate, and of the pre-commit hooks for *)
(* one of their files.                                                     *)
CliRefuses(mode, v) == Blocks(v)
HookRefuses(mode, v) == v.found
PiiHookRefuses(mode, v) == v.found

RefusesInput(host, mode, v) ==
    \/ host = "agent" /\ AgentRefusesInput(mode, v)
    \/ host = "filter" /\ FilterRefusesInput(mode, v)
    \/ host = "anthropic" /\ AnthropicRefusesInput(mode, v)
    \/ host = "openai" /\ OpenAIRefusesInput(mode, v)
    \/ host = "langchain" /\ LangChainRefusesInput(mode, v)
    \/ host = "llamaindex" /\ LlamaIndexRefusesInput(mode, v)
    \/ host = "pydantic" /\ PydanticRefuses(mode, v)
    \/ host = "haystack" /\ HaystackRefuses(mode, v)
    \/ host = "crewai" /\ CrewRefuses(mode, v)
    \/ host = "fastapi" /\ FastapiRefuses(mode, v)
    \/ host = "flask" /\ FlaskRefuses(mode, v)
    \/ host = "django" /\ DjangoRefuses(mode, v)
    \/ host = "cli" /\ CliRefuses(mode, v)
    \/ host = "hook" /\ HookRefuses(mode, v)
    \/ host = "pii hook" /\ PiiHookRefuses(mode, v)

(* The result of a tool, a retrieved document or node.                     *)
GuardRefuses(mode, v) == mode = "block" /\ v.found
AgentRefusesResult(mode, v) == mode = "block" /\ v.action # "pass" /\ v.found
FilterRefusesResult(mode, v) == mode = "block" /\ v.found
AnthropicRefusesResult(mode, v) == mode = "block" /\ Blocks(v)
LangChainRefusesResult(mode, v) == mode = "block" /\ Blocks(v)

RefusesResult(host, mode, v) ==
    \/ host = "guard" /\ GuardRefuses(mode, v)
    \/ host = "agent" /\ AgentRefusesResult(mode, v)
    \/ host = "filter" /\ FilterRefusesResult(mode, v)
    \/ host = "anthropic" /\ AnthropicRefusesResult(mode, v)
    \/ host = "langchain" /\ LangChainRefusesResult(mode, v)
    \/ host = "haystack" /\ HaystackRefuses(mode, v)
    \/ host = "cli" /\ CliRefuses(mode, v)

(* The answer of the model.  The agent's gate looks for its canary there;  *)
(* those of Pydantic AI and Haystack ask the engine for output scanners,   *)
(* an attribute no engine has.  The wrappers of OpenAI, Anthropic and      *)
(* LlamaIndex only log what they find.                                     *)
EngineScanners == {}
AgentRefusesOutput(mode, v) == mode = "block" /\ v.found
PydanticRefusesOutput(mode, v) == mode = "block" /\ EngineScanners # {} /\ v.found
HaystackRefusesOutput(mode, v) == mode = "block" /\ EngineScanners # {} /\ v.found

RefusesOutput(host, mode, v) ==
    \/ host = "crewai" /\ CrewRefuses(mode, v)
    \/ host = "agent" /\ AgentRefusesOutput(mode, v)
    \/ host = "pydantic" /\ PydanticRefusesOutput(mode, v)
    \/ host = "haystack" /\ HaystackRefusesOutput(mode, v)

(* The node is left out and the rest goes on, whatever the mode.           *)
LlamaIndexDrops(v) == Blocks(v)

(* The MCP server refuses nothing: it reports, and returns a sanitized     *)
(* text when its client asks for one.                                      *)
ServerSanitizes(mode, v) == mode = "sanitize" /\ v.found

(* The host puts placeholders over what was detected and passes that on.   *)
Sanitizes(host, mode, v) ==
    \/ host = "server" /\ ServerSanitizes(mode, v)
    \/ host \in {"guard", "filter"} /\ mode = "sanitize" /\ v.found
    \/ host = "agent" /\ mode # "block" /\ v.action # "pass" /\ v.found

(* What of a request reaches the engine: each host extracts the fields it  *)
(* knows.  The others are passed on unread.                                *)
Reads(host, part) ==
    CASE part.gate = "output" ->
            \/ host \in {"openai", "anthropic", "llamaindex", "crewai", "agent"}
            \/ host \in {"pydantic", "haystack"} /\ EngineScanners # {}
      [] part.gate = "result" ->
            host \notin HTTP \cup {"openai", "pydantic", "crewai", "hook", "pii hook"}
      [] part.gate = "input" ->
            \/ part.shape = "text"
            \/ part.shape = "parts" /\ host \in {"anthropic"} \cup HTTP
=============================================================================
