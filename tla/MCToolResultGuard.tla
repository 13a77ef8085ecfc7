-------------------------- MODULE MCToolResultGuard --------------------------
(* Two texts one of which begins like the other, so that a careless key    *)
(* takes one for the other, and a third the blocklist matches.             *)
EXTENDS ToolResultGuard

CONSTANTS r1, r2, r3

MCTexts == {<<"a">>, <<"a", "b">>, <<"x">>}
MCNames == {<<>>, <<"b">>}
MCExempt == {<<"b">>}
MCBlocklisted == {<<"x">>}

Input(x, s) == [gate |-> "input", shape |-> s, text |-> x, name |-> <<>>]
Result(x, n) == [gate |-> "result", shape |-> "text", text |-> x, name |-> n]

Results == {<<Result(<<"a">>, <<"b">>)>>, <<Result(<<"a", "b">>, <<>>)>>, <<Result(<<"x">>, <<>>)>>}
Answered == {<<Input(<<"a", "b">>, "text"),
               [gate |-> "output", shape |-> "text", text |-> <<"a">>, name |-> <<>>]>>}
Inputs == Answered \cup {<<Input(x, "text"), Input(<<"a">>, s)>> : x \in {<<"a">>, <<"x">>}, s \in {"parts", "other"}}
Single(s) == {<<Input(x, s)>> : x \in {<<"a">>, <<"x">>}}
Pairs == {<<Input(<<"a">>, "text")>> \o b : b \in Results}

MCBodies == [h \in Hosts |->
    CASE h \in HTTP \cup {"openai", "pydantic", "crewai"} -> Inputs
      [] h = "guard"  -> {b \in Results : b[1].text # <<"x">>}
      [] h \in {"server", "cli"} -> Results \cup Single("text")
      [] h \in {"hook", "pii hook"} -> Single("text") \cup Single("other")
      [] h \in {"anthropic", "llamaindex", "haystack", "agent"} -> Pairs \cup Answered
      [] OTHER        -> Pairs]

Opinion(v) == [x \in MCTexts |-> CASE x = <<"x">> -> Listed
                                   [] x = <<"a">> -> v
                                   [] OTHER       -> Clean]
MCOpinions == {Opinion(v) : v \in {w \in Verdicts : w # Listed /\ w.action # "log"}}

Setup(h, m, n, k, c) ==
    [host |-> h, mode |-> m, resultMode |-> n, size |-> k, callers |-> c]
MCSetups ==
    {Setup("guard", "block", m, k, {r1, r2}) : m \in {"block", "sanitize"}, k \in {0, 1}}
    \cup {Setup("guard", "block", "flag", 1, {r1, r2, r3})}
    \cup {Setup("filter", m, m, 1, {r1, r2}) : m \in Modes}
    \cup {Setup(h, "block", m, 1, {r1, r2}) : h \in {"agent", "langchain", "llamaindex"},
                                             m \in {"block", "sanitize"}}
    \cup {Setup("server", "block", "sanitize", 1, {r1, r2})}
    \cup {Setup(h, "block", "block", 1, {r1}) : h \in {"cli", "hook", "pii hook"}}
    \cup {Setup(h, "block", "block", 1, {r1, r2}) : h \in Hosts \ {"guard", "filter", "cli", "hook", "pii hook"}}
MCBlockSetups == {Setup("agent", "block", "block", 1, {r1})}
=============================================================================
