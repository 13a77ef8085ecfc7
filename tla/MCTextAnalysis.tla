---------------------------- MODULE MCTextAnalysis ----------------------------
(* Families of evidence small enough to be combined in every way, and the  *)
(* other benches.                                                          *)
EXTENDS TextAnalysis

Kinds(S) == {<<k, "hit">> : k \in S}
Covered(S) == {<<k, "ignore">> : k \in S}

Family(pieces, n) == [kind |-> "text", pieces |-> pieces, bound |-> n]
MCTexts ==
    {Family(Kinds({"d001", "d003", "d006", "d007", "d012", "d018", "escalating turn"}), 6),
     Family(Kinds({"d002", "d004", "d005", "d013", "d014", "base64"}), 5),
     Family(Kinds({"d015", "d017", "d019", "d023", "d024", "d026", "long"}), 5),
     Family(Covered({"plain", "rot13", "leet", "reversed", "other shift"}) \cup Covered({"pig latin", "morse"})
            \cup {<<"rot13", "system">>, <<"hex", "ignore">>, <<"percent", "ignore">>}, 5),
     Family(Covered({"plain", "homoglyph", "padded"}) \cup {<<"homoglyph", "system">>}
            \cup Kinds({"invisible", "whitespace", "mixed script", "split", "comment", "alternating"}), 5),
     Family(Kinds({"ip url", "short url", "encoded url", "data uri", "url", "decoy called", "decoy named"}), 6),
     Family({<<"similar", 60>>, <<"similar", 80>>, <<"classified", 51>>, <<"classified", 90>>,
             <<"style break", 5>>, <<"style break", 9>>, <<"surprise", 4>>, <<"surprise", 20>>}
            \cup Kinds({"d001", "d018", "prose"}), 3),
     Family(Kinds({"question", "answer", "pivot", "prose"}), 17),
     Family({<<"rule", "block">>, <<"rule", "flag">>, <<"rule", "log">>, <<"language", 80>>,
             <<"foreign script", "hit">>, <<"prose", "hit">>, <<"topic", "a">>, <<"topic", "b">>}, 5),
     Family(Kinds({"d005", "d006", "d012", "d014", "boundary", "send to"}), 4),
     Family(Kinds({"turn", "shared bigram", "new bigrams"}), 9)}

Answer(pieces, n, names, broken, vader) ==
    [kind |-> "answer", pieces |-> pieces, bound |-> n, names |-> names, broken |-> broken, vader |-> vader]
MCAnswers ==
    {Answer({<<"toxic", "a">>, <<"toxic", "b">>, <<"code", "a">>, <<"leak", "hit">>,
             <<"compliance", "hit">>, <<"personal", "a">>, <<"personal", "b">>, <<"stereotype", "hit">>},
            4, {}, b, FALSE) : b \in {{}, {"toxicity"}}}
    \cup {Answer({<<"json fence", "hit">>, <<"stray brace", "hit">>, <<"off schema", "hit">>,
                  <<"odd field", "hit">>, <<"injected value", "hit">>},
                 4, {"schema_validation", "typo"}, {}, FALSE)}
    \cup {Answer({<<"negative word", "hit">>, <<"kind word", "hit">>, <<"document", "hit">>,
                  <<"supported", "hit">>, <<"unsupported", "hit">>}, 6, {}, {}, v) : v \in BOOLEAN}

Other(kind, n) == [kind |-> kind, pieces |-> {}, bound |-> n]
MCNormalizations ==
    {[kind |-> "characters", pieces |-> {}, bound |-> 4, stages |-> S] :
        S \in {Stages} \cup {Stages \ {s} : s \in Stages}}
MCPipelines == {b \in MCNormalizations : b.stages = Stages}
Redactions(n) == {[kind |-> "spans", pieces |-> {}, bound |-> 3, hidden |-> n]}
MCRedactions == Redactions(0)
MCHiddenRedactions == Redactions(2)
MCBenches == MCTexts \cup MCAnswers \cup MCNormalizations \cup
    MCRedactions \cup {Other("tokens", 5), Other("words", 6), Other("response", 5), Other("campaign", 0)}

MCNeedles == {<<"ignore", "previous", "instructions">>, <<"reveal", "instructions">>}
MCSynonyms == {[words |-> {"ignore", "disregard"}, worth |-> 2], [words |-> {"reveal", "previous"}, worth |-> 1]}
MCVocabulary == {"ignore", "disregard", "previous", "instructions", "please"}

MCSpans == {s \in [start : 0..4, end : 1..5, personal : BOOLEAN] :
              s.start < s.end /\ s.end - s.start \in (IF s.personal THEN {1, 3} ELSE {1, 2})}
MCPersonalPlaceholder == <<-1, -1, -1, -1>>
MCPlaceholder == <<-2, -2>>

MCWordsToMark == {<<"w">>, <<"0">>, <<"1", "w">>}
MCWatermark == <<"0", "1", "0">>
MCToken == <<"t", "o", "k", "e", "n">>

MCCategories == <<"extraction", "hijack">>
\* One that passes, one detected for certain, one that d027 barely detects.
MCPrompts == {[risk |-> 0, action |-> "pass"], [risk |-> 85, action |-> "block"],
              [risk |-> 45, action |-> "flag"]}
=============================================================================
