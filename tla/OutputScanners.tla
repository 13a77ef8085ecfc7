---------------------------- MODULE OutputScanners ----------------------------
(***************************************************************************)
(* The scanners of what a model answers, and the engine that runs them.    *)
(* An answer is a bag of pieces, as the texts of Evidence are.             *)
(***************************************************************************)
EXTENDS Evidence

Toxicity(text) == Ramp(90, 3, Cardinality(Words(text, "toxic")))
CodeInjection(text) == Ramp(90, 3, Cardinality(Words(text, "code")))
PromptLeakage(text) == Ramp(85, 5, Hits(text, "leak"))
Relevance(text) == Ramp(85, 5, Hits(text, "compliance"))
OutputPii(text) == Ramp(90, 3, Cardinality(Words(text, "personal")))

BiasFairness(text) ==
    LET hits == Hits(text, "stereotype") IN IF hits < 1 THEN 0 ELSE Cap(40 + 15 * hits, 95)

(* VADER's compound score, where it is installed.                          *)
WithVader(text) ==
    LET compound == 30 * (Hits(text, "kind word") - Hits(text, "negative word"))
    IN  IF compound > -50 THEN 0 ELSE Cap(- compound, 100)
WithFallback(text) ==
    LET hits == Hits(text, "negative word") IN IF hits < 1 THEN 0 ELSE Cap(50 + 10 * hits, 100)
Sentiment(text, vader) == IF vader THEN WithVader(text) ELSE WithFallback(text)

(* Pieces of 15 tokens and 15 trigrams each, against the documents.        *)
Hallucination(text) ==
    LET grounded == Hits(text, "supported")
        all == grounded + Hits(text, "unsupported")
        support == (100 * grounded) \div all
    IN  IF Has(text, "document") = 0 \/ 15 * all < 30 \/ support >= 30 THEN 0
        ELSE Cap((100 * (30 - support)) \div 30, 95)

(* From the first opening brace to the last closing one: a brace in the    *)
(* text around the object makes it unreadable.                             *)
ExtractsJson(text) == Has(text, "stray brace") = 0
LooksLikeJson(text) == Has(text, "json fence") = 1

SchemaProblems(text) == Words(text, "off schema")
SuspiciousFields(text) == Words(text, "odd field")
InjectedValues(text) == Words(text, "injected value")

SchemaValidation(text) ==
    IF ExtractsJson(text)
      THEN Ramp(75, 8, One(SchemaProblems(text)) + One(SuspiciousFields(text))
                       + One(InjectedValues(text)))
      ELSE Ramp(75, 8, IF LooksLikeJson(text) THEN 1 ELSE 0)

Scanners == {"toxicity", "code_injection", "prompt_leakage", "relevance", "pii",
             "bias", "sentiment", "hallucination", "schema_validation"}

Scanned(scanner, text, vader) ==
    CASE scanner = "toxicity"          -> Toxicity(text)
      [] scanner = "code_injection"    -> CodeInjection(text)
      [] scanner = "prompt_leakage"    -> PromptLeakage(text)
      [] scanner = "relevance"         -> Relevance(text)
      [] scanner = "pii"               -> OutputPii(text)
      [] scanner = "bias"              -> BiasFairness(text)
      [] scanner = "sentiment"         -> Sentiment(text, vader)
      [] scanner = "hallucination"     -> Hallucination(text)
      [] scanner = "schema_validation" -> SchemaValidation(text)

(* No names, or none but unknown ones: all scanners, or none.              *)
Resolve(names) == IF names = {} THEN Scanners ELSE names \cap Scanners

(* A scanner that raises is passed over.  The risk is that of the worst.   *)
OutputRisk(names, broken, text, vader) ==
    Top({Scanned(s, text, vader) : s \in Resolve(names) \ broken})
=============================================================================
