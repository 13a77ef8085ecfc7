----------------------------- MODULE TextAnalysis -----------------------------
(***************************************************************************)
(* Texts that grow under the eyes of the detectors: what the engine        *)
(* reports of them, and what redaction, watermarks and red-team campaigns  *)
(* do with them.  Which of these is tried is chosen at the start (bench).  *)
(***************************************************************************)
EXTENDS OutputScanners, Redaction, Alignment, RedTeam, Normalization

CONSTANTS
    Benches,       \* what to try, and with which pieces
    Vocabulary,    \* tokens for Alignment
    Spans,         \* matches in the text 1..Length, as the detectors see it
    Length,
    WordsToMark,   \* words for watermarks
    Watermark,     \* the marks of the secret
    Token,         \* a canary
    Least,         \* _MIN_PARTIAL_LENGTH
    PersonalPlaceholder, Placeholder

ASSUME BenchAssumption ==
    \A b \in Benches : b.kind \in {"text", "answer"} =>
        /\ IsFiniteSet(b.pieces)
        /\ \A p \in b.pieces : p[1] \in Measured => p[2] \in Nat

(* A match has characters, all of them of the text it was found in, which  *)
(* a placeholder has none of.                                              *)
ASSUME SpanAssumption ==
    /\ Length \in Nat /\ Spans \subseteq [start : Nat, end : Nat, personal : BOOLEAN]
    /\ \A s \in Spans : s.start < s.end /\ s.end <= Length
    /\ \A p \in {PersonalPlaceholder, Placeholder} :
        LET symbols == {p[i] : i \in DOMAIN p}
        IN  p \in Seq(symbols) /\ symbols \cap (1..Length) = {}

ASSUME MarkAssumption ==
    /\ \A s \in WordsToMark \cup {Watermark, Token} : s \in Seq({s[i] : i \in DOMAIN s})
    /\ Least \in Nat

VARIABLES bench, text, list,
    verdict     \* of the text as it is

analysed == <<bench, text, list, verdict, campaign>>

Detectors == {"d001", "d002", "d003", "d004", "d005", "d006", "d007", "d008", "d009", "d010",
              "d011", "d012", "d013", "d014", "d015", "d016", "d017", "d018", "d019", "d020",
              "d021", "d022", "d023", "d024", "d025", "d026", "d027", "d029", "d030", "d031",
              "d032", "d033", "d034", "d035"}

Confidence(d, x) ==
    CASE d = "d001" -> SystemPromptExtraction(x)
      [] d = "d002" -> RoleHijack(x)
      [] d = "d003" -> InstructionOverride(x)
      [] d = "d004" -> PromptLeaking(x)
      [] d = "d005" -> ContextManipulation(x)
      [] d = "d006" -> MultiTurnEscalation(x)
      [] d = "d007" -> TaskDeflection(x)
      [] d = "d008" -> Base64Payload(x)
      [] d = "d009" -> Rot13Substitution(x)
      [] d = "d010" -> UnicodeHomoglyph(x)
      [] d = "d011" -> WhitespaceInjection(x)
      [] d = "d012" -> MarkdownHtml(x)
      [] d = "d013" -> DataExfiltration(x)
      [] d = "d014" -> ToolFunctionAbuse(x)
      [] d = "d015" -> RagPoisoning(x)
      [] d = "d016" -> UrlInjection(x)
      [] d = "d017" -> HypotheticalFraming(x)
      [] d = "d018" -> AcademicPretext(x)
      [] d = "d019" -> DualPersona(x)
      [] d = "d020" -> TokenSmuggling(x)
      [] d = "d021" -> VaultSimilarity(x)
      [] d = "d022" -> SemanticClassifier(x)
      [] d = "d023" -> PiiDetection(x)
      [] d = "d024" -> Multilingual(x)
      [] d = "d025" -> MultiEncoding(x)
      [] d = "d026" -> DenialOfWallet(x)
      [] d = "d027" -> StylometricBreak(x)
      [] d = "d029" -> ManyShot(x)
      [] d = "d030" -> CustomRule(x)
      [] d = "d031" -> LanguageEnforcement(x)
      [] d = "d032" -> TopicEnforcement(x)
      [] d = "d033" -> TopicDrift(x)
      [] d = "d034" -> HoneypotTool(x)
      [] d = "d035" -> PerplexitySpectral(x)

(* The thresholds of default.yaml, in hundredths; d028's is 63.            *)
Threshold(d) == CASE d = "d001" -> 60 [] d = "d027" -> 6 [] d = "d035" -> 500 [] OTHER -> 70

(* 4 critical, 3 high, 2 medium, 1 low; a custom rule has its own.         *)
Severity(d, x) ==
    CASE d \in {"d001", "d002", "d004", "d013", "d014", "d034"} -> 4
      [] d \in {"d006", "d007", "d011", "d012", "d016", "d017", "d026", "d027", "d031",
                "d032", "d033", "d035"} -> 2
      [] d = "d018" -> 1
      [] d = "d030" -> IF <<"rule", "log">> \in Pieces(x, "rule") THEN 4
                       ELSE IF <<"rule", "block">> \in Pieces(x, "rule") THEN 3 ELSE 2
      [] OTHER -> 3

ActionFor(severity) ==
    CASE severity = 0 -> "pass" [] severity = 1 -> "log" [] severity = 2 -> "flag" [] OTHER -> "block"

FamilyOf(d) ==
    CASE d \in {"d001", "d004", "d013"}                         -> "exfiltration"
      [] d \in {"d002", "d007", "d017", "d018", "d019"}         -> "role hijack"
      [] d \in {"d003", "d015", "d024", "d029"}                 -> "imperative"
      [] d = "d005"                                             -> "delimiter"
      [] d \in {"d008", "d009", "d010", "d011", "d020", "d025"} -> "encoded"
      [] d \in {"d012", "d016"}                                 -> "rendered"
      [] d = "d014"                                             -> "tool misuse"
      [] OTHER                                                  -> "none"

(* classify(): the families of the detections, and two the text itself     *)
(* gives away; what is detected and belongs to none is unclassified.       *)
Families(x, detected) ==
    LET named == ({FamilyOf(d) : d \in detected} \ {"none"})
                 \cup (IF Has(x, "boundary") = 1 THEN {"termination"} ELSE {})
                 \cup (IF Has(x, "send to") = 1 THEN {"exfiltration"} ELSE {})
    IN  IF named = {} /\ detected # {} THEN {"unclassified"} ELSE named

(* scan(): detections below their detector's threshold are dropped; the    *)
(* risk is the highest confidence and 0.05 for each further detection.     *)
Verdict(x) ==
    LET confidence == [d \in Detectors |-> Confidence(d, x)]
        kept == {d \in Detectors : confidence[d] > 0 /\ confidence[d] >= Threshold(d)}
        worst == Top({Severity(d, x) : d \in kept})
    IN  [risk |-> IF kept = {} THEN 0
                  ELSE Cap(Top({confidence[d] : d \in kept}) + 5 * (Cardinality(kept) - 1), 100),
         worst |-> worst, action |-> ActionFor(worst), families |-> Families(x, kept)]

Unseen == [risk |-> 0, worst |-> 0, action |-> "pass", families |-> {}]

(* What is reported of an answer, of a text, of a list of tokens.          *)
Assessed(x, tokens) ==
    CASE bench.kind = "text"   -> Verdict(x)
      [] bench.kind = "answer" ->
            [Unseen EXCEPT !.risk = OutputRisk(bench.names, bench.broken, x, bench.vader)]
      [] bench.kind = "tokens" ->
            LET c == SequenceAlignment(tokens) IN [Unseen EXCEPT !.risk = IF c >= 63 THEN c ELSE 0]
      [] OTHER -> Unseen

AnalysisInit ==
    /\ bench \in Benches
    /\ text = [p \in bench.pieces |-> 0] /\ list = <<>>
    /\ verdict = Assessed(text, list)
    /\ CampaignInit

(* What the measures of a longer text may be.                              *)
Measures(pieces) == {p \in pieces : p[1] \in Measured}
Readings(pieces) == {R \in SUBSET Measures(pieces) : \A p, q \in R : p[1] = q[1] => p = q}

(* A further question takes the place of the last, with its pivot.         *)
Added(x, p, readings) ==
    [q \in DOMAIN x |-> IF q[1] \in Measured THEN (IF q \in readings THEN 1 ELSE 0)
                        ELSE IF q = p THEN x[q] + 1
                        ELSE IF p[1] = "question" /\ q[1] = "pivot" THEN 0 ELSE x[q]]

Extent(x) == FoldFunctionOnSet(+, 0, x, DOMAIN x \ Measures(DOMAIN x))

AddPiece ==
    /\ bench.kind \in {"text", "answer"} /\ Extent(text) < bench.bound
    /\ \E p \in bench.pieces \ Measures(bench.pieces), readings \in Readings(bench.pieces) :
        LET longer == Added(text, p, readings)
        IN  text' = longer /\ verdict' = Assessed(longer, list)
    /\ UNCHANGED <<bench, list, campaign>>

Append1(S) ==
    /\ Len(list) < bench.bound
    /\ \E x \in S :
        LET longer == Append(list, x)
        IN  list' = longer /\ verdict' = Assessed(text, longer)
    /\ UNCHANGED <<bench, text, campaign>>

AddToken == bench.kind = "tokens" /\ Append1(Vocabulary)
AddSpan == bench.kind = "spans" /\ Append1(Spans)
AddWord == bench.kind = "words" /\ Append1(WordsToMark)
AddCharacter == bench.kind = "characters" /\ Append1(Characters)
AddSymbol == bench.kind = "response" /\ Append1({Token[i] : i \in DOMAIN Token} \cup {"other"})

RunCampaign ==
    /\ bench.kind = "campaign" /\ Campaign
    /\ UNCHANGED <<bench, text, list, verdict>>

AnalysisNext == AddPiece \/ AddToken \/ AddSpan \/ AddWord \/ AddCharacter \/ AddSymbol \/ RunCampaign

Analysis == AnalysisInit /\ [][AnalysisNext]_analysed

(* The model a campaign asks answers or fails; its engine returns.         *)
FairAnalysis == Analysis /\ WF_analysed(RunCampaign)
-----------------------------------------------------------------------------
(* What is known to distract: a keyword in plain sight (d009, d010, d025), *)
(* an invisible character next to padded keywords (d011), a severe rule    *)
(* that only logs (d030), a little of a foreign script, after which the    *)
(* language is not guessed (d031), and whatever dilutes a ratio (d029,     *)
(* d031, d033, sentiment, hallucination) or breaks the JSON; and a pivot,  *)
(* which raises the confidence of d029 to 0.99, once that is 1.00 already. *)
(* And anything at all distracts that lowers what is measured of the text  *)
(* as a whole, as innocent words do: a text is read further from the       *)
(* vault, a chunk as harmless, its surprises as usual.                     *)
Distractions == {"plain", "invisible", "rule", "prose", "question", "answer", "shared bigram",
                 "foreign script", "kind word", "supported", "stray brace"}
Distracts(p) == p[1] \in Distractions \/ (p[1] = "pivot" /\ ManyShot(text) = 100)
Distracted ==
    \/ \E p \in bench.pieces : text'[p] > text[p] /\ Distracts(p)
    \/ \E kind \in Measured : Reading(text', kind) < Reading(text, kind)

(* A text cannot be made to look better by adding evidence to it: unless   *)
(* what is added is one of the distractions, or lowers one of the five     *)
(* measures of the whole text, neither the risk nor the severity that      *)
(* decides the action falls, for the engine, for the output scanners and   *)
(* for the alignment, and no family of attack that a tool result was found *)
(* to belong to is taken back.                                             *)
RiskNeverFalls ==
    [][~ Distracted =>
         /\ verdict'.risk >= verdict.risk /\ verdict'.worst >= verdict.worst
         /\ verdict.families \ {"unclassified"} \subseteq verdict'.families]_analysed

(* The matrix finds the best of all local alignments, and the tokens it    *)
(* says the alignment spans hold one of that score.  (d028: _align.)       *)
AlignmentExact ==
    bench.kind = "tokens" =>
        \A needle \in Needles :
            LET found == Align(list, needle)
            IN  /\ found.score = BestAlignment(list, needle)
                /\ found.score > 0 =>
                     BestAlignment(SubSeq(list, found.start + 1, found.end), needle) = found.score

(* The characters of the text that the detectors see, by their positions;  *)
(* the text as it came has bench.hidden invisible ones in front of them,   *)
(* which the normalization has removed.                                    *)
Original == [i \in 1..Length |-> i]
Raw == [i \in 1..bench.hidden |-> 0] \o Original

Covers(span) == (span.start + 1)..span.end
Cut(span) == SubSeq(Original, span.start + 1, span.end)
Lone(i) == \A j \in DOMAIN list \ {i} :
              list[j].end <= list[i].start \/ list[i].end <= list[j].start
Personal == OfKind(list, TRUE)
Others == OfKind(list, FALSE)
Sanitized == Sanitize(Raw, list, PersonalPlaceholder, Placeholder)

(* However the matches overlap, none is left whole, and of one that no     *)
(* other overlaps no character is left.  redact() sees to that in any      *)
(* text: its matches are of the text it cuts.  The positions of detections *)
(* are of the normalized text, so what takes them, redact_with_detections  *)
(* and sanitize_text, does it only where the text was normal as it came,   *)
(* and sanitize_text where all matches are personal data or none is.  Of   *)
(* two that overlap a part may stay, although redact() says "Detect and    *)
(* redact all PII" (pii/redactor.py:42).                                   *)
NoWholeMatchRemains ==
    bench.kind = "spans" =>
        LET results == {Redact(Original, list, PersonalPlaceholder)}
                       \cup (IF bench.hidden # 0 THEN {}
                             ELSE {RedactDetections(Raw, list, PersonalPlaceholder)}
                                  \cup (IF Personal = <<>> \/ Others = <<>> THEN {Sanitized} ELSE {}))
        IN  \A result \in results, i \in DOMAIN list :
              /\ ~ Occurs(result, Cut(list[i]))
              /\ Lone(i) => \A n \in DOMAIN result : result[n] \notin Covers(list[i])

(* tool_guard/_sanitize.py:22, "Replace matched detection spans in text    *)
(* with a safe placeholder": with personal data in front, or with          *)
(* invisible characters, too.                                              *)
SanitizedSpansGone ==
    bench.kind = "spans" => \A i \in DOMAIN list : ~ Occurs(Sanitized, Cut(list[i]))

Marks == {Watermark[i] : i \in DOMAIN Watermark}
Joined == FlattenSeq([i \in DOMAIN list |-> IF i = 1 THEN list[i] ELSE <<Space>> \o list[i]])
CommonRuns ==
    LET L[i \in 0..Len(list)] ==
            IF i = 0 THEN [j \in 0..Len(Token) |-> 0]
            ELSE LET above == L[i - 1]
                 IN  [j \in 0..Len(Token) |->
                         IF j > 0 /\ list[i] = Token[j] THEN above[j - 1] + 1 ELSE 0]
    IN  {L[i][j] : i \in 0..Len(list), j \in 0..Len(Token)}

(* A watermark is found in every text it was put into, also in one that    *)
(* holds marks already, and comes out without a trace of the text; a       *)
(* canary is found exactly when a run of more than Least of its symbols    *)
(* has leaked, or all of a shorter one.                                    *)
(* (watermark.py: embed, detect, strip; leak_detector.py.)                 *)
MarksSurvive ==
    /\ bench.kind = "words" /\ list # <<>> =>
         /\ Detect(Embed(list, Watermark), Watermark)
         /\ Strip(Embed(list, Watermark), Marks) = Strip(Joined, Marks)
    /\ bench.kind = "response" =>
         (Leaks(list, Token, Least) <=> Top(CommonRuns) > Least \/ Top(CommonRuns) = Len(Token))

(* One pass of the normalization leaves nothing for its stages to do but   *)
(* for the first of them: what the later ones bring together may compose,  *)
(* so that a second pass may change the text again.  A third changes       *)
(* nothing.                                                                *)
NormalizeSettles ==
    bench.kind = "characters" =>
        LET S == bench.stages
            once == Normalize(list, S)
            twice == Normalize(once, S)
            left == {once[i] : i \in DOMAIN once}
        IN  /\ "nfkc" \in S => "wide" \notin left
            /\ "zero_width" \in S => "invisible" \notin left
            /\ "homoglyph" \in S => "double" \notin left
            /\ "whitespace" \in S => CollapseBlanks(once) = once
            /\ twice = If("nfkc" \in S, Nfkc, once)
            /\ Normalize(twice, S) = twice

(* normalization/pipeline.py:84, "running the pipeline twice produces the  *)
(* same result as running it once."                                        *)
SecondPassIdle ==
    bench.kind = "characters" =>
        LET once == Normalize(list, bench.stages) IN Normalize(once, bench.stages) = once

Bypassed(S) == {i \in DOMAIN campaign.results :
                    campaign.results[i].bypassed /\ campaign.results[i].category \in S}

(* The report of a campaign is true: every bypass counts for its own       *)
(* category, as many as are kept inspire the next prompts, and no more     *)
(* than one call goes over the budget, for all runs of a runner together.  *)
ReportTrue ==
    bench.kind = "campaign" =>
        /\ \A c \in Names : campaign.tally[c] = Cardinality(Bypassed({c}))
        /\ Len(campaign.previous) = Cap(Cardinality(Bypassed(Names)), Kept)
        /\ campaign.used < Budget + MaxCost

(* Every run of a campaign comes to its report.                            *)
CampaignEnds == bench.kind = "campaign" /\ campaign.pc # "done" ~> campaign.pc = "done"
=============================================================================
