------------------------------- MODULE Evidence -------------------------------
(***************************************************************************)
(* What the detectors make of a text.  A text is the bag of what their     *)
(* patterns find in it: pieces <<kind, what>> with the number of times     *)
(* each occurs; what is "hit" where nothing depends on it.  A confidence   *)
(* is a number of hundredths, 0 for a detector that has found nothing.     *)
(***************************************************************************)
EXTENDS Integers, Sequences, FiniteSets, Functions, FiniteSetsExt

Top(S) == Max(S \cup {0})
Cap(x, limit) == Min({x, limit})

Count(text, piece) == IF piece \in DOMAIN text THEN text[piece] ELSE 0
Pieces(text, kind) == {p \in DOMAIN text : p[1] = kind /\ text[p] > 0}
Hits(text, kind) == Count(text, <<kind, "hit">>)
Has(text, kind) == Cap(Hits(text, kind), 1)

(* The keywords a text holds under a cover, such as "rot13".  Most of the  *)
(* detectors that uncover one leave out those the text also holds plainly. *)
Words(text, cover) == {p[2] : p \in Pieces(text, cover)}
Hidden(text, cover) == Words(text, cover) \ Words(text, "plain")
One(S) == IF S # {} THEN 1 ELSE 0

(* Five detectors judge the text as a whole: by the nearest of the vault   *)
(* to its embedding (d021), by what a classifier says of its chunks        *)
(* (d022), by the style of its windows (d027), by its language (d031), by  *)
(* how its tokens surprise, relative to all of them (d035).  Whatever is   *)
(* added to the text may change such a reading, in either direction.  A    *)
(* text has one piece <<kind, value>> for each kind that reads above 0.    *)
Measured == {"similar", "classified", "style break", "language", "surprise"}
Reading(text, kind) == Top(Words(text, kind))

(* A base for the first match and a step for each further one.             *)
Ramp(base, step, n) == IF n = 0 THEN 0 ELSE Cap(base + step * (n - 1), 100)

(* The highest base among the kinds found (pairs of a base and a count),   *)
(* and a step for each match after the first.                              *)
All(found) ==
    LET n[i \in 0..Len(found)] == IF i = 0 THEN 0 ELSE n[i - 1] + found[i][2] IN n[Len(found)]

BlendLast(found, step) ==
    LET last == Top({j \in DOMAIN found : found[j][2] > 0})
    IN  IF last = 0 THEN 0 ELSE Cap(found[last][1] + step * (All(found) - 1), 100)

Blend(found, step) ==
    LET top == Top({found[i][1] : i \in {j \in DOMAIN found : found[j][2] > 0}})
    IN  IF top = 0 THEN 0 ELSE Cap(top + step * (All(found) - 1), 100)

SystemPromptExtraction(text) == Ramp(85, 10, Hits(text, "d001"))
RoleHijack(text) == Ramp(85, 10, Hits(text, "d002"))
InstructionOverride(text) == Ramp(80, 10, Hits(text, "d003"))
PromptLeaking(text) == Ramp(80, 10, Hits(text, "d004"))
ContextManipulation(text) == Ramp(80, 10, Hits(text, "d005"))
TaskDeflection(text) == Ramp(70, 10, Hits(text, "d007"))
Base64Payload(text) == Ramp(85, 10, Hits(text, "base64"))
MarkdownHtml(text) == Ramp(75, 10, Hits(text, "d012"))
DataExfiltration(text) == Ramp(85, 10, Hits(text, "d013"))
ToolFunctionAbuse(text) == Ramp(80, 10, Hits(text, "d014"))
RagPoisoning(text) == Ramp(80, 10, Hits(text, "d015"))
HypotheticalFraming(text) == Ramp(70, 10, Hits(text, "d017"))
AcademicPretext(text) == Ramp(70, 10, Hits(text, "d018"))
DualPersona(text) == Ramp(80, 10, Hits(text, "d019"))
PiiDetection(text) == Ramp(90, 2, Hits(text, "d023"))
ForeignPhrases(text) == Hits(text, "d024")
Multilingual(text) == Ramp(85, 5, ForeignPhrases(text))
DenialOfWallet(text) == Ramp(85, 5, Hits(text, "d026") + Has(text, "long"))

(* The conversation may count for more than the message.                   *)
EscalatingTurns(text) == Hits(text, "escalating turn")
MultiTurnEscalation(text) ==
    LET turns == EscalatingTurns(text)
        history == IF turns >= 3 THEN Cap(85 + 5 * (turns - 3), 100) ELSE 0
    IN  Top({Ramp(70, 10, Hits(text, "d006")), history})

Rot13Substitution(text) ==
    Blend(<<<<80, One(Hidden(text, "rot13"))>>, <<70, One(Hidden(text, "leet"))>>,
            <<70, One(Hidden(text, "reversed"))>>>>, 10)

UnicodeHomoglyph(text) ==
    Blend(<<<<85, One(Hidden(text, "homoglyph"))>>, <<60, Has(text, "mixed script")>>>>, 10)

(* Keywords found under invisible characters count for more than the       *)
(* characters, these for less than keywords found under whitespace: and    *)
(* with them the keywords under whitespace are looked for but not weighed. *)
WhitespaceInjection(text) ==
    LET invisible == Has(text, "invisible")
        gaps == Hits(text, "whitespace")
        under == IF invisible = 1 THEN One(Words(text, "plain")) ELSE 0
        padded == IF gaps > 0 /\ under = 0
                    THEN One(Words(text, "plain") \cup Words(text, "padded")) ELSE 0
        n == invisible + gaps + padded
    IN  CASE under = 1     -> Ramp(75, 10, n)
          [] under = 0 /\ invisible = 1 -> Ramp(50, 5, n)
          [] invisible = 0 /\ padded = 1 -> Ramp(75, 5, n)
          [] OTHER         -> Ramp(30, 5, n)

UrlInjection(text) ==
    LET urls == Hits(text, "ip url") + Hits(text, "short url") + Hits(text, "encoded url")
                + Hits(text, "url")
    IN  Blend(<<<<80, Hits(text, "ip url")>>, <<70, Hits(text, "short url")>>,
                <<75, Hits(text, "data uri")>>, <<75, Hits(text, "encoded url")>>,
                <<65, IF urls > 3 THEN 1 ELSE 0>>>>, 5)

TokenSmuggling(text) ==
    Blend(<<<<75, Hits(text, "split")>>, <<70, Hits(text, "comment")>>,
            <<75, Has(text, "alternating")>>,
            <<75, Cardinality(Words(text, "reversed"))>>>>, 5)

(* The similarity of the whole text to the nearest vault entry.            *)
VaultSimilarity(text) ==
    LET top == Reading(text, "similar") IN IF top >= 75 THEN top ELSE 0

(* The worst of the first chunks.                                          *)
SemanticClassifier(text) ==
    LET top == Reading(text, "classified") IN IF top > 50 THEN top ELSE 0

(* The ways multi-encoding looks through a text: distinct payloads count.  *)
Hex(text) == Cardinality(Words(text, "hex"))
UrlEncoded(text) == Cardinality(Words(text, "percent"))
Leetspeak(text) == One(Hidden(text, "leet"))
Caesar(text) == One(Hidden(text, "rot13")) + One(Hidden(text, "other shift"))
Morse(text) == One(Words(text, "morse"))
PigLatin(text) == One(Hidden(text, "pig latin"))
Reversed(text) == One(Hidden(text, "reversed"))

MultiEncoding(text) ==
    Ramp(85, 5, Hex(text) + UrlEncoded(text) + Leetspeak(text) + Caesar(text)
                + Morse(text) + PigLatin(text) + Reversed(text))

(* The greatest divergence between neighbouring windows of 50 tokens.      *)
StylometricBreak(text) ==
    LET top == Reading(text, "style break")
    IN  IF top < 6 THEN 0 ELSE Cap(60 + 4 * (top - 6), 100)

(* A piece is four markers on lines of their own, or eight lines without.  *)
(* A question that pivots counts while it is the last.                     *)
Markers(text, role) == 4 * Hits(text, role)
Pairs(text) == Cap(Markers(text, "question"), Markers(text, "answer"))
Density(text) ==
    LET lines == Markers(text, "question") + Markers(text, "answer") + 8 * Hits(text, "prose")
    IN  IF lines = 0 THEN 0 ELSE (100 * Pairs(text)) \div lines
ManyShot(text) ==
    LET pairs == Pairs(text)
        density == Density(text)
        score == 55 + Cap((40 * (pairs - 8)) \div 24, 40) + Cap((5 * (density - 15)) \div 35, 5)
    IN  IF pairs < 8 \/ density < 15 THEN 0
        ELSE IF Hits(text, "pivot") > 0 THEN Cap(score + 10, 99) ELSE score

(* Of the rules that match, the most severe decides by its action.  The    *)
(* rules here: one each to block (high), to flag (medium), to log          *)
(* (critical).                                                             *)
CustomRule(text) ==
    LET hit == Words(text, "rule")
    IN  IF hit = {} THEN 0
        ELSE IF "log" \in hit THEN 50 ELSE IF "block" \in hit THEN 95 ELSE 75

ForeignRatio(text) ==
    LET foreign == Hits(text, "foreign script")
    IN  IF foreign = 0 THEN 0 ELSE (100 * foreign) \div (foreign + 4 * Hits(text, "prose"))
LanguageEnforcement(text) ==
    LET ratio == ForeignRatio(text)
        guess == Reading(text, "language")
    IN  IF ratio >= 15 THEN Cap(50 + ratio, 95) ELSE IF guess >= 75 THEN guess ELSE 0

TopicEnforcement(text) ==
    LET most == Top({text[p] : p \in Pieces(text, "topic")})
    IN  IF most < 2 THEN 0 ELSE Cap(40 + 15 * most, 95)

(* Bigrams the current turn shares with the first turns, which have 40,    *)
(* and others; from the fourth turn on.                                    *)
Similarity(text) == (100 * Hits(text, "shared bigram")) \div (40 + 10 * Hits(text, "new bigrams"))
TopicDrift(text) ==
    LET bigrams == Hits(text, "shared bigram") + Hits(text, "new bigrams")
    IN  IF Hits(text, "turn") < 4 \/ bigrams = 0 \/ Similarity(text) >= 5
          THEN 0 ELSE Cap(40 + 4 * (5 - Similarity(text)), 95)

(* A decoy that is called in the context counts for more than one named.   *)
DecoyCalled(text) == Hits(text, "decoy called") > 0
HoneypotTool(text) ==
    IF DecoyCalled(text) THEN 100 ELSE IF Hits(text, "decoy named") > 0 THEN 95 ELSE 0

(* The CUSUM statistic of the surprises, in sigmas of all of them.         *)
Cusum(text) == Reading(text, "surprise")
PerplexitySpectral(text) ==
    LET s == Cusum(text)
    IN  IF s < 5 THEN 0 ELSE Cap(2 * s, 100)
=============================================================================
