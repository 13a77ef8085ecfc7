---------------------------- MODULE Normalization ----------------------------
(***************************************************************************)
(* NormalizationPipeline: what the detectors get to see of a text.  A text *)
(* is a sequence of characters, of which there are the kinds the stages    *)
(* tell apart: a letter, its Cyrillic double, a mark that combines with    *)
(* the letter into one character, an invisible character, a blank, and     *)
(* another that is compatible with the blank.                              *)
(***************************************************************************)
EXTENDS Integers, Sequences, SequencesExt

Characters == {"letter", "double", "mark", "lettermark", "invisible", "blank", "wide"}
Stages == {"nfkc", "zero_width", "homoglyph", "whitespace"}

Mapped(text, f(_)) == [i \in DOMAIN text |-> f(text[i])]

(* A letter and the mark that follows it become one character; whatever    *)
(* stands between them keeps them apart.                                   *)
Nfkc(text) ==
    LET plain == Mapped(text, LAMBDA c : IF c = "wide" THEN "blank" ELSE c)
        composed[i \in 0..Len(text)] ==
            IF i = 0 THEN <<>>
            ELSE LET done == composed[i - 1]
                 IN  IF plain[i] = "mark" /\ done # <<>> /\ Last(done) = "letter"
                       THEN Append(Front(done), "lettermark") ELSE Append(done, plain[i])
    IN  composed[Len(text)]

(* The characters at some positions.                                       *)
Chosen(text, positions) ==
    LET chosen[i \in 0..Len(text)] ==
            IF i = 0 THEN <<>>
            ELSE LET done == chosen[i - 1]
                 IN  IF i \in positions THEN Append(done, text[i]) ELSE done
    IN  chosen[Len(text)]

StripZeroWidth(text) == Chosen(text, {i \in DOMAIN text : text[i] # "invisible"})

MapHomoglyphs(text) == Mapped(text, LAMBDA c : IF c = "double" THEN "letter" ELSE c)

(* A run of blanks becomes one; none is left at the ends.  The other blank *)
(* is no part of a run, but goes from the ends.                            *)
CollapseBlanks(text) ==
    LET shown == {i \in DOMAIN text : text[i] \notin {"blank", "wide"}}
        kept(i) == /\ \E j, k \in shown : j <= i /\ i <= k
                   /\ ~ (text[i] = "blank" /\ text[i - 1] = "blank")
    IN  Chosen(text, {i \in DOMAIN text : kept(i)})

If(enabled, stage(_), text) == IF enabled THEN stage(text) ELSE text

NormalizeBlanksFirst(text, stages) ==
    If("homoglyph" \in stages, MapHomoglyphs,
    If("zero_width" \in stages, StripZeroWidth,
    If("whitespace" \in stages, CollapseBlanks,
    If("nfkc" \in stages, Nfkc, text))))

(* normalize() with the enabled stages, innermost first.                   *)
Normalize(text, stages) ==
    If("whitespace" \in stages, CollapseBlanks,
    If("homoglyph" \in stages, MapHomoglyphs,
    If("zero_width" \in stages, StripZeroWidth,
    If("nfkc" \in stages, Nfkc, text))))
=============================================================================
