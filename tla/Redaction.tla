------------------------------ MODULE Redaction ------------------------------
(***************************************************************************)
(* What is cut out of a text and what is put into it: redaction of spans,  *)
(* watermarks and canaries.  Texts are sequences of symbols; a span is     *)
(* from start to end as in Python, with the kind of its detector.          *)
(***************************************************************************)
EXTENDS Normalization, FiniteSets

(* A slice that goes over the end of the text stops there.                 *)
Splice(text, span, placeholder) ==
    SubSeq(text, 1, Min({span.start, Len(text)}))
        \o placeholder \o SubSeq(text, span.end + 1, Len(text))

Splices(text, spans, placeholder) ==
    FoldLeft(LAMBDA t, s : Splice(t, s, placeholder), text, spans)

(* Python's stable sort of a list of spans.                                *)
Sorted(spans, Before(_, _)) ==
    LET ahead(i) == {j \in DOMAIN spans : \/ Before(spans[j], spans[i])
                                         \/ (j < i /\ ~ Before(spans[i], spans[j]))}
    IN  [n \in DOMAIN spans |-> spans[CHOOSE i \in DOMAIN spans : Cardinality(ahead(i)) = n - 1]]

LongestFirst(a, b) == a.start < b.start \/ (a.start = b.start /\ a.end > b.end)
LastFirst(a, b) == a.start > b.start

(* redact(): of overlapping matches the one that starts first.             *)
KeptForward(spans) ==
    FoldLeft(LAMBDA kept, s :
                IF kept # <<>> /\ s.start < Last(kept).end THEN kept ELSE Append(kept, s),
             <<>>, Sorted(spans, LongestFirst))
Redact(text, spans, placeholder) == Splices(text, Reverse(KeptForward(spans)), placeholder)

(* redact_with_detections(): the one that starts last.                     *)
KeptBackward(spans) ==
    FoldLeft(LAMBDA kept, s :
                IF kept # <<>> /\ s.end > Last(kept).start THEN kept ELSE Append(kept, s),
             <<>>, Sorted(spans, LastFirst))
RedactDetections(text, spans, placeholder) == Splices(text, KeptBackward(spans), placeholder)

(* sanitize_text(): personal data first, then the other spans, at the      *)
(* positions they had before.                                              *)
OfKind(spans, personal) ==
    FoldLeft(LAMBDA found, s : IF s.personal = personal THEN Append(found, s) ELSE found, <<>>, spans)
SanitizeUpwards(text, spans, personalPlaceholder, placeholder) ==
    Splices(RedactDetections(text, OfKind(spans, TRUE), personalPlaceholder),
            Sorted(OfKind(spans, FALSE), LongestFirst), placeholder)
Sanitize(text, spans, personalPlaceholder, placeholder) ==
    Splices(RedactDetections(text, OfKind(spans, TRUE), personalPlaceholder),
            Sorted(OfKind(spans, FALSE), LastFirst), placeholder)

Occurs(text, part) ==
    \E i \in 0..(Len(text) - Len(part)) : SubSeq(text, i + 1, i + Len(part)) = part
-----------------------------------------------------------------------------
Space == " "

(* Gaps between words that get a mark: all of them if there are no more    *)
(* than marks, else as many as marks, evenly spread.                       *)
Positions(gaps, marks) ==
    IF marks >= gaps THEN 0..(gaps - 1) ELSE {(i * gaps) \div marks : i \in 0..(marks - 1)}

EmbedInGaps(words, sequence) ==
    LET gaps == Len(words) - 1
        at == Positions(gaps, Len(sequence))
        placed(i) == Cardinality({k \in at : k < i})
        mark(i) == IF i - 1 \in at THEN <<sequence[placed(i)]>> ELSE <<>>
        woven == FlattenSeq([i \in 1..gaps |-> words[i] \o mark(i) \o <<Space>>])
    IN  woven \o words[Len(words)]

(* The marks that found no gap follow the text.                            *)
Embed(words, sequence) ==
    LET placed == Len(words) - 1
    IN  IF Len(words) < 2 THEN sequence \o words[1]
        ELSE EmbedInGaps(words, sequence) \o SubSeq(sequence, placed + 1, Len(sequence))

(* The marks in order, whatever is between them.                           *)
Detect(text, sequence) ==
    LET found[i \in 0..Len(text)] ==
            IF i = 0 THEN 0
            ELSE LET n == found[i - 1]
                 IN  IF n < Len(sequence) /\ text[i] = sequence[n + 1] THEN n + 1 ELSE n
    IN  found[Len(text)] = Len(sequence)

Strip(text, marks) == Chosen(text, {i \in DOMAIN text : text[i] \notin marks})

(* A fragment of the token longer than least; the lengths are tried from   *)
(* the longest.                                                            *)
Leaks(response, token, least) ==
    \/ Occurs(response, token)
    \/ \E length \in (least + 1)..(Len(token) - 1) : \E start \in 0..(Len(token) - length) :
        Occurs(response, SubSeq(token, start + 1, start + length))
=============================================================================
