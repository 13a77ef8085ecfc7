------------------------------ MODULE Alignment ------------------------------
(***************************************************************************)
(* Smith-Waterman local alignment of a known attack with the tokens of a   *)
(* text (detector d028).                                                   *)
(***************************************************************************)
EXTENDS Integers, Sequences, FiniteSets, FiniteSetsExt

CONSTANTS
    Needles,    \* ATTACK_SEQUENCES
    Synonyms,   \* groups of words that stand for each other, and what that is worth
    MaxTokens   \* max_input_tokens

ASSUME AlignmentAssumption ==
    /\ IsFiniteSet(Needles) /\ IsFiniteSet(Synonyms) /\ MaxTokens \in Nat
    /\ \A n \in Needles : n \in Seq({n[j] : j \in DOMAIN n}) /\ n # <<>>
    /\ \A group \in Synonyms : group.worth \in Int

MatchBonus == 3
Mismatch == -1
Gap == -1
MinTokens == 4

PairScore(a, b) ==
    LET shared == {group \in Synonyms : {a, b} \subseteq group.words}
    IN  IF a = b THEN MatchBonus ELSE Max({Mismatch} \cup {group.worth : group \in shared})

(* A cell: the best score of an alignment that ends at token i of the text *)
(* and here in the attack, and where it began.                             *)
Empty == [score |-> 0, start |-> 0]
Cell(diag, up, left, pair, i, floor) ==
    LET best == Max({floor, diag.score + pair, up.score + Gap, left.score + Gap})
        from == IF best = diag.score + pair THEN diag
                ELSE IF best = up.score + Gap THEN up ELSE left
    IN  [score |-> best, start |-> IF best > 0 /\ from.score > 0 THEN from.start ELSE i]

(* The row of a token, from the row above; both have an empty cell in      *)
(* front.                                                                  *)
Row(above, token, needle, i, floor) ==
    LET row[j \in 0..Len(needle)] ==
            IF j = 0 THEN <<Empty>>
            ELSE LET left == row[j - 1]
                 IN  Append(left, Cell(above[j], above[j + 1], left[j],
                                       PairScore(token, needle[j]), i, floor))
    IN  row[Len(needle)]

Rows(hay, needle, floor) ==
    LET rows[i \in 0..Len(hay)] ==
            IF i = 0 THEN <<[j \in 1..(Len(needle) + 1) |-> Empty]>>
            ELSE LET done == rows[i - 1]
                 IN  Append(done, Row(done[i], hay[i], needle, i, floor))
    IN  rows[Len(hay)]

MatrixWithoutFloor(hay, needle) == Rows(hay, needle, -9)

Matrix(hay, needle) == Rows(hay, needle, 0)

(* The best cell; the first in reading order of several.                   *)
Align(hay, needle) ==
    LET H == Matrix(hay, needle)
        cells == (1..Len(hay)) \X (1..Len(needle))
        at(c) == H[c[1] + 1][c[2] + 1]
        score == Max({0} \cup {at(c).score : c \in cells})
        best == {c \in cells : at(c).score = score}
        end == Min({c[1] : c \in best})
        col == Min({c[2] : c \in {d \in best : d[1] = end}})
    IN  IF score = 0 THEN [score |-> 0, start |-> 0, end |-> 0]
        ELSE [score |-> score, start |-> at(<<end, col>>).start - 1, end |-> end]

Normalized(hay, needle) == (1000 * Align(hay, needle).score) \div (MatchBonus * Len(needle))

(* Strictly above the threshold of 0.63; from 60 there to 100 for all.       *)
SequenceAlignment(tokens) ==
    LET hay == SubSeq(tokens, 1, Min({Len(tokens), MaxTokens}))
        best == Max({0} \cup {Normalized(hay, n) : n \in Needles})
    IN  IF Len(tokens) < MinTokens \/ best <= 630 THEN 0
        ELSE 60 + (40 * (best - 630)) \div 370

(* What a local alignment is: tokens of both, paired off in order, and a   *)
(* gap for each token passed over between two pairs.                       *)
Nth(S, m) == CHOOSE x \in S : Cardinality({y \in S : y < x}) = m - 1
ScoreOf(hay, needle, I, J) ==
    LET k == Cardinality(I)
        pairs[m \in 0..k] ==
            IF m = 0 THEN 0 ELSE pairs[m - 1] + PairScore(hay[Nth(I, m)], needle[Nth(J, m)])
        skipped == (Max(I) - Min(I) + 1 - k) + (Max(J) - Min(J) + 1 - k)
    IN  pairs[k] + Gap * skipped
BestAlignment(hay, needle) ==
    Max({0} \cup UNION {{ScoreOf(hay, needle, I, J) :
                            I \in kSubset(k, 1..Len(hay)), J \in kSubset(k, 1..Len(needle))} :
                        k \in 1..Min({Len(hay), Len(needle)})})
=============================================================================
