---------------------------- MODULE AnalysisTerms ----------------------------
(***************************************************************************)
(* The terms in which the proofs of TextAnalysis_proofs speak:             *)
(* the invariants, what a fold, a loop or a matrix computes step by step,  *)
(* and the relations between one step, or one text, and the next.          *)
(***************************************************************************)
EXTENDS TextAnalysis

-----------------------------------------------------------------------------
(***************************************************************************)
(* A campaign keeps its books: per category, in all, and within its budget.*)
(***************************************************************************)
Results == [category : Names, bypassed : BOOLEAN]

Campaigns ==
    [pc : {"loop", "batch", "done"}, now : Nat, used : Nat, runs : Nat,
     index : 0..(Len(Categories) - 1), batch : Seq(Prompts), results : Seq(Results),
     tally : [Names -> Nat], previous : Seq(Names)]
Of(results, S) == {i \in DOMAIN results : results[i].bypassed /\ results[i].category \in S}

Books(run) ==
    /\ run \in Campaigns
    /\ run.used < Budget + MaxCost
    /\ \A c \in Names : run.tally[c] = Cardinality(Of(run.results, {c}))
    /\ Len(run.previous) = Cap(Cardinality(Of(run.results, Names)), Kept)

-----------------------------------------------------------------------------
(***************************************************************************)
(* Recursive definitions.                                                  *)
(***************************************************************************)
Follows(f, n, base, next) == f[0] = base /\ \A i \in 1..n : f[i] = next[i][f[i - 1]]

(* The number of all findings of a list.                                   *)
Lists == Seq(Nat \X Nat)

Adds(n, found) == /\ n \in [0..Len(found) -> Nat] /\ n[0] = 0
                  /\ \A i \in 1..Len(found) : n[i] = n[i - 1] + found[i][2]

-----------------------------------------------------------------------------
(***************************************************************************)
(* What more findings do to the numbers the detectors compute.             *)
(***************************************************************************)
Grows(a, b) == a \in Nat /\ b \in Nat /\ a <= b

(* The bases of the kinds found.                                           *)
Found(f) == {f[i][1] : i \in {j \in DOMAIN f : f[j][2] > 0}}

-----------------------------------------------------------------------------
(***************************************************************************)
(* A text with further evidence in it, and no further distraction.         *)
(***************************************************************************)
Bag(x) ==
    /\ IsFiniteSet(DOMAIN x) /\ x \in [DOMAIN x -> Nat]
    /\ \A p \in DOMAIN x : p[1] \in Measured => p[2] \in Nat

More(x, y) ==
    /\ Bag(x) /\ Bag(y) /\ DOMAIN x = DOMAIN y
    /\ \A p \in DOMAIN x : p[1] \notin Measured =>
         /\ x[p] <= y[p]
         /\ p[1] \in Distractions => x[p] = y[p]
         /\ p[1] = "pivot" /\ ManyShot(x) = 100 => x[p] = y[p]
    /\ \A kind \in Measured : Reading(x, kind) <= Reading(y, kind)

-----------------------------------------------------------------------------
(***************************************************************************)
(* What is reported: of a text, of an answer, of a list of tokens.         *)
(***************************************************************************)
Detections(x) == {d \in Detectors : Confidence(d, x) > 0 /\ Confidence(d, x) >= Threshold(d)}

-----------------------------------------------------------------------------
(***************************************************************************)
(* The matrix of the alignment.                                            *)
(***************************************************************************)
Cells == [score : Int, start : Int]

(* What is built one element at a time.                                    *)
Builds(f, n, V, c) ==
    /\ \A j \in 0..n : f[j] \in Seq(V) /\ Len(f[j]) = j + 1
    /\ \A j \in 1..n : f[j] = Append(f[j - 1], c[j])

RowBy(row, above, token, needle, i, floor) ==
    /\ row[1] = Empty
    /\ \A j \in 1..Len(needle) :
         row[j + 1] = Cell(above[j], above[j + 1], row[j], PairScore(token, needle[j]), i, floor)

(* The rows of the matrix, one more for each token.                        *)
FirstRow(needle) == [j \in 1..(Len(needle) + 1) |-> Empty]

Shaped(rows, n, needle) ==
    /\ rows \in Seq(Seq(Cells)) /\ Len(rows) = n
    /\ \A k \in 1..n : rows[k] \in Seq(Cells) /\ Len(rows[k]) = Len(needle) + 1
Grown(rows, hay, needle, i) == Append(rows, Row(rows[i], hay[i], needle, i, 0))

RowsBy(r, hay, needle) ==
    /\ r[0] = <<FirstRow(needle)>>
    /\ \A i \in 1..Len(hay) : r[i] = Grown(r[i - 1], hay, needle, i)
    /\ \A i \in 0..Len(hay) : Shaped(r[i], i + 1, needle)

(* The score of the best cell.                                             *)
Grid(hay, needle) == (1..Len(hay)) \X (1..Len(needle))
ScoreAt(hay, needle, c) == Matrix(hay, needle)[c[1] + 1][c[2] + 1].score
Scores(hay, needle) == {ScoreAt(hay, needle, c) : c \in Grid(hay, needle)}

(* What is read of the tokens: the first of them.                          *)
Read(tokens) == SubSeq(tokens, 1, Min({Len(tokens), MaxTokens}))

-----------------------------------------------------------------------------
(***************************************************************************)
(* The behaviours.                                                         *)
(***************************************************************************)
Sound ==
    /\ bench \in Benches
    /\ bench.kind \in {"text", "answer"} => text \in [bench.pieces -> Nat]
    /\ bench.kind = "tokens" => list \in Seq(Vocabulary)
    /\ bench.kind = "campaign" => Books(campaign)
    /\ verdict = Assessed(text, list)

(* No verdict is taken back.                                               *)
Kinder(old, new) ==
    /\ Grows(old.risk, new.risk) /\ Grows(old.worst, new.worst)
    /\ old.families \ {"unclassified"} \subseteq new.families

-----------------------------------------------------------------------------
(***************************************************************************)
(* Loops over a list, which the model writes as folds.                     *)
(***************************************************************************)
(* What the fold over a list computes for every part of it.                *)
Parts(h, n, base, next) ==
    \A s \in SUBSET (1..n) : h[s] = IF s = {} THEN base ELSE next[Max(s)][h[s \ {Max(s)}]]
Loop(n, V, base, next) == n \in Nat /\ base \in V /\ next \in [1..n -> [V -> V]]

(* The rounds of the loop.                                                 *)
Folds(iter, n, V, base, next) ==
    /\ iter[{}] = base
    /\ \A s \in SUBSET (1..n) : s # {} /\ iter[s \ {Max(s)}] \in V
                                 => iter[s] = next[Max(s)][iter[s \ {Max(s)}]]

(* One replacement, of the redactor or of sanitize_text.                   *)
Spliced(r, t, s, p) ==
    /\ Len(r) >= s.start /\ \A i \in 1..s.start : r[i] = t[i]
    /\ \A i \in (s.start + 1)..Len(r) : \/ \E j \in 1..Len(p) : r[i] = p[j]
                                        \/ \E j \in (s.end + 1)..Len(t) : r[i] = t[j]

(* Both orders of the matches.                                            *)
Upward(spans) == Sorted(spans, LongestFirst)
Downward(spans) == Sorted(spans, LastFirst)

-----------------------------------------------------------------------------
(***************************************************************************)
(* Sorting.                                                                *)
(***************************************************************************)
Ranking(n, ahead) ==
    /\ n \in Nat /\ ahead \in [1..n -> SUBSET (1..n)]
    /\ \A i \in 1..n : i \notin ahead[i]
    /\ \A i, j \in 1..n : i # j => i \in ahead[j] \/ j \in ahead[i]
    /\ \A i, j \in 1..n : j \in ahead[i] => ahead[j] \subseteq ahead[i]

(* The one at a position has all of the positions before it ahead of it.   *)
Place(n, ahead, m) == CHOOSE i \in 1..n : Cardinality(ahead[i]) = m - 1

(* The matches in the order of the text, and against it.                   *)
Rising(q, spans) ==
    /\ q \in Seq(Spans) /\ Len(q) = Len(spans)
    /\ \A m \in 1..Len(q) : \A k \in 1..(m - 1) : q[k].start <= q[m].start
    /\ \A i \in 1..Len(spans) : \E m \in 1..Len(q) : q[m] = spans[i]
    /\ \A m \in 1..Len(q) : \E i \in 1..Len(spans) : q[m] = spans[i]

Falling(q, spans) ==
    /\ q \in Seq(Spans) /\ Len(q) = Len(spans)
    /\ \A m \in 1..Len(q) : \A k \in 1..(m - 1) : q[k].start >= q[m].start
    /\ \A i \in 1..Len(spans) : \E m \in 1..Len(q) : q[m] = spans[i]
    /\ \A m \in 1..Len(q) : \E i \in 1..Len(spans) : q[m] = spans[i]

-----------------------------------------------------------------------------
(***************************************************************************)
(* Cutting out.  Where the matches are cut out from the last to the first, *)
(* the text in front of the last cut is as it was, and nothing behind it   *)
(* is of the text in front.                                                *)
(***************************************************************************)
Intact(t, a) == /\ a \in 0..Len(t)
                /\ \A i \in 1..a : t[i] = i
                /\ \A i \in (a + 1)..Len(t) : t[i] \notin 1..a
Absent(x, t) == \A i \in 1..Len(t) : t[i] # x
Foreign(p) == \A i \in 1..Len(p) : p[i] \notin 1..Length
Descending(q) == \A m \in 1..Len(q) : \A k \in 1..(m - 1) : q[k].start >= q[m].start
Disjoint(q) == \A m \in 2..Len(q) : q[m].end <= q[m - 1].start

(* redact_with_detections(): the matches it keeps, the last ones in front, *)
(* do not overlap, and every other match has its beginning or more of      *)
(* itself in common with one of them.                                      *)
Taken(kept, q, k) == \A m \in 1..Len(kept) : \E i \in 1..k : kept[m] = q[i]
HitLater(kept, s) == \E m \in 1..Len(kept) : s.start <= kept[m].start /\ kept[m].start < s.end

(* redact(): the matches it keeps, the first ones in front, do not         *)
(* overlap, and every other match begins within one of them.               *)
HitEarlier(kept, s) == \E m \in 1..Len(kept) : kept[m].start <= s.start /\ s.start < kept[m].end
Ascending(q) == \A m \in 1..Len(q) : \A k \in 1..(m - 1) : q[k].start <= q[m].start
Apart(q) == \A m \in 2..Len(q) : q[m - 1].end <= q[m].start

(* A match that ends where the one cut out before begins, or earlier.      *)
Free(q, m) == m # 1 => q[m].end <= q[m - 1].start

(* A character of the match is missing, or all are; it overlaps no other.  *)
Gone(t, s) == \E x \in (s.start + 1)..s.end : Absent(x, t)
AllGone(t, s) == \A x \in (s.start + 1)..s.end : Absent(x, t)
Alone(spans, i) == \A j \in 1..Len(spans) : j # i =>
                      spans[j].end <= spans[i].start \/ spans[i].end <= spans[j].start

(* Every match is cut, and the lone ones to the last character.            *)
CutFrom(r, spans) == \A i \in 1..Len(spans) : /\ Gone(r, spans[i])
                                              /\ Alone(spans, i) => AllGone(r, spans[i])

(* What the texts are made of.                                             *)
Symbols == (1..Length) \cup {PersonalPlaceholder[i] : i \in DOMAIN PersonalPlaceholder}
                       \cup {Placeholder[i] : i \in DOMAIN Placeholder}

(* The list of a bench of matches is one of matches.                       *)
ListsMatches == bench.kind = "spans" => list \in Seq(Spans)

-----------------------------------------------------------------------------
(***************************************************************************)
(* Normalization.  The characters at some positions of a text.             *)
(***************************************************************************)
ChoosesBy(f, tx, positions) ==
    /\ f[0] = <<>>
    /\ \A i \in 1..Len(tx) : f[i] = IF i \in positions THEN Append(f[i - 1], tx[i]) ELSE f[i - 1]

(* Stripping leaves nothing invisible.                                     *)
Lacks(c, t) == \A i \in 1..Len(t) : t[i] # c

(* Collapsing leaves no run of blanks and none at the ends.                *)
Blanks == {"blank", "wide"}

Tidy(t) == /\ \A i \in 2..Len(t) : ~ (t[i - 1] = "blank" /\ t[i] = "blank")
           /\ t # <<>> => t[1] \notin Blanks /\ t[Len(t)] \notin Blanks

(* Composition leaves nothing to compose.                                  *)
Unpaired(t) == \A i \in 2..Len(t) : ~ (t[i - 1] = "letter" /\ t[i] = "mark")

Composed(done, c) ==
    IF c = "mark" /\ done # <<>> /\ Last(done) = "letter" THEN Append(Front(done), "lettermark")
    ELSE Append(done, c)
Plain(t) == [i \in 1..Len(t) |-> IF t[i] = "wide" THEN "blank" ELSE t[i]]
ComposesBy(f, t) == f[0] = <<>> /\ \A i \in 1..Len(t) : f[i] = Composed(f[i - 1], Plain(t)[i])

Passed(a, b, c, t, S) ==
    /\ a = IF "nfkc" \in S THEN Nfkc(t) ELSE t
    /\ b = IF "zero_width" \in S THEN StripZeroWidth(a) ELSE a
    /\ c = IF "homoglyph" \in S THEN MapHomoglyphs(b) ELSE b
    /\ Normalize(t, S) = IF "whitespace" \in S THEN CollapseBlanks(c) ELSE c

(* What one pass leaves, with which a further pass does nothing but        *)
(* compose.                                                                *)
Settled(t, S) ==
    /\ t \in Seq(Characters)
    /\ "nfkc" \in S => Lacks("wide", t)
    /\ "zero_width" \in S => Lacks("invisible", t)
    /\ "homoglyph" \in S => Lacks("double", t)
    /\ "whitespace" \in S => Tidy(t)

(* The list of a bench of characters is a text of them.                    *)
ListsText == bench.kind = "characters" => list \in Seq(Characters)

-----------------------------------------------------------------------------
(***************************************************************************)
(* Watermarks.  What is left of two texts one after the other is what is   *)
(* left of each.                                                           *)
(***************************************************************************)
StripsBy(f, t, marks) ==
    /\ f[0] = <<>>
    /\ \A i \in 1..Len(t) : f[i] = IF t[i] \notin marks THEN Append(f[i - 1], t[i]) ELSE f[i - 1]
Joins(x, y, e) == Append(x \o y, e) = x \o Append(y, e)

(* What has been found of the marks in a text.                             *)
FindsBy(f, t, s) ==
    /\ f[0] = 0
    /\ \A i \in 1..Len(t) : f[i] = IF f[i - 1] < Len(s) /\ t[i] = s[f[i - 1] + 1] THEN f[i - 1] + 1
                                   ELSE f[i - 1]
Finds(t, s, q) == \E f \in [0..Len(t) -> 0..Len(s)] : FindsBy(f, t, s) /\ f[Len(t)] >= q

Begins(t, u) ==
    Len(t) \in Nat /\ Len(u) \in Nat /\ Len(t) <= Len(u) /\ \A i \in 1..Len(t) : t[i] = u[i]

(* Parts of a text one after the other.                                    *)
Flattens(f, parts) == f[0] = <<>> /\ \A i \in 1..Len(parts) : f[i] = f[i - 1] \o parts[i]

(* There are as many marked gaps as there are gaps or marks, whatever is   *)
(* less.                                                                   *)
Spread(gaps, marks, i) == (i * gaps) \div marks

(* Gaps that have been passed.                                             *)
Passing(at, i) == Cardinality({k \in at : k < i})
Gaps(at, n) == at \subseteq 0..(n - 1) /\ IsFiniteSet(at)

(* A word, its mark if its gap gets one, and a space.                      *)
Marked(s, at, i) == IF i - 1 \in at THEN <<s[Passing(at, i)]>> ELSE <<>>

Weaves(f, w, s, at, n, c) ==
    f[0] = <<>> /\ \A i \in 1..n : f[i] = f[i - 1] \o ((w[i] \o Marked(s, at, i)) \o <<c>>)
MarkShaped(v, x, e, z) == v \o ((x \o <<e>>) \o z) = Append(v \o x, e) \o z

(* The words one after the other, with a space between them.               *)
Chains(g, w, n, c) ==
    g[0] = <<>> /\ \A i \in 1..n : g[i] = g[i - 1] \o (IF i = 1 THEN w[i] ELSE <<c>> \o w[i])

Parted(a, b, marks) ==
    Strip(a \o b, marks) = Strip(a, marks) \o Strip(b, marks)

MarkParted(v, x, m, z, marks) ==
    Strip(v \o ((x \o m) \o z), marks) = Strip(v, marks) \o (Strip(x, marks) \o Strip(z, marks))
FourJoin(g, z, x) == (g \o z) \o (x \o z) = (g \o (z \o x)) \o z

Woven(E, c, s, n, at, marks, w, f, g) ==
    /\ Gaps(at, n) /\ Cardinality(at) <= Len(s) /\ \A k \in 1..Len(s) : s[k] \in marks
    /\ \A i \in 1..n : w[i] \in Seq(E)
    /\ f \in [0..n -> Seq(E)] /\ Weaves(f, w, s, at, n, c)
    /\ g \in [0..(n + 1) -> Seq(E)] /\ Chains(g, w, n, c)

StrippedAlike(f, g, n, c, marks) ==
    \A i \in 1..n : Strip(f[i], marks) = Strip(g[i], marks) \o Strip(<<c>>, marks)

(* What of an embedding does not depend on how it is written.              *)
Embedded(t, w, s, g, marks) ==
    Detect(t, s) /\ Strip(t, marks) = Strip(g[Len(w)], marks)
Parts3(a, b, d) == (a \o b) \o d = a \o (b \o d)

(* Canaries.  The lengths of the runs that end at a symbol of a response   *)
(* and at one of the token.                                                *)
RunsRow(i, above) ==
    [j \in 0..Len(Token) |-> IF j > 0 /\ list[i] = Token[j] THEN above[j - 1] + 1 ELSE 0]

RunsBy(f) ==
    /\ f[0] = [j \in 0..Len(Token) |-> 0]
    /\ \A i \in 1..Len(list) : f[i] = RunsRow(i, f[i - 1])

(* k symbols of the response from p on are those of the token from q on.   *)
Alike(p, q, k) == \A d \in 1..k : list[p + d] = Token[q + d]

Common(k) ==
    \E p \in 0..(Len(list) - k), q \in 0..(Len(Token) - k) : Alike(p, q, k)

Slice(t, s, p, k) ==
    t = SubSeq(s, p + 1, p + k) /\ Len(t) = k /\ \A d \in 1..k : t[d] = s[p + d]

(* What texts, marks and tokens are made of.                               *)
MarkSymbols ==
    {Space, "other"} \cup UNION {{s[i] : i \in DOMAIN s} : s \in WordsToMark \cup {Watermark, Token}}
Told == {Token[i] : i \in DOMAIN Token} \cup {"other"}

(* The list of a bench of words or of a response is one of them.           *)
ListsMarks ==
    /\ bench.kind = "words" => list \in Seq(WordsToMark)
    /\ bench.kind = "response" => list \in Seq(Told)

-----------------------------------------------------------------------------
(***************************************************************************)
(* Local alignments: as many positions of one text as of the other.        *)
(***************************************************************************)
Sites(I, k) == I \subseteq Nat /\ IsFiniteSet(I) /\ k \in Nat \ {0} /\ Cardinality(I) = k
Before(S, x) == {y \in S : y < x}
Only(I, x) == I = {x}
WithMore(U, I, x) == U = I \cup {x}

(* The scores of the pairs, added up.                                      *)
PairAt(hay, needle, I, J, m) == PairScore(hay[Nth(I, m)], needle[Nth(J, m)])

Summed(f, hay, needle, I, J, n) ==
    /\ f \in [0..n -> Int] /\ f[0] = 0
    /\ \A m \in 1..n : f[m] = f[m - 1] + PairAt(hay, needle, I, J, m)
Skipped(I, J, k) == (Max(I) - Min(I) + 1 - k) + (Max(J) - Min(J) + 1 - k)
PairIs(hay, needle, x, y, pair) == x \in Nat /\ y \in Nat /\ pair = PairScore(hay[x], needle[y])

(* The matrix, cell by cell.                                               *)
CellAt(H, i, j) == H[i + 1][j + 1]

Filled(H, hay, needle) ==
    /\ \A i \in 0..Len(hay) : \A j \in 0..Len(needle) : CellAt(H, i, j) \in Cells
    /\ \A i \in 0..Len(hay) : CellAt(H, i, 0) = Empty
    /\ \A j \in 0..Len(needle) : CellAt(H, 0, j) = Empty
    /\ \A i \in 1..Len(hay) : \A j \in 1..Len(needle) :
         CellAt(H, i, j) = Cell(CellAt(H, i - 1, j - 1), CellAt(H, i - 1, j), CellAt(H, i, j - 1),
                            PairScore(hay[i], needle[j]), i, 0)

Score(H, i, j) == CellAt(H, i, j).score
Within(I, n) == \A x \in I : x \in 1..n

(* No alignment is worth more than the cell it ends at.                    *)
Bounded(H, hay, needle, L, N, k) ==
    \A I, J : Sites(I, k) /\ Sites(J, k) /\ Within(I, L) /\ Within(J, N) =>
        /\ ScoreOf(hay, needle, I, J) \in Int
        /\ ScoreOf(hay, needle, I, J) <= Score(H, Max(I), Max(J))

(* Every cell above zero is the worth of an alignment that begins where it *)
(* says, less the gaps behind it.                                          *)
Traces(I, J, k, H, hay, needle, i, j) ==
    /\ Sites(I, k) /\ Sites(J, k) /\ Within(I, i) /\ Within(J, j)
    /\ Min(I) = CellAt(H, i, j).start
    /\ Score(H, i, j) = ScoreOf(hay, needle, I, J) - (i - Max(I)) - (j - Max(J))

Traced(H, hay, needle, i, j) ==
    0 < Score(H, i, j) => \E I, J, k : Traces(I, J, k, H, hay, needle, i, j)

(* The same tokens at other positions are worth the same.                  *)
MovedBy(I, K, d) == I \subseteq Nat /\ (\A x \in K : x + d \in I) /\ \A z \in I : z - d \in K
SameTokens(hay, other, K, d) == \A x \in K : other[x] = hay[x + d]

Moved(I, K, J, d, k, hay, other, needle) ==
    /\ Sites(I, k) /\ Max(I) = Max(K) + d /\ Min(I) = Min(K) + d
    /\ ScoreOf(hay, needle, I, J) = ScoreOf(other, needle, K, J)

AllMoved(d, k, hay, other, needle) ==
    \A I, K, J : Sites(K, k) /\ Sites(J, k) /\ MovedBy(I, K, d) /\ SameTokens(hay, other, K, d) =>
        Moved(I, K, J, d, k, hay, other, needle)

(* The best of all alignments is one that none is better than.             *)
NoneBetter(hay, needle, L, N, v) ==
    \A I, J : \A k \in Nat \ {0} :
        Sites(I, k) /\ Sites(J, k) /\ Within(I, L) /\ Within(J, N) => ScoreOf(hay, needle, I, J) <= v

OneAsGood(hay, needle, L, N, v) ==
    \E I, J, k : Sites(I, k) /\ Sites(J, k) /\ Within(I, L) /\ Within(J, N) /\ ScoreOf(hay, needle, I, J) = v

(* What the alignment says is what its best cell says.                     *)
Says(a, H, L, N) ==
    /\ a.score \in Nat
    /\ \A i \in 1..L : \A j \in 1..N : Score(H, i, j) <= a.score
    /\ 0 < a.score => \E j \in 1..N : /\ a.end \in 1..L /\ Score(H, a.end, j) = a.score
                                     /\ a.start = CellAt(H, a.end, j).start - 1

(* The alignment of the best cell, and the same in the tokens it spans.    *)
Best(I, J, k, hay, needle, L, N, a) ==
    /\ Sites(I, k) /\ Sites(J, k) /\ Within(I, L) /\ Within(J, N)
    /\ ScoreOf(hay, needle, I, J) = a.score
    /\ a.end = Max(I) /\ a.start = Min(I) - 1

=============================================================================
