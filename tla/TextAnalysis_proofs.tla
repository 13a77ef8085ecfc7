-------------------------- MODULE TextAnalysis_proofs ------------------------
(***************************************************************************)
(* What holds of the analysis of requests and of what answers them, for    *)
(* every text, answer, list of tokens and campaign.                        *)
(***************************************************************************)
EXTENDS AnalysisTerms, FiniteSetTheorems, SequenceTheorems, WellFoundedInduction, TLAPS

(***************************************************************************)
(* The analysis of texts: the numbers it computes with.                    *)
(***************************************************************************)
(* A nonempty set of numbers has a least one: the CHOOSE in Pruned names   *)
(* an existing position.                                                   *)
LEMMA LeastElement ==
    ASSUME NEW T, T \subseteq Nat, T # {}
    PROVE  \E m \in T : \A n \in T : m <= n
<1>1. PICK m \in T : \A n \in T : ~ (<<n, m>> \in OpToRel(<, Nat))
  BY NatLessThanWellFounded, WFMin, Zenon
<1>2. \A n \in T : ~ (n < m)
  BY <1>1, Zenon DEF OpToRel
<1>3. \A n \in T : m <= n
  BY <1>2, SMT
<1> QED
  BY <1>3

(* A nonempty finite set of numbers has a greatest one.                    *)
LEMMA GreatestElement ==
    ASSUME NEW S \in SUBSET Int, IsFiniteSet(S), S # {}
    PROVE  \E m \in S : \A n \in S : n <= m
<1> DEFINE Greatest(T) == \E m \in T : \A n \in T : n <= m
           Bad == {n \in Nat : \E T \in SUBSET S : T # {} /\ Cardinality(T) = n /\ ~ Greatest(T)}
<1>1. SUFFICES ASSUME ~ Greatest(S) PROVE FALSE
  OBVIOUS
<1>2. Cardinality(S) \in Bad
  BY <1>1, FS_CardinalityType
<1>3. PICK least \in Bad : \A n \in Bad : least <= n
  <2>1. Bad \subseteq Nat
    OBVIOUS
  <2> QED BY <1>2, <2>1, LeastElement
<1>4. PICK T \in SUBSET S : T # {} /\ Cardinality(T) = least /\ ~ Greatest(T)
  BY <1>3
<1>5. PICK x \in T : TRUE
  BY <1>4
<1> DEFINE U == T \ {x}
<1>6. IsFiniteSet(T) /\ U \in SUBSET S /\ Cardinality(U) = least - 1 /\ Cardinality(U) \in Nat
  BY <1>4, <1>5, FS_Subset, FS_RemoveElement, FS_CardinalityType
<1>7. Cardinality(U) \notin Bad
  BY <1>3, <1>6, SMTT(30)
<1>8. U = {} \/ Greatest(U)
  BY <1>6, <1>7
<1>9. CASE U = {}
  <2>1. T = {x}
    BY <1>5, <1>9
  <2>2. Greatest(T)
    BY <2>1
  <2> QED BY <1>4, <2>2
<1>10. CASE Greatest(U)
  <2>1. PICK m \in U : \A n \in U : n <= m
    BY <1>10
  <2>2. CASE x <= m
    <3>1. Greatest(T)
      BY <2>1, <2>2
    <3> QED BY <1>4, <3>1
  <2>3. CASE ~ (x <= m)
    <3>1. \A n \in T : n <= x
      BY <2>1, <2>3
    <3>2. Greatest(T)
      BY <1>5, <3>1
    <3> QED BY <1>4, <3>2
  <2> QED BY <2>2, <2>3
<1> QED BY <1>8, <1>9, <1>10

(* Max, Min, Top and Cap (the min() and max() of the code) on numbers.     *)
LEMMA MaxOf ==
    ASSUME NEW S \in SUBSET Int, IsFiniteSet(S), S # {}
    PROVE  Max(S) \in S /\ \A x \in S : x <= Max(S)
<1>1. \E m \in S : \A n \in S : m >= n
  BY GreatestElement
<1>2. Max(S) \in S /\ \A n \in S : Max(S) >= n
  BY <1>1 DEF Max
<1> QED BY <1>2

LEMMA TopOf ==
    ASSUME NEW S \in SUBSET Int, IsFiniteSet(S)
    PROVE  Top(S) \in S \cup {0} /\ Top(S) \in Nat /\ \A x \in S : x <= Top(S)
<1>1. S \cup {0} \in SUBSET Int /\ IsFiniteSet(S \cup {0}) /\ 0 \in S \cup {0}
  BY FS_AddElement
<1>2. Max(S \cup {0}) \in S \cup {0} /\ \A x \in S \cup {0} : x <= Max(S \cup {0})
  BY <1>1, MaxOf
<1>3. Max(S \cup {0}) \in Int /\ 0 <= Max(S \cup {0})
  BY <1>1, <1>2
<1> QED BY <1>2, <1>3 DEF Top

LEMMA CapOf ==
    ASSUME NEW x \in Int, NEW limit \in Int
    PROVE  Cap(x, limit) = IF x <= limit THEN x ELSE limit
<1>1. CASE x <= limit
  <2>1. x \in {x, limit} /\ \A n \in {x, limit} : x =< n
    BY <1>1
  <2> DEFINE m == Min({x, limit})
  <2>2. m \in {x, limit} /\ \A n \in {x, limit} : m =< n
    BY <2>1 DEF Min
  <2>3. m = x
    BY <1>1, <2>2
  <2> QED BY <1>1, <2>3 DEF Cap
<1>2. CASE ~ (x <= limit)
  <2>1. limit \in {x, limit} /\ \A n \in {x, limit} : limit =< n
    BY <1>2
  <2> DEFINE m == Min({x, limit})
  <2>2. m \in {x, limit} /\ \A n \in {x, limit} : m =< n
    BY <2>1 DEF Min
  <2>3. m = limit
    BY <1>2, <2>2
  <2> QED BY <1>2, <2>3 DEF Cap
<1> QED BY <1>1, <1>2
-----------------------------------------------------------------------------
(***************************************************************************)
(* A campaign keeps its books: per category, in all, and within its budget.*)
(***************************************************************************)
LEMMA OfNone == ASSUME NEW S PROVE Cardinality(Of(<<>>, S)) = 0
<1>1. DOMAIN <<>> = {}
  OBVIOUS
<1>2. Of(<<>>, S) = {}
  BY <1>1 DEF Of
<1> QED BY <1>2, FS_EmptySet

(* One more result counts once, if it is a bypass and of the category.     *)
LEMMA OfAppended ==
    ASSUME NEW results \in Seq(Results), NEW r \in Results, NEW S
    PROVE  /\ Cardinality(Of(results, S)) \in Nat
           /\ Cardinality(Of(Append(results, r), S)) =
                Cardinality(Of(results, S)) + (IF r.bypassed /\ r.category \in S THEN 1 ELSE 0)
<1> DEFINE n == Len(results) + 1
           longer == Append(results, r)
<1>1. /\ Len(results) \in Nat /\ DOMAIN results = 1..Len(results)
      /\ longer \in Seq(Results) /\ Len(longer) = n
      /\ \A i \in 1..Len(results) : longer[i] = results[i]
      /\ longer[n] = r
  BY LenProperties, AppendProperties
<1>2. DOMAIN longer = 1..n
  BY <1>1, LenProperties
<1> HIDE DEF longer
<1>3. IsFiniteSet(Of(results, S)) /\ n \notin Of(results, S)
  <2>1. 1 \in Int /\ Len(results) \in Int
    BY <1>1
  <2>2. IsFiniteSet(1..Len(results))
    BY <2>1, FS_Interval, Zenon
  <2>3. Of(results, S) \subseteq 1..Len(results)
    BY <1>1 DEF Of
  <2>4. IsFiniteSet(Of(results, S))
    BY <2>2, <2>3, FS_Subset
  <2>5. n \notin 1..Len(results)
    BY <1>1
  <2> QED BY <2>3, <2>4, <2>5
<1>4. CASE r.bypassed /\ r.category \in S
  <2>1. Of(longer, S) = Of(results, S) \cup {n}
    BY <1>1, <1>2, <1>4 DEF Of
  <2> QED BY <1>3, <1>4, <2>1, FS_AddElement, FS_CardinalityType DEF longer
<1>5. CASE ~ (r.bypassed /\ r.category \in S)
  <2>1. Of(longer, S) = Of(results, S)
    BY <1>1, <1>2, <1>5 DEF Of
  <2> QED BY <1>3, <1>5, <2>1, FS_CardinalityType DEF longer
<1> QED BY <1>4, <1>5

LEMMA CategoryIsName ==
    ASSUME campaign \in Campaigns
    PROVE  /\ Category \in Names
           /\ Len(Categories) \in Nat \ {0} /\ NextIndex \in 0..(Len(Categories) - 1)
<1> USE CampaignAssumption
<1>1. Len(Categories) \in Nat \ {0} /\ campaign.index \in 0..(Len(Categories) - 1)
  BY EmptySeq DEF Campaigns
<1>2. campaign.index + 1 \in 1..Len(Categories)
  BY <1>1
<1>3. Category \in Names
  BY <1>2, ElementOfSeq DEF Category
<1>4. NextIndex \in 0..(Len(Categories) - 1)
  BY <1>1 DEF NextIndex
<1> QED BY <1>1, <1>3, <1>4

LEMMA FreshBooks ==
    ASSUME NEW used \in Nat, NEW runs \in Nat, used < Budget + MaxCost
    PROVE  Books(Fresh(used, runs))
<1> USE CampaignAssumption
<1> DEFINE new == Fresh(used, runs)
<1>1. Len(Categories) \in Nat \ {0}
  BY EmptySeq
<1>2. new \in Campaigns
  <2>1. 0 \in 0..(Len(Categories) - 1)
    BY <1>1
  <2>2. <<>> \in Seq(Prompts) /\ <<>> \in Seq(Results) /\ <<>> \in Seq(Names)
    BY EmptySeq
  <2>3. [c \in Names |-> 0] \in [Names -> Nat]
    OBVIOUS
  <2> QED BY <2>1, <2>2, <2>3 DEF Fresh, Campaigns
<1>3. Len(<<>>) = Cap(0, Kept)
  BY EmptySeq, CapOf
<1> QED BY <1>2, <1>3, OfNone DEF Fresh, Books

LEMMA TestKeepsBooks == ASSUME Books(campaign), Test PROVE Books(campaign')
<1> USE CampaignAssumption
<1>1. campaign \in Campaigns
  BY DEF Books
<1>2. PICK answer \in Tried(Head(campaign.batch)), elapsed \in {0, 1} :
        campaign' = [Tally(Result(answer)) EXCEPT
                        !.batch = Tail(campaign.batch), !.now = campaign.now + elapsed]
  BY DEF Test, Elapsed
<1> DEFINE r == Result(answer)
           grown == Append(campaign.previous, r.category)
           surplus == IF Len(grown) > Kept THEN Len(grown) - Kept ELSE 0
           last == SubSeq(grown, surplus + 1, Len(grown))
           n == Cardinality(Of(campaign.results, Names))
<1>3. r \in Results /\ r.category \in Names
  BY <1>1, CategoryIsName DEF Result, Results
<1>4. /\ campaign.results \in Seq(Results) /\ campaign.previous \in Seq(Names)
      /\ campaign.tally \in [Names -> Nat] /\ campaign.batch \in Seq(Prompts)
      /\ campaign.now \in Nat /\ campaign.used \in Nat
  BY <1>1 DEF Campaigns
<1>5. /\ campaign'.results = Append(campaign.results, r)
      /\ campaign'.tally = [campaign.tally EXCEPT ![r.category] = @ + (IF r.bypassed THEN 1 ELSE 0)]
      /\ campaign'.previous = IF r.bypassed THEN last ELSE campaign.previous
      /\ campaign'.used = campaign.used
  BY <1>1, <1>2 DEF Tally, Campaigns
<1>6. Append(campaign.results, r) \in Seq(Results)
  BY <1>3, <1>4, AppendProperties
<1>7. /\ n \in Nat
      /\ Cardinality(Of(campaign'.results, Names)) = n + (IF r.bypassed THEN 1 ELSE 0)
  <2>1. /\ n \in Nat
        /\ Cardinality(Of(Append(campaign.results, r), Names)) =
             n + (IF r.bypassed /\ r.category \in Names THEN 1 ELSE 0)
    BY <1>3, <1>4, OfAppended
  <2> QED BY <1>3, <1>5, <2>1
<1>8. last \in Seq(Names) /\ Len(last) = IF Len(campaign.previous) < Kept
                                          THEN Len(campaign.previous) + 1 ELSE Kept
  <2>1. /\ grown \in Seq(Names) /\ Len(grown) = Len(campaign.previous) + 1
        /\ Len(campaign.previous) \in Nat
    BY <1>3, <1>4, AppendProperties, LenProperties
  <2>2. surplus \in Nat /\ surplus <= Len(grown) /\ Len(grown) \in Nat
    BY <2>1
  <2>3. \A i \in (surplus + 1)..Len(grown) : grown[i] \in Names
    BY <2>1, <2>2, ElementOfSeq
  <2> HIDE DEF grown, surplus
  <2>4. /\ last \in Seq(Names)
        /\ Len(last) = IF surplus + 1 <= Len(grown) THEN Len(grown) - (surplus + 1) + 1 ELSE 0
    BY <2>2, <2>3, SubSeqProperties
  <2>5. Len(last) = Len(grown) - surplus
    BY <2>2, <2>4
  <2>6. surplus = IF Len(campaign.previous) + 1 > Kept THEN Len(campaign.previous) + 1 - Kept ELSE 0
    BY <2>1 DEF surplus
  <2>7. Kept \in Nat
    OBVIOUS
  <2> HIDE DEF last, surplus
  <2>8. PICK p \in Nat, k \in Nat, m \in Nat, x \in Nat :
          p = Len(campaign.previous) /\ k = Kept /\ m = surplus /\ x = Len(grown)
    BY <2>1, <2>2, <2>7
  <2>9. x = p + 1 /\ m = (IF p + 1 > k THEN p + 1 - k ELSE 0) /\ Len(last) = x - m
    BY <2>1, <2>5, <2>6, <2>8
  <2>10. x - m = IF p < k THEN p + 1 ELSE k
    BY <2>9
  <2> QED BY <2>4, <2>8, <2>9, <2>10
<1>9. Len(campaign'.previous) = Cap(Cardinality(Of(campaign'.results, Names)), Kept)
  <2>1. Len(campaign.previous) = IF n <= Kept THEN n ELSE Kept
    BY <1>7, CapOf DEF Books
  <2> HIDE DEF last, n, r
  <2>2. CASE r.bypassed
    BY <1>5, <1>7, <1>8, <2>1, <2>2, CapOf
  <2>3. CASE ~ r.bypassed
    BY <1>5, <1>7, <2>1, <2>3, CapOf
  <2> QED BY <2>2, <2>3
<1>10. \A c \in Names : campaign'.tally[c] = Cardinality(Of(campaign'.results, {c}))
  <2> SUFFICES ASSUME NEW c \in Names
               PROVE  campaign'.tally[c] = Cardinality(Of(campaign'.results, {c}))
    OBVIOUS
  <2>1. campaign.tally[c] = Cardinality(Of(campaign.results, {c}))
    BY DEF Books
  <2>2. /\ Cardinality(Of(campaign.results, {c})) \in Nat
        /\ Cardinality(Of(campaign'.results, {c})) =
             Cardinality(Of(campaign.results, {c})) + (IF r.bypassed /\ r.category = c THEN 1 ELSE 0)
    <3>1. /\ Cardinality(Of(campaign.results, {c})) \in Nat
          /\ Cardinality(Of(Append(campaign.results, r), {c})) =
               Cardinality(Of(campaign.results, {c})) + (IF r.bypassed /\ r.category \in {c} THEN 1 ELSE 0)
      BY <1>3, <1>4, OfAppended
    <3> QED BY <1>5, <3>1
  <2> HIDE DEF r
  <2> QED BY <1>3, <1>4, <1>5, <2>1, <2>2
<1>11. campaign' \in Campaigns
  <2>1. Tail(campaign.batch) \in Seq(Prompts)
    BY <1>4, HeadTailProperties DEF Test
  <2>2. campaign.now + elapsed \in Nat
    BY <1>4
  <2>3. campaign'.tally \in [Names -> Nat]
    <3> HIDE DEF r
    <3> QED BY <1>3, <1>4, <1>5, SMTT(30)
  <2>4. campaign'.previous \in Seq(Names) /\ campaign'.results \in Seq(Results)
    BY <1>4, <1>5, <1>6, <1>8
  <2>5. campaign' = [campaign EXCEPT !.results = campaign'.results, !.tally = campaign'.tally,
              !.previous = campaign'.previous, !.batch = Tail(campaign.batch), !.now = campaign.now + elapsed]
    BY <1>1, <1>2 DEF Tally, Campaigns
  <2> QED BY <1>1, <2>1, <2>2, <2>3, <2>4, <2>5 DEF Campaigns
<1> QED BY <1>5, <1>9, <1>10, <1>11 DEF Books

LEMMA CampaignKeepsBooks == ASSUME Books(campaign), Campaign PROVE Books(campaign')
<1> USE CampaignAssumption
<1>1. /\ campaign \in Campaigns /\ NextIndex \in 0..(Len(Categories) - 1)
      /\ campaign.used \in Nat /\ campaign.now \in Nat /\ campaign.now + 1 \in Nat
      /\ <<>> \in Seq(Prompts)
  <2>1. campaign \in Campaigns
    BY DEF Books
  <2>2. campaign.used \in Nat /\ campaign.now \in Nat
    BY <2>1 DEF Campaigns
  <2> QED BY <2>1, <2>2, CategoryIsName, EmptySeq
<1>2. CASE Generate
  <2>1. PICK cost \in Costs, batch \in Batches, elapsed \in Elapsed :
          campaign' = [campaign EXCEPT !.pc = "batch", !.batch = batch, !.used = campaign.used + cost,
                                       !.now = campaign.now + elapsed]
    BY <1>2 DEF Generate
  <2>2. batch \in Seq(Prompts)
    BY DEF Batches
  <2>3. campaign' \in Campaigns /\ campaign'.used = campaign.used + cost
    <3>1. cost \in Nat /\ campaign.used + cost \in Nat /\ campaign.now + elapsed \in Nat
      BY <1>1 DEF Costs, Elapsed
    <3> QED BY <1>1, <2>1, <2>2, <3>1 DEF Campaigns
  <2>4. campaign'.used < Budget + MaxCost
    <3>1. cost \in Nat /\ cost <= MaxCost /\ campaign.used < Budget
      BY <1>1, <1>2 DEF Generate, Broke, Costs
    <3> QED BY <1>1, <2>3, <3>1
  <2>5. UNCHANGED <<campaign.results, campaign.tally, campaign.previous>>
    BY <1>1, <2>1 DEF Campaigns
  <2> QED BY <2>3, <2>4, <2>5 DEF Books
<1>3. CASE GenerateFails
  <2>1. PICK elapsed \in Elapsed :
          campaign' = [campaign EXCEPT !.index = NextIndex, !.now = campaign.now + elapsed + 1]
    BY <1>3 DEF GenerateFails
  <2>2. campaign' \in Campaigns
    <3>1. PICK i \in 0..(Len(Categories) - 1), n \in Nat : i = NextIndex /\ n = campaign.now + elapsed + 1
      BY <1>1 DEF Elapsed
    <3>2. campaign' \in Campaigns
      BY <1>1, <2>1, <3>1 DEF Campaigns
    <3> QED BY <3>2
  <2>3. UNCHANGED <<campaign.results, campaign.tally, campaign.previous, campaign.used>>
    BY <1>1, <2>1 DEF Campaigns
  <2> QED BY <2>2, <2>3 DEF Books
<1>4. CASE Test
  BY <1>4, TestKeepsBooks
<1>5. CASE Rest
  <2>1. campaign' = [campaign EXCEPT !.pc = "loop", !.batch = <<>>, !.now = campaign.now + 1,
                                     !.index = NextIndex]
    BY <1>5 DEF Rest
  <2>2. campaign' \in Campaigns
    <3>1. PICK i \in 0..(Len(Categories) - 1), n \in Nat : i = NextIndex /\ n = campaign.now + 1
      BY <1>1
    <3>2. campaign' \in Campaigns
      BY <1>1, <2>1, <3>1 DEF Campaigns
    <3> QED BY <3>2
  <2>3. UNCHANGED <<campaign.results, campaign.tally, campaign.previous, campaign.used>>
    BY <1>1, <2>1 DEF Campaigns
  <2> QED BY <2>2, <2>3 DEF Books
<1>6. CASE Report
  <2>1. campaign' = [campaign EXCEPT !.pc = "done"]
    BY <1>6 DEF Report
  <2>2. campaign' \in Campaigns
    BY <1>1, <2>1 DEF Campaigns
  <2>3. UNCHANGED <<campaign.results, campaign.tally, campaign.previous, campaign.used>>
    BY <1>1, <2>1 DEF Campaigns
  <2> QED BY <2>2, <2>3 DEF Books
<1>7. CASE Rerun
  <2>1. campaign' = Fresh(campaign.used, campaign.runs + 1)
    BY <1>7 DEF Rerun
  <2>2. campaign.used \in Nat /\ campaign.runs + 1 \in Nat /\ campaign.used < Budget + MaxCost
    BY <1>1, SMTT(30) DEF Campaigns, Books
  <2> QED BY <2>1, <2>2, FreshBooks
<1> QED BY <1>2, <1>3, <1>4, <1>5, <1>6, <1>7 DEF Campaign
-----------------------------------------------------------------------------
(***************************************************************************)
(* Recursive definitions.                                                  *)
(***************************************************************************)
LEMMA Recursion ==
    ASSUME NEW n \in Nat, NEW V, NEW base \in V, NEW next \in [1..n -> [V -> V]]
    PROVE  \E f \in [0..n -> V] : Follows(f, n, base, next)
<1> DEFINE Good(m) == \E f \in [0..m -> V] : Follows(f, m, base, next)
           Bad == {m \in 0..n : ~ Good(m)}
<1>1. SUFFICES ASSUME Bad # {} PROVE FALSE
  <2>1. n \in 0..n /\ Bad = {}
    BY <1>1
  <2> QED BY <2>1
<1>2. PICK m \in Bad : \A k \in Bad : m <= k
  <2>1. Bad \subseteq Nat
    OBVIOUS
  <2> QED BY <1>1, <2>1, LeastElement
<1>3. m # 0
  <2> SUFFICES ASSUME m = 0 PROVE Good(m)
    BY <1>2
  <2> DEFINE f == [i \in 0..0 |-> base]
  <2>1. f \in [0..m -> V] /\ f[0] = base /\ 1..m = {}
    OBVIOUS
  <2> QED BY <2>1 DEF Follows
<1>4. m - 1 \in 0..n /\ m - 1 \notin Bad /\ m \in 1..n
  BY <1>2, <1>3
<1>5. PICK f \in [0..(m - 1) -> V] : f[0] = base /\ \A i \in 1..(m - 1) : f[i] = next[i][f[i - 1]]
  BY <1>4 DEF Follows
<1> DEFINE last == next[m][f[m - 1]]
           g == [i \in 0..m |-> IF i = m THEN last ELSE f[i]]
<1>6. f[m - 1] \in V /\ last \in V
  BY <1>4
<1>7. g \in [0..m -> V]
  <2>1. \A i \in 0..m : i # m => i \in 0..(m - 1)
    BY <1>4
  <2> QED BY <1>6, <2>1
<1>8. g[0] = base
  BY <1>3, <1>4, <1>5
<1>9. \A i \in 1..m : g[i] = next[i][g[i - 1]]
  <2> SUFFICES ASSUME NEW i \in 1..m PROVE g[i] = next[i][g[i - 1]]
    OBVIOUS
  <2>1. g[i - 1] = f[i - 1]
    BY <1>4
  <2>2. CASE i = m
    BY <1>4, <2>1, <2>2
  <2>3. CASE i # m
    BY <1>4, <1>5, <2>1, <2>3
  <2> QED BY <2>2, <2>3
<1>10. Good(m)
  BY <1>7, <1>8, <1>9 DEF Follows
<1> QED BY <1>2, <1>10

LEMMA AllOf ==
    ASSUME NEW found \in Lists
    PROVE  Len(found) \in Nat /\ \E n : Adds(n, found) /\ All(found) = n[Len(found)]
<1>1. Len(found) \in Nat /\ \A i \in 1..Len(found) : found[i] \in Nat \X Nat
  BY LenProperties, ElementOfSeq DEF Lists
<1> DEFINE L == Len(found)
           next == [i \in 1..L |-> [v \in Nat |-> v + found[i][2]]]
           P(g) == g = [i \in 0..L |-> IF i = 0 THEN 0 ELSE g[i - 1] + found[i][2]]
<1>2. next \in [1..L -> [Nat -> Nat]]
  <2>1. \A i \in 1..L, v \in Nat : v + found[i][2] \in Nat
    <3> SUFFICES ASSUME NEW i \in 1..L PROVE \A v \in Nat : v + found[i][2] \in Nat
      OBVIOUS
    <3>1. found[i][2] \in Nat
      BY <1>1
    <3> QED BY <3>1
  <2> QED BY <2>1
<1>3. PICK f \in [0..L -> Nat] : f[0] = 0 /\ \A i \in 1..L : f[i] = next[i][f[i - 1]]
  <2>1. L \in Nat /\ 0 \in Nat
    BY <1>1
  <2> HIDE DEF next, L
  <2>2. \E f \in [0..L -> Nat] : Follows(f, L, 0, next)
    BY <1>2, <2>1, Recursion
  <2> QED BY <2>2 DEF Follows
<1>4. \A i \in 1..L : f[i] = f[i - 1] + found[i][2]
  <2> SUFFICES ASSUME NEW i \in 1..L PROVE f[i] = f[i - 1] + found[i][2]
    OBVIOUS
  <2>1. i - 1 \in 0..L
    BY <1>1
  <2>2. f[i - 1] \in Nat
    BY <2>1
  <2>4. next[i][f[i - 1]] = f[i - 1] + found[i][2]
    BY <2>2
  <2> HIDE DEF next
  <2> QED BY <1>3, <2>4
<1>5. P(f)
  BY <1>1, <1>3, <1>4
<1> DEFINE n == CHOOSE g : P(g)
<1>6. P(n)
  BY <1>5
<1>7. All(found) = n[L]
  BY DEF All
<1> HIDE DEF n
<1>8. \A i \in 1..L : n[i] = n[i - 1] + found[i][2]
  BY <1>1, <1>6
<1>9. n[0] = 0 /\ n = [i \in 0..L |-> n[i]]
  BY <1>1, <1>6
<1>10. \A i \in 0..L : n[i] = f[i]
  <2> DEFINE Bad == {i \in 0..L : n[i] # f[i]}
  <2>1. SUFFICES ASSUME Bad # {} PROVE FALSE
    OBVIOUS
  <2>2. PICK i \in Bad : \A j \in Bad : i <= j
    <3>1. Bad \subseteq Nat
      OBVIOUS
    <3> QED BY <2>1, <3>1, LeastElement
  <2>3. i # 0 /\ i \in 1..L
    BY <1>3, <1>9, <2>2
  <2>4. i - 1 \in 0..L /\ i - 1 \notin Bad
    BY <1>1, <2>2, <2>3
  <2> QED BY <1>4, <1>8, <2>2, <2>3, <2>4
<1>11. n \in [0..L -> Nat]
  BY <1>9, <1>10
<1> QED BY <1>1, <1>7, <1>8, <1>9, <1>11 DEF Adds

LEMMA AllGrows ==
    ASSUME NEW f \in Lists, NEW g \in Lists, Len(f) = Len(g),
           \A i \in 1..Len(f) : f[i][2] <= g[i][2]
    PROVE  /\ All(f) \in Nat /\ All(g) \in Nat /\ All(f) <= All(g)
           /\ \A i \in 1..Len(f) : f[i][2] <= All(f)
<1>1. Len(f) \in Nat /\ \A i \in 1..Len(f) : f[i] \in Nat \X Nat /\ g[i] \in Nat \X Nat
  BY LenProperties, ElementOfSeq DEF Lists
<1>2. PICK m : Adds(m, f) /\ All(f) = m[Len(f)]
  BY AllOf
<1>3. PICK n : Adds(n, g) /\ All(g) = n[Len(g)]
  BY AllOf
<1> DEFINE L == Len(f)
           Fine(i) == m[i] <= n[i] /\ \A j \in 1..i : f[j][2] <= m[i]
<1>4. \A i \in 0..L : Fine(i)
  <2> DEFINE Bad == {i \in 0..L : ~ Fine(i)}
  <2>1. SUFFICES ASSUME Bad # {} PROVE FALSE
    OBVIOUS
  <2>2. PICK i \in Bad : \A j \in Bad : i <= j
    <3>1. Bad \subseteq Nat
      OBVIOUS
    <3> QED BY <2>1, <3>1, LeastElement
  <2>3. CASE i = 0
    BY <1>2, <1>3, <2>2, <2>3 DEF Adds
  <2>4. CASE i # 0
    <3>1. i \in 1..L /\ i - 1 \in 0..L /\ i - 1 \notin Bad
      BY <1>1, <2>2, <2>4
    <3>2. /\ m[i] = m[i - 1] + f[i][2] /\ n[i] = n[i - 1] + g[i][2]
          /\ m[i - 1] \in Nat /\ n[i - 1] \in Nat
      BY <1>2, <1>3, <3>1 DEF Adds
    <3>3. f[i][2] \in Nat /\ g[i][2] \in Nat /\ f[i][2] <= g[i][2]
      BY <1>1, <3>1
    <3>4. \A j \in 1..(i - 1) : f[j][2] \in Nat
      <4> SUFFICES ASSUME NEW j \in 1..(i - 1) PROVE f[j][2] \in Nat
        OBVIOUS
      <4>1. j \in 1..Len(f)
        BY <1>1, <3>1
      <4> QED BY <1>1, <4>1
    <3>5. m[i - 1] <= n[i - 1] /\ \A j \in 1..(i - 1) : f[j][2] <= m[i - 1]
      BY <3>1
    <3>6. \A j \in 1..i : f[j][2] <= m[i]
      <4> SUFFICES ASSUME NEW j \in 1..i PROVE f[j][2] <= m[i]
        OBVIOUS
      <4>1. CASE j = i
        BY <3>2, <3>3, <4>1
      <4>2. CASE j # i
        <5>1. j \in 1..(i - 1)
          BY <3>1, <4>2
        <5> QED BY <3>2, <3>3, <3>4, <3>5, <5>1
      <4> QED BY <4>1, <4>2
    <3>7. Fine(i)
      BY <3>2, <3>3, <3>5, <3>6
    <3> QED BY <2>2, <3>7
  <2> QED BY <2>3, <2>4
<1>5. m[L] \in Nat /\ n[L] \in Nat /\ Fine(L)
  BY <1>1, <1>2, <1>3, <1>4 DEF Adds
<1> QED BY <1>2, <1>3, <1>5
-----------------------------------------------------------------------------
(***************************************************************************)
(* What more findings do to the numbers the detectors compute.             *)
(***************************************************************************)
LEMMA TimesGrows ==
    ASSUME NEW s \in Nat, NEW a \in Int, NEW b \in Int, a <= b
    PROVE  s * a \in Int /\ s * b \in Int /\ s * a <= s * b
<1>1. s * a \in Int /\ s * b \in Int
  OBVIOUS
<1>2. s * (b - a) >= 0
  OBVIOUS
<1>3. s * b = s * a + s * (b - a)
  OBVIOUS
<1> QED BY <1>1, <1>2, <1>3

LEMMA CapGrows ==
    ASSUME NEW a \in Int, NEW b \in Int, a <= b, NEW limit \in Nat
    PROVE  Cap(a, limit) \in Int /\ Cap(b, limit) \in Int /\ Cap(a, limit) <= Cap(b, limit)
BY CapOf

LEMMA RampGrows ==
    ASSUME NEW base \in Nat, NEW higher \in Nat, base <= higher, NEW step \in Nat,
           NEW m, NEW n, Grows(m, n)
    PROVE  Grows(Ramp(base, step, m), Ramp(higher, step, n))
<1> USE DEF Grows
<1>1. CASE m # 0
  <2>1. /\ step * (m - 1) \in Int /\ step * (n - 1) \in Int /\ step * (m - 1) <= step * (n - 1)
        /\ step * 0 <= step * (m - 1)
    BY <1>1, TimesGrows
  <2> DEFINE a == step * (m - 1)
             b == step * (n - 1)
  <2>2. a \in Nat /\ b \in Nat /\ a <= b
    BY <2>1
  <2> HIDE DEF a, b
  <2>3. Cap(base + a, 100) <= Cap(higher + b, 100) /\ Cap(base + a, 100) \in Nat
        /\ Cap(higher + b, 100) \in Nat
    BY <2>2, CapOf
  <2>4. Ramp(base, step, m) = Cap(base + a, 100) /\ Ramp(higher, step, n) = Cap(higher + b, 100)
    BY <1>1 DEF Ramp, a, b
  <2> QED BY <2>3, <2>4
<1>2. CASE m = 0 /\ n # 0
  <2>1. step * 0 <= step * (n - 1) /\ step * (n - 1) \in Int
    BY <1>2, TimesGrows
  <2> DEFINE b == step * (n - 1)
  <2>2. b \in Nat
    BY <2>1
  <2> HIDE DEF b
  <2>3. Cap(higher + b, 100) \in Nat
    BY <2>2, CapOf
  <2>4. Ramp(base, step, m) = 0 /\ Ramp(higher, step, n) = Cap(higher + b, 100)
    BY <1>2 DEF Ramp, b
  <2> QED BY <2>3, <2>4
<1>3. CASE m = 0 /\ n = 0
  BY <1>3 DEF Ramp
<1> QED BY <1>1, <1>2, <1>3

LEMMA TopGrows ==
    ASSUME NEW S \in SUBSET Int, NEW T \in SUBSET Int, IsFiniteSet(T), S \subseteq T
    PROVE  Grows(Top(S), Top(T))
<1>1. IsFiniteSet(S)
  BY FS_Subset
<1>2. Top(S) \in S \cup {0} /\ Top(S) \in Nat
  BY <1>1, TopOf
<1>3. Top(T) \in Nat /\ \A x \in T : x <= Top(T)
  BY TopOf
<1> QED BY <1>2, <1>3 DEF Grows

LEMMA BlendGrows ==
    ASSUME NEW f \in Lists, NEW g \in Lists, Len(f) = Len(g), NEW step \in Nat,
           \A i \in 1..Len(f) : f[i][1] = g[i][1] /\ f[i][2] <= g[i][2]
    PROVE  Grows(Blend(f, step), Blend(g, step))
<1>1. /\ Len(f) \in Nat /\ DOMAIN f = 1..Len(f) /\ DOMAIN g = 1..Len(f)
      /\ \A i \in 1..Len(f) : f[i] \in Nat \X Nat /\ g[i] \in Nat \X Nat
  BY LenProperties, ElementOfSeq DEF Lists
<1>2. \A i \in 1..Len(f) : f[i][1] \in Nat /\ f[i][2] \in Nat /\ g[i][2] \in Nat
  BY <1>1
<1>3. All(f) \in Nat /\ All(g) \in Nat /\ All(f) <= All(g) /\ \A i \in 1..Len(f) : f[i][2] <= All(f)
  BY AllGrows
<1>4. \A i \in 1..Len(g) : g[i][2] <= All(g)
  BY <1>2, AllGrows
<1>5. Found(f) \subseteq Found(g) /\ Found(g) \in SUBSET Nat
  BY <1>1, <1>2 DEF Found
<1>6. IsFiniteSet(Found(g))
  <2> DEFINE I == {j \in DOMAIN g : g[j][2] > 0}
             h == [i \in I |-> g[i][1]]
  <2>1. IsFiniteSet(DOMAIN g) /\ I \in SUBSET DOMAIN g
    BY <1>1, FS_Interval
  <2>3. IsFiniteSet(I)
    BY <2>1, FS_Subset
  <2>2. h \in Surjection(I, Found(g))
    BY DEF Surjection, Found
  <2> QED BY <2>2, <2>3, FS_Surjection
<1>7. Grows(Top(Found(f)), Top(Found(g))) /\ IsFiniteSet(Found(f))
  BY <1>5, <1>6, TopGrows, FS_Subset
<1> DEFINE p == Top(Found(f))
           q == Top(Found(g))
<1>8. p \in Nat /\ q \in Nat /\ p <= q
  BY <1>7 DEF Grows
<1>9. (p # 0 => All(f) >= 1) /\ (q # 0 => All(g) >= 1)
  <2>1. p # 0 => p \in Found(f)
    BY <1>5, <1>7, TopOf
  <2>2. q # 0 => q \in Found(g)
    BY <1>5, <1>6, TopOf
  <2> HIDE DEF p, q
  <2> QED BY <1>1, <1>2, <1>3, <1>4, <2>1, <2>2 DEF Found
<1>10. /\ Blend(f, step) = IF p = 0 THEN 0 ELSE Cap(p + step * (All(f) - 1), 100)
       /\ Blend(g, step) = IF q = 0 THEN 0 ELSE Cap(q + step * (All(g) - 1), 100)
  BY DEF Blend, Found
<1> HIDE DEF p, q
<1>11. /\ step * (All(f) - 1) \in Int /\ step * (All(g) - 1) \in Int
       /\ step * (All(f) - 1) <= step * (All(g) - 1)
  BY <1>3, TimesGrows
<1>12. /\ p # 0 => step * 0 <= step * (All(f) - 1)
       /\ q # 0 => step * 0 <= step * (All(g) - 1)
  BY <1>3, <1>9, TimesGrows, SMTT(30)
<1> DEFINE a == step * (All(f) - 1)
           b == step * (All(g) - 1)
<1>13. a \in Int /\ b \in Int /\ a <= b /\ (p # 0 => 0 <= a) /\ (q # 0 => 0 <= b)
  BY <1>11, <1>12
<1>14. /\ Blend(f, step) = IF p = 0 THEN 0 ELSE Cap(p + a, 100)
       /\ Blend(g, step) = IF q = 0 THEN 0 ELSE Cap(q + b, 100)
  BY <1>10
<1> HIDE DEF a, b
<1> QED BY <1>8, <1>13, <1>14, CapOf DEF Grows
-----------------------------------------------------------------------------
(***************************************************************************)
(* A text with further evidence in it, and no further distraction.         *)
(***************************************************************************)
LEMMA HitsGrow ==
    ASSUME NEW x, NEW y, More(x, y), NEW kind, kind \notin Measured
    PROVE  /\ Grows(Hits(x, kind), Hits(y, kind)) /\ Grows(Has(x, kind), Has(y, kind))
           /\ Has(x, kind) <= 1 /\ Has(y, kind) <= 1
           /\ kind \in Distractions => Hits(x, kind) = Hits(y, kind) /\ Has(x, kind) = Has(y, kind)
<1> DEFINE p == <<kind, "hit">>
           m == Hits(x, kind)
           n == Hits(y, kind)
<1>1. CASE p \in DOMAIN x
  <2>1. m = x[p] /\ n = y[p] /\ p[1] = kind
    BY <1>1 DEF Hits, Count, More
  <2>2. m \in Nat /\ n \in Nat /\ m <= n /\ (kind \in Distractions => m = n)
    BY <1>1, <2>1 DEF More, Bag
  <2> HIDE DEF m, n
  <2> QED BY <2>2, CapOf DEF Has, Grows, m, n
<1>2. CASE p \notin DOMAIN x
  <2>1. m = 0 /\ n = 0
    BY <1>2 DEF Hits, Count, More
  <2> HIDE DEF m, n
  <2> QED BY <2>1, CapOf DEF Has, Grows, m, n
<1> QED BY <1>1, <1>2

LEMMA HasStays ==
    ASSUME NEW x, NEW y, More(x, y), NEW kind, kind \notin Measured, Has(x, kind) = 1
    PROVE  Has(y, kind) = 1
<1>1. \A a, b : Grows(a, b) /\ b <= 1 /\ a = 1 => b = 1
  BY DEF Grows
<1>2. Grows(Has(x, kind), Has(y, kind)) /\ Has(y, kind) <= 1
  BY HitsGrow
<1> QED BY <1>1, <1>2

LEMMA PiecesGrow ==
    ASSUME NEW x, NEW y, More(x, y), NEW kind, kind \notin Measured
    PROVE  /\ Pieces(x, kind) \subseteq Pieces(y, kind) /\ IsFiniteSet(Pieces(y, kind))
           /\ kind \in Distractions => Pieces(x, kind) = Pieces(y, kind)
<1>1. \A p \in DOMAIN x : p[1] = kind =>
        x[p] \in Nat /\ y[p] \in Nat /\ x[p] <= y[p] /\ (p[1] \in Distractions => x[p] = y[p])
  BY DEF More, Bag
<1>2. Pieces(y, kind) \in SUBSET DOMAIN y /\ IsFiniteSet(DOMAIN y) /\ DOMAIN x = DOMAIN y
  BY DEF More, Bag, Pieces
<1>3. IsFiniteSet(Pieces(y, kind))
  BY <1>2, FS_Subset
<1> QED BY <1>1, <1>2, <1>3 DEF Pieces

LEMMA WordsGrow ==
    ASSUME NEW x, NEW y, More(x, y), NEW kind, kind \notin Measured
    PROVE  /\ Words(x, kind) \subseteq Words(y, kind) /\ IsFiniteSet(Words(y, kind))
           /\ Grows(Cardinality(Words(x, kind)), Cardinality(Words(y, kind)))
           /\ kind \in Distractions => Words(x, kind) = Words(y, kind)
<1>1. /\ Pieces(x, kind) \subseteq Pieces(y, kind) /\ IsFiniteSet(Pieces(y, kind))
      /\ kind \in Distractions => Pieces(x, kind) = Pieces(y, kind)
  BY PiecesGrow
<1>2. Words(x, kind) \subseteq Words(y, kind)
      /\ (kind \in Distractions => Words(x, kind) = Words(y, kind))
  BY <1>1 DEF Words
<1>3. IsFiniteSet(Words(y, kind))
  <2> DEFINE h == [p \in Pieces(y, kind) |-> p[2]]
  <2>1. h \in Surjection(Pieces(y, kind), Words(y, kind))
    BY DEF Surjection, Words
  <2> QED BY <1>1, <2>1, FS_Surjection
<1>4. Grows(Cardinality(Words(x, kind)), Cardinality(Words(y, kind)))
  <2>1. IsFiniteSet(Words(x, kind)) /\ Cardinality(Words(x, kind)) <= Cardinality(Words(y, kind))
    BY <1>2, <1>3, FS_Subset
  <2> QED BY <1>3, <2>1, FS_CardinalityType DEF Grows
<1> QED BY <1>2, <1>3, <1>4

(* What is measured of the whole text has not fallen.                      *)
LEMMA ReadingIsNumber ==
    ASSUME NEW z, Bag(z), NEW kind \in Measured PROVE Reading(z, kind) \in Nat
<1>1. Pieces(z, kind) \subseteq DOMAIN z /\ IsFiniteSet(DOMAIN z) /\ Words(z, kind) \in SUBSET Nat
  BY DEF Words, Pieces, Bag
<1> DEFINE h == [p \in Pieces(z, kind) |-> p[2]]
<1>2. h \in Surjection(Pieces(z, kind), Words(z, kind))
  BY DEF Surjection, Words
<1>3. IsFiniteSet(Words(z, kind))
  BY <1>1, <1>2, FS_Subset, FS_Surjection
<1> QED BY <1>1, <1>3, TopOf DEF Reading

LEMMA ReadingGrows ==
    ASSUME NEW x, NEW y, More(x, y), NEW kind \in Measured
    PROVE  Grows(Reading(x, kind), Reading(y, kind))
BY ReadingIsNumber DEF More, Grows

LEMMA OneGrows ==
    ASSUME NEW S, NEW T, S \subseteq T
    PROVE  Grows(One(S), One(T)) /\ One(S) \in {0, 1} /\ One(T) \in {0, 1}
BY DEF One, Grows

(* What is hidden is not found plainly: and no further word is.            *)
LEMMA HiddenGrow ==
    ASSUME NEW x, NEW y, More(x, y), NEW kind, kind \notin Measured
    PROVE  Grows(One(Hidden(x, kind)), One(Hidden(y, kind)))
<1>1. Words(x, kind) \subseteq Words(y, kind) /\ Words(x, "plain") = Words(y, "plain")
  BY WordsGrow DEF Distractions, Measured
<1>2. Hidden(x, kind) \subseteq Hidden(y, kind)
  BY <1>1 DEF Hidden
<1> QED BY <1>2, OneGrows
-----------------------------------------------------------------------------
(***************************************************************************)
(* The confidence of each detector.                                        *)
(***************************************************************************)
LEMMA HitsRampGrows ==
    ASSUME NEW x, NEW y, More(x, y), NEW kind, kind \notin Measured, NEW base \in Nat, NEW step \in Nat
    PROVE  Grows(Ramp(base, step, Hits(x, kind)), Ramp(base, step, Hits(y, kind)))
BY HitsGrow, RampGrows

LEMMA MultiTurnGrows ==
    ASSUME NEW x, NEW y, More(x, y) PROVE Grows(MultiTurnEscalation(x), MultiTurnEscalation(y))
<1> DEFINE a == Ramp(70, 10, Hits(x, "d006"))
           b == Ramp(70, 10, Hits(y, "d006"))
           m == EscalatingTurns(x)
           n == EscalatingTurns(y)
           u == IF m >= 3 THEN Cap(85 + 5 * (m - 3), 100) ELSE 0
           v == IF n >= 3 THEN Cap(85 + 5 * (n - 3), 100) ELSE 0
<1>1. Grows(a, b) /\ Grows(m, n)
  BY HitsRampGrows, HitsGrow DEF EscalatingTurns, Measured
<1>2. MultiTurnEscalation(x) = Top({a, u}) /\ MultiTurnEscalation(y) = Top({b, v})
  BY DEF MultiTurnEscalation
<1> HIDE DEF a, b, m, n
<1>3. Grows(u, v)
  BY <1>1, CapOf DEF Grows
<1> HIDE DEF u, v
<1>4. /\ {a, u} \in SUBSET Int /\ IsFiniteSet({a, u}) /\ {b, v} \in SUBSET Int /\ IsFiniteSet({b, v})
  <2>1. \A i, j : IsFiniteSet({i, j})
    <3> SUFFICES ASSUME NEW i, NEW j PROVE IsFiniteSet({i, j})
      OBVIOUS
    <3>1. IsFiniteSet({i} \cup {j}) /\ {i, j} = {i} \cup {j}
      BY FS_Singleton, FS_AddElement
    <3> QED BY <3>1
  <2>2. a \in Int /\ b \in Int /\ u \in Int /\ v \in Int
    BY <1>1, <1>3 DEF Grows
  <2> QED BY <2>1, <2>2
<1> QED BY <1>1, <1>2, <1>3, <1>4, TopOf DEF Grows

LEMMA Rot13Grows ==
    ASSUME NEW x, NEW y, More(x, y) PROVE Grows(Rot13Substitution(x), Rot13Substitution(y))
<1> DEFINE L(t) == <<<<80, One(Hidden(t, "rot13"))>>, <<70, One(Hidden(t, "leet"))>>,
                     <<70, One(Hidden(t, "reversed"))>>>>
<1>1. /\ Grows(One(Hidden(x, "rot13")), One(Hidden(y, "rot13")))
      /\ Grows(One(Hidden(x, "leet")), One(Hidden(y, "leet")))
      /\ Grows(One(Hidden(x, "reversed")), One(Hidden(y, "reversed")))
  BY HiddenGrow DEF Measured
<1>2. L(x) \in Lists /\ L(y) \in Lists /\ Len(L(x)) = 3 /\ Len(L(y)) = 3
  <2>1. L(x) \in Lists /\ L(y) \in Lists
    <3>1. \A a, b, c \in Nat : <<<<80, a>>, <<70, b>>, <<70, c>>>> \in Lists
      BY DEF Lists
    <3>2. \A t \in {x, y} : /\ One(Hidden(t, "rot13")) \in Nat /\ One(Hidden(t, "leet")) \in Nat
                             /\ One(Hidden(t, "reversed")) \in Nat
      BY DEF One
    <3> QED BY <3>1, <3>2
  <2>2. Len(L(x)) = 3 /\ Len(L(y)) = 3
    OBVIOUS
  <2> QED BY <2>1, <2>2
<1>3. \A i \in 1..3 : L(x)[i][1] = L(y)[i][1] /\ L(x)[i][2] <= L(y)[i][2]
  <2>1. /\ L(x)[1][1] = L(y)[1][1] /\ L(x)[1][2] <= L(y)[1][2]
        /\ L(x)[2][1] = L(y)[2][1] /\ L(x)[2][2] <= L(y)[2][2]
        /\ L(x)[3][1] = L(y)[3][1] /\ L(x)[3][2] <= L(y)[3][2]
    BY <1>1 DEF Grows
  <2> HIDE DEF L
  <2> QED BY <2>1
<1>4. Rot13Substitution(x) = Blend(L(x), 10) /\ Rot13Substitution(y) = Blend(L(y), 10)
  BY DEF Rot13Substitution
<1> HIDE DEF L
<1> QED BY <1>2, <1>3, <1>4, BlendGrows

LEMMA HomoglyphGrows ==
    ASSUME NEW x, NEW y, More(x, y) PROVE Grows(UnicodeHomoglyph(x), UnicodeHomoglyph(y))
<1> DEFINE L(t) == <<<<85, One(Hidden(t, "homoglyph"))>>, <<60, Has(t, "mixed script")>>>>
<1>1. /\ Grows(One(Hidden(x, "homoglyph")), One(Hidden(y, "homoglyph")))
      /\ Grows(Has(x, "mixed script"), Has(y, "mixed script"))
  BY HiddenGrow, HitsGrow DEF Measured
<1>2. L(x) \in Lists /\ L(y) \in Lists /\ Len(L(x)) = 2 /\ Len(L(y)) = 2
  <2>1. L(x) \in Lists /\ L(y) \in Lists
    <3>1. \A a, b \in Nat : <<<<85, a>>, <<60, b>>>> \in Lists
      BY DEF Lists
    <3> QED BY <1>1, <3>1 DEF Grows
  <2>2. Len(L(x)) = 2 /\ Len(L(y)) = 2
    OBVIOUS
  <2> QED BY <2>1, <2>2
<1>3. \A i \in 1..2 : L(x)[i][1] = L(y)[i][1] /\ L(x)[i][2] <= L(y)[i][2]
  <2>1. /\ L(x)[1][1] = L(y)[1][1] /\ L(x)[1][2] <= L(y)[1][2]
        /\ L(x)[2][1] = L(y)[2][1] /\ L(x)[2][2] <= L(y)[2][2]
    BY <1>1 DEF Grows
  <2> HIDE DEF L
  <2> QED BY <2>1
<1>4. UnicodeHomoglyph(x) = Blend(L(x), 10) /\ UnicodeHomoglyph(y) = Blend(L(y), 10)
  BY DEF UnicodeHomoglyph
<1> HIDE DEF L
<1> QED BY <1>2, <1>3, <1>4, BlendGrows

LEMMA TokenSmugglingGrows ==
    ASSUME NEW x, NEW y, More(x, y) PROVE Grows(TokenSmuggling(x), TokenSmuggling(y))
<1> DEFINE L(t) == <<<<75, Hits(t, "split")>>, <<70, Hits(t, "comment")>>,
                     <<75, Has(t, "alternating")>>,
                     <<75, Cardinality(Words(t, "reversed"))>>>>
<1>1. /\ Grows(Hits(x, "split"), Hits(y, "split"))
      /\ Grows(Hits(x, "comment"), Hits(y, "comment"))
      /\ Grows(Has(x, "alternating"), Has(y, "alternating"))
      /\ Grows(Cardinality(Words(x, "reversed")), Cardinality(Words(y, "reversed")))
  BY WordsGrow, HitsGrow DEF Measured
<1>2. L(x) \in Lists /\ L(y) \in Lists /\ Len(L(x)) = 4 /\ Len(L(y)) = 4
  <2>1. L(x) \in Lists /\ L(y) \in Lists
    <3>1. \A a, b, c, d \in Nat : <<<<75, a>>, <<70, b>>, <<75, c>>, <<75, d>>>> \in Lists
      BY DEF Lists
    <3> QED BY <1>1, <3>1 DEF Grows
  <2>2. Len(L(x)) = 4 /\ Len(L(y)) = 4
    OBVIOUS
  <2> QED BY <2>1, <2>2
<1>3. \A i \in 1..4 : L(x)[i][1] = L(y)[i][1] /\ L(x)[i][2] <= L(y)[i][2]
  <2>1. /\ L(x)[1][1] = L(y)[1][1] /\ L(x)[1][2] <= L(y)[1][2]
        /\ L(x)[2][1] = L(y)[2][1] /\ L(x)[2][2] <= L(y)[2][2]
        /\ L(x)[3][1] = L(y)[3][1] /\ L(x)[3][2] <= L(y)[3][2]
        /\ L(x)[4][1] = L(y)[4][1] /\ L(x)[4][2] <= L(y)[4][2]
    BY <1>1 DEF Grows
  <2> HIDE DEF L
  <2> QED BY <2>1
<1>4. TokenSmuggling(x) = Blend(L(x), 5) /\ TokenSmuggling(y) = Blend(L(y), 5)
  BY DEF TokenSmuggling
<1> HIDE DEF L
<1> QED BY <1>2, <1>3, <1>4, BlendGrows

LEMMA UrlGrows ==
    ASSUME NEW x, NEW y, More(x, y) PROVE Grows(UrlInjection(x), UrlInjection(y))
<1> DEFINE urls(t) == Hits(t, "ip url") + Hits(t, "short url") + Hits(t, "encoded url") + Hits(t, "url")
           many(t) == IF urls(t) > 3 THEN 1 ELSE 0
           L(t) == <<<<80, Hits(t, "ip url")>>, <<70, Hits(t, "short url")>>,
                     <<75, Hits(t, "data uri")>>, <<75, Hits(t, "encoded url")>>, <<65, many(t)>>>>
<1>1. /\ Grows(Hits(x, "ip url"), Hits(y, "ip url"))
      /\ Grows(Hits(x, "short url"), Hits(y, "short url"))
      /\ Grows(Hits(x, "encoded url"), Hits(y, "encoded url"))
      /\ Grows(Hits(x, "data uri"), Hits(y, "data uri"))
      /\ Grows(Hits(x, "url"), Hits(y, "url"))
  BY HitsGrow DEF Measured
<1>2. Grows(urls(x), urls(y))
  <2>1. \A a, b, c, d, e, f, g, h \in Nat :
          a <= b /\ c <= d /\ e <= f /\ g <= h => Grows(a + c + e + g, b + d + f + h)
    BY DEF Grows
  <2> QED BY <1>1, <2>1 DEF Grows
<1> HIDE DEF urls
<1>3. Grows(many(x), many(y))
  BY <1>2 DEF Grows
<1>4. UrlInjection(x) = Blend(L(x), 5) /\ UrlInjection(y) = Blend(L(y), 5)
  BY DEF UrlInjection, urls
<1> HIDE DEF many
<1>5. L(x) \in Lists /\ L(y) \in Lists /\ Len(L(x)) = 5 /\ Len(L(y)) = 5
  <2>1. \A a, b, c, d, e \in Nat :
          <<<<80, a>>, <<70, b>>, <<75, c>>, <<75, d>>, <<65, e>>>> \in Lists
    BY DEF Lists
  <2>2. L(x) \in Lists /\ L(y) \in Lists
    BY <1>1, <1>3, <2>1, ZenonT(30) DEF Grows
  <2>3. Len(L(x)) = 5 /\ Len(L(y)) = 5
    OBVIOUS
  <2> QED BY <2>1, <2>2, <2>3
<1>6. \A i \in 1..5 : L(x)[i][1] = L(y)[i][1] /\ L(x)[i][2] <= L(y)[i][2]
  <2>1. /\ L(x)[1][1] = L(y)[1][1] /\ L(x)[1][2] <= L(y)[1][2]
        /\ L(x)[2][1] = L(y)[2][1] /\ L(x)[2][2] <= L(y)[2][2]
        /\ L(x)[3][1] = L(y)[3][1] /\ L(x)[3][2] <= L(y)[3][2]
        /\ L(x)[4][1] = L(y)[4][1] /\ L(x)[4][2] <= L(y)[4][2]
        /\ L(x)[5][1] = L(y)[5][1] /\ L(x)[5][2] <= L(y)[5][2]
    BY <1>1, <1>3 DEF Grows
  <2> HIDE DEF L
  <2> QED BY <2>1
<1> HIDE DEF L
<1> QED BY <1>4, <1>5, <1>6, BlendGrows

(* Invisible characters and keywords in plain sight are as they were.      *)
LEMMA WhitespaceGrows ==
    ASSUME NEW x, NEW y, More(x, y) PROVE Grows(WhitespaceInjection(x), WhitespaceInjection(y))
<1> DEFINE invisible == Has(x, "invisible")
           plain == Words(x, "plain")
           under == IF invisible = 1 THEN One(plain) ELSE 0
           a == Hits(x, "whitespace")
           b == Hits(y, "whitespace")
           S == plain \cup Words(x, "padded")
           T == plain \cup Words(y, "padded")
           p == IF a > 0 /\ under = 0 THEN One(S) ELSE 0
           q == IF b > 0 /\ under = 0 THEN One(T) ELSE 0
           m == invisible + a + p
           n == invisible + b + q
<1>1. /\ invisible \in {0, 1} /\ invisible = Has(y, "invisible")
      /\ plain = Words(y, "plain") /\ Words(x, "padded") \subseteq Words(y, "padded")
      /\ Grows(a, b)
  <2>1. /\ Grows(Has(x, "invisible"), Has(y, "invisible")) /\ Has(x, "invisible") <= 1
        /\ Has(x, "invisible") = Has(y, "invisible") /\ Grows(a, b)
    BY HitsGrow DEF Distractions, Measured
  <2>2. plain = Words(y, "plain") /\ Words(x, "padded") \subseteq Words(y, "padded")
    BY WordsGrow DEF Distractions, Measured
  <2> HIDE DEF a, b
  <2> QED BY <2>1, <2>2 DEF Grows
<1>2. /\ WhitespaceInjection(x) = CASE under = 1 -> Ramp(75, 10, m)
                                    [] under = 0 /\ invisible = 1 -> Ramp(50, 5, m)
                                    [] invisible = 0 /\ p = 1 -> Ramp(75, 5, m)
                                    [] OTHER -> Ramp(30, 5, m)
      /\ WhitespaceInjection(y) = CASE under = 1 -> Ramp(75, 10, n)
                                    [] under = 0 /\ invisible = 1 -> Ramp(50, 5, n)
                                    [] invisible = 0 /\ q = 1 -> Ramp(75, 5, n)
                                    [] OTHER -> Ramp(30, 5, n)
  BY <1>1 DEF WhitespaceInjection
<1>3. Grows(One(S), One(T)) /\ One(S) \in {0, 1} /\ One(T) \in {0, 1}
  <2>1. S \subseteq T
    BY <1>1
  <2> QED BY <2>1, OneGrows
<1>4. under \in {0, 1} /\ (under = 1 => invisible = 1)
  BY OneGrows DEF One
<1> HIDE DEF invisible, plain, under, a, b, S, T
<1>5. Grows(p, q) /\ p \in {0, 1} /\ q \in {0, 1}
  BY <1>1, <1>3 DEF Grows
<1> HIDE DEF p, q
<1>6. Grows(m, n)
  BY <1>1, <1>5 DEF Grows
<1> HIDE DEF m, n
<1>7. CASE under = 1
  <2>1. WhitespaceInjection(x) = Ramp(75, 10, m) /\ WhitespaceInjection(y) = Ramp(75, 10, n)
    BY <1>2, <1>4, <1>7
  <2> QED BY <1>6, <2>1, RampGrows
<1>8. CASE under = 0 /\ invisible = 1
  <2>1. WhitespaceInjection(x) = Ramp(50, 5, m) /\ WhitespaceInjection(y) = Ramp(50, 5, n)
    BY <1>2, <1>8
  <2> QED BY <1>6, <2>1, RampGrows
<1>9. CASE under = 0 /\ invisible = 0
  <2>1. CASE p = 1
    <3>1. q = 1
      BY <1>5, <2>1 DEF Grows
    <3>2. WhitespaceInjection(x) = Ramp(75, 5, m) /\ WhitespaceInjection(y) = Ramp(75, 5, n)
      BY <1>2, <1>9, <2>1, <3>1
    <3> QED BY <1>6, <3>2, RampGrows
  <2>2. CASE p = 0 /\ q = 1
    <3>1. WhitespaceInjection(x) = Ramp(30, 5, m) /\ WhitespaceInjection(y) = Ramp(75, 5, n)
      BY <1>2, <1>9, <2>2
    <3> QED BY <1>6, <3>1, RampGrows
  <2>3. CASE p = 0 /\ q = 0
    BY <1>2, <1>6, <1>9, <2>3, RampGrows
  <2> QED BY <1>5, <2>1, <2>2, <2>3
<1> QED BY <1>1, <1>4, <1>7, <1>8, <1>9

LEMMA VaultGrows ==
    ASSUME NEW x, NEW y, More(x, y) PROVE Grows(VaultSimilarity(x), VaultSimilarity(y))
<1>1. Grows(Reading(x, "similar"), Reading(y, "similar"))
  BY ReadingGrows DEF Measured
<1> QED BY <1>1 DEF VaultSimilarity, Grows

LEMMA ClassifierGrows ==
    ASSUME NEW x, NEW y, More(x, y) PROVE Grows(SemanticClassifier(x), SemanticClassifier(y))
<1>1. Grows(Reading(x, "classified"), Reading(y, "classified"))
  BY ReadingGrows DEF Measured
<1> QED BY <1>1 DEF SemanticClassifier, Grows

LEMMA StyleGrows ==
    ASSUME NEW x, NEW y, More(x, y) PROVE Grows(StylometricBreak(x), StylometricBreak(y))
<1> DEFINE m == Reading(x, "style break")
           n == Reading(y, "style break")
<1>1. Grows(m, n)
  BY ReadingGrows DEF Measured
<1>2. /\ StylometricBreak(x) = IF m < 6 THEN 0 ELSE Cap(60 + 4 * (m - 6), 100)
      /\ StylometricBreak(y) = IF n < 6 THEN 0 ELSE Cap(60 + 4 * (n - 6), 100)
  BY DEF StylometricBreak
<1> HIDE DEF m, n
<1> QED BY <1>1, <1>2, CapOf DEF Grows

LEMMA PerplexityGrows ==
    ASSUME NEW x, NEW y, More(x, y) PROVE Grows(PerplexitySpectral(x), PerplexitySpectral(y))
<1> DEFINE m == Cusum(x)
           n == Cusum(y)
<1>1. Grows(m, n)
  BY ReadingGrows DEF Measured, Cusum
<1>2. /\ PerplexitySpectral(x) = IF m < 5 THEN 0 ELSE Cap(2 * m, 100)
      /\ PerplexitySpectral(y) = IF n < 5 THEN 0 ELSE Cap(2 * n, 100)
  BY DEF PerplexitySpectral
<1> HIDE DEF m, n
<1> QED BY <1>1, <1>2, CapOf DEF Grows

LEMMA SumGrows ==
    ASSUME NEW a, NEW b, NEW c, NEW d, Grows(a, b), Grows(c, d) PROVE Grows(a + c, b + d)
BY DEF Grows

LEMMA EncodingGrows ==
    ASSUME NEW x, NEW y, More(x, y) PROVE Grows(MultiEncoding(x), MultiEncoding(y))
<1>1. /\ Grows(Hex(x), Hex(y)) /\ Grows(UrlEncoded(x), UrlEncoded(y))
      /\ Grows(Leetspeak(x), Leetspeak(y)) /\ Grows(PigLatin(x), PigLatin(y))
      /\ Grows(Reversed(x), Reversed(y))
  BY WordsGrow, HiddenGrow DEF Hex, UrlEncoded, Leetspeak, PigLatin, Reversed, Measured
<1>2. Grows(Morse(x), Morse(y))
  <2>1. Words(x, "morse") \subseteq Words(y, "morse")
    BY WordsGrow DEF Measured
  <2> QED BY <2>1, OneGrows DEF Morse
<1>3. Grows(Caesar(x), Caesar(y))
  <2>1. /\ Grows(One(Hidden(x, "rot13")), One(Hidden(y, "rot13")))
        /\ Grows(One(Hidden(x, "other shift")), One(Hidden(y, "other shift")))
    BY HiddenGrow DEF Measured
  <2> QED BY <2>1, SumGrows DEF Caesar
<1> DEFINE ways(t) == Hex(t) + UrlEncoded(t) + Leetspeak(t) + Caesar(t) + Morse(t) + PigLatin(t)
                      + Reversed(t)
<1>4. Grows(ways(x), ways(y))
  BY <1>1, <1>2, <1>3 DEF Grows
<1>5. MultiEncoding(x) = Ramp(85, 5, ways(x)) /\ MultiEncoding(y) = Ramp(85, 5, ways(y))
  BY DEF MultiEncoding
<1> HIDE DEF ways
<1> QED BY <1>4, <1>5, RampGrows

LEMMA WalletGrows ==
    ASSUME NEW x, NEW y, More(x, y) PROVE Grows(DenialOfWallet(x), DenialOfWallet(y))
<1> DEFINE m == Hits(x, "d026") + Has(x, "long")
           n == Hits(y, "d026") + Has(y, "long")
<1>1. Grows(Hits(x, "d026"), Hits(y, "d026")) /\ Grows(Has(x, "long"), Has(y, "long"))
  BY HitsGrow DEF Measured
<1>2. Grows(m, n)
  BY <1>1 DEF Grows
<1>3. DenialOfWallet(x) = Ramp(85, 5, m) /\ DenialOfWallet(y) = Ramp(85, 5, n)
  BY DEF DenialOfWallet
<1> HIDE DEF m, n
<1> QED BY <1>2, <1>3, RampGrows

(* A quotient of naturals.                                                 *)
LEMMA DivOf ==
    ASSUME NEW a \in Nat, NEW b \in Nat \ {0}
    PROVE  a \div b \in Nat /\ b * (a \div b) <= a /\ a < b * (a \div b) + b
OBVIOUS

LEMMA ManyShotGrows ==
    ASSUME NEW x, NEW y, More(x, y) PROVE Grows(ManyShot(x), ManyShot(y))
<1> DEFINE pairs == Pairs(x)
           density == Density(x)
           base == 55 + Cap((40 * (pairs - 8)) \div 24, 40) + Cap((5 * (density - 15)) \div 35, 5)
           m == Hits(x, "pivot")
           n == Hits(y, "pivot")
           Scored(k) == IF pairs < 8 \/ density < 15 THEN 0
                        ELSE IF k > 0 THEN Cap(base + 10, 99) ELSE base
<1>1. /\ Hits(x, "question") \in Nat /\ Hits(x, "answer") \in Nat /\ Hits(x, "prose") \in Nat
      /\ Hits(x, "question") = Hits(y, "question") /\ Hits(x, "answer") = Hits(y, "answer")
      /\ Hits(x, "prose") = Hits(y, "prose")
      /\ Grows(m, n)
  BY HitsGrow DEF Distractions, Grows, Measured
<1>2. pairs = Pairs(y) /\ density = Density(y)
  BY <1>1 DEF Pairs, Density, Markers
<1>3. ManyShot(x) = Scored(m) /\ ManyShot(y) = Scored(n)
  BY <1>2 DEF ManyShot
<1>4. pairs \in Nat
  BY <1>1, CapOf DEF Pairs, Markers
<1>5. density \in Nat
  <2> DEFINE lines == Markers(x, "question") + Markers(x, "answer") + 8 * Hits(x, "prose")
  <2>1. lines \in Nat /\ density = IF lines = 0 THEN 0 ELSE (100 * pairs) \div lines
    BY <1>1 DEF Markers, Density
  <2> HIDE DEF lines, pairs
  <2>2. 100 * pairs \in Nat
    BY <1>4
  <2> QED BY <2>1, <2>2, DivOf
<1>6. m = 0 /\ n > 0 => ManyShot(x) # 100
  <2> SUFFICES ASSUME m = 0, n > 0, ManyShot(x) = 100 PROVE FALSE
    OBVIOUS
  <2> DEFINE p == <<"pivot", "hit">>
  <2>1. p \in DOMAIN x /\ x[p] = 0 /\ y[p] > 0 /\ p[1] = "pivot"
    BY <1>1 DEF Hits, Count, More
  <2> HIDE DEF m, n, p
  <2>2. p[1] \notin Measured
    BY <2>1 DEF Measured
  <2> QED BY <2>1, <2>2 DEF More
<1> HIDE DEF pairs, density, m, n
<1>7. pairs >= 8 /\ density >= 15 => base \in Nat /\ base <= 100
  <2> SUFFICES ASSUME pairs >= 8, density >= 15 PROVE base \in Nat /\ base <= 100
    OBVIOUS
  <2> DEFINE a == (40 * (pairs - 8)) \div 24
             b == (5 * (density - 15)) \div 35
  <2>1. a \in Nat /\ b \in Nat
    <3>1. 40 * (pairs - 8) \in Nat /\ 5 * (density - 15) \in Nat
      BY <1>4, <1>5
    <3> QED BY <3>1, DivOf
  <2> HIDE DEF a, b
  <2>2. Cap(a, 40) \in 0..40 /\ Cap(b, 5) \in 0..5
    BY <2>1, CapOf
  <2>3. base = 55 + Cap(a, 40) + Cap(b, 5)
    BY DEF a, b
  <2> QED BY <2>2, <2>3
<1> HIDE DEF base
<1>8. CASE pairs < 8 \/ density < 15
  BY <1>3, <1>8 DEF Grows
<1>9. CASE ~ (pairs < 8 \/ density < 15)
  <2>1. base \in Nat /\ base <= 100
    BY <1>4, <1>5, <1>7, <1>9
  <2>2. Cap(base + 10, 99) = IF base + 10 <= 99 THEN base + 10 ELSE 99
    BY <2>1, CapOf
  <2> QED BY <1>1, <1>3, <1>6, <1>9, <2>1, <2>2 DEF Grows
<1> QED BY <1>8, <1>9

LEMMA RuleGrows ==
    ASSUME NEW x, NEW y, More(x, y) PROVE Grows(CustomRule(x), CustomRule(y))
<1>1. Words(x, "rule") = Words(y, "rule")
  BY WordsGrow DEF Distractions, Measured
<1>2. CustomRule(x) \in Nat /\ CustomRule(x) = CustomRule(y)
  BY <1>1 DEF CustomRule
<1> QED BY <1>2 DEF Grows

LEMMA LanguageGrows ==
    ASSUME NEW x, NEW y, More(x, y) PROVE Grows(LanguageEnforcement(x), LanguageEnforcement(y))
<1> DEFINE ratio == ForeignRatio(x)
           m == Reading(x, "language")
           n == Reading(y, "language")
<1>1. /\ Hits(x, "foreign script") \in Nat /\ Hits(x, "prose") \in Nat
      /\ Hits(x, "foreign script") = Hits(y, "foreign script") /\ Hits(x, "prose") = Hits(y, "prose")
  BY HitsGrow DEF Distractions, Grows, Measured
<1>2. ratio = ForeignRatio(y)
  BY <1>1 DEF ForeignRatio
<1>3. ratio \in Nat
  <2>1. PICK f \in Nat, p \in Nat : f = Hits(x, "foreign script") /\ p = Hits(x, "prose")
    BY <1>1
  <2>2. ratio = IF f = 0 THEN 0 ELSE (100 * f) \div (f + 4 * p)
    BY <2>1 DEF ForeignRatio
  <2>3. 100 * f \in Nat /\ (f # 0 => f + 4 * p \in Nat \ {0})
    OBVIOUS
  <2> HIDE DEF ratio
  <2> QED BY <2>2, <2>3, DivOf
<1>4. Grows(m, n)
  BY ReadingGrows DEF Measured
<1>5. /\ LanguageEnforcement(x) = IF ratio >= 15 THEN Cap(50 + ratio, 95)
                                   ELSE IF m >= 75 THEN m ELSE 0
      /\ LanguageEnforcement(y) = IF ratio >= 15 THEN Cap(50 + ratio, 95)
                                   ELSE IF n >= 75 THEN n ELSE 0
  BY <1>2 DEF LanguageEnforcement
<1> HIDE DEF ratio, m, n
<1>6. Cap(50 + ratio, 95) \in Nat
  BY <1>3, CapOf
<1> QED BY <1>3, <1>4, <1>5, <1>6 DEF Grows

(* The more often a topic is named, the greater its count.                 *)
LEMMA TopicGrows ==
    ASSUME NEW x, NEW y, More(x, y) PROVE Grows(TopicEnforcement(x), TopicEnforcement(y))
<1> DEFINE S == {x[p] : p \in Pieces(x, "topic")}
           T == {y[p] : p \in Pieces(y, "topic")}
           m == Top(S)
           n == Top(T)
<1>1. \A p \in DOMAIN x : x[p] \in Nat /\ y[p] \in Nat /\ (p[1] = "topic" => x[p] <= y[p])
  BY DEF More, Bag, Measured
<1>2. DOMAIN x = DOMAIN y
  BY DEF More
<1>3. IsFiniteSet(Pieces(y, "topic")) /\ Pieces(x, "topic") \subseteq Pieces(y, "topic")
  BY PiecesGrow DEF Measured
<1>4. IsFiniteSet(Pieces(x, "topic"))
  BY <1>3, FS_Subset
<1>5. S \in SUBSET Nat /\ T \in SUBSET Nat
  BY <1>1, <1>2 DEF Pieces
<1>6. IsFiniteSet(S)
  <2> DEFINE h == [p \in Pieces(x, "topic") |-> x[p]]
  <2>1. h \in Surjection(Pieces(x, "topic"), S)
    BY DEF Surjection
  <2> QED BY <1>4, <2>1, FS_Surjection
<1>7. IsFiniteSet(T)
  <2> DEFINE h == [p \in Pieces(y, "topic") |-> y[p]]
  <2>1. h \in Surjection(Pieces(y, "topic"), T)
    BY DEF Surjection
  <2> QED BY <1>3, <2>1, FS_Surjection
<1>8. m \in S \cup {0} /\ m \in Nat /\ n \in Nat /\ \A t \in T : t <= n
  <2>1. S \in SUBSET Int /\ T \in SUBSET Int
    BY <1>5
  <2> HIDE DEF S, T
  <2> QED BY <1>6, <1>7, <2>1, TopOf
<1>9. \A s \in S : \E t \in T : s <= t
  BY <1>1, <1>3 DEF Pieces
<1>10. /\ TopicEnforcement(x) = IF m < 2 THEN 0 ELSE Cap(40 + 15 * m, 95)
       /\ TopicEnforcement(y) = IF n < 2 THEN 0 ELSE Cap(40 + 15 * n, 95)
  BY DEF TopicEnforcement
<1> HIDE DEF m, n
<1>11. m <= n
  <2>1. CASE m = 0
    BY <1>8, <2>1
  <2>2. CASE m \in S
    <3>1. PICK t \in T : m <= t
      BY <1>9, <2>2
    <3>2. t \in Nat /\ t <= n
      BY <1>5, <1>8
    <3> QED BY <1>8, <3>1, <3>2
  <2> QED BY <1>8, <2>1, <2>2
<1>12. \A k \in Nat : Cap(40 + 15 * k, 95) = IF 40 + 15 * k <= 95 THEN 40 + 15 * k ELSE 95
  BY CapOf
<1>13. /\ TopicEnforcement(x) = IF m < 2 THEN 0 ELSE IF 40 + 15 * m <= 95 THEN 40 + 15 * m ELSE 95
       /\ TopicEnforcement(y) = IF n < 2 THEN 0 ELSE IF 40 + 15 * n <= 95 THEN 40 + 15 * n ELSE 95
  BY <1>8, <1>10, <1>12
<1>14. m \in Nat /\ n \in Nat
  BY <1>8
<1> QED BY <1>11, <1>13, <1>14 DEF Grows

(* Of the same, a larger divisor leaves no more.                           *)
LEMMA DivFalls ==
    ASSUME NEW a \in Nat, NEW b \in Nat \ {0}, NEW c \in Nat, b <= c
    PROVE  a \div b \in Nat /\ a \div c \in Nat /\ a \div c <= a \div b
<1> DEFINE q == a \div b
           r == a \div c
<1>1. q \in Nat /\ a < b * q + b /\ r \in Nat /\ c * r <= a
  BY DivOf
<1> HIDE DEF q, r
<1>2. SUFFICES ASSUME r > q PROVE FALSE
  BY <1>1 DEF q, r
<1>3. b * (q + 1) = b * q + b
  BY <1>1
<1>4. b * (q + 1) <= b * r
  BY <1>1, <1>2, TimesGrows
<1>5. r * b <= r * c /\ r * b = b * r /\ r * c = c * r
  BY <1>1, TimesGrows
<1>6. b * q \in Nat /\ b * r \in Nat /\ c * r \in Nat
  BY <1>1
<1> QED BY <1>1, <1>3, <1>4, <1>5, <1>6

LEMMA DriftGrows ==
    ASSUME NEW x, NEW y, More(x, y) PROVE Grows(TopicDrift(x), TopicDrift(y))
<1>1. /\ Hits(x, "shared bigram") \in Nat /\ Hits(x, "shared bigram") = Hits(y, "shared bigram")
      /\ Grows(Hits(x, "new bigrams"), Hits(y, "new bigrams"))
      /\ Grows(Hits(x, "turn"), Hits(y, "turn"))
  BY HitsGrow DEF Distractions, Grows, Measured
<1>2. PICK shared \in Nat, a \in Nat, b \in Nat, m \in Nat, n \in Nat :
        /\ shared = Hits(x, "shared bigram") /\ a = Hits(x, "new bigrams")
        /\ b = Hits(y, "new bigrams") /\ m = Hits(x, "turn") /\ n = Hits(y, "turn")
  BY <1>1 DEF Grows
<1>3. a <= b /\ m <= n /\ shared = Hits(y, "shared bigram")
  BY <1>1, <1>2 DEF Grows
<1> DEFINE s == Similarity(x)
           t == Similarity(y)
<1>4. s \in Nat /\ t \in Nat /\ t <= s
  <2>1. s = (100 * shared) \div (40 + 10 * a) /\ t = (100 * shared) \div (40 + 10 * b)
    BY <1>2, <1>3 DEF Similarity
  <2>2. \A k \in Nat : 100 * k \in Nat /\ 40 + 10 * k \in Nat \ {0}
    OBVIOUS
  <2>3. \A k, l \in Nat : k <= l => 40 + 10 * k <= 40 + 10 * l
    OBVIOUS
  <2>4. 40 + 10 * a <= 40 + 10 * b
    BY <1>3, <2>3
  <2> HIDE DEF s, t
  <2> QED BY <2>1, <2>2, <2>4, DivFalls
<1>5. /\ TopicDrift(x) = IF m < 4 \/ shared + a = 0 \/ s >= 5 THEN 0 ELSE Cap(40 + 4 * (5 - s), 95)
      /\ TopicDrift(y) = IF n < 4 \/ shared + b = 0 \/ t >= 5 THEN 0 ELSE Cap(40 + 4 * (5 - t), 95)
  BY <1>2, <1>3 DEF TopicDrift
<1> HIDE DEF s, t
<1>6. \A k \in Nat : k < 5 => Cap(40 + 4 * (5 - k), 95) = 40 + 4 * (5 - k)
  BY CapOf
<1>7. TopicDrift(x) # 0 => TopicDrift(y) = 40 + 4 * (5 - t) /\ TopicDrift(x) = 40 + 4 * (5 - s)
                           /\ s < 5 /\ t < 5
  <2> SUFFICES ASSUME TopicDrift(x) # 0
               PROVE  /\ TopicDrift(y) = 40 + 4 * (5 - t) /\ TopicDrift(x) = 40 + 4 * (5 - s)
                      /\ s < 5 /\ t < 5
    OBVIOUS
  <2>1. ~ (m < 4 \/ shared + a = 0 \/ s >= 5)
    BY <1>5
  <2>2. s < 5 /\ t < 5
    BY <1>4, <2>1
  <2>3. ~ (n < 4) /\ shared + b # 0 /\ ~ (t >= 5)
    <3>1. ~ (n < 4) /\ shared + b # 0
      <4>1. ~ (m < 4) /\ shared + a # 0
        BY <2>1
      <4>2. \A i, j, k, l, r \in Nat : i <= j /\ k <= l /\ ~ (i < 4) /\ r + k # 0
                                       => ~ (j < 4) /\ r + l # 0
        OBVIOUS
      <4> QED BY <1>3, <4>1, <4>2
    <3>2. ~ (t >= 5)
      BY <1>4, <2>2
    <3> QED BY <3>1, <3>2
  <2>4. TopicDrift(x) = Cap(40 + 4 * (5 - s), 95) /\ TopicDrift(y) = Cap(40 + 4 * (5 - t), 95)
    BY <1>5, <2>1, <2>3
  <2> QED BY <1>4, <1>6, <2>2, <2>4
<1>8. TopicDrift(y) = 0 \/ (TopicDrift(y) = 40 + 4 * (5 - t) /\ t < 5)
  BY <1>4, <1>5, <1>6
<1> QED BY <1>4, <1>7, <1>8 DEF Grows

LEMMA DecoyGrows ==
    ASSUME NEW x, NEW y, More(x, y) PROVE Grows(HoneypotTool(x), HoneypotTool(y))
<1>1. /\ Grows(Hits(x, "decoy called"), Hits(y, "decoy called"))
      /\ Grows(Hits(x, "decoy named"), Hits(y, "decoy named"))
  BY HitsGrow DEF Measured
<1>2. PICK a \in Nat, b \in Nat, m \in Nat, n \in Nat :
        /\ a = Hits(x, "decoy called") /\ b = Hits(y, "decoy called")
        /\ m = Hits(x, "decoy named") /\ n = Hits(y, "decoy named")
  BY <1>1 DEF Grows
<1>3. a <= b /\ m <= n
  BY <1>1, <1>2 DEF Grows
<1>4. /\ HoneypotTool(x) = IF a > 0 THEN 100 ELSE IF m > 0 THEN 95 ELSE 0
      /\ HoneypotTool(y) = IF b > 0 THEN 100 ELSE IF n > 0 THEN 95 ELSE 0
  BY <1>2 DEF HoneypotTool, DecoyCalled
<1> QED BY <1>3, <1>4 DEF Grows

(* Further evidence lowers no detector's confidence.                       *)
LEMMA ConfidenceGrows ==
    ASSUME NEW x, NEW y, More(x, y), NEW d \in Detectors
    PROVE  Grows(Confidence(d, x), Confidence(d, y))
<1> DEFINE Simple == {"d001", "d002", "d003", "d004", "d005", "d007", "d008", "d012", "d013",
                      "d014", "d015", "d017", "d018", "d019", "d023", "d024"}
<1>1. CASE d \in Simple
  <2>1. CASE d = "d001" BY <2>1, HitsRampGrows DEF Confidence, SystemPromptExtraction, Measured
  <2>2. CASE d = "d002" BY <2>2, HitsRampGrows DEF Confidence, RoleHijack, Measured
  <2>3. CASE d = "d003" BY <2>3, HitsRampGrows DEF Confidence, InstructionOverride, Measured
  <2>4. CASE d = "d004" BY <2>4, HitsRampGrows DEF Confidence, PromptLeaking, Measured
  <2>5. CASE d = "d005" BY <2>5, HitsRampGrows DEF Confidence, ContextManipulation, Measured
  <2>6. CASE d = "d007" BY <2>6, HitsRampGrows DEF Confidence, TaskDeflection, Measured
  <2>7. CASE d = "d008" BY <2>7, HitsRampGrows DEF Confidence, Base64Payload, Measured
  <2>8. CASE d = "d012" BY <2>8, HitsRampGrows DEF Confidence, MarkdownHtml, Measured
  <2>9. CASE d = "d013" BY <2>9, HitsRampGrows DEF Confidence, DataExfiltration, Measured
  <2>10. CASE d = "d014" BY <2>10, HitsRampGrows DEF Confidence, ToolFunctionAbuse, Measured
  <2>11. CASE d = "d015" BY <2>11, HitsRampGrows DEF Confidence, RagPoisoning, Measured
  <2>12. CASE d = "d017" BY <2>12, HitsRampGrows DEF Confidence, HypotheticalFraming, Measured
  <2>13. CASE d = "d018" BY <2>13, HitsRampGrows DEF Confidence, AcademicPretext, Measured
  <2>14. CASE d = "d019" BY <2>14, HitsRampGrows DEF Confidence, DualPersona, Measured
  <2>15. CASE d = "d023" BY <2>15, HitsRampGrows DEF Confidence, PiiDetection, Measured
  <2>16. CASE d = "d024" BY <2>16, HitsRampGrows DEF Confidence, Multilingual, ForeignPhrases, Measured
  <2> QED BY <1>1, <2>1, <2>2, <2>3, <2>4, <2>5, <2>6, <2>7, <2>8, <2>9, <2>10, <2>11, <2>12,
             <2>13, <2>14, <2>15, <2>16
<1>2. CASE d = "d006" BY <1>2, MultiTurnGrows DEF Confidence
<1>3. CASE d = "d009" BY <1>3, Rot13Grows DEF Confidence
<1>4. CASE d = "d010" BY <1>4, HomoglyphGrows DEF Confidence
<1>5. CASE d = "d011" BY <1>5, WhitespaceGrows DEF Confidence
<1>6. CASE d = "d016" BY <1>6, UrlGrows DEF Confidence
<1>7. CASE d = "d020" BY <1>7, TokenSmugglingGrows DEF Confidence
<1>8. CASE d = "d021" BY <1>8, VaultGrows DEF Confidence
<1>9. CASE d = "d022" BY <1>9, ClassifierGrows DEF Confidence
<1>10. CASE d = "d025" BY <1>10, EncodingGrows DEF Confidence
<1>11. CASE d = "d026" BY <1>11, WalletGrows DEF Confidence
<1>12. CASE d = "d027" BY <1>12, StyleGrows DEF Confidence
<1>13. CASE d = "d029" BY <1>13, ManyShotGrows DEF Confidence
<1>14. CASE d = "d030" BY <1>14, RuleGrows DEF Confidence
<1>15. CASE d = "d031" BY <1>15, LanguageGrows DEF Confidence
<1>16. CASE d = "d032" BY <1>16, TopicGrows DEF Confidence
<1>17. CASE d = "d033" BY <1>17, DriftGrows DEF Confidence
<1>18. CASE d = "d034" BY <1>18, DecoyGrows DEF Confidence
<1>19. CASE d = "d035" BY <1>19, PerplexityGrows DEF Confidence
<1> QED BY <1>1, <1>2, <1>3, <1>4, <1>5, <1>6, <1>7, <1>8, <1>9, <1>10, <1>11, <1>12, <1>13,
           <1>14, <1>15, <1>16, <1>17, <1>18, <1>19 DEF Detectors
-----------------------------------------------------------------------------
(***************************************************************************)
(* What is reported: of a text, of an answer, of a list of tokens.         *)
(***************************************************************************)
LEMMA DetectorsFinite == IsFiniteSet(Detectors)
<1>1. \A a, b, c, d, e, f : IsFiniteSet({a, b, c, d, e, f})
  <2> SUFFICES ASSUME NEW a, NEW b, NEW c, NEW d, NEW e, NEW f
               PROVE  IsFiniteSet({a, b, c, d, e, f})
    OBVIOUS
  <2>1. IsFiniteSet(((((({} \cup {a}) \cup {b}) \cup {c}) \cup {d}) \cup {e}) \cup {f})
    BY FS_EmptySet, FS_AddElement, ZenonT(30)
  <2>2. {a, b, c, d, e, f} = ((((({} \cup {a}) \cup {b}) \cup {c}) \cup {d}) \cup {e}) \cup {f}
    OBVIOUS
  <2> QED BY <2>1, <2>2
<1> DEFINE A == {"d001", "d002", "d003", "d004", "d005", "d006"}
           B == {"d007", "d008", "d009", "d010", "d011", "d012"}
           C == {"d013", "d014", "d015", "d016", "d017", "d018"}
           D == {"d019", "d020", "d021", "d022", "d023", "d024"}
           E == {"d025", "d026", "d027", "d029", "d030", "d031"}
           F == {"d032", "d033", "d034", "d035", "d035", "d035"}
<1>2. /\ IsFiniteSet(A) /\ IsFiniteSet(B) /\ IsFiniteSet(C) /\ IsFiniteSet(D)
      /\ IsFiniteSet(E) /\ IsFiniteSet(F)
  BY <1>1, Zenon
<1>3. Detectors = ((((A \cup B) \cup C) \cup D) \cup E) \cup F
  BY DEF Detectors
<1> HIDE DEF A, B, C, D, E, F
<1> QED BY <1>2, <1>3, FS_Union

(* The highest of finitely many numbers that grow.                         *)
LEMMA TopOfEachGrows ==
    ASSUME NEW I, IsFiniteSet(I), NEW J, J \subseteq I, NEW f \in [J -> Nat], NEW g \in [I -> Nat],
           \A i \in J : f[i] <= g[i]
    PROVE  Grows(Top({f[i] : i \in J}), Top({g[i] : i \in I}))
<1> DEFINE S == {f[i] : i \in J}
           T == {g[i] : i \in I}
<1>1. IsFiniteSet(S)
  <2>1. f \in Surjection(J, S) /\ IsFiniteSet(J)
    BY FS_Subset DEF Surjection
  <2> QED BY <2>1, FS_Surjection
<1>2. IsFiniteSet(T)
  <2>1. g \in Surjection(I, T)
    BY DEF Surjection
  <2> QED BY <2>1, FS_Surjection
<1>3. S \in SUBSET Int /\ T \in SUBSET Int
  OBVIOUS
<1>4. \A s \in S : \E t \in T : s <= t
  <2> SUFFICES ASSUME NEW i \in J PROVE \E t \in T : f[i] <= t
    OBVIOUS
  <2> QED OBVIOUS
<1> HIDE DEF S, T
<1>5. Top(S) \in S \cup {0} /\ Top(S) \in Nat
  BY <1>1, <1>3, TopOf
<1>6. Top(T) \in Nat /\ \A t \in T : t <= Top(T)
  BY <1>2, <1>3, TopOf
<1>7. Top(S) <= Top(T)
  <2>1. CASE Top(S) = 0
    BY <1>6, <2>1
  <2>2. CASE Top(S) \in S
    <3>1. PICK t \in T : Top(S) <= t
      BY <1>4, <2>2
    <3>2. t \in Int /\ t <= Top(T)
      BY <1>3, <1>6
    <3> QED BY <1>5, <1>6, <3>1, <3>2
  <2> QED BY <1>5, <2>1, <2>2
<1> QED BY <1>5, <1>6, <1>7 DEF Grows, S, T

(* Further evidence takes back no detection, and none of the severity.     *)
LEMMA KeptGrows ==
    ASSUME NEW x, NEW y, More(x, y)
    PROVE  /\ Detections(x) \subseteq Detections(y) /\ IsFiniteSet(Detections(y)) /\ IsFiniteSet(Detections(x))
           /\ \A d \in Detectors : Severity(d, x) \in Nat /\ Severity(d, x) = Severity(d, y)
<1>1. \A d \in Detectors : Threshold(d) \in Nat
  BY DEF Threshold
<1>2. \A d \in Detectors : Grows(Confidence(d, x), Confidence(d, y))
  BY ConfidenceGrows
<1>3. \A d \in Detectors : Confidence(d, x) > 0 /\ Confidence(d, x) >= Threshold(d)
                             => Confidence(d, y) > 0 /\ Confidence(d, y) >= Threshold(d)
  BY <1>1, <1>2 DEF Grows
<1>4. Detections(x) \subseteq Detections(y) /\ Detections(x) \in SUBSET Detectors /\ Detections(y) \in SUBSET Detectors
  BY <1>3 DEF Detections
<1>5. Pieces(x, "rule") = Pieces(y, "rule")
  BY PiecesGrow DEF Distractions, Measured
<1>6. \A d \in Detectors : Severity(d, x) \in Nat /\ Severity(d, x) = Severity(d, y)
  BY <1>5 DEF Severity
<1> QED BY <1>4, <1>6, DetectorsFinite, FS_Subset

LEMMA FamiliesGrow ==
    ASSUME NEW x, NEW y, More(x, y), NEW S, NEW T, S \subseteq T
    PROVE  Families(x, S) \ {"unclassified"} \subseteq Families(y, T)
<1> DEFINE named(t, U) == ({FamilyOf(d) : d \in U} \ {"none"})
                          \cup (IF Has(t, "boundary") = 1 THEN {"termination"} ELSE {})
                          \cup (IF Has(t, "send to") = 1 THEN {"exfiltration"} ELSE {})
<1>1. /\ Has(x, "boundary") = 1 => Has(y, "boundary") = 1
      /\ Has(x, "send to") = 1 => Has(y, "send to") = 1
  BY HasStays DEF Measured
<1>2. named(x, S) \subseteq named(y, T)
  BY <1>1
<1>3. /\ Families(x, S) = IF named(x, S) = {} /\ S # {} THEN {"unclassified"} ELSE named(x, S)
      /\ Families(y, T) = IF named(y, T) = {} /\ T # {} THEN {"unclassified"} ELSE named(y, T)
  BY DEF Families
<1> HIDE DEF named
<1> QED BY <1>2, <1>3

LEMMA VerdictGrows ==
    ASSUME NEW x, NEW y, More(x, y)
    PROVE  /\ Grows(Verdict(x).risk, Verdict(y).risk) /\ Grows(Verdict(x).worst, Verdict(y).worst)
           /\ Verdict(x).families \ {"unclassified"} \subseteq Verdict(y).families
<1> DEFINE S == Detections(x)
           T == Detections(y)
           worst(t) == Top({Severity(d, t) : d \in Detections(t)})
           highest(t) == Top({Confidence(d, t) : d \in Detections(t)})
           further(t) == 5 * (Cardinality(Detections(t)) - 1)
           risk(t) == IF Detections(t) = {} THEN 0 ELSE Cap(highest(t) + further(t), 100)
<1>1. /\ S \subseteq T /\ IsFiniteSet(S) /\ IsFiniteSet(T) /\ T \in SUBSET Detectors
      /\ \A d \in Detectors : Severity(d, x) \in Nat /\ Severity(d, x) = Severity(d, y)
  BY KeptGrows DEF Detections
<1>2. \A t \in {x, y} : /\ Verdict(t).risk = risk(t) /\ Verdict(t).worst = worst(t)
                         /\ Verdict(t).families = Families(t, Detections(t))
  <2> SUFFICES ASSUME NEW t
               PROVE  /\ Verdict(t).risk = risk(t) /\ Verdict(t).worst = worst(t)
                      /\ Verdict(t).families = Families(t, Detections(t))
    OBVIOUS
  <2> DEFINE confidence == [d \in Detectors |-> Confidence(d, t)]
             kept == {d \in Detectors : confidence[d] > 0 /\ confidence[d] >= Threshold(d)}
  <2>1. kept = Detections(t)
    BY DEF Detections
  <2>2. {confidence[d] : d \in kept} = {Confidence(d, t) : d \in Detections(t)}
    BY <2>1 DEF Detections
  <2>3. Verdict(t) = [risk |-> IF kept = {} THEN 0
                               ELSE Cap(Top({confidence[d] : d \in kept}) + 5 * (Cardinality(kept) - 1), 100),
                      worst |-> Top({Severity(d, t) : d \in kept}),
                      action |-> ActionFor(Top({Severity(d, t) : d \in kept})),
                      families |-> Families(t, kept)]
    BY DEF Verdict
  <2> HIDE DEF kept, confidence
  <2>4. Verdict(t).risk = risk(t)
    <3>1. Verdict(t).risk = IF kept = {} THEN 0
            ELSE Cap(Top({confidence[d] : d \in kept}) + 5 * (Cardinality(kept) - 1), 100)
      BY <2>3
    <3> QED BY <2>1, <2>2, <3>1
  <2>5. Verdict(t).worst = worst(t)
    BY <2>1, <2>3
  <2>6. Verdict(t).families = Families(t, Detections(t))
    BY <2>1, <2>3
  <2> HIDE DEF risk, worst
  <2> QED BY <2>4, <2>5, <2>6
<1>3. Grows(worst(x), worst(y))
  <2> DEFINE f == [d \in S |-> Severity(d, x)]
             g == [d \in T |-> Severity(d, y)]
  <2>1. f \in [S -> Nat] /\ g \in [T -> Nat] /\ \A d \in S : f[d] <= g[d]
    BY <1>1
  <2>2. worst(x) = Top({f[d] : d \in S}) /\ worst(y) = Top({g[d] : d \in T})
    BY <1>1
  <2> HIDE DEF f, g, worst, S, T
  <2> QED BY <1>1, <2>1, <2>2, TopOfEachGrows
<1>4. Grows(highest(x), highest(y))
  <2> DEFINE f == [d \in S |-> Confidence(d, x)]
             g == [d \in T |-> Confidence(d, y)]
  <2>1. \A d \in T : Grows(Confidence(d, x), Confidence(d, y))
    BY <1>1, ConfidenceGrows
  <2>2. f \in [S -> Nat] /\ g \in [T -> Nat] /\ \A d \in S : f[d] <= g[d]
    BY <1>1, <2>1 DEF Grows
  <2>3. highest(x) = Top({f[d] : d \in S}) /\ highest(y) = Top({g[d] : d \in T})
    BY <1>1
  <2> HIDE DEF f, g, highest, S, T
  <2> QED BY <1>1, <2>2, <2>3, TopOfEachGrows
<1>5. /\ Cardinality(S) \in Nat /\ Cardinality(T) \in Nat /\ Cardinality(S) <= Cardinality(T)
      /\ (S # {} => Cardinality(S) # 0) /\ (T # {} => Cardinality(T) # 0)
  BY <1>1, FS_CardinalityType, FS_Subset, FS_EmptySet
<1>6. Grows(risk(x), risk(y))
  <2>1. PICK a \in Nat, b \in Nat, m \in Nat, n \in Nat :
          /\ a = highest(x) /\ b = highest(y) /\ m = Cardinality(S) /\ n = Cardinality(T)
    <3> HIDE DEF highest
    <3> QED BY <1>4, <1>5 DEF Grows
  <2>2. a <= b /\ m <= n /\ (S # {} => m # 0 /\ T # {}) /\ (T # {} => n # 0)
    <3> HIDE DEF highest
    <3> QED BY <1>1, <1>4, <1>5, <2>1 DEF Grows
  <2>3. /\ risk(x) = IF S = {} THEN 0 ELSE Cap(a + 5 * (m - 1), 100)
        /\ risk(y) = IF T = {} THEN 0 ELSE Cap(b + 5 * (n - 1), 100)
    <3> HIDE DEF highest
    <3> QED BY <2>1
  <2> HIDE DEF risk, S, T
  <2>4. /\ m # 0 => Cap(a + 5 * (m - 1), 100) \in Nat
        /\ n # 0 => Cap(b + 5 * (n - 1), 100) \in Nat
        /\ m # 0 /\ n # 0 => Cap(a + 5 * (m - 1), 100) <= Cap(b + 5 * (n - 1), 100)
    BY <2>2, CapOf
  <2> QED BY <2>2, <2>3, <2>4 DEF Grows
<1>7. Families(x, S) \ {"unclassified"} \subseteq Families(y, T)
  BY <1>1, FamiliesGrow
<1> HIDE DEF worst, risk
<1> QED BY <1>2, <1>3, <1>6, <1>7

LEMMA WordRampGrows ==
    ASSUME NEW x, NEW y, More(x, y), NEW kind, kind \notin Measured, NEW base \in Nat, NEW step \in Nat
    PROVE  Grows(Ramp(base, step, Cardinality(Words(x, kind))),
                 Ramp(base, step, Cardinality(Words(y, kind))))
BY WordsGrow, RampGrows

LEMMA BiasGrows ==
    ASSUME NEW x, NEW y, More(x, y) PROVE Grows(BiasFairness(x), BiasFairness(y))
<1> DEFINE m == Hits(x, "stereotype")
           n == Hits(y, "stereotype")
<1>1. Grows(m, n)
  BY HitsGrow DEF Measured
<1>2. /\ BiasFairness(x) = IF m < 1 THEN 0 ELSE Cap(40 + 15 * m, 95)
      /\ BiasFairness(y) = IF n < 1 THEN 0 ELSE Cap(40 + 15 * n, 95)
  BY DEF BiasFairness
<1> HIDE DEF m, n
<1> QED BY <1>1, <1>2, CapOf DEF Grows

LEMMA SentimentGrows ==
    ASSUME NEW x, NEW y, More(x, y), NEW vader PROVE Grows(Sentiment(x, vader), Sentiment(y, vader))
<1>1. Grows(Hits(x, "negative word"), Hits(y, "negative word"))
      /\ Hits(x, "kind word") \in Nat /\ Hits(x, "kind word") = Hits(y, "kind word")
  BY HitsGrow DEF Distractions, Grows, Measured
<1>2. PICK kind \in Nat, m \in Nat, n \in Nat :
        kind = Hits(x, "kind word") /\ m = Hits(x, "negative word") /\ n = Hits(y, "negative word")
  BY <1>1 DEF Grows
<1>3. m <= n
  BY <1>1, <1>2 DEF Grows
<1>4. Grows(WithFallback(x), WithFallback(y))
  <2>1. /\ WithFallback(x) = IF m < 1 THEN 0 ELSE Cap(50 + 10 * m, 100)
        /\ WithFallback(y) = IF n < 1 THEN 0 ELSE Cap(50 + 10 * n, 100)
    BY <1>2 DEF WithFallback
  <2>2. \A k \in Nat : Cap(50 + 10 * k, 100) = IF 50 + 10 * k <= 100 THEN 50 + 10 * k ELSE 100
    BY CapOf
  <2> QED BY <1>3, <2>1, <2>2 DEF Grows
<1>5. Grows(WithVader(x), WithVader(y))
  <2>1. /\ WithVader(x) = IF 30 * (kind - m) > -50 THEN 0 ELSE Cap(- (30 * (kind - m)), 100)
        /\ WithVader(y) = IF 30 * (kind - n) > -50 THEN 0 ELSE Cap(- (30 * (kind - n)), 100)
    BY <1>1, <1>2 DEF WithVader
  <2>2. PICK a \in Int, b \in Int : a = 30 * (kind - m) /\ b = 30 * (kind - n)
    OBVIOUS
  <2>3. b <= a
    BY <1>3, <2>2
  <2>4. \A k \in Int : Cap(- k, 100) = IF - k <= 100 THEN - k ELSE 100
    BY CapOf
  <2>5. /\ WithVader(x) = IF a > -50 THEN 0 ELSE Cap(- a, 100)
        /\ WithVader(y) = IF b > -50 THEN 0 ELSE Cap(- b, 100)
    BY <2>1, <2>2
  <2> QED BY <2>3, <2>4, <2>5 DEF Grows
<1> QED BY <1>4, <1>5 DEF Sentiment

(* With what the documents support as it was, more that they do not        *)
(* support leaves a lower share supported.                                 *)
LEMMA HallucinationGrows ==
    ASSUME NEW x, NEW y, More(x, y) PROVE Grows(Hallucination(x), Hallucination(y))
<1>1. /\ Grows(Hits(x, "unsupported"), Hits(y, "unsupported"))
      /\ Hits(x, "supported") \in Nat /\ Hits(x, "supported") = Hits(y, "supported")
      /\ Grows(Has(x, "document"), Has(y, "document"))
  BY HitsGrow DEF Distractions, Grows, Measured
<1>2. PICK grounded \in Nat, m \in Nat, n \in Nat, d \in Nat, e \in Nat :
        /\ grounded = Hits(x, "supported") /\ m = Hits(x, "unsupported")
        /\ n = Hits(y, "unsupported") /\ d = Has(x, "document") /\ e = Has(y, "document")
  BY <1>1 DEF Grows
<1>3. m <= n /\ d <= e /\ grounded = Hits(y, "supported")
  BY <1>1, <1>2 DEF Grows
<1> DEFINE a == grounded + m
           b == grounded + n
           s == (100 * grounded) \div a
           t == (100 * grounded) \div b
<1>4. /\ Hallucination(x) = IF d = 0 \/ 15 * a < 30 \/ s >= 30 THEN 0
                            ELSE Cap((100 * (30 - s)) \div 30, 95)
      /\ Hallucination(y) = IF e = 0 \/ 15 * b < 30 \/ t >= 30 THEN 0
                            ELSE Cap((100 * (30 - t)) \div 30, 95)
  BY <1>2, <1>3 DEF Hallucination
<1>5. a \in Nat /\ b \in Nat /\ a <= b /\ 100 * grounded \in Nat
  BY <1>3
<1> HIDE DEF a, b
<1>6. 15 * a >= 30 => s \in Nat /\ t \in Nat /\ t <= s
  <2> SUFFICES ASSUME 15 * a >= 30 PROVE s \in Nat /\ t \in Nat /\ t <= s
    OBVIOUS
  <2>1. a \in Nat \ {0}
    BY <1>5
  <2> QED BY <1>5, <2>1, DivFalls
<1>7. 15 * b >= 30 => t \in Nat
  <2> SUFFICES ASSUME 15 * b >= 30 PROVE t \in Nat
    OBVIOUS
  <2>1. b \in Nat \ {0}
    BY <1>5
  <2> QED BY <1>5, <2>1, DivOf
<1> HIDE DEF s, t
<1> DEFINE Part(k) == Cap((100 * (30 - k)) \div 30, 95)
<1>8. \A k \in Nat : k < 30 => Part(k) \in Nat
  <2>1. \A k \in Nat : k < 30 => (100 * (30 - k)) \div 30 \in Nat
    <3> SUFFICES ASSUME NEW k \in Nat, k < 30 PROVE (100 * (30 - k)) \div 30 \in Nat
      OBVIOUS
    <3>1. 100 * (30 - k) \in Nat
      OBVIOUS
    <3> QED BY <3>1, DivOf
  <2> QED BY <2>1, CapOf
<1>9. \A k, l \in Nat : l <= k /\ k < 30 => Part(k) <= Part(l)
  <2>1. \A k, l \in Nat : l <= k /\ k < 30 => (100 * (30 - k)) \div 30 <= (100 * (30 - l)) \div 30
                                             /\ (100 * (30 - k)) \div 30 \in Nat
                                             /\ (100 * (30 - l)) \div 30 \in Nat
    <3> SUFFICES ASSUME NEW k \in Nat, NEW l \in Nat, l <= k, k < 30
                 PROVE  /\ (100 * (30 - k)) \div 30 <= (100 * (30 - l)) \div 30
                        /\ (100 * (30 - k)) \div 30 \in Nat /\ (100 * (30 - l)) \div 30 \in Nat
      OBVIOUS
    <3>1. PICK u \in Nat, v \in Nat : u = 100 * (30 - k) /\ v = 100 * (30 - l)
      OBVIOUS
    <3>2. u <= v
      BY <3>1
    <3>3. PICK p \in Nat, q \in Nat : p = u \div 30 /\ q = v \div 30
      BY DivOf
    <3>4. 30 * p <= u /\ v < 30 * q + 30
      BY <3>3, DivOf
    <3>5. p <= q
      BY <3>2, <3>4
    <3> QED BY <3>1, <3>3, <3>5
  <2> QED BY <2>1, CapOf
<1> HIDE DEF Part
<1>10. /\ Hallucination(x) = IF d = 0 \/ 15 * a < 30 \/ s >= 30 THEN 0 ELSE Part(s)
       /\ Hallucination(y) = IF e = 0 \/ 15 * b < 30 \/ t >= 30 THEN 0 ELSE Part(t)
  BY <1>4 DEF Part
<1>11. Hallucination(y) \in Nat
  BY <1>5, <1>7, <1>8, <1>10
<1>12. CASE d = 0 \/ 15 * a < 30 \/ s >= 30
  BY <1>10, <1>11, <1>12 DEF Grows
<1>13. CASE ~ (d = 0 \/ 15 * a < 30 \/ s >= 30)
  <2>1. s \in Nat /\ t \in Nat /\ t <= s /\ s < 30 /\ e # 0 /\ ~ (15 * b < 30) /\ t < 30
    BY <1>3, <1>5, <1>6, <1>13
  <2> QED BY <1>8, <1>9, <1>10, <1>13, <2>1 DEF Grows
<1> QED BY <1>12, <1>13

LEMMA SchemaGrows ==
    ASSUME NEW x, NEW y, More(x, y) PROVE Grows(SchemaValidation(x), SchemaValidation(y))
<1>1. ExtractsJson(x) = ExtractsJson(y)
  <2>1. "stray brace" \in Distractions
    BY DEF Distractions
  <2>2. Has(x, "stray brace") = Has(y, "stray brace")
    BY <2>1, HitsGrow DEF Measured
  <2> QED BY <2>2 DEF ExtractsJson
<1> DEFINE problems(t) == One(SchemaProblems(t)) + One(SuspiciousFields(t)) + One(InjectedValues(t))
           looks(t) == IF LooksLikeJson(t) THEN 1 ELSE 0
<1>2. Grows(problems(x), problems(y))
  <2>1. /\ Grows(One(SchemaProblems(x)), One(SchemaProblems(y)))
        /\ Grows(One(SuspiciousFields(x)), One(SuspiciousFields(y)))
        /\ Grows(One(InjectedValues(x)), One(InjectedValues(y)))
    <3>1. /\ SchemaProblems(x) \subseteq SchemaProblems(y)
          /\ SuspiciousFields(x) \subseteq SuspiciousFields(y)
          /\ InjectedValues(x) \subseteq InjectedValues(y)
      BY WordsGrow, Zenon DEF SchemaProblems, SuspiciousFields, InjectedValues, Measured
    <3> QED BY <3>1, OneGrows, Zenon
  <2> QED BY <2>1, SumGrows
<1>3. Grows(looks(x), looks(y))
  <2>1. LooksLikeJson(x) => LooksLikeJson(y)
    BY HasStays DEF LooksLikeJson, Measured
  <2> QED BY <2>1 DEF Grows
<1>4. \A t \in {x, y} : SchemaValidation(t) = IF ExtractsJson(t) THEN Ramp(75, 8, problems(t))
                                              ELSE Ramp(75, 8, looks(t))
  BY DEF SchemaValidation
<1> HIDE DEF problems, looks
<1>5. CASE ExtractsJson(x)
  <2>1. SchemaValidation(x) = Ramp(75, 8, problems(x)) /\ SchemaValidation(y) = Ramp(75, 8, problems(y))
    BY <1>1, <1>4, <1>5
  <2> QED BY <1>2, <2>1, RampGrows
<1>6. CASE ~ ExtractsJson(x)
  <2>1. SchemaValidation(x) = Ramp(75, 8, looks(x)) /\ SchemaValidation(y) = Ramp(75, 8, looks(y))
    BY <1>1, <1>4, <1>6
  <2> QED BY <1>3, <2>1, RampGrows
<1> QED BY <1>5, <1>6

LEMMA ScannedGrows ==
    ASSUME NEW x, NEW y, More(x, y), NEW vader, NEW scanner \in Scanners
    PROVE  Grows(Scanned(scanner, x, vader), Scanned(scanner, y, vader))
<1>1. CASE scanner = "toxicity"
  BY <1>1, WordRampGrows DEF Scanned, Toxicity, Measured
<1>2. CASE scanner = "code_injection"
  BY <1>2, WordRampGrows DEF Scanned, CodeInjection, Measured
<1>3. CASE scanner = "prompt_leakage"
  BY <1>3, HitsRampGrows DEF Scanned, PromptLeakage, Measured
<1>4. CASE scanner = "relevance"
  BY <1>4, HitsRampGrows DEF Scanned, Relevance, Measured
<1>5. CASE scanner = "pii"
  BY <1>5, WordRampGrows DEF Scanned, OutputPii, Measured
<1>6. CASE scanner = "bias"
  BY <1>6, BiasGrows DEF Scanned
<1>7. CASE scanner = "sentiment"
  BY <1>7, SentimentGrows DEF Scanned
<1>8. CASE scanner = "hallucination"
  BY <1>8, HallucinationGrows DEF Scanned
<1>9. CASE scanner = "schema_validation"
  BY <1>9, SchemaGrows DEF Scanned
<1> QED BY <1>1, <1>2, <1>3, <1>4, <1>5, <1>6, <1>7, <1>8, <1>9 DEF Scanners

LEMMA OutputRiskGrows ==
    ASSUME NEW x, NEW y, More(x, y), NEW names, NEW broken, NEW vader
    PROVE  Grows(OutputRisk(names, broken, x, vader), OutputRisk(names, broken, y, vader))
<1> DEFINE I == Resolve(names) \ broken
           f == [s \in I |-> Scanned(s, x, vader)]
           g == [s \in I |-> Scanned(s, y, vader)]
<1>1. I \in SUBSET Scanners
  BY DEF Resolve
<1>2. IsFiniteSet(Scanners)
  <2> DEFINE h == [i \in 1..9 |-> <<"toxicity", "code_injection", "prompt_leakage", "relevance", "pii",
                                    "bias", "sentiment", "hallucination", "schema_validation">>[i]]
  <2>1. h \in Surjection(1..9, Scanners)
    <3>1. \A i \in 1..9 : h[i] \in Scanners
      BY DEF Scanners
    <3>2. \A s \in Scanners : \E i \in 1..9 : h[i] = s
      <4>1. /\ h[1] = "toxicity" /\ h[2] = "code_injection" /\ h[3] = "prompt_leakage"
            /\ h[4] = "relevance" /\ h[5] = "pii" /\ h[6] = "bias" /\ h[7] = "sentiment"
            /\ h[8] = "hallucination" /\ h[9] = "schema_validation"
        OBVIOUS
      <4> HIDE DEF h
      <4> QED BY <4>1 DEF Scanners
    <3> QED BY <3>1, <3>2 DEF Surjection
  <2>2. IsFiniteSet(1..9)
    <3>1. 1 \in Int /\ 9 \in Int
      OBVIOUS
    <3> QED BY <3>1, FS_Interval, Zenon
  <2> QED BY <2>1, <2>2, FS_Surjection
<1>3. IsFiniteSet(I)
  BY <1>1, <1>2, FS_Subset
<1>4. f \in [I -> Nat] /\ g \in [I -> Nat] /\ \A s \in I : f[s] <= g[s]
  <2>1. \A s \in I : Grows(Scanned(s, x, vader), Scanned(s, y, vader))
    BY <1>1, ScannedGrows
  <2> QED BY <2>1 DEF Grows
<1>5. /\ OutputRisk(names, broken, x, vader) = Top({f[s] : s \in I})
      /\ OutputRisk(names, broken, y, vader) = Top({g[s] : s \in I})
  BY DEF OutputRisk
<1> HIDE DEF f, g, I
<1> QED BY <1>3, <1>4, <1>5, TopOfEachGrows
-----------------------------------------------------------------------------
(***************************************************************************)
(* The matrix of the alignment.                                            *)
(***************************************************************************)
LEMMA PairScoreOf == ASSUME NEW a, NEW b PROVE PairScore(a, b) \in Int
<1> USE AlignmentAssumption
<1> DEFINE shared == {group \in Synonyms : {a, b} \subseteq group.words}
           worths == {group.worth : group \in shared}
<1>1. IsFiniteSet(shared) /\ shared \in SUBSET Synonyms
  BY FS_Subset
<1>2. worths \in SUBSET Int
  BY <1>1
<1>3. IsFiniteSet(worths)
  <2> DEFINE h == [group \in shared |-> group.worth]
  <2>1. h \in Surjection(shared, worths)
    BY DEF Surjection
  <2> QED BY <1>1, <2>1, FS_Surjection
<1>4. PairScore(a, b) = IF a = b THEN MatchBonus ELSE Max({Mismatch} \cup worths)
  BY DEF PairScore
<1> HIDE DEF worths
<1>5. IsFiniteSet({Mismatch} \cup worths) /\ {Mismatch} \cup worths \in SUBSET Int
  <2>1. {Mismatch} \cup worths = worths \cup {Mismatch}
    OBVIOUS
  <2> QED BY <1>2, <1>3, <2>1, FS_AddElement DEF Mismatch
<1>6. Max({Mismatch} \cup worths) \in Int
  BY <1>5, MaxOf
<1> QED BY <1>4, <1>6 DEF MatchBonus

LEMMA CellOf ==
    ASSUME NEW diag \in Cells, NEW up \in Cells, NEW left \in Cells, NEW pair \in Int, NEW i \in Int,
           NEW floor \in Int
    PROVE  Cell(diag, up, left, pair, i, floor) \in Cells
<1> DEFINE S == {floor, diag.score + pair, up.score + Gap, left.score + Gap}
           best == Max(S)
           from == IF best = diag.score + pair THEN diag ELSE IF best = up.score + Gap THEN up ELSE left
<1>1. /\ diag.score \in Int /\ up.score \in Int /\ left.score \in Int
      /\ diag.start \in Int /\ up.start \in Int /\ left.start \in Int
  BY DEF Cells
<1>2. S \in SUBSET Int
  BY <1>1 DEF Gap
<1>3. IsFiniteSet(S)
  <2>1. IsFiniteSet(((({} \cup {floor}) \cup {diag.score + pair}) \cup {up.score + Gap})
                    \cup {left.score + Gap})
    BY FS_EmptySet, FS_AddElement
  <2>2. S = ((({} \cup {floor}) \cup {diag.score + pair}) \cup {up.score + Gap}) \cup {left.score + Gap}
    OBVIOUS
  <2> HIDE DEF S
  <2> QED BY <2>1, <2>2
<1>4. best \in Int
  <2>1. S # {}
    OBVIOUS
  <2> HIDE DEF S
  <2> QED BY <1>2, <1>3, <2>1, MaxOf
<1>5. Cell(diag, up, left, pair, i, floor) =
        [score |-> best, start |-> IF best > 0 /\ from.score > 0 THEN from.start ELSE i]
  BY DEF Cell
<1>6. from.start \in Int
  <2> HIDE DEF best
  <2> QED BY <1>1
<1> HIDE DEF best, from
<1> QED BY <1>4, <1>5, <1>6 DEF Cells

LEMMA Built ==
    ASSUME NEW n \in Nat, NEW f, NEW V, NEW c, Builds(f, n, V, c)
    PROVE  f[n][1] = f[0][1] /\ \A j \in 1..n : f[n][j + 1] = c[j] /\ f[j - 1][j] = f[n][j]
<1>1. /\ \A j \in 0..n : f[j] \in Seq(V) /\ Len(f[j]) = j + 1
      /\ \A j \in 1..n : f[j] = Append(f[j - 1], c[j])
  BY DEF Builds
<1>2. ASSUME NEW j \in 1..n
      PROVE  f[j][j + 1] = c[j] /\ \A m \in 1..j : f[j][m] = f[j - 1][m]
  <2>1. j - 1 \in 0..n /\ (j - 1) + 1 = j /\ j \in Nat
    OBVIOUS
  <2>2. PICK s \in Seq(V) : s = f[j - 1]
    BY <1>1, <2>1
  <2>3. Len(s) = j /\ f[j] = Append(s, c[j])
    BY <1>1, <2>1, <2>2
  <2>4. \A x : Append(s, x)[Len(s) + 1] = x /\ \A m \in 1..Len(s) : Append(s, x)[m] = s[m]
    OBVIOUS
  <2> QED BY <2>2, <2>3, <2>4
<1> DEFINE Keeps(j) == \A i \in 0..j : \A m \in 1..(i + 1) : f[j][m] = f[i][m]
           Bad == {j \in 0..n : ~ Keeps(j)}
<1>3. Bad = {}
  <2>1. SUFFICES ASSUME Bad # {} PROVE FALSE
    OBVIOUS
  <2>2. PICK j \in Bad : \A k \in Bad : j <= k
    <3>1. Bad \subseteq Nat
      OBVIOUS
    <3> QED BY <2>1, <3>1, LeastElement
  <2>3. Keeps(0)
    OBVIOUS
  <2>4. j # 0
    BY <2>2, <2>3
  <2>5. j \in 1..n /\ j - 1 \in 0..n /\ ~ (j <= j - 1)
    BY <2>2, <2>4
  <2>6. Keeps(j - 1)
    BY <2>2, <2>5
  <2>7. ASSUME NEW i \in 0..j, NEW m \in 1..(i + 1) PROVE f[j][m] = f[i][m]
    <3>1. CASE i = j
      BY <3>1
    <3>2. CASE i # j
      <4>1. i \in 0..(j - 1) /\ m \in 1..j
        BY <2>5, <3>2
      <4>2. f[j][m] = f[j - 1][m]
        BY <1>2, <2>5, <4>1
      <4> QED BY <2>6, <4>1, <4>2
    <3> QED BY <3>1, <3>2
  <2> QED BY <2>2, <2>7
<1>4. Keeps(n)
  BY <1>3
<1>5. f[n][1] = f[0][1]
  BY <1>4
<1>6. ASSUME NEW j \in 1..n PROVE f[n][j + 1] = c[j] /\ f[j - 1][j] = f[n][j]
  <2>1. j \in 0..n /\ j - 1 \in 0..n /\ j + 1 \in 1..(j + 1) /\ j \in 1..((j - 1) + 1)
    OBVIOUS
  <2> HIDE DEF Bad
  <2> QED BY <1>2, <1>4, <2>1
<1> QED BY <1>5, <1>6

(* A row of cells.                                                         *)
LEMMA RowOf ==
    ASSUME NEW needle, Len(needle) \in Nat, NEW above \in Seq(Cells), Len(above) = Len(needle) + 1,
           NEW token, NEW i \in Int, NEW floor \in Int
    PROVE  /\ Row(above, token, needle, i, floor) \in Seq(Cells)
           /\ Len(Row(above, token, needle, i, floor)) = Len(needle) + 1
           /\ RowBy(Row(above, token, needle, i, floor), above, token, needle, i, floor)
<1> DEFINE N == Len(needle)
           Step(v, j) == Cell(above[j], above[j + 1], v[j], PairScore(token, needle[j]), i, floor)
           P(g) == g = [j \in 0..N |-> IF j = 0 THEN <<Empty>> ELSE Append(g[j - 1], Step(g[j - 1], j))]
           next == [j \in 1..N |->
                     [v \in Seq(Cells) |-> Append(v, IF Len(v) = j THEN Step(v, j) ELSE Empty)]]
<1>1. Empty \in Cells /\ <<Empty>> \in Seq(Cells) /\ Len(<<Empty>>) = 1
  BY DEF Empty, Cells
<1>2. \A j \in 1..N, v \in Seq(Cells) : Len(v) = j => Step(v, j) \in Cells
  <2> SUFFICES ASSUME NEW j \in 1..N, NEW v \in Seq(Cells), Len(v) = j PROVE Step(v, j) \in Cells
    OBVIOUS
  <2>1. above[j] \in Cells /\ above[j + 1] \in Cells /\ v[j] \in Cells
    BY ElementOfSeq
  <2> QED BY <2>1, PairScoreOf, CellOf
<1> HIDE DEF Step
<1>3. next \in [1..N -> [Seq(Cells) -> Seq(Cells)]]
  <2>1. \A j \in 1..N, v \in Seq(Cells) :
          Append(v, IF Len(v) = j THEN Step(v, j) ELSE Empty) \in Seq(Cells)
    BY <1>1, <1>2, AppendProperties
  <2> QED BY <2>1
<1>4. PICK f \in [0..N -> Seq(Cells)] : f[0] = <<Empty>> /\ \A j \in 1..N : f[j] = next[j][f[j - 1]]
  <2>1. N \in Nat
    OBVIOUS
  <2> HIDE DEF next, N
  <2>2. \E f \in [0..N -> Seq(Cells)] : Follows(f, N, <<Empty>>, next)
    BY <1>1, <1>3, <2>1, Recursion
  <2> QED BY <2>2 DEF Follows
<1>5. \A j \in 1..N : /\ f[j - 1] \in Seq(Cells) /\ f[j] \in Seq(Cells)
                      /\ f[j] = Append(f[j - 1], IF Len(f[j - 1]) = j THEN Step(f[j - 1], j) ELSE Empty)
  <2> SUFFICES ASSUME NEW j \in 1..N
               PROVE  /\ f[j - 1] \in Seq(Cells) /\ f[j] \in Seq(Cells)
                      /\ f[j] = Append(f[j - 1], IF Len(f[j - 1]) = j THEN Step(f[j - 1], j) ELSE Empty)
    OBVIOUS
  <2>1. f[j - 1] \in Seq(Cells) /\ f[j] \in Seq(Cells)
    <3>1. j - 1 \in 0..N /\ j \in 0..N
      OBVIOUS
    <3> QED BY <3>1
  <2>2. next[j][f[j - 1]] =
          Append(f[j - 1], IF Len(f[j - 1]) = j THEN Step(f[j - 1], j) ELSE Empty)
    BY <2>1
  <2> HIDE DEF next
  <2> QED BY <1>4, <2>1, <2>2
<1>6. \A j \in 0..N : Len(f[j]) = j + 1
  <2> DEFINE Bad == {j \in 0..N : Len(f[j]) # j + 1}
  <2>1. SUFFICES ASSUME Bad # {} PROVE FALSE
    OBVIOUS
  <2>2. PICK j \in Bad : \A k \in Bad : j <= k
    <3>1. Bad \subseteq Nat
      OBVIOUS
    <3> QED BY <2>1, <3>1, LeastElement
  <2>3. j # 0 /\ j \in 1..N
    <3>1. Len(f[0]) = 0 + 1
      BY <1>1, <1>4
    <3>2. j \in 0..N /\ Len(f[j]) # j + 1
      BY <2>2
    <3>3. \A k \in 0..N : k # 0 => k \in 1..N
      OBVIOUS
    <3> HIDE DEF N
    <3> QED BY <3>1, <3>2, <3>3
  <2>4. j - 1 \in 0..N /\ j - 1 \notin Bad
    BY <2>2, <2>3
  <2>5. Len(f[j - 1]) = j /\ f[j - 1] \in Seq(Cells)
    BY <1>5, <2>3, <2>4
  <2>6. Len(f[j]) = j + 1
    <3>1. \A v \in Seq(Cells) : \A c : Len(Append(v, c)) = Len(v) + 1
      OBVIOUS
    <3> QED BY <1>5, <2>3, <2>5, <3>1
  <2> QED BY <2>2, <2>6
<1>7. \A j \in 1..N : f[j] = Append(f[j - 1], Step(f[j - 1], j))
  <2>1. \A j \in 1..N : j - 1 \in 0..N /\ (j - 1) + 1 = j
    OBVIOUS
  <2> QED BY <1>5, <1>6, <2>1
<1>8. P(f)
  <2>1. \A j \in 0..N : f[j] = IF j = 0 THEN <<Empty>> ELSE Append(f[j - 1], Step(f[j - 1], j))
    <3>1. \A k \in 0..N : k # 0 => k \in 1..N
      OBVIOUS
    <3> HIDE DEF N, next, P
    <3> QED BY <1>4, <1>7, <3>1, ZenonT(30)
  <2> QED BY <2>1
<1> DEFINE row == CHOOSE g : P(g)
<1>9. P(row)
  BY <1>8, ZenonT(30)
<1>10. Row(above, token, needle, i, floor) = row[N]
  BY DEF Row, Step
<1> HIDE DEF row
<1>11. \A j \in 0..N : row[j] = f[j]
  <2> DEFINE Bad == {j \in 0..N : row[j] # f[j]}
  <2>1. SUFFICES ASSUME Bad # {} PROVE FALSE
    OBVIOUS
  <2>2. PICK j \in Bad : \A k \in Bad : j <= k
    <3>1. Bad \subseteq Nat
      OBVIOUS
    <3> QED BY <2>1, <3>1, LeastElement
  <2>3. j # 0 /\ j \in 1..N
    BY <1>4, <1>9, <2>2
  <2>4. row[j - 1] = f[j - 1]
    BY <2>2, <2>3
  <2>5. row[j] = Append(row[j - 1], Step(row[j - 1], j))
    BY <1>9, <2>3
  <2> QED BY <1>7, <2>2, <2>3, <2>4, <2>5
<1>12. row[N] = f[N] /\ f[N] \in Seq(Cells) /\ Len(f[N]) = N + 1
  BY <1>6, <1>11
<1>13. PICK c : c = [j \in 1..N |-> Step(f[j - 1], j)]
  OBVIOUS
<1>14. Builds(f, N, Cells, c)
  <2>1. \A j \in 0..N : f[j] \in Seq(Cells)
    BY <1>4
  <2>2. \A j \in 1..N : f[j] = Append(f[j - 1], c[j])
    BY <1>7, <1>13
  <2> QED BY <1>6, <2>1, <2>2 DEF Builds
<1>15. f[N][1] = f[0][1] /\ \A j \in 1..N : f[N][j + 1] = c[j] /\ f[j - 1][j] = f[N][j]
  <2>1. N \in Nat
    OBVIOUS
  <2> HIDE DEF N
  <2> QED BY <1>14, <2>1, Built, ZenonT(30)
<1>16. ASSUME NEW j \in 1..N
       PROVE  f[N][j + 1] = Cell(above[j], above[j + 1], f[N][j], PairScore(token, needle[j]), i, floor)
  BY <1>13, <1>15, <1>16 DEF Step
<1>17. f[N][1] = Empty
  BY <1>4, <1>15
<1>18. RowBy(f[N], above, token, needle, i, floor)
  BY <1>16, <1>17 DEF RowBy, N
<1> QED BY <1>10, <1>12, <1>18

LEMMA FirstRowOf ==
    ASSUME NEW needle, Len(needle) \in Nat PROVE Shaped(<<FirstRow(needle)>>, 1, needle)
<1>1. Empty \in Cells
  BY DEF Empty, Cells
<1>2. FirstRow(needle) \in Seq(Cells) /\ Len(FirstRow(needle)) = Len(needle) + 1
  <2>1. PICK n \in Nat : n = Len(needle) + 1
    OBVIOUS
  <2>2. FirstRow(needle) \in [1..n -> Cells]
    BY <1>1, <2>1 DEF FirstRow
  <2>3. FirstRow(needle) \in Seq(Cells) /\ DOMAIN FirstRow(needle) = 1..n
    BY <2>2, IsASeq
  <2> QED BY <2>1, <2>3, LenProperties
<1> HIDE DEF FirstRow
<1> QED BY <1>2 DEF Shaped

LEMMA GrownShaped ==
    ASSUME NEW needle, Len(needle) \in Nat, NEW i \in Nat \ {0}, NEW rows, Shaped(rows, i, needle),
           NEW hay
    PROVE  Shaped(Grown(rows, hay, needle, i), i + 1, needle)
<1> DEFINE last == Row(rows[i], hay[i], needle, i, 0)
           longer == Append(rows, last)
<1>1. /\ rows \in Seq(Seq(Cells)) /\ Len(rows) = i
      /\ \A k \in 1..i : rows[k] \in Seq(Cells) /\ Len(rows[k]) = Len(needle) + 1
  BY DEF Shaped
<1>2. rows[i] \in Seq(Cells) /\ Len(rows[i]) = Len(needle) + 1
  BY <1>1
<1>3. last \in Seq(Cells) /\ Len(last) = Len(needle) + 1
  <2>1. 0 \in Int /\ i \in Int
    OBVIOUS
  <2> QED BY <1>2, <2>1, RowOf
<1> HIDE DEF last
<1>4. /\ longer \in Seq(Seq(Cells)) /\ Len(longer) = i + 1
      /\ \A k \in 1..i : longer[k] = rows[k]
      /\ longer[i + 1] = last
  BY <1>1, <1>3, AppendProperties
<1>5. \A k \in 1..(i + 1) : longer[k] \in Seq(Cells) /\ Len(longer[k]) = Len(needle) + 1
  <2> HIDE DEF longer
  <2>1. \A k \in 1..(i + 1) : k \in 1..i \/ k = i + 1
    OBVIOUS
  <2> QED BY <1>1, <1>3, <1>4, <2>1
<1>6. Grown(rows, hay, needle, i) = longer
  BY DEF Grown, last
<1> HIDE DEF longer
<1> QED BY <1>4, <1>5, <1>6 DEF Shaped

LEMMA RowsOf ==
    ASSUME NEW hay, Len(hay) \in Nat, NEW needle, Len(needle) \in Nat
    PROVE  \E r : RowsBy(r, hay, needle) /\ Rows(hay, needle, 0) = r[Len(hay)]
<1> DEFINE L == Len(hay)
           V == Seq(Seq(Cells))
           next == [i \in 1..L |->
                     [v \in V |-> IF Shaped(v, i, needle) THEN Grown(v, hay, needle, i) ELSE v]]
           P(g) == g = [i \in 0..L |-> IF i = 0 THEN <<FirstRow(needle)>>
                                        ELSE Grown(g[i - 1], hay, needle, i)]
<1>1. /\ L \in Nat /\ \A i \in 1..L : i \in Nat \ {0} /\ i - 1 \in 0..L /\ (i - 1) + 1 = i
      /\ \A i \in 0..L : i # 0 => i \in 1..L
  OBVIOUS
<1>2. \A i \in 1..L, v \in V : Shaped(v, i, needle) => Shaped(Grown(v, hay, needle, i), i + 1, needle)
  BY <1>1, GrownShaped
<1>3. next \in [1..L -> [V -> V]]
  <2>1. \A v, i : Shaped(v, i, needle) => v \in V
    BY DEF Shaped
  <2> HIDE DEF L, V
  <2>2. \A i \in 1..L, v \in V : (IF Shaped(v, i, needle) THEN Grown(v, hay, needle, i) ELSE v) \in V
    BY <1>2, <2>1
  <2> QED BY <2>2
<1>4. Shaped(<<FirstRow(needle)>>, 1, needle) /\ <<FirstRow(needle)>> \in V
  BY FirstRowOf DEF Shaped
<1> HIDE DEF L, V
<1>5. PICK f \in [0..L -> V] : f[0] = <<FirstRow(needle)>> /\ \A i \in 1..L : f[i] = next[i][f[i - 1]]
  <2> HIDE DEF next
  <2>1. \E f \in [0..L -> V] : Follows(f, L, <<FirstRow(needle)>>, next)
    BY <1>1, <1>3, <1>4, Recursion
  <2> QED BY <2>1 DEF Follows
<1>6. \A i \in 1..L : f[i] = IF Shaped(f[i - 1], i, needle) THEN Grown(f[i - 1], hay, needle, i)
                             ELSE f[i - 1]
  <2> SUFFICES ASSUME NEW i \in 1..L
               PROVE  f[i] = IF Shaped(f[i - 1], i, needle) THEN Grown(f[i - 1], hay, needle, i)
                             ELSE f[i - 1]
    OBVIOUS
  <2>1. f[i - 1] \in V
    BY <1>1
  <2>2. next[i][f[i - 1]] = IF Shaped(f[i - 1], i, needle) THEN Grown(f[i - 1], hay, needle, i)
                            ELSE f[i - 1]
    BY <2>1
  <2> HIDE DEF next
  <2> QED BY <1>5, <2>2
<1> HIDE DEF next
<1>7. \A i \in 0..L : Shaped(f[i], i + 1, needle)
  <2> DEFINE Bad == {i \in 0..L : ~ Shaped(f[i], i + 1, needle)}
  <2>1. SUFFICES ASSUME Bad # {} PROVE FALSE
    OBVIOUS
  <2>2. PICK i \in Bad : \A k \in Bad : i <= k
    <3>1. Bad \subseteq Nat
      OBVIOUS
    <3> QED BY <2>1, <3>1, LeastElement
  <2>3. i # 0 /\ i \in 1..L
    <3>1. 0 + 1 = 1
      OBVIOUS
    <3> QED BY <1>1, <1>4, <1>5, <2>2, <3>1
  <2>4. i - 1 \in 0..L /\ i - 1 \notin Bad
    BY <1>1, <2>2, <2>3
  <2>5. Shaped(f[i - 1], i, needle)
    BY <1>1, <2>3, <2>4
  <2>6. f[i] = Grown(f[i - 1], hay, needle, i) /\ f[i - 1] \in V
    BY <1>6, <2>3, <2>4, <2>5
  <2>7. Shaped(f[i], i + 1, needle)
    BY <1>2, <2>3, <2>5, <2>6
  <2> QED BY <2>2, <2>7
<1>8. \A i \in 1..L : f[i] = Grown(f[i - 1], hay, needle, i)
  <2> SUFFICES ASSUME NEW i \in 1..L PROVE f[i] = Grown(f[i - 1], hay, needle, i)
    OBVIOUS
  <2>1. Shaped(f[i - 1], i, needle)
    BY <1>1, <1>7
  <2> QED BY <1>6, <2>1
<1>9. P(f)
  <2>1. \A i \in 0..L : f[i] = IF i = 0 THEN <<FirstRow(needle)>> ELSE Grown(f[i - 1], hay, needle, i)
    BY <1>1, <1>5, <1>8
  <2> QED BY <2>1
<1> DEFINE rows == CHOOSE g : P(g)
<1>10. P(rows)
  BY <1>9
<1>11. Rows(hay, needle, 0) = rows[L]
  BY DEF Rows, Grown, FirstRow, L
<1> HIDE DEF rows
<1>12. rows[0] = <<FirstRow(needle)>> /\ \A i \in 1..L : rows[i] = Grown(rows[i - 1], hay, needle, i)
  BY <1>1, <1>10
<1>13. \A i \in 0..L : rows[i] = f[i]
  <2> DEFINE Bad == {i \in 0..L : rows[i] # f[i]}
  <2>1. SUFFICES ASSUME Bad # {} PROVE FALSE
    OBVIOUS
  <2>2. PICK i \in Bad : \A k \in Bad : i <= k
    <3>1. Bad \subseteq Nat
      OBVIOUS
    <3> QED BY <2>1, <3>1, LeastElement
  <2>3. i # 0 /\ i \in 1..L
    BY <1>1, <1>5, <1>12, <2>2
  <2>4. i - 1 \in 0..L /\ i - 1 \notin Bad
    BY <1>1, <2>2, <2>3
  <2>5. rows[i - 1] = f[i - 1]
    BY <2>4
  <2> QED BY <1>8, <1>12, <2>2, <2>3, <2>5
<1>14. \A i \in 0..L : Shaped(rows[i], i + 1, needle)
  BY <1>7, <1>13
<1>15. RowsBy(rows, hay, needle)
  BY <1>12, <1>14 DEF RowsBy, L
<1> QED BY <1>11, <1>15 DEF L

(* A further token leaves the rows above its own as they are.              *)
LEMMA MatrixGrows ==
    ASSUME NEW needle, Len(needle) \in Nat, NEW hay, Len(hay) \in Nat, NEW longer,
           Len(longer) = Len(hay) + 1, \A i \in 1..Len(hay) : longer[i] = hay[i]
    PROVE  /\ Shaped(Matrix(hay, needle), Len(hay) + 1, needle)
           /\ Shaped(Matrix(longer, needle), Len(hay) + 2, needle)
           /\ \A k \in 1..(Len(hay) + 1) : Matrix(longer, needle)[k] = Matrix(hay, needle)[k]
<1> DEFINE L == Len(hay)
<1>1. /\ L \in Nat /\ L + 1 \in Nat /\ Len(longer) = L + 1 /\ L + 1 \in 1..(L + 1)
      /\ (L + 1) - 1 = L /\ (L + 1) + 1 = L + 2
      /\ \A i \in 1..L : i \in 1..(L + 1) /\ i - 1 \in 0..L
      /\ \A i \in 0..L : i \in 0..(L + 1) /\ (i # 0 => i \in 1..L)
  OBVIOUS
<1>2. PICK r : RowsBy(r, hay, needle) /\ Rows(hay, needle, 0) = r[L]
  BY RowsOf
<1>3. PICK s : RowsBy(s, longer, needle) /\ Rows(longer, needle, 0) = s[L + 1]
  <2>1. Len(longer) \in Nat
    BY <1>1
  <2> QED BY <1>1, <2>1, RowsOf
<1>4. \A i \in 1..L : longer[i] = hay[i]
  OBVIOUS
<1> HIDE DEF L
<1>5. /\ r[0] = <<FirstRow(needle)>> /\ s[0] = <<FirstRow(needle)>>
      /\ \A i \in 1..L : r[i] = Grown(r[i - 1], hay, needle, i)
      /\ \A i \in 1..(L + 1) : s[i] = Grown(s[i - 1], longer, needle, i)
      /\ Shaped(r[L], L + 1, needle) /\ Shaped(s[L + 1], L + 2, needle)
  <2>1. L \in 0..L /\ L + 1 \in 0..(L + 1)
    BY <1>1
  <2> QED BY <1>1, <1>2, <1>3, <2>1 DEF RowsBy, L
<1>6. \A i \in 0..L : r[i] = s[i]
  <2> DEFINE Bad == {i \in 0..L : r[i] # s[i]}
  <2>1. SUFFICES ASSUME Bad # {} PROVE FALSE
    OBVIOUS
  <2>2. PICK i \in Bad : \A k \in Bad : i <= k
    <3>1. Bad \subseteq Nat
      OBVIOUS
    <3> QED BY <2>1, <3>1, LeastElement
  <2>3. i # 0 /\ i \in 1..L
    BY <1>1, <1>5, <2>2
  <2>4. i - 1 \in 0..L /\ i - 1 \notin Bad
    BY <1>1, <2>2, <2>3
  <2>5. r[i - 1] = s[i - 1]
    BY <2>4
  <2>6. Grown(r[i - 1], hay, needle, i) = Grown(s[i - 1], longer, needle, i)
    BY <1>4, <2>3, <2>5 DEF Grown
  <2> QED BY <1>1, <1>5, <2>2, <2>3, <2>6
<1>7. s[L + 1] = Grown(r[L], longer, needle, L + 1)
  <2>1. L \in 0..L
    BY <1>1
  <2> QED BY <1>1, <1>5, <1>6, <2>1
<1>8. \A k \in 1..(L + 1) : s[L + 1][k] = r[L][k]
  <2>1. r[L] \in Seq(Seq(Cells)) /\ Len(r[L]) = L + 1
    BY <1>5 DEF Shaped
  <2>2. \A t \in Seq(Seq(Cells)) : \A c : \A k \in 1..Len(t) : Append(t, c)[k] = t[k]
    OBVIOUS
  <2> QED BY <1>7, <2>1, <2>2 DEF Grown
<1>9. Matrix(hay, needle) = r[L] /\ Matrix(longer, needle) = s[L + 1]
  BY <1>2, <1>3 DEF Matrix
<1> QED BY <1>5, <1>8, <1>9 DEF L

LEMMA ScoresOf ==
    ASSUME NEW needle, Len(needle) \in Nat, NEW hay, Len(hay) \in Nat,
           Shaped(Matrix(hay, needle), Len(hay) + 1, needle)
    PROVE  /\ Scores(hay, needle) \in SUBSET Int /\ IsFiniteSet(Scores(hay, needle))
           /\ Align(hay, needle).score = Top(Scores(hay, needle))
<1>1. Scores(hay, needle) \in SUBSET Int
  <2> SUFFICES ASSUME NEW c \in Grid(hay, needle) PROVE ScoreAt(hay, needle, c) \in Int
    BY DEF Scores
  <2>1. c[1] + 1 \in 1..(Len(hay) + 1) /\ c[2] + 1 \in 1..(Len(needle) + 1)
    BY DEF Grid
  <2> DEFINE row == Matrix(hay, needle)[c[1] + 1]
  <2>2. row \in Seq(Cells) /\ Len(row) = Len(needle) + 1
    BY <2>1 DEF Shaped
  <2> HIDE DEF row
  <2>3. row[c[2] + 1] \in Cells
    BY <2>1, <2>2
  <2> QED BY <2>3 DEF ScoreAt, Cells, row
<1>2. IsFiniteSet(Scores(hay, needle))
  <2> DEFINE h == [c \in Grid(hay, needle) |-> ScoreAt(hay, needle, c)]
  <2>1. IsFiniteSet(1..Len(hay)) /\ IsFiniteSet(1..Len(needle))
    BY FS_Interval
  <2>2. IsFiniteSet(Grid(hay, needle))
    BY <2>1, FS_Product DEF Grid
  <2>3. h \in Surjection(Grid(hay, needle), Scores(hay, needle))
    BY DEF Surjection, Scores
  <2> QED BY <2>2, <2>3, FS_Surjection
<1>3. Align(hay, needle).score = Top(Scores(hay, needle))
  <2> DEFINE H == Matrix(hay, needle)
             cells == (1..Len(hay)) \X (1..Len(needle))
             at(c) == H[c[1] + 1][c[2] + 1]
             score == Max({0} \cup {at(c).score : c \in cells})
             best == {c \in cells : at(c).score = score}
             end == Min({c[1] : c \in best})
             col == Min({c[2] : c \in {d \in best : d[1] = end}})
             start == at(<<end, col>>).start - 1
  <2>1. Align(hay, needle) = IF score = 0 THEN [score |-> 0, start |-> 0, end |-> 0]
                             ELSE [score |-> score, start |-> start, end |-> end]
    BY DEF Align
  <2>2. {at(c).score : c \in cells} = Scores(hay, needle)
    BY DEF Scores, ScoreAt, Grid
  <2>3. {0} \cup {at(c).score : c \in cells} = Scores(hay, needle) \cup {0}
    BY <2>2
  <2>4. score = Top(Scores(hay, needle))
    BY <2>3 DEF Top
  <2> HIDE DEF score, start, end
  <2>5. Align(hay, needle).score = score
    BY <2>1
  <2> QED BY <2>4, <2>5
<1> QED BY <1>1, <1>2, <1>3

LEMMA DivGrows ==
    ASSUME NEW a \in Nat, NEW b \in Nat, a <= b, NEW c \in Nat \ {0}
    PROVE  Grows(a \div c, b \div c)
<1>1. PICK q \in Nat, r \in Nat : q = a \div c /\ r = b \div c
  BY DivOf
<1>2. c * q <= a /\ b < c * r + c
  BY <1>1, DivOf
<1>3. SUFFICES ASSUME r + 1 <= q PROVE FALSE
  BY <1>1 DEF Grows
<1>4. c * (r + 1) <= c * q /\ c * (r + 1) = c * r + c
  BY <1>3, TimesGrows
<1>5. c * r \in Nat /\ c * q \in Nat
  OBVIOUS
<1> QED BY <1>2, <1>4, <1>5

LEMMA NormalizedGrows ==
    ASSUME NEW needle \in Needles, NEW hay, Len(hay) \in Nat, NEW longer,
           Len(longer) = Len(hay) + 1, \A i \in 1..Len(hay) : longer[i] = hay[i]
    PROVE  Grows(Normalized(hay, needle), Normalized(longer, needle))
<1>1. Len(needle) \in Nat \ {0}
  <2>1. needle \in Seq({needle[j] : j \in DOMAIN needle}) /\ needle # <<>>
    BY AlignmentAssumption
  <2> QED BY <2>1, EmptySeq, LenProperties
<1>2. /\ Shaped(Matrix(hay, needle), Len(hay) + 1, needle)
      /\ Shaped(Matrix(longer, needle), Len(longer) + 1, needle)
      /\ \A k \in 1..(Len(hay) + 1) : Matrix(longer, needle)[k] = Matrix(hay, needle)[k]
  <2>1. Len(longer) + 1 = Len(hay) + 2
    OBVIOUS
  <2> QED BY <1>1, <2>1, MatrixGrows
<1>3. Scores(hay, needle) \subseteq Scores(longer, needle)
  <2> SUFFICES ASSUME NEW c \in Grid(hay, needle)
               PROVE  ScoreAt(hay, needle, c) \in Scores(longer, needle)
    BY DEF Scores
  <2>1. c \in Grid(longer, needle) /\ c[1] + 1 \in 1..(Len(hay) + 1)
    BY DEF Grid
  <2>2. ScoreAt(hay, needle, c) = ScoreAt(longer, needle, c)
    BY <1>2, <2>1 DEF ScoreAt
  <2> QED BY <2>1, <2>2 DEF Scores
<1>4. Grows(Align(hay, needle).score, Align(longer, needle).score)
  <2>1. Len(longer) \in Nat
    OBVIOUS
  <2> QED BY <1>1, <1>2, <1>3, <2>1, ScoresOf, TopGrows
<1>5. PICK a \in Nat, b \in Nat, n \in Nat \ {0} :
        a = Align(hay, needle).score /\ b = Align(longer, needle).score /\ n = Len(needle)
  BY <1>1, <1>4 DEF Grows
<1>6. a <= b
  BY <1>4, <1>5 DEF Grows
<1>7. 1000 * a \in Nat /\ 1000 * b \in Nat /\ 1000 * a <= 1000 * b /\ 3 * n \in Nat \ {0}
  BY <1>6
<1>8. Normalized(hay, needle) = (1000 * a) \div (3 * n)
      /\ Normalized(longer, needle) = (1000 * b) \div (3 * n)
  BY <1>5 DEF Normalized, MatchBonus
<1>9. PICK u \in Nat, v \in Nat, w \in Nat \ {0} : u = 1000 * a /\ v = 1000 * b /\ w = 3 * n
  BY <1>7
<1>10. Grows(u \div w, v \div w)
  <2>1. u <= v
    BY <1>7, <1>9
  <2> QED BY <2>1, DivGrows
<1> QED BY <1>8, <1>9, <1>10

LEMMA ReadGrows ==
    ASSUME NEW V, NEW tokens \in Seq(V), NEW x \in V
    PROVE  LET longer == Append(tokens, x)
           IN  /\ Len(Read(tokens)) \in Nat
               /\ Len(longer) = Len(tokens) + 1 /\ Len(tokens) \in Nat
               /\ \/ Read(longer) = Read(tokens)
                  \/ /\ Len(Read(longer)) = Len(Read(tokens)) + 1
                     /\ \A i \in 1..Len(Read(tokens)) : Read(longer)[i] = Read(tokens)[i]
<1> USE AlignmentAssumption
<1> DEFINE longer == Append(tokens, x)
<1>1. /\ tokens \in Seq(V) /\ longer \in Seq(V) /\ Len(tokens) \in Nat /\ Len(longer) = Len(tokens) + 1
      /\ \A i \in 1..Len(tokens) : longer[i] = tokens[i] /\ tokens[i] \in V /\ longer[i] \in V
      /\ \A i \in 1..(Len(tokens) + 1) : longer[i] \in V
  BY AppendProperties, LenProperties, ElementOfSeq
<1> HIDE DEF longer
<1>2. PICK n \in Nat, m \in Nat : n = Len(tokens) /\ m = MaxTokens
  BY <1>1
<1>3. /\ Min({n, m}) = IF n <= m THEN n ELSE m
      /\ Min({n + 1, m}) = IF n + 1 <= m THEN n + 1 ELSE m
  <2>1. Cap(n, m) = IF n <= m THEN n ELSE m
    BY CapOf
  <2>2. Cap(n + 1, m) = IF n + 1 <= m THEN n + 1 ELSE m
    <3>1. n + 1 \in Int
      OBVIOUS
    <3> QED BY <3>1, CapOf
  <2> QED BY <2>1, <2>2 DEF Cap
<1>4. Read(tokens) = SubSeq(tokens, 1, IF n <= m THEN n ELSE m)
      /\ Read(longer) = SubSeq(longer, 1, IF n + 1 <= m THEN n + 1 ELSE m)
  BY <1>1, <1>2, <1>3 DEF Read
<1>5. \A k \in Nat : k <= n => /\ Len(SubSeq(tokens, 1, k)) = k /\ SubSeq(tokens, 1, k) \in Seq(V)
                               /\ \A i \in 1..k : SubSeq(tokens, 1, k)[i] = tokens[i]
  <2> SUFFICES ASSUME NEW k \in Nat, k <= n
               PROVE  /\ Len(SubSeq(tokens, 1, k)) = k /\ SubSeq(tokens, 1, k) \in Seq(V)
                      /\ \A i \in 1..k : SubSeq(tokens, 1, k)[i] = tokens[i]
    OBVIOUS
  <2>1. \A i \in 1..k : tokens[i] \in V /\ 1 + i - 1 = i
    BY <1>1, <1>2
  <2> QED BY <1>1, <1>2, <2>1, SubSeqProperties
<1>6. \A k \in Nat : k <= n + 1 => /\ Len(SubSeq(longer, 1, k)) = k /\ SubSeq(longer, 1, k) \in Seq(V)
                                   /\ \A i \in 1..k : SubSeq(longer, 1, k)[i] = longer[i]
  <2> SUFFICES ASSUME NEW k \in Nat, k <= n + 1
               PROVE  /\ Len(SubSeq(longer, 1, k)) = k /\ SubSeq(longer, 1, k) \in Seq(V)
                      /\ \A i \in 1..k : SubSeq(longer, 1, k)[i] = longer[i]
    OBVIOUS
  <2>1. \A i \in 1..k : longer[i] \in V /\ 1 + i - 1 = i
    BY <1>1, <1>2
  <2> QED BY <1>1, <1>2, <2>1, SubSeqProperties
<1>7. CASE n + 1 <= m
  <2>1. Read(tokens) = SubSeq(tokens, 1, n) /\ Read(longer) = SubSeq(longer, 1, n + 1)
    BY <1>4, <1>7
  <2>2. /\ Len(Read(tokens)) = n /\ Len(Read(longer)) = n + 1
        /\ \A i \in 1..n : Read(tokens)[i] = tokens[i]
        /\ \A i \in 1..(n + 1) : Read(longer)[i] = longer[i]
    BY <1>5, <1>6, <2>1
  <2>3. \A i \in 1..n : i \in 1..(n + 1)
    OBVIOUS
  <2>4. \A i \in 1..Len(Read(tokens)) : Read(longer)[i] = Read(tokens)[i]
    BY <1>1, <1>2, <2>2, <2>3
  <2> QED BY <1>1, <2>2, <2>4 DEF longer
<1>8. CASE ~ (n + 1 <= m)
  <2>1. Read(tokens) = SubSeq(tokens, 1, m) /\ Read(longer) = SubSeq(longer, 1, m) /\ m <= n
        /\ m <= n + 1
    BY <1>4, <1>8
  <2>2. /\ Len(Read(tokens)) = m /\ Len(Read(longer)) = m
        /\ Read(tokens) \in Seq(V) /\ Read(longer) \in Seq(V)
        /\ \A i \in 1..m : Read(tokens)[i] = tokens[i] /\ Read(longer)[i] = longer[i]
    BY <1>5, <1>6, <2>1
  <2>3. \A i \in 1..m : i \in 1..n
    BY <2>1
  <2>4. \A i \in 1..m : Read(longer)[i] = Read(tokens)[i]
    BY <1>1, <1>2, <2>2, <2>3
  <2>5. Read(longer) = Read(tokens)
    BY <2>2, <2>4, SeqEqual
  <2> QED BY <1>1, <2>2, <2>5 DEF longer
<1> QED BY <1>7, <1>8

(* A further token lowers no alignment.                                    *)
LEMMA AlignmentGrows ==
    ASSUME NEW V, NEW tokens \in Seq(V), NEW x \in V
    PROVE  Grows(SequenceAlignment(tokens), SequenceAlignment(Append(tokens, x)))
<1> USE AlignmentAssumption
<1> DEFINE longer == Append(tokens, x)
           f == [n \in Needles |-> Normalized(Read(tokens), n)]
           g == [n \in Needles |-> Normalized(Read(longer), n)]
           a == Top({f[n] : n \in Needles})
           b == Top({g[n] : n \in Needles})
<1>1. /\ Len(Read(tokens)) \in Nat /\ Len(longer) = Len(tokens) + 1 /\ Len(tokens) \in Nat
      /\ \/ Read(longer) = Read(tokens)
         \/ /\ Len(Read(longer)) = Len(Read(tokens)) + 1
            /\ \A i \in 1..Len(Read(tokens)) : Read(longer)[i] = Read(tokens)[i]
  BY ReadGrows
<1> HIDE DEF longer
<1>2. \A n \in Needles : Grows(Normalized(Read(tokens), n), Normalized(Read(longer), n))
  <2> SUFFICES ASSUME NEW n \in Needles
               PROVE  Grows(Normalized(Read(tokens), n), Normalized(Read(longer), n))
    OBVIOUS
  <2>1. CASE Read(longer) = Read(tokens)
    <3> DEFINE probe == Append(Read(tokens), x)
    <3>1. Read(tokens) \in Seq(V)
      <4>1. \A k \in Nat : k <= Len(tokens) => SubSeq(tokens, 1, k) \in Seq(V)
        <5> SUFFICES ASSUME NEW k \in Nat, k <= Len(tokens) PROVE SubSeq(tokens, 1, k) \in Seq(V)
          OBVIOUS
        <5>1. \A i \in 1..k : tokens[i] \in V
          BY <1>1, ElementOfSeq
        <5> QED BY <5>1, SubSeqProperties
      <4>2. Cap(Len(tokens), MaxTokens) \in Nat /\ Cap(Len(tokens), MaxTokens) <= Len(tokens)
        BY <1>1, CapOf
      <4> QED BY <4>1, <4>2 DEF Read, Cap
    <3>2. Len(probe) = Len(Read(tokens)) + 1 /\ \A i \in 1..Len(Read(tokens)) : probe[i] = Read(tokens)[i]
      BY <3>1, AppendProperties
    <3> HIDE DEF probe
    <3>3. Grows(Normalized(Read(tokens), n), Normalized(probe, n))
      BY <1>1, <3>2, NormalizedGrows
    <3> QED BY <2>1, <3>3 DEF Grows
  <2>2. CASE ~ (Read(longer) = Read(tokens))
    BY <1>1, <2>2, NormalizedGrows
  <2> QED BY <2>1, <2>2
<1>3. f \in [Needles -> Nat] /\ g \in [Needles -> Nat] /\ \A n \in Needles : f[n] <= g[n]
  BY <1>2 DEF Grows
<1>4. /\ Max({0} \cup {Normalized(Read(tokens), n) : n \in Needles}) = a
      /\ Max({0} \cup {Normalized(Read(longer), n) : n \in Needles}) = b
  <2>1. /\ {0} \cup {Normalized(Read(tokens), n) : n \in Needles} = {f[n] : n \in Needles} \cup {0}
        /\ {0} \cup {Normalized(Read(longer), n) : n \in Needles} = {g[n] : n \in Needles} \cup {0}
    OBVIOUS
  <2> QED BY <2>1 DEF Top
<1> HIDE DEF f, g
<1>5. Grows(a, b)
  BY <1>3, TopOfEachGrows, SMTT(30)
<1>6. /\ SequenceAlignment(tokens) = IF Len(tokens) < MinTokens \/ a <= 630 THEN 0
                                     ELSE 60 + (40 * (a - 630)) \div 370
      /\ SequenceAlignment(longer) = IF Len(longer) < MinTokens \/ b <= 630 THEN 0
                                     ELSE 60 + (40 * (b - 630)) \div 370
  <2> HIDE DEF a, b
  <2> QED BY <1>4 DEF SequenceAlignment, Read
<1> HIDE DEF a, b
<1>7. \A k, l \in Nat : k > 630 /\ k <= l => Grows((40 * (k - 630)) \div 370, (40 * (l - 630)) \div 370)
  <2> SUFFICES ASSUME NEW k \in Nat, NEW l \in Nat, k > 630, k <= l
               PROVE  Grows((40 * (k - 630)) \div 370, (40 * (l - 630)) \div 370)
    OBVIOUS
  <2>1. PICK u \in Nat, v \in Nat : u = 40 * (k - 630) /\ v = 40 * (l - 630)
    OBVIOUS
  <2>2. u <= v
    BY <2>1
  <2>3. 370 \in Nat \ {0}
    OBVIOUS
  <2>4. Grows(u \div 370, v \div 370)
    BY <2>2, <2>3, DivGrows, Zenon
  <2> QED BY <2>1, <2>4
<1>8. SequenceAlignment(longer) \in Nat
  <2>1. CASE b > 630
    <3>1. (40 * (b - 630)) \div 370 \in Nat
      BY <1>5, <1>7, <2>1 DEF Grows
    <3> QED BY <1>6, <3>1
  <2>2. CASE ~ (b > 630)
    BY <1>5, <1>6, <2>2 DEF Grows
  <2> QED BY <2>1, <2>2
<1>9. CASE Len(tokens) < MinTokens \/ a <= 630
  BY <1>6, <1>8, <1>9 DEF Grows, longer
<1>10. CASE ~ (Len(tokens) < MinTokens \/ a <= 630)
  <2>1. a > 630 /\ a <= b /\ a \in Nat /\ b \in Nat /\ ~ (Len(longer) < MinTokens \/ b <= 630)
    BY <1>1, <1>5, <1>10 DEF Grows, MinTokens
  <2>2. Grows((40 * (a - 630)) \div 370, (40 * (b - 630)) \div 370)
    BY <1>7, <2>1
  <2>3. PICK p \in Nat, q \in Nat : p = (40 * (a - 630)) \div 370 /\ q = (40 * (b - 630)) \div 370
    BY <2>2 DEF Grows
  <2>4. p <= q
    BY <2>2, <2>3 DEF Grows
  <2>5. SequenceAlignment(tokens) = 60 + p /\ SequenceAlignment(longer) = 60 + q
    BY <1>6, <1>10, <2>1, <2>3
  <2> QED BY <2>4, <2>5 DEF Grows, longer
<1> QED BY <1>9, <1>10
-----------------------------------------------------------------------------
(***************************************************************************)
(* The behaviours.                                                         *)
(***************************************************************************)
LEMMA SoundInit == AnalysisInit => Sound
<1> SUFFICES ASSUME AnalysisInit PROVE Sound
  OBVIOUS
<1>1. bench \in Benches /\ text = [p \in bench.pieces |-> 0] /\ list = <<>>
      /\ verdict = Assessed(text, list) /\ CampaignInit
  BY DEF AnalysisInit
<1>2. text \in [bench.pieces -> Nat] /\ list \in Seq(Vocabulary)
  BY <1>1, EmptySeq
<1>3. Books(campaign)
  <2>1. 0 < Budget + MaxCost
    BY CampaignAssumption
  <2> QED BY <1>1, <2>1, FreshBooks DEF CampaignInit
<1> QED BY <1>1, <1>2, <1>3 DEF Sound

LEMMA SoundNext == Sound /\ [AnalysisNext]_analysed => Sound'
<1> SUFFICES ASSUME Sound, [AnalysisNext]_analysed PROVE Sound'
  OBVIOUS
<1>1. /\ bench \in Benches /\ (bench.kind \in {"text", "answer"} => text \in [bench.pieces -> Nat])
      /\ (bench.kind = "tokens" => list \in Seq(Vocabulary))
      /\ (bench.kind = "campaign" => Books(campaign)) /\ verdict = Assessed(text, list)
  BY DEF Sound
<1>2. CASE AddPiece
  <2>1. PICK p \in bench.pieces, readings \in Readings(bench.pieces) :
            text' = Added(text, p, readings) /\ verdict' = Assessed(Added(text, p, readings), list)
    BY <1>2 DEF AddPiece
  <2>2. bench.kind \in {"text", "answer"} /\ UNCHANGED <<bench, list, campaign>>
    BY <1>2 DEF AddPiece
  <2>3. text' \in [bench.pieces -> Nat]
    BY <1>1, <2>1, <2>2 DEF Added
  <2>4. verdict' = Assessed(text, list)'
    BY <2>1, <2>2 DEF Assessed
  <2> QED BY <1>1, <2>2, <2>3, <2>4 DEF Sound
<1>3. ASSUME NEW S, Append1(S), bench.kind \notin {"text", "answer", "campaign"},
             bench.kind = "tokens" => S = Vocabulary
      PROVE  Sound'
  <2>1. PICK x \in S : list' = Append(list, x) /\ verdict' = Assessed(text, Append(list, x))
    BY <1>3 DEF Append1
  <2>2. UNCHANGED <<bench, text, campaign>>
    BY <1>3 DEF Append1
  <2>3. bench.kind = "tokens" => list' \in Seq(Vocabulary)
    BY <1>1, <1>3, <2>1, AppendProperties
  <2>4. verdict' = Assessed(text, list)'
    BY <2>1, <2>2 DEF Assessed
  <2> QED BY <1>1, <1>3, <2>2, <2>3, <2>4 DEF Sound
<1>4. CASE AddToken \/ AddSpan \/ AddWord \/ AddCharacter \/ AddSymbol
  BY <1>3, <1>4 DEF AddToken, AddSpan, AddWord, AddCharacter, AddSymbol
<1>5. CASE RunCampaign
  <2>1. bench.kind = "campaign" /\ Campaign /\ UNCHANGED <<bench, text, list, verdict>>
    BY <1>5 DEF RunCampaign
  <2>2. Books(campaign')
    BY <1>1, <2>1, CampaignKeepsBooks
  <2>3. verdict' = Assessed(text, list)'
    BY <1>1, <2>1 DEF Assessed
  <2> QED BY <1>1, <2>1, <2>2, <2>3 DEF Sound
<1>6. CASE UNCHANGED analysed
  <2>1. UNCHANGED <<bench, text, list, verdict, campaign>>
    BY <1>6 DEF analysed
  <2>2. verdict' = Assessed(text, list)'
    BY <1>1, <2>1 DEF Assessed
  <2> QED BY <1>1, <2>1, <2>2 DEF Sound
<1> QED BY <1>2, <1>4, <1>5, <1>6 DEF AnalysisNext

LEMMA SoundHolds == Analysis => []Sound
BY SoundInit, SoundNext, PTL DEF Analysis

LEMMA BooksTrue == Sound => ReportTrue
<1> SUFFICES ASSUME Sound, bench.kind = "campaign" PROVE ReportTrue
  BY Zenon DEF ReportTrue
<1>1. \A S : Bypassed(S) = Of(campaign.results, S)
  BY DEF Bypassed, Of
<1>2. Books(campaign)
  BY DEF Sound
<1>3. \A c \in Names : campaign.tally[c] = Cardinality(Bypassed({c}))
  <2> SUFFICES ASSUME NEW c \in Names PROVE campaign.tally[c] = Cardinality(Bypassed({c}))
    OBVIOUS
  <2>1. campaign.tally[c] = Cardinality(Of(campaign.results, {c}))
    BY <1>2 DEF Books
  <2>2. Bypassed({c}) = Of(campaign.results, {c})
    BY <1>1
  <2> QED BY <2>1, <2>2
<1>4. Len(campaign.previous) = Cap(Cardinality(Bypassed(Names)), Kept)
  BY <1>1, <1>2, Zenon DEF Books
<1>5. campaign.used < Budget + MaxCost
  BY <1>2, Zenon DEF Books
<1> QED BY <1>3, <1>4, <1>5 DEF ReportTrue

(* However a runner is run, with whatever categories, budget and prompts,  *)
(* its report is true: it counts each bypass for its own category, the     *)
(* prompts that follow are inspired by the last bypasses, as many as are   *)
(* kept, and all runs together go over the budget by less than one call    *)
(* (redteam/runner.py: run, _test_prompt).                                 *)
THEOREM ReportsAreTrue == Analysis => []ReportTrue
BY SoundHolds, BooksTrue, PTL

(* One piece more of something that does not distract.                     *)
LEMMA PieceGrows ==
    ASSUME Sound, AddPiece, ~ Distracted PROVE More(text, text')
<1>1. PICK p \in bench.pieces \ Measures(bench.pieces), readings \in Readings(bench.pieces) :
        text' = Added(text, p, readings)
  BY DEF AddPiece
<1>2. bench \in Benches /\ bench.kind \in {"text", "answer"} /\ text \in [bench.pieces -> Nat]
  BY DEF AddPiece, Sound
<1>3. IsFiniteSet(bench.pieces) /\ \A q \in bench.pieces : q[1] \in Measured => q[2] \in Nat
  BY <1>2, BenchAssumption
<1>4. text'[p] = text[p] + 1 /\ text[p] \in Nat
  BY <1>1, <1>2 DEF Added, Measures
<1>5. ~ Distracts(p) /\ \A kind \in Measured : ~ (Reading(text', kind) < Reading(text, kind))
  BY <1>4 DEF Distracted
<1>6. p[1] \notin Distractions /\ p[1] # "question" /\ ~ (p[1] = "pivot" /\ ManyShot(text) = 100)
  BY <1>5 DEF Distracts, Distractions
<1>7. /\ text' \in [bench.pieces -> Nat]
      /\ \A q \in bench.pieces : q[1] \notin Measured =>
            text[q] \in Nat /\ text'[q] = IF q = p THEN text[q] + 1 ELSE text[q]
  BY <1>1, <1>2, <1>6 DEF Added
<1>8. \A q \in bench.pieces : q[1] \notin Measured =>
        text[q] <= text'[q] /\ (q # p => text[q] = text'[q])
  BY <1>7
<1>9. Bag(text) /\ Bag(text') /\ DOMAIN text = bench.pieces /\ DOMAIN text' = bench.pieces
  BY <1>2, <1>3, <1>7 DEF Bag
<1>10. \A kind \in Measured : Reading(text, kind) <= Reading(text', kind)
  <2>1. ASSUME NEW z, Bag(z), NEW kind \in Measured PROVE Reading(z, kind) \in Nat
    BY <2>1, ReadingIsNumber
  <2> QED BY <1>5, <1>9, <2>1
<1> QED BY <1>6, <1>8, <1>9, <1>10 DEF More

LEMMA AssessedGrows ==
    ASSUME Sound, AnalysisNext, ~ Distracted
    PROVE  Kinder(verdict, verdict')
<1>1. bench \in Benches /\ verdict = Assessed(text, list)
  BY DEF Sound
<1>2. CASE AddPiece
  <2>1. More(text, text') /\ bench.kind \in {"text", "answer"} /\ verdict' = Assessed(text', list)
    BY <1>2, PieceGrows DEF AddPiece
  <2>2. CASE bench.kind = "text"
    <3>1. verdict = Verdict(text) /\ verdict' = Verdict(text')
      BY <1>1, <2>1, <2>2 DEF Assessed
    <3> QED BY <2>1, <3>1, VerdictGrows DEF Kinder
  <2>3. CASE bench.kind = "answer"
    <3> DEFINE Risk(x) == OutputRisk(bench.names, bench.broken, x, bench.vader)
    <3>1. /\ verdict = [Unseen EXCEPT !.risk = Risk(text)]
          /\ verdict' = [Unseen EXCEPT !.risk = Risk(text')]
      BY <1>1, <2>1, <2>3 DEF Assessed
    <3>2. Grows(Risk(text), Risk(text'))
      BY <2>1, OutputRiskGrows
    <3> HIDE DEF Risk
    <3> QED BY <3>1, <3>2 DEF Unseen, Kinder, Grows
  <2> QED BY <2>1, <2>2, <2>3
<1>3. CASE AddToken
  <2>1. PICK x \in Vocabulary : verdict' = Assessed(text, Append(list, x))
    BY <1>3 DEF AddToken, Append1
  <2>2. bench.kind = "tokens" /\ list \in Seq(Vocabulary)
    BY <1>3 DEF AddToken, Sound
  <2> DEFINE Risk(tokens) == IF SequenceAlignment(tokens) >= 63 THEN SequenceAlignment(tokens) ELSE 0
  <2>3. /\ verdict = [Unseen EXCEPT !.risk = Risk(list)]
        /\ verdict' = [Unseen EXCEPT !.risk = Risk(Append(list, x))]
    BY <1>1, <2>1, <2>2 DEF Assessed
  <2>4. Grows(SequenceAlignment(list), SequenceAlignment(Append(list, x)))
    BY <2>2, AlignmentGrows
  <2>5. Grows(Risk(list), Risk(Append(list, x)))
    BY <2>4 DEF Grows
  <2> HIDE DEF Risk
  <2> QED BY <2>3, <2>5 DEF Unseen, Kinder, Grows
<1>4. ASSUME NEW S, Append1(S), bench.kind \notin {"text", "answer", "tokens"}
      PROVE  Kinder(verdict, verdict')
  <2>1. \E x \in S : verdict' = Assessed(text, Append(list, x))
    BY <1>4 DEF Append1
  <2>2. verdict = Unseen /\ verdict' = Unseen
    BY <1>1, <1>4, <2>1 DEF Assessed
  <2> QED BY <2>2 DEF Unseen, Kinder, Grows
<1>5. CASE AddSpan \/ AddWord \/ AddCharacter \/ AddSymbol
  BY <1>4, <1>5 DEF AddSpan, AddWord, AddCharacter, AddSymbol
<1>6. CASE RunCampaign
  <2>1. verdict = Unseen /\ verdict' = Unseen
    BY <1>1, <1>6 DEF RunCampaign, Assessed
  <2> QED BY <2>1 DEF Unseen, Kinder, Grows
<1> QED BY <1>2, <1>3, <1>5, <1>6 DEF AnalysisNext

(* Nobody makes a text, an answer or a list of tokens look better by       *)
(* adding evidence to it, but for the distractions: the engine's risk and  *)
(* the severity that decides its action do not fall (engine.py: scan, and  *)
(* how each of the detectors weighs what it finds), no family of attack is *)
(* taken back (tool_guard/_taxonomy.py: classify), neither the risk of the *)
(* output scanners nor the confidence of the alignment falls.              *)
THEOREM RiskIsKept == Analysis => RiskNeverFalls
<1> DEFINE Better == /\ verdict'.risk >= verdict.risk /\ verdict'.worst >= verdict.worst
                     /\ verdict.families \ {"unclassified"} \subseteq verdict'.families
<1>1. ASSUME Sound, [AnalysisNext]_analysed PROVE [~ Distracted => Better]_analysed
  <2> SUFFICES ASSUME AnalysisNext, ~ Distracted PROVE Better
    BY <1>1
  <2>1. Kinder(verdict, verdict')
    BY <1>1, AssessedGrows
  <2> QED BY <2>1 DEF Kinder, Grows
<1> QED BY <1>1, SoundHolds, PTL DEF Analysis, RiskNeverFalls
-----------------------------------------------------------------------------
(***************************************************************************)
(* Loops over a list, which the model writes as folds.                     *)
(***************************************************************************)
LEMMA MaxUpTo ==
    ASSUME NEW n \in Nat, NEW s, s \subseteq 1..n, s # {}
    PROVE  Max(s) \in s /\ \A i \in s : i <= Max(s)
<1>1. 1 \in Int /\ n \in Int
  OBVIOUS
<1>2. IsFiniteSet(1..n)
  BY <1>1, FS_Interval, Zenon
<1>3. IsFiniteSet(s)
  BY <1>2, FS_Subset, Zenon
<1>4. s \in SUBSET Int
  OBVIOUS
<1> QED BY <1>3, <1>4, MaxOf, Zenon

LEMMA PartsExist ==
    ASSUME NEW n, NEW V, NEW base, NEW next, Loop(n, V, base, next)
    PROVE  \E h \in [SUBSET (1..n) -> V] : Parts(h, n, base, next)
<1> USE DEF Loop
<1> DEFINE S == SUBSET (1..n)
           W == [S -> V]
           first == [s \in S |-> base]
           Step(k, h) == [s \in S |-> IF s \subseteq 1..k /\ k \in s THEN next[k][h[s \ {k}]] ELSE h[s]]
           more == [k \in 1..n |-> [h \in W |-> Step(k, h)]]
<1>1. first \in W
  OBVIOUS
<1>2. more \in [1..n -> [W -> W]]
  <2> SUFFICES ASSUME NEW k \in 1..n, NEW h \in W PROVE Step(k, h) \in W
    BY ZenonT(30)
  <2> SUFFICES ASSUME NEW s \in S
               PROVE  (IF s \subseteq 1..k /\ k \in s THEN next[k][h[s \ {k}]] ELSE h[s]) \in V
    OBVIOUS
  <2>1. s \ {k} \in S /\ h[s \ {k}] \in V /\ h[s] \in V
    OBVIOUS
  <2> QED BY <2>1
<1>3. PICK f \in [0..n -> W] : f[0] = first /\ \A k \in 1..n : f[k] = more[k][f[k - 1]]
  <2> HIDE DEF W, first, more
  <2>1. \E f \in [0..n -> W] : Follows(f, n, first, more)
    BY <1>1, <1>2, Recursion
  <2> QED BY <2>1 DEF Follows
<1>4. \A k \in 1..n : f[k] = Step(k, f[k - 1])
  <2> SUFFICES ASSUME NEW k \in 1..n PROVE f[k] = Step(k, f[k - 1])
    OBVIOUS
  <2>1. f[k - 1] \in W
    BY <1>3
  <2> HIDE DEF W
  <2> QED BY <1>3, <2>1
<1>5. \A s \in S, k \in 1..n : f[k][s] = IF s \subseteq 1..k /\ k \in s THEN next[k][f[k - 1][s \ {k}]]
                                         ELSE f[k - 1][s]
  <2> SUFFICES ASSUME NEW s \in S, NEW k \in 1..n
               PROVE  f[k][s] = IF s \subseteq 1..k /\ k \in s THEN next[k][f[k - 1][s \ {k}]]
                                ELSE f[k - 1][s]
    OBVIOUS
  <2>1. f[k] = Step(k, f[k - 1])
    BY <1>4
  <2>2. Step(k, f[k - 1])[s] = IF s \subseteq 1..k /\ k \in s THEN next[k][f[k - 1][s \ {k}]]
                               ELSE f[k - 1][s]
    OBVIOUS
  <2> QED BY <2>1, <2>2
<1>6. \A j \in 0..n : \A s \in SUBSET (1..j) : f[n][s] = f[j][s]
  <2> SUFFICES ASSUME NEW j \in 0..n, NEW s \in SUBSET (1..j) PROVE f[n][s] = f[j][s]
    OBVIOUS
  <2> DEFINE Bad == {k \in j..n : f[k][s] # f[j][s]}
  <2>1. SUFFICES ASSUME Bad # {} PROVE FALSE
    <3>1. n \in j..n
      OBVIOUS
    <3> QED BY <2>1, <3>1
  <2>2. PICK k \in Bad : \A i \in Bad : k <= i
    <3>1. Bad \subseteq Nat
      OBVIOUS
    <3> QED BY <2>1, <3>1, LeastElement
  <2>3. k # j /\ k \in 1..n /\ k - 1 \in j..n /\ k - 1 \notin Bad /\ s \in S /\ k \notin s
    BY <2>2
  <2> QED BY <1>5, <2>2, <2>3
<1>7. ASSUME NEW s \in S, s # {}
      PROVE  f[n][s] = next[Max(s)][f[n][s \ {Max(s)}]]
  <2>1. PICK m \in s : m = Max(s) /\ \A i \in s : i <= m
    BY <1>7, MaxUpTo
  <2>2. m \in 1..n /\ m \in 0..n /\ m - 1 \in 0..n
    OBVIOUS
  <2>6. \A i \in s : i \in 1..n /\ i <= m
    BY <2>1
  <2>7. s \subseteq 1..m /\ s \ {m} \subseteq 1..(m - 1)
    BY <2>2, <2>6
  <2>3. f[n][s] = f[m][s]
    BY <1>6, <2>2, <2>7
  <2>4. f[n][s \ {m}] = f[m - 1][s \ {m}]
    BY <1>6, <2>2, <2>7
  <2>5. f[m][s] = next[m][f[m - 1][s \ {m}]]
    BY <1>5, <2>2, <2>7
  <2> QED BY <2>1, <2>3, <2>4, <2>5
<1>8. f[n] \in W /\ f[n][{}] = base
  <2>1. n \in 0..n /\ 0 \in 0..n /\ {} \in SUBSET (1..0) /\ {} \in S
    OBVIOUS
  <2>2. f[n][{}] = f[0][{}]
    BY <1>6, <2>1
  <2>3. f[n] \in W
    BY <1>3, <2>1
  <2> QED BY <1>3, <2>1, <2>2, <2>3
<1> QED BY <1>7, <1>8 DEF Parts

LEMMA UpTo ==
    ASSUME NEW n \in Nat
    PROVE  /\ 1..0 = {} /\ {} \in SUBSET (1..n)
           /\ \A k \in 1..n : /\ 1..k \in SUBSET (1..n) /\ 1..k # {} /\ (1..k) \ {k} = 1..(k - 1)
                              /\ Max(1..k) = k
<1>1. 1..0 = {} /\ {} \in SUBSET (1..n)
  OBVIOUS
<1>2. ASSUME NEW k \in 1..n
      PROVE  /\ 1..k \in SUBSET (1..n) /\ 1..k # {} /\ (1..k) \ {k} = 1..(k - 1)
             /\ Max(1..k) = k
  <2>1. 1..k \in SUBSET (1..n) /\ 1..k # {} /\ (1..k) \ {k} = 1..(k - 1)
    OBVIOUS
  <2>2. Max(1..k) \in 1..k /\ \A i \in 1..k : i <= Max(1..k)
    BY <2>1, MaxUpTo
  <2> QED BY <2>1, <2>2
<1> QED BY <1>1, <1>2

LEMMA Folded ==
    ASSUME NEW n, NEW V, NEW base, NEW next, Loop(n, V, base, next),
           NEW iter, Folds(iter, n, V, base, next)
    PROVE  \E f \in [0..n -> V] : Follows(f, n, base, next) /\ f[n] = iter[1..n]
<1> USE DEF Loop
<1>1. PICK f \in [0..n -> V] : f[0] = base /\ \A k \in 1..n : f[k] = next[k][f[k - 1]]
  <2>1. \E f \in [0..n -> V] : Follows(f, n, base, next)
    BY Recursion
  <2> QED BY <2>1 DEF Follows
<1>2. \A k \in 0..n : f[k] = iter[1..k]
  <2> DEFINE Bad == {k \in 0..n : f[k] # iter[1..k]}
  <2>1. SUFFICES ASSUME Bad # {} PROVE FALSE
    BY <2>1
  <2>2. PICK k \in Bad : \A i \in Bad : k <= i
    <3>1. Bad \subseteq Nat
      OBVIOUS
    <3> QED BY <2>1, <3>1, LeastElement
  <2>3. k # 0
    BY <1>1, <2>2, UpTo DEF Folds
  <2>4. k \in 1..n /\ k - 1 \in 0..n /\ k - 1 \notin Bad
    BY <2>2, <2>3
  <2>5. /\ 1..k \in SUBSET (1..n) /\ 1..k # {} /\ (1..k) \ {k} = 1..(k - 1)
        /\ Max(1..k) = k
    BY <2>4, UpTo
  <2>6. f[k - 1] = iter[1..(k - 1)] /\ f[k - 1] \in V
    BY <2>4
  <2>7. iter[1..k] = next[k][iter[1..(k - 1)]]
    BY <2>5, <2>6 DEF Folds
  <2> QED BY <1>1, <2>2, <2>4, <2>6, <2>7
<1> QED BY <1>1, <1>2 DEF Follows

LEMMA SpliceOf ==
    ASSUME NEW E, NEW t \in Seq(E), NEW p \in Seq(E), NEW s \in Spans
    PROVE  /\ Splice(t, s, p) \in Seq(E)
           /\ s.start <= Len(t) => Spliced(Splice(t, s, p), t, s, p)
<1> DEFINE a == s.start
           b == s.end
           m == Min({a, Len(t)})
           front == SubSeq(t, 1, m)
           back == SubSeq(t, b + 1, Len(t))
           r == (front \o p) \o back
<1>1. a \in Nat /\ b \in Nat /\ a < b
  BY SpanAssumption
<1>2. Len(t) \in Nat /\ Len(p) \in Nat /\ t \in [1..Len(t) -> E] /\ p \in [1..Len(p) -> E]
  BY LenProperties
<1>3. m \in Nat /\ m <= Len(t) /\ (a <= Len(t) => m = a)
  <2>1. Cap(a, Len(t)) = IF a <= Len(t) THEN a ELSE Len(t)
    BY <1>1, <1>2, CapOf
  <2> QED BY <1>1, <1>2, <2>1 DEF Cap
<1> HIDE DEF m
<1>4. front \in Seq(E) /\ Len(front) = m /\ \A i \in 1..m : front[i] = t[i]
  <2>1. 1 \in Int /\ m \in Int /\ \A i \in 1..m : t[i] \in E
    BY <1>2, <1>3
  <2>2. /\ front \in Seq(E) /\ Len(front) = (IF 1 <= m THEN m - 1 + 1 ELSE 0)
        /\ \A i \in 1..(m - 1 + 1) : front[i] = t[1 + i - 1]
    BY <2>1, SubSeqProperties
  <2> HIDE DEF front
  <2>3. m - 1 + 1 = m /\ \A i \in 1..m : 1 + i - 1 = i
    BY <1>3
  <2> QED BY <1>3, <2>2, <2>3
<1>5. /\ back \in Seq(E) /\ Len(back) = (IF b + 1 <= Len(t) THEN Len(t) - b ELSE 0)
      /\ \A i \in 1..Len(back) : back[i] = t[b + i] /\ b + i \in (b + 1)..Len(t)
  <2>1. b + 1 \in Int /\ Len(t) \in Int /\ \A i \in (b + 1)..Len(t) : t[i] \in E
    BY <1>1, <1>2
  <2>2. /\ back \in Seq(E) /\ Len(back) = (IF b + 1 <= Len(t) THEN Len(t) - (b + 1) + 1 ELSE 0)
        /\ \A i \in 1..(Len(t) - (b + 1) + 1) : back[i] = t[b + 1 + i - 1]
    BY <2>1, SubSeqProperties
  <2> HIDE DEF back
  <2>3. Len(back) = (IF b + 1 <= Len(t) THEN Len(t) - b ELSE 0)
    BY <1>1, <1>2, <2>2
  <2>4. ASSUME NEW i \in 1..Len(back) PROVE back[i] = t[b + i] /\ b + i \in (b + 1)..Len(t)
    <3>1. i \in 1..(Len(t) - (b + 1) + 1) /\ b + 1 + i - 1 = b + i
      BY <1>1, <1>2, <2>3, SMTT(30)
    <3> QED BY <1>1, <1>2, <2>2, <2>3, <3>1, SMTT(30)
  <2> QED BY <2>2, <2>3, <2>4
<1> HIDE DEF front, back
<1>6. /\ front \o p \in Seq(E) /\ Len(front \o p) = m + Len(p)
      /\ \A i \in 1..(m + Len(p)) : (front \o p)[i] = IF i <= m THEN front[i] ELSE p[i - m]
  BY <1>4, ConcatProperties
<1>7. /\ r \in Seq(E) /\ Len(r) = m + Len(p) + Len(back)
      /\ \A i \in 1..(m + Len(p) + Len(back)) :
            r[i] = IF i <= m + Len(p) THEN (front \o p)[i] ELSE back[i - (m + Len(p))]
  <2> DEFINE q == front \o p
  <2>1. q \in Seq(E) /\ Len(q) = m + Len(p)
    BY <1>6
  <2> HIDE DEF q
  <2>2. /\ q \o back \in Seq(E) /\ Len(q \o back) = Len(q) + Len(back)
        /\ \A i \in 1..(Len(q) + Len(back)) :
              (q \o back)[i] = IF i <= Len(q) THEN q[i] ELSE back[i - Len(q)]
    <3>1. q \in Seq(E) /\ back \in Seq(E)
      BY <1>5, <2>1
    <3> QED BY <3>1, ConcatProperties, SMTT(30)
  <2> QED BY <2>1, <2>2 DEF q
<1>8. Splice(t, s, p) = r
  BY DEF Splice, front, back, m
<1>9. Len(back) \in Nat
  BY <1>1, <1>2, <1>5
<1> HIDE DEF r
<1>10. ASSUME a <= Len(t)
       PROVE  /\ Len(r) >= a
              /\ \A i \in 1..a : r[i] = t[i]
              /\ \A i \in (a + 1)..Len(r) : \/ \E j \in 1..Len(p) : r[i] = p[j]
                                            \/ \E j \in (b + 1)..Len(t) : r[i] = t[j]
  <2>1. m = a
    BY <1>3, <1>10
  <2>2. Len(r) >= a
    BY <1>1, <1>2, <1>7, <1>9, <2>1
  <2>3. ASSUME NEW i \in 1..a PROVE r[i] = t[i]
    <3>1. i \in 1..(m + Len(p) + Len(back)) /\ i \in 1..(m + Len(p)) /\ i <= m /\ i <= m + Len(p) /\ i \in 1..m
      BY <1>1, <1>2, <1>9, <2>1
    <3> QED BY <1>4, <1>6, <1>7, <3>1
  <2>4. ASSUME NEW i \in (a + 1)..Len(r)
        PROVE  \/ \E j \in 1..Len(p) : r[i] = p[j]
               \/ \E j \in (b + 1)..Len(t) : r[i] = t[j]
    <3>1. i \in 1..(m + Len(p) + Len(back)) /\ ~ (i <= m)
      BY <1>1, <1>2, <1>7, <1>9, <2>1
    <3>2. CASE i <= m + Len(p)
      <4>1. i \in 1..(m + Len(p)) /\ i - m \in 1..Len(p)
        BY <1>1, <1>2, <2>1, <3>1, <3>2
      <4>2. r[i] = p[i - m]
        BY <1>6, <1>7, <3>1, <3>2, <4>1
      <4> QED BY <4>1, <4>2
    <3>3. CASE ~ (i <= m + Len(p))
      <4>1. i - (m + Len(p)) \in 1..Len(back)
        BY <1>1, <1>2, <1>9, <2>1, <3>1, <3>3
      <4>2. r[i] = back[i - (m + Len(p))]
        BY <1>7, <3>1, <3>3
      <4> QED BY <1>5, <4>1, <4>2
    <3> QED BY <3>2, <3>3
  <2> QED BY <2>2, <2>3, <2>4
<1> QED BY <1>7, <1>8, <1>10 DEF Spliced

(* All of them: the rounds of the loop.                                    *)
LEMMA SplicesOf ==
    ASSUME NEW E, NEW t \in Seq(E), NEW p \in Seq(E), NEW spans \in Seq(Spans)
    PROVE  \E f \in [0..Len(spans) -> Seq(E)] :
             /\ f[0] = t /\ \A k \in 1..Len(spans) : f[k] = Splice(f[k - 1], spans[k], p)
             /\ Splices(t, spans, p) = f[Len(spans)]
<1> DEFINE n == Len(spans)
           V == Seq(E)
           next == [k \in 1..n |-> [v \in V |-> Splice(v, spans[k], p)]]
           P(g) == g = [s \in SUBSET (DOMAIN spans) |->
                          IF s = {} THEN t ELSE Splice(g[s \ {Max(s)}], spans[Max(s)], p)]
           iter == CHOOSE g : P(g)
<1>1. n \in Nat /\ DOMAIN spans = 1..n /\ \A k \in 1..n : spans[k] \in Spans
  BY LenProperties, ElementOfSeq
<1>2. Loop(n, V, t, next)
  <2>1. \A k \in 1..n, v \in V : Splice(v, spans[k], p) \in V
    BY <1>1, SpliceOf
  <2> QED BY <1>1, <2>1 DEF Loop
<1> HIDE DEF n
<1>3. PICK h \in [SUBSET (1..n) -> V] : Parts(h, n, t, next)
  <2> HIDE DEF next, V
  <2> QED BY <1>2, PartsExist
<1>4. ASSUME NEW s \in SUBSET (1..n), s # {}
      PROVE  Max(s) \in 1..n /\ h[s \ {Max(s)}] \in V /\ h[s] = Splice(h[s \ {Max(s)}], spans[Max(s)], p)
  <2>1. Max(s) \in 1..n
    BY <1>1, <1>4, MaxUpTo
  <2>2. s \ {Max(s)} \in SUBSET (1..n)
    OBVIOUS
  <2>3. h[s \ {Max(s)}] \in V
    BY <1>3, <2>2
  <2>4. h[s] = next[Max(s)][h[s \ {Max(s)}]]
    BY <1>3, <1>4 DEF Parts
  <2> HIDE DEF V
  <2> QED BY <2>1, <2>3, <2>4
<1>5. P(h)
  <2>1. h[{}] = t
    BY <1>3 DEF Parts
  <2>2. \A s \in SUBSET (1..n) : h[s] = IF s = {} THEN t ELSE Splice(h[s \ {Max(s)}], spans[Max(s)], p)
    BY <1>4, <2>1
  <2> HIDE DEF V
  <2> QED BY <1>1, <1>3, <2>2
<1>6. P(iter)
  BY <1>5
<1>7. Splices(t, spans, p) = iter[1..n]
  BY <1>1 DEF Splices, FoldLeft, MapThenFoldSet
<1> HIDE DEF iter
<1>8. Folds(iter, n, V, t, next)
  <2>1. iter[{}] = t
    BY <1>1, <1>6, UpTo
  <2>2. ASSUME NEW s \in SUBSET (1..n), s # {}, iter[s \ {Max(s)}] \in V
        PROVE  iter[s] = next[Max(s)][iter[s \ {Max(s)}]]
    <3>1. iter[s] = Splice(iter[s \ {Max(s)}], spans[Max(s)], p)
      BY <1>1, <1>6, <2>2
    <3>2. Max(s) \in 1..n
      BY <1>4, <2>2
    <3> HIDE DEF V
    <3> QED BY <2>2, <3>1, <3>2
  <2> QED BY <2>1, <2>2 DEF Folds
<1>9. PICK f \in [0..n -> V] : /\ f[0] = t /\ \A k \in 1..n : f[k] = next[k][f[k - 1]]
                               /\ f[n] = iter[1..n]
  <2> HIDE DEF next, V
  <2>1. \E f \in [0..n -> V] : Follows(f, n, t, next) /\ f[n] = iter[1..n]
    BY <1>2, <1>8, Folded
  <2> QED BY <2>1 DEF Follows
<1>10. ASSUME NEW k \in 1..n PROVE f[k] = Splice(f[k - 1], spans[k], p)
  <2>1. f[k - 1] \in V
    <3> HIDE DEF V, next
    <3>1. k - 1 \in 0..n
      BY <1>1
    <3> QED BY <1>9, <3>1
  <2> HIDE DEF V
  <2> QED BY <1>9, <2>1
<1> HIDE DEF V
<1> QED BY <1>7, <1>9, <1>10 DEF V, n

(* The loop of redact(), over the sorted matches.                          *)
LEMMA KeptForwardOf ==
    ASSUME NEW spans, NEW q \in Seq(Spans), q = Upward(spans)
    PROVE  \E f \in [0..Len(q) -> Seq(Spans)] :
             /\ f[0] = <<>>
             /\ \A k \in 1..Len(q) :
                  f[k] = (IF f[k - 1] # <<>> /\ q[k].start < Last(f[k - 1]).end THEN f[k - 1] ELSE Append(f[k - 1], q[k]))
             /\ KeptForward(spans) = f[Len(q)]
<1> DEFINE n == Len(q)
           V == Seq(Spans)
           Op(v, e) == (IF v # <<>> /\ e.start < Last(v).end THEN v ELSE Append(v, e))
           next == [k \in 1..n |-> [v \in V |-> Op(v, q[k])]]
           P(g) == g = [s \in SUBSET (DOMAIN q) |->
                          IF s = {} THEN <<>> ELSE Op(g[s \ {Max(s)}], q[Max(s)])]
           iter == CHOOSE g : P(g)
<1>1. n \in Nat /\ DOMAIN q = 1..n /\ \A k \in 1..n : q[k] \in Spans
  BY LenProperties, ElementOfSeq
<1>2. Loop(n, V, <<>>, next)
  <2>1. \A k \in 1..n, v \in V : Op(v, q[k]) \in V
    BY <1>1, AppendProperties
  <2> HIDE DEF Op
  <2> QED BY <1>1, <2>1, EmptySeq DEF Loop
<1>7. KeptForward(spans) = iter[1..n]
  BY <1>1 DEF KeptForward, Upward, FoldLeft, MapThenFoldSet
<1> HIDE DEF n, Op
<1>3. PICK h \in [SUBSET (1..n) -> V] : Parts(h, n, <<>>, next)
  <2> HIDE DEF next, V
  <2> QED BY <1>2, PartsExist
<1>4. ASSUME NEW s \in SUBSET (1..n), s # {}
      PROVE  Max(s) \in 1..n /\ h[s] = Op(h[s \ {Max(s)}], q[Max(s)])
  <2>1. Max(s) \in 1..n
    BY <1>1, <1>4, MaxUpTo
  <2>2. h[s \ {Max(s)}] \in V
    BY <1>3
  <2>3. h[s] = next[Max(s)][h[s \ {Max(s)}]]
    BY <1>3, <1>4 DEF Parts
  <2> HIDE DEF V
  <2> QED BY <2>1, <2>2, <2>3
<1>5. P(h)
  <2>1. h[{}] = <<>>
    BY <1>3 DEF Parts
  <2>2. \A s \in SUBSET (1..n) : h[s] = IF s = {} THEN <<>> ELSE Op(h[s \ {Max(s)}], q[Max(s)])
    BY <1>4, <2>1
  <2> HIDE DEF V
  <2> QED BY <1>1, <1>3, <2>2
<1>6. P(iter)
  BY <1>5
<1> HIDE DEF iter
<1>8. Folds(iter, n, V, <<>>, next)
  <2>1. iter[{}] = <<>>
    BY <1>1, <1>6, UpTo
  <2>2. ASSUME NEW s \in SUBSET (1..n), s # {}, iter[s \ {Max(s)}] \in V
        PROVE  iter[s] = next[Max(s)][iter[s \ {Max(s)}]]
    <3>1. iter[s] = Op(iter[s \ {Max(s)}], q[Max(s)])
      BY <1>1, <1>6, <2>2
    <3>2. Max(s) \in 1..n
      BY <1>4, <2>2
    <3> HIDE DEF V
    <3> QED BY <2>2, <3>1, <3>2
  <2> QED BY <2>1, <2>2 DEF Folds
<1>9. PICK f \in [0..n -> V] : /\ f[0] = <<>> /\ \A k \in 1..n : f[k] = next[k][f[k - 1]]
                               /\ f[n] = iter[1..n]
  <2> HIDE DEF next, V
  <2>1. \E f \in [0..n -> V] : Follows(f, n, <<>>, next) /\ f[n] = iter[1..n]
    BY <1>2, <1>8, Folded
  <2> QED BY <2>1 DEF Follows
<1>10. ASSUME NEW k \in 1..n PROVE f[k] = Op(f[k - 1], q[k])
  <2>1. f[k - 1] \in V
    <3> HIDE DEF V, next
    <3>1. k - 1 \in 0..n
      BY <1>1
    <3> QED BY <1>9, <3>1
  <2> HIDE DEF V
  <2> QED BY <1>9, <2>1
<1> HIDE DEF V
<1> QED BY <1>7, <1>9, <1>10 DEF V, n, Op

(* The loop of redact_with_detections().                                  *)
LEMMA KeptBackwardOf ==
    ASSUME NEW spans, NEW q \in Seq(Spans), q = Downward(spans)
    PROVE  \E f \in [0..Len(q) -> Seq(Spans)] :
             /\ f[0] = <<>>
             /\ \A k \in 1..Len(q) :
                  f[k] = (IF f[k - 1] # <<>> /\ q[k].end > Last(f[k - 1]).start THEN f[k - 1] ELSE Append(f[k - 1], q[k]))
             /\ KeptBackward(spans) = f[Len(q)]
<1> DEFINE n == Len(q)
           V == Seq(Spans)
           Op(v, e) == (IF v # <<>> /\ e.end > Last(v).start THEN v ELSE Append(v, e))
           next == [k \in 1..n |-> [v \in V |-> Op(v, q[k])]]
           P(g) == g = [s \in SUBSET (DOMAIN q) |->
                          IF s = {} THEN <<>> ELSE Op(g[s \ {Max(s)}], q[Max(s)])]
           iter == CHOOSE g : P(g)
<1>1. n \in Nat /\ DOMAIN q = 1..n /\ \A k \in 1..n : q[k] \in Spans
  BY LenProperties, ElementOfSeq
<1>2. Loop(n, V, <<>>, next)
  <2>1. \A k \in 1..n, v \in V : Op(v, q[k]) \in V
    BY <1>1, AppendProperties
  <2> HIDE DEF Op
  <2> QED BY <1>1, <2>1, EmptySeq DEF Loop
<1>7. KeptBackward(spans) = iter[1..n]
  BY <1>1 DEF KeptBackward, Downward, FoldLeft, MapThenFoldSet
<1> HIDE DEF n, Op
<1>3. PICK h \in [SUBSET (1..n) -> V] : Parts(h, n, <<>>, next)
  <2> HIDE DEF next, V
  <2> QED BY <1>2, PartsExist
<1>4. ASSUME NEW s \in SUBSET (1..n), s # {}
      PROVE  Max(s) \in 1..n /\ h[s] = Op(h[s \ {Max(s)}], q[Max(s)])
  <2>1. Max(s) \in 1..n
    BY <1>1, <1>4, MaxUpTo
  <2>2. h[s \ {Max(s)}] \in V
    BY <1>3
  <2>3. h[s] = next[Max(s)][h[s \ {Max(s)}]]
    BY <1>3, <1>4 DEF Parts
  <2> HIDE DEF V
  <2> QED BY <2>1, <2>2, <2>3
<1>5. P(h)
  <2>1. h[{}] = <<>>
    BY <1>3 DEF Parts
  <2>2. \A s \in SUBSET (1..n) : h[s] = IF s = {} THEN <<>> ELSE Op(h[s \ {Max(s)}], q[Max(s)])
    BY <1>4, <2>1
  <2> HIDE DEF V
  <2> QED BY <1>1, <1>3, <2>2
<1>6. P(iter)
  BY <1>5
<1> HIDE DEF iter
<1>8. Folds(iter, n, V, <<>>, next)
  <2>1. iter[{}] = <<>>
    BY <1>1, <1>6, UpTo
  <2>2. ASSUME NEW s \in SUBSET (1..n), s # {}, iter[s \ {Max(s)}] \in V
        PROVE  iter[s] = next[Max(s)][iter[s \ {Max(s)}]]
    <3>1. iter[s] = Op(iter[s \ {Max(s)}], q[Max(s)])
      BY <1>1, <1>6, <2>2
    <3>2. Max(s) \in 1..n
      BY <1>4, <2>2
    <3> HIDE DEF V
    <3> QED BY <2>2, <3>1, <3>2
  <2> QED BY <2>1, <2>2 DEF Folds
<1>9. PICK f \in [0..n -> V] : /\ f[0] = <<>> /\ \A k \in 1..n : f[k] = next[k][f[k - 1]]
                               /\ f[n] = iter[1..n]
  <2> HIDE DEF next, V
  <2>1. \E f \in [0..n -> V] : Follows(f, n, <<>>, next) /\ f[n] = iter[1..n]
    BY <1>2, <1>8, Folded
  <2> QED BY <2>1 DEF Follows
<1>10. ASSUME NEW k \in 1..n PROVE f[k] = Op(f[k - 1], q[k])
  <2>1. f[k - 1] \in V
    <3> HIDE DEF V, next
    <3>1. k - 1 \in 0..n
      BY <1>1
    <3> QED BY <1>9, <3>1
  <2> HIDE DEF V
  <2> QED BY <1>9, <2>1
<1> HIDE DEF V
<1> QED BY <1>7, <1>9, <1>10 DEF V, n, Op

(* The matches that are personal data, or that are not.                    *)
LEMMA OfKindOf ==
    ASSUME NEW spans \in Seq(Spans), NEW personal
    PROVE  \E f \in [0..Len(spans) -> Seq(Spans)] :
             /\ f[0] = <<>>
             /\ \A k \in 1..Len(spans) :
                  f[k] = (IF spans[k].personal = personal THEN Append(f[k - 1], spans[k]) ELSE f[k - 1])
             /\ OfKind(spans, personal) = f[Len(spans)]
<1> DEFINE n == Len(spans)
           V == Seq(Spans)
           Op(v, e) == (IF e.personal = personal THEN Append(v, e) ELSE v)
           next == [k \in 1..n |-> [v \in V |-> Op(v, spans[k])]]
           P(g) == g = [s \in SUBSET (DOMAIN spans) |->
                          IF s = {} THEN <<>> ELSE Op(g[s \ {Max(s)}], spans[Max(s)])]
           iter == CHOOSE g : P(g)
<1>1. n \in Nat /\ DOMAIN spans = 1..n /\ \A k \in 1..n : spans[k] \in Spans
  BY LenProperties, ElementOfSeq
<1>2. Loop(n, V, <<>>, next)
  <2>1. \A k \in 1..n, v \in V : Op(v, spans[k]) \in V
    BY <1>1, AppendProperties
  <2> HIDE DEF Op
  <2> QED BY <1>1, <2>1, EmptySeq DEF Loop
<1>7. OfKind(spans, personal) = iter[1..n]
  BY <1>1 DEF OfKind, FoldLeft, MapThenFoldSet
<1> HIDE DEF n, Op
<1>3. PICK h \in [SUBSET (1..n) -> V] : Parts(h, n, <<>>, next)
  <2> HIDE DEF next, V
  <2> QED BY <1>2, PartsExist
<1>4. ASSUME NEW s \in SUBSET (1..n), s # {}
      PROVE  Max(s) \in 1..n /\ h[s] = Op(h[s \ {Max(s)}], spans[Max(s)])
  <2>1. Max(s) \in 1..n
    BY <1>1, <1>4, MaxUpTo
  <2>2. h[s \ {Max(s)}] \in V
    BY <1>3
  <2>3. h[s] = next[Max(s)][h[s \ {Max(s)}]]
    BY <1>3, <1>4 DEF Parts
  <2> HIDE DEF V
  <2> QED BY <2>1, <2>2, <2>3
<1>5. P(h)
  <2>1. h[{}] = <<>>
    BY <1>3 DEF Parts
  <2>2. \A s \in SUBSET (1..n) : h[s] = IF s = {} THEN <<>> ELSE Op(h[s \ {Max(s)}], spans[Max(s)])
    BY <1>4, <2>1
  <2> HIDE DEF V
  <2> QED BY <1>1, <1>3, <2>2
<1>6. P(iter)
  BY <1>5
<1> HIDE DEF iter
<1>8. Folds(iter, n, V, <<>>, next)
  <2>1. iter[{}] = <<>>
    BY <1>1, <1>6, UpTo
  <2>2. ASSUME NEW s \in SUBSET (1..n), s # {}, iter[s \ {Max(s)}] \in V
        PROVE  iter[s] = next[Max(s)][iter[s \ {Max(s)}]]
    <3>1. iter[s] = Op(iter[s \ {Max(s)}], spans[Max(s)])
      BY <1>1, <1>6, <2>2
    <3>2. Max(s) \in 1..n
      BY <1>4, <2>2
    <3> HIDE DEF V
    <3> QED BY <2>2, <3>1, <3>2
  <2> QED BY <2>1, <2>2 DEF Folds
<1>9. PICK f \in [0..n -> V] : /\ f[0] = <<>> /\ \A k \in 1..n : f[k] = next[k][f[k - 1]]
                               /\ f[n] = iter[1..n]
  <2> HIDE DEF next, V
  <2>1. \E f \in [0..n -> V] : Follows(f, n, <<>>, next) /\ f[n] = iter[1..n]
    BY <1>2, <1>8, Folded
  <2> QED BY <2>1 DEF Follows
<1>10. ASSUME NEW k \in 1..n PROVE f[k] = Op(f[k - 1], spans[k])
  <2>1. f[k - 1] \in V
    <3> HIDE DEF V, next
    <3>1. k - 1 \in 0..n
      BY <1>1
    <3> QED BY <1>9, <3>1
  <2> HIDE DEF V
  <2> QED BY <1>9, <2>1
<1> HIDE DEF V
<1> QED BY <1>7, <1>9, <1>10 DEF V, n, Op

(***************************************************************************)
(* Sorting.                                                                *)
(***************************************************************************)
(* As many are ahead of one as its position says.                          *)
LEMMA Ranks ==
    ASSUME NEW n, NEW ahead, Ranking(n, ahead)
    PROVE  /\ \A i \in 1..n : Cardinality(ahead[i]) \in 0..(n - 1)
           /\ \A i, j \in 1..n : j \in ahead[i] => Cardinality(ahead[j]) < Cardinality(ahead[i])
           /\ \A m \in 1..n : \E i \in 1..n : Cardinality(ahead[i]) = m - 1
<1> USE DEF Ranking
<1>1. IsFiniteSet(1..n) /\ Cardinality(1..n) = n
  <2>1. 1 \in Int /\ n \in Int
    OBVIOUS
  <2>2. IsFiniteSet(1..n) /\ Cardinality(1..n) = IF 1 > n THEN 0 ELSE n - 1 + 1
    BY <2>1, FS_Interval, Zenon
  <2> QED BY <2>2
<1>2. ASSUME NEW i \in 1..n
      PROVE  IsFiniteSet(ahead[i]) /\ Cardinality(ahead[i]) \in 0..(n - 1)
  <2>1. IsFiniteSet((1..n) \ {i}) /\ Cardinality((1..n) \ {i}) = n - 1
    BY <1>1, FS_RemoveElement
  <2>2. ahead[i] \subseteq (1..n) \ {i}
    OBVIOUS
  <2>3. IsFiniteSet(ahead[i]) /\ Cardinality(ahead[i]) <= n - 1
    BY <2>1, <2>2, FS_Subset
  <2> QED BY <2>3, FS_CardinalityType
<1>3. ASSUME NEW i \in 1..n, NEW j \in 1..n, j \in ahead[i]
      PROVE  Cardinality(ahead[j]) < Cardinality(ahead[i])
  <2>1. IsFiniteSet(ahead[i] \ {j}) /\ Cardinality(ahead[i] \ {j}) = Cardinality(ahead[i]) - 1
    BY <1>2, <1>3, FS_RemoveElement
  <2>2. ahead[j] \subseteq ahead[i] \ {j}
    BY <1>3
  <2>3. Cardinality(ahead[j]) <= Cardinality(ahead[i]) - 1
    BY <2>1, <2>2, FS_Subset
  <2>4. Cardinality(ahead[j]) \in Int /\ Cardinality(ahead[i]) \in Int
    BY <1>2
  <2> QED BY <2>3, <2>4
<1> DEFINE rank == [i \in 1..n |-> Cardinality(ahead[i])]
<1>4. rank \in Injection(1..n, 0..(n - 1))
  <2>1. \A i, j \in 1..n : rank[i] = rank[j] => i = j
    <3> SUFFICES ASSUME NEW i \in 1..n, NEW j \in 1..n, i # j
                 PROVE  Cardinality(ahead[i]) # Cardinality(ahead[j])
      OBVIOUS
    <3>1. Cardinality(ahead[j]) \in Int /\ Cardinality(ahead[i]) \in Int
      BY <1>2
    <3> QED BY <1>3, <3>1
  <2>2. rank \in [1..n -> 0..(n - 1)]
    BY <1>2
  <2> QED BY <2>1, <2>2 DEF Injection, IsInjective
<1>5. IsFiniteSet(0..(n - 1)) /\ Cardinality(0..(n - 1)) = n
  <2>1. 0 \in Int /\ n - 1 \in Int
    OBVIOUS
  <2>2. /\ IsFiniteSet(0..(n - 1))
        /\ Cardinality(0..(n - 1)) = IF 0 > n - 1 THEN 0 ELSE n - 1 - 0 + 1
    BY <2>1, FS_Interval, Zenon
  <2> QED BY <2>2
<1>6. rank \in Surjection(1..n, 0..(n - 1))
  <2> HIDE DEF rank
  <2>1. Cardinality(1..n) = Cardinality(0..(n - 1)) <=> rank \in Surjection(1..n, 0..(n - 1))
    BY <1>4, <1>5, FS_Injection
  <2> QED BY <1>1, <1>5, <2>1
<1>7. ASSUME NEW m \in 1..n PROVE \E i \in 1..n : Cardinality(ahead[i]) = m - 1
  <2>1. m - 1 \in 0..(n - 1)
    OBVIOUS
  <2>2. \A r \in 0..(n - 1) : \E i \in 1..n : rank[i] = r
    BY <1>6 DEF Surjection
  <2> QED BY <2>1, <2>2
<1> QED BY <1>2, <1>3, <1>7

LEMMA Placed ==
    ASSUME NEW n, NEW ahead, Ranking(n, ahead)
    PROVE  /\ \A m \in 1..n : Place(n, ahead, m) \in 1..n
           /\ \A i \in 1..n : \E m \in 1..n : Place(n, ahead, m) = i
           /\ \A m \in 1..n : \A k \in 1..(m - 1) : Place(n, ahead, k) \in ahead[Place(n, ahead, m)]
<1> DEFINE at(m) == Place(n, ahead, m)
<1>1. ASSUME NEW m \in 1..n PROVE at(m) \in 1..n /\ Cardinality(ahead[at(m)]) = m - 1
  <2>1. \E i \in 1..n : Cardinality(ahead[i]) = m - 1
    BY Ranks
  <2> QED BY <2>1 DEF Place
<1> HIDE DEF at
<1>2. ASSUME NEW i \in 1..n PROVE \E m \in 1..n : at(m) = i
  <2>1. PICK m \in 1..n : m = Cardinality(ahead[i]) + 1
    <3>1. Cardinality(ahead[i]) \in 0..(n - 1) /\ n \in Nat
      BY Ranks DEF Ranking
    <3> QED BY <3>1
  <2>2. Cardinality(ahead[at(m)]) = Cardinality(ahead[i]) /\ at(m) \in 1..n
    <3>1. Cardinality(ahead[i]) \in Int
      BY Ranks
    <3> QED BY <1>1, <2>1, <3>1
  <2>3. at(m) = i
    <3>1. \A j \in 1..n : Cardinality(ahead[j]) \in Int
      BY Ranks
    <3>2. i # at(m) => i \in ahead[at(m)] \/ at(m) \in ahead[i]
      BY <2>2 DEF Ranking
    <3>3. /\ i \in ahead[at(m)] => Cardinality(ahead[i]) < Cardinality(ahead[at(m)])
          /\ at(m) \in ahead[i] => Cardinality(ahead[at(m)]) < Cardinality(ahead[i])
      BY <2>2, Ranks
    <3> QED BY <2>2, <3>1, <3>2, <3>3
  <2> QED BY <2>3
<1>3. ASSUME NEW m \in 1..n, NEW k \in 1..(m - 1) PROVE at(k) \in ahead[at(m)]
  <2>1. n \in Nat
    BY DEF Ranking
  <2>2. k \in 1..n
    BY <2>1
  <2>3. /\ at(m) \in 1..n /\ Cardinality(ahead[at(m)]) = m - 1
        /\ at(k) \in 1..n /\ Cardinality(ahead[at(k)]) = k - 1
    BY <1>1, <2>2
  <2>4. at(k) # at(m)
    BY <2>3
  <2>5. at(k) \in ahead[at(m)] \/ at(m) \in ahead[at(k)]
    BY <2>3, <2>4 DEF Ranking
  <2>6. at(m) \in ahead[at(k)] => Cardinality(ahead[at(m)]) < Cardinality(ahead[at(k)])
    BY <2>3, Ranks
  <2> QED BY <2>3, <2>5, <2>6
<1> QED BY <1>1, <1>2, <1>3 DEF at

LEMMA SortedForward ==
    ASSUME NEW spans \in Seq(Spans), NEW q, q = Upward(spans)
    PROVE  Rising(q, spans)
<1> DEFINE n == Len(spans)
           Comes(j, i) == \/ LongestFirst(spans[j], spans[i])
                          \/ (j < i /\ ~ LongestFirst(spans[i], spans[j]))
           ahead == [i \in 1..n |-> {j \in 1..n : Comes(j, i)}]
<1>1. /\ n \in Nat /\ DOMAIN spans = 1..n
      /\ \A k \in 1..n : spans[k] \in Spans /\ spans[k].start \in Nat /\ spans[k].end \in Nat
  <2>1. n \in Nat /\ DOMAIN spans = 1..n /\ \A k \in 1..n : spans[k] \in Spans
    BY LenProperties, ElementOfSeq
  <2> QED BY <2>1, SpanAssumption
<1>2. q = [m \in 1..n |-> spans[Place(n, ahead, m)]]
  <2>1. \A i \in 1..n : ahead[i] = {j \in DOMAIN spans : Comes(j, i)}
    BY <1>1
  <2>2. ASSUME NEW m \in 1..n
        PROVE  Place(n, ahead, m) = CHOOSE i \in DOMAIN spans :
                  Cardinality({j \in DOMAIN spans : Comes(j, i)}) = m - 1
    <3>1. \A i \in 1..n : Cardinality(ahead[i]) = m - 1
                              <=> Cardinality({j \in DOMAIN spans : Comes(j, i)}) = m - 1
      BY <2>1
    <3> HIDE DEF ahead, Comes
    <3> QED BY <1>1, <3>1 DEF Place
  <2>3. q = [m \in DOMAIN spans |-> spans[CHOOSE i \in DOMAIN spans :
                  Cardinality({j \in DOMAIN spans : Comes(j, i)}) = m - 1]]
    BY DEF Sorted, Upward
  <2> HIDE DEF ahead, Comes
  <2> QED BY <1>1, <2>2, <2>3
<1> HIDE DEF n
<1>3. Ranking(n, ahead)
  <2>1. ahead \in [1..n -> SUBSET (1..n)]
    OBVIOUS
  <2>2. ASSUME NEW i \in 1..n, NEW j \in 1..n, NEW k \in 1..n
        PROVE  /\ ~ Comes(i, i)
               /\ i # j => Comes(i, j) \/ Comes(j, i)
               /\ Comes(j, i) /\ Comes(k, j) => Comes(k, i)
    <3>1. /\ spans[i].start \in Nat /\ spans[j].start \in Nat /\ spans[k].start \in Nat
          /\ spans[i].end \in Nat /\ spans[j].end \in Nat /\ spans[k].end \in Nat
          /\ i \in Nat /\ j \in Nat /\ k \in Nat
      BY <1>1
    <3> HIDE DEF ahead
    <3>2. ~ Comes(i, i)
      BY <3>1 DEF LongestFirst
    <3>3. i # j => Comes(i, j) \/ Comes(j, i)
      BY <3>1 DEF LongestFirst
    <3>4. ASSUME Comes(j, i), Comes(k, j) PROVE Comes(k, i)
      <4>1. \/ LongestFirst(spans[k], spans[i])
            \/ (k < i /\ ~ LongestFirst(spans[i], spans[k]))
        <5>1. /\ LongestFirst(spans[j], spans[i]) \/ (j < i /\ ~ LongestFirst(spans[i], spans[j]))
              /\ LongestFirst(spans[k], spans[j]) \/ (k < j /\ ~ LongestFirst(spans[j], spans[k]))
          BY <3>4
        <5> HIDE DEF Comes, ahead
        <5>2. spans[k].start <= spans[j].start /\ spans[j].start <= spans[i].start
          BY <3>1, <5>1 DEF LongestFirst
        <5>3. CASE spans[k].start < spans[i].start
          BY <3>1, <5>3 DEF LongestFirst
        <5>4. CASE spans[k].start = spans[i].start
          <6>1. spans[k].start = spans[j].start /\ spans[j].start = spans[i].start
            BY <3>1, <5>2, <5>4
          <6> QED BY <3>1, <5>1, <6>1, SMTT(30) DEF LongestFirst
        <5> QED BY <3>1, <5>2, <5>3, <5>4
      <4> QED BY <4>1
    <3> HIDE DEF Comes
    <3> QED BY <3>2, <3>3, <3>4
  <2>3. /\ \A i \in 1..n : i \notin ahead[i]
        /\ \A i, j \in 1..n : i # j => i \in ahead[j] \/ j \in ahead[i]
        /\ \A i, j \in 1..n : j \in ahead[i] => ahead[j] \subseteq ahead[i]
    <3> HIDE DEF Comes
    <3> QED BY <2>2
  <2> HIDE DEF Comes, ahead
  <2> QED BY <1>1, <2>1, <2>3 DEF Ranking
<1>4. \A i, j \in 1..n : j \in ahead[i] => Comes(j, i)
  <2> HIDE DEF Comes
  <2> QED OBVIOUS
<1> HIDE DEF ahead
<1> DEFINE at(m) == Place(n, ahead, m)
<1>5. /\ \A m \in 1..n : at(m) \in 1..n
      /\ \A i \in 1..n : \E m \in 1..n : at(m) = i
      /\ \A m \in 1..n : \A k \in 1..(m - 1) : at(k) \in ahead[at(m)]
  BY <1>3, Placed
<1> HIDE DEF at
<1>6. /\ q \in [1..n -> Spans]
      /\ \A m \in 1..n : q[m] = spans[at(m)]
  BY <1>1, <1>2, <1>5 DEF at
<1>7. q \in Seq(Spans) /\ Len(q) = n
  BY <1>1, <1>6
<1>8. ASSUME NEW m \in 1..n, NEW k \in 1..(m - 1) PROVE q[k].start <= q[m].start
  <2>1. k \in 1..n
    BY <1>1
  <2>2. Comes(at(k), at(m)) /\ at(k) \in 1..n /\ at(m) \in 1..n
    BY <1>4, <1>5, <2>1
  <2>3. /\ spans[at(k)].start \in Nat /\ spans[at(m)].start \in Nat
        /\ q[k] = spans[at(k)] /\ q[m] = spans[at(m)]
    BY <1>1, <1>6, <2>1, <2>2
  <2>4. \/ LongestFirst(spans[at(k)], spans[at(m)])
        \/ ~ LongestFirst(spans[at(m)], spans[at(k)])
    BY <2>2
  <2> HIDE DEF Comes
  <2> QED BY <2>3, <2>4 DEF LongestFirst
<1>9. /\ \A i \in 1..n : \E m \in 1..n : q[m] = spans[i]
      /\ \A m \in 1..n : \E i \in 1..n : q[m] = spans[i]
  BY <1>5, <1>6
<1> QED BY <1>7, <1>8, <1>9 DEF n, Rising

LEMMA SortedBackward ==
    ASSUME NEW spans \in Seq(Spans), NEW q, q = Downward(spans)
    PROVE  Falling(q, spans)
<1> DEFINE n == Len(spans)
           Comes(j, i) == \/ LastFirst(spans[j], spans[i])
                          \/ (j < i /\ ~ LastFirst(spans[i], spans[j]))
           ahead == [i \in 1..n |-> {j \in 1..n : Comes(j, i)}]
<1>1. /\ n \in Nat /\ DOMAIN spans = 1..n
      /\ \A k \in 1..n : spans[k] \in Spans /\ spans[k].start \in Nat /\ spans[k].end \in Nat
  <2>1. n \in Nat /\ DOMAIN spans = 1..n /\ \A k \in 1..n : spans[k] \in Spans
    BY LenProperties, ElementOfSeq
  <2> QED BY <2>1, SpanAssumption
<1>2. q = [m \in 1..n |-> spans[Place(n, ahead, m)]]
  <2>1. \A i \in 1..n : ahead[i] = {j \in DOMAIN spans : Comes(j, i)}
    BY <1>1
  <2>2. ASSUME NEW m \in 1..n
        PROVE  Place(n, ahead, m) = CHOOSE i \in DOMAIN spans :
                  Cardinality({j \in DOMAIN spans : Comes(j, i)}) = m - 1
    <3>1. \A i \in 1..n : Cardinality(ahead[i]) = m - 1
                              <=> Cardinality({j \in DOMAIN spans : Comes(j, i)}) = m - 1
      BY <2>1
    <3> HIDE DEF ahead, Comes
    <3> QED BY <1>1, <3>1 DEF Place
  <2>3. q = [m \in DOMAIN spans |-> spans[CHOOSE i \in DOMAIN spans :
                  Cardinality({j \in DOMAIN spans : Comes(j, i)}) = m - 1]]
    BY DEF Sorted, Downward
  <2> HIDE DEF ahead, Comes
  <2> QED BY <1>1, <2>2, <2>3
<1> HIDE DEF n
<1>3. Ranking(n, ahead)
  <2>1. ahead \in [1..n -> SUBSET (1..n)]
    OBVIOUS
  <2>2. ASSUME NEW i \in 1..n, NEW j \in 1..n, NEW k \in 1..n
        PROVE  /\ ~ Comes(i, i)
               /\ i # j => Comes(i, j) \/ Comes(j, i)
               /\ Comes(j, i) /\ Comes(k, j) => Comes(k, i)
    <3>1. /\ spans[i].start \in Nat /\ spans[j].start \in Nat /\ spans[k].start \in Nat
          /\ spans[i].end \in Nat /\ spans[j].end \in Nat /\ spans[k].end \in Nat
          /\ i \in Nat /\ j \in Nat /\ k \in Nat
      BY <1>1
    <3> HIDE DEF ahead
    <3>2. ~ Comes(i, i)
      BY <3>1 DEF LastFirst
    <3>3. i # j => Comes(i, j) \/ Comes(j, i)
      BY <3>1 DEF LastFirst
    <3>4. ASSUME Comes(j, i), Comes(k, j) PROVE Comes(k, i)
      <4>1. \/ LastFirst(spans[k], spans[i])
            \/ (k < i /\ ~ LastFirst(spans[i], spans[k]))
        <5>1. /\ LastFirst(spans[j], spans[i]) \/ (j < i /\ ~ LastFirst(spans[i], spans[j]))
              /\ LastFirst(spans[k], spans[j]) \/ (k < j /\ ~ LastFirst(spans[j], spans[k]))
          BY <3>4
        <5> HIDE DEF Comes, ahead
        <5>2. spans[k].start >= spans[j].start /\ spans[j].start >= spans[i].start
          BY <3>1, <5>1 DEF LastFirst
        <5>3. CASE spans[k].start > spans[i].start
          BY <3>1, <5>3 DEF LastFirst
        <5>4. CASE spans[k].start = spans[i].start
          <6>1. spans[k].start = spans[j].start /\ spans[j].start = spans[i].start
            BY <3>1, <5>2, <5>4
          <6> QED BY <3>1, <5>1, <6>1 DEF LastFirst
        <5> QED BY <3>1, <5>2, <5>3, <5>4
      <4> QED BY <4>1
    <3> HIDE DEF Comes
    <3> QED BY <3>2, <3>3, <3>4
  <2>3. /\ \A i \in 1..n : i \notin ahead[i]
        /\ \A i, j \in 1..n : i # j => i \in ahead[j] \/ j \in ahead[i]
        /\ \A i, j \in 1..n : j \in ahead[i] => ahead[j] \subseteq ahead[i]
    <3> HIDE DEF Comes
    <3> QED BY <2>2
  <2> HIDE DEF Comes, ahead
  <2> QED BY <1>1, <2>1, <2>3 DEF Ranking
<1>4. \A i, j \in 1..n : j \in ahead[i] => Comes(j, i)
  <2> HIDE DEF Comes
  <2> QED OBVIOUS
<1> HIDE DEF ahead
<1> DEFINE at(m) == Place(n, ahead, m)
<1>5. /\ \A m \in 1..n : at(m) \in 1..n
      /\ \A i \in 1..n : \E m \in 1..n : at(m) = i
      /\ \A m \in 1..n : \A k \in 1..(m - 1) : at(k) \in ahead[at(m)]
  BY <1>3, Placed
<1> HIDE DEF at
<1>6. /\ q \in [1..n -> Spans]
      /\ \A m \in 1..n : q[m] = spans[at(m)]
  BY <1>1, <1>2, <1>5 DEF at
<1>7. q \in Seq(Spans) /\ Len(q) = n
  BY <1>1, <1>6
<1>8. ASSUME NEW m \in 1..n, NEW k \in 1..(m - 1) PROVE q[k].start >= q[m].start
  <2>1. k \in 1..n
    BY <1>1
  <2>2. Comes(at(k), at(m)) /\ at(k) \in 1..n /\ at(m) \in 1..n
    BY <1>4, <1>5, <2>1
  <2>3. /\ spans[at(k)].start \in Nat /\ spans[at(m)].start \in Nat
        /\ q[k] = spans[at(k)] /\ q[m] = spans[at(m)]
    BY <1>1, <1>6, <2>1, <2>2
  <2>4. \/ LastFirst(spans[at(k)], spans[at(m)])
        \/ ~ LastFirst(spans[at(m)], spans[at(k)])
    BY <2>2
  <2> HIDE DEF Comes
  <2> QED BY <2>3, <2>4 DEF LastFirst
<1>9. /\ \A i \in 1..n : \E m \in 1..n : q[m] = spans[i]
      /\ \A m \in 1..n : \E i \in 1..n : q[m] = spans[i]
  BY <1>5, <1>6
<1> QED BY <1>7, <1>8, <1>9 DEF n, Falling

(***************************************************************************)
(* Cutting out.  Where the matches are cut out from the last to the first, *)
(* the text in front of the last cut is as it was, and nothing behind it   *)
(* is of the text in front.                                                *)
(***************************************************************************)
LEMMA SpliceCuts ==
    ASSUME NEW E, NEW t \in Seq(E), NEW p \in Seq(E), Foreign(p),
           NEW a \in 0..Length, Intact(t, a), NEW s \in Spans, s.start <= a
    PROVE  /\ Intact(Splice(t, s, p), s.start)
           /\ \A x \in 1..Length : Absent(x, t) => Absent(x, Splice(t, s, p))
           /\ \A x \in (s.start + 1)..s.end : x <= a => Absent(x, Splice(t, s, p))
<1> DEFINE r == Splice(t, s, p)
           b == s.start
           e == s.end
<1>1. b \in Nat /\ e \in Nat /\ b < e /\ e <= Length /\ Length \in Nat
  BY SpanAssumption
<1>2. Len(t) \in Nat /\ Len(p) \in Nat /\ r \in Seq(E) /\ Len(r) \in Nat
  <2>1. r \in Seq(E)
    BY SpliceOf
  <2> QED BY <2>1, LenProperties
<1>3. a \in Nat /\ b <= a /\ a <= Len(t) /\ b <= Len(t)
  BY <1>1, <1>2 DEF Intact
<1>4. /\ Len(r) >= b /\ \A i \in 1..b : r[i] = t[i]
      /\ \A i \in (b + 1)..Len(r) : \/ \E j \in 1..Len(p) : r[i] = p[j]
                                    \/ \E j \in (e + 1)..Len(t) : r[i] = t[j]
  <2>1. s.start <= Len(t)
    BY <1>3
  <2>2. Spliced(Splice(t, s, p), t, s, p)
    BY <2>1, SpliceOf
  <2> QED BY <2>2 DEF Spliced
<1> HIDE DEF r, b, e
<1>5. \A i \in 1..b : r[i] = i /\ i \in 1..Len(t)
  BY <1>1, <1>2, <1>3, <1>4 DEF Intact
<1>6. ASSUME NEW i \in (b + 1)..Len(r)
      PROVE  \/ r[i] \notin 1..Length
             \/ \E j \in (e + 1)..Len(t) : r[i] = t[j] /\ (t[j] = j \/ t[j] \notin 1..a)
  <2>1. CASE \E j \in 1..Len(p) : r[i] = p[j]
    BY <2>1 DEF Foreign
  <2>2. CASE \E j \in (e + 1)..Len(t) : r[i] = t[j]
    <3>1. PICK j \in (e + 1)..Len(t) : r[i] = t[j]
      BY <2>2
    <3>2. j \in 1..a \/ j \in (a + 1)..Len(t)
      BY <1>1, <1>2, <1>3
    <3> QED BY <3>1, <3>2 DEF Intact
  <2> QED BY <1>4, <2>1, <2>2
<1>7. Intact(r, b)
  <2>1. ASSUME NEW i \in (b + 1)..Len(r) PROVE r[i] \notin 1..b
    <3>1. CASE r[i] \notin 1..Length
      BY <1>1, <3>1
    <3>2. CASE \E j \in (e + 1)..Len(t) : r[i] = t[j] /\ (t[j] = j \/ t[j] \notin 1..a)
      BY <1>1, <1>2, <1>3, <3>2
    <3> QED BY <1>6, <3>1, <3>2
  <2> QED BY <1>1, <1>2, <1>4, <1>5, <2>1 DEF Intact
<1>8. ASSUME NEW x \in 1..Length, Absent(x, t) PROVE Absent(x, r)
  <2> SUFFICES ASSUME NEW i \in 1..Len(r) PROVE r[i] # x
    BY DEF Absent
  <2>1. CASE i \in 1..b
    BY <1>4, <1>5, <1>8, <2>1 DEF Absent
  <2>2. CASE i \notin 1..b
    <3>1. i \in (b + 1)..Len(r)
      BY <1>1, <1>2, <2>2
    <3>2. \A j \in (e + 1)..Len(t) : j \in 1..Len(t)
      BY <1>1, <1>2
    <3> QED BY <1>6, <1>8, <3>1, <3>2 DEF Absent
  <2> QED BY <2>1, <2>2
<1>9. ASSUME NEW x \in (b + 1)..e, x <= a PROVE Absent(x, r)
  <2> SUFFICES ASSUME NEW i \in 1..Len(r) PROVE r[i] # x
    BY DEF Absent
  <2>1. x \in Nat /\ b < x /\ x <= e /\ x \in 1..Length /\ x \in 1..a
    BY <1>1, <1>3, <1>9
  <2>2. CASE i \in 1..b
    BY <1>1, <1>5, <2>1, <2>2
  <2>3. CASE i \notin 1..b
    <3>1. i \in (b + 1)..Len(r)
      BY <1>1, <1>2, <2>3
    <3>2. \A j \in (e + 1)..Len(t) : j # x
      BY <1>1, <1>2, <2>1
    <3> QED BY <1>6, <2>1, <3>1, <3>2
  <2> QED BY <2>2, <2>3
<1> QED BY <1>7, <1>8, <1>9 DEF r, b, e

LEMMA OriginalOf ==
    ASSUME NEW E, 1..Length \subseteq E
    PROVE  /\ Original \in Seq(E) /\ Len(Original) = Length /\ Length \in Nat
           /\ Intact(Original, Length)
<1>1. Length \in Nat
  BY SpanAssumption
<1>2. Original \in [1..Length -> E]
  BY <1>1 DEF Original
<1>3. Original \in Seq(E) /\ Len(Original) = Length
  BY <1>1, <1>2
<1>4. \A i \in 1..Length : Original[i] = i
  BY DEF Original
<1>5. (Length + 1)..Length = {} /\ Length \in 0..Length
  BY <1>1
<1> QED BY <1>1, <1>3, <1>4, <1>5 DEF Intact

LEMMA Behind ==
    ASSUME NEW u \in Nat, NEW v \in Nat, NEW w \in Nat, u < v, v <= w
    PROVE  u + 1 \in 1..w /\ u # w
OBVIOUS

(* Of every match the first character is gone, and all of them when it     *)
(* does not reach into the match cut out before.                           *)
LEMMA CutOut ==
    ASSUME NEW E, 1..Length \subseteq E, NEW p \in Seq(E), Foreign(p),
           NEW q \in Seq(Spans), Descending(q)
    PROVE  LET r == Splices(Original, q, p)
           IN  /\ r \in Seq(E)
               /\ \A m \in 1..Len(q) : Absent(q[m].start + 1, r)
               /\ \A m \in 1..Len(q) : Free(q, m) =>
                    \A x \in (q[m].start + 1)..q[m].end : Absent(x, r)
<1> DEFINE n == Len(q)
           Edge(k) == IF k = 0 THEN Length ELSE q[k].start
<1>1. /\ n \in Nat /\ Length \in Nat
      /\ \A k \in 1..n : /\ q[k] \in Spans /\ q[k].start \in Nat /\ q[k].end \in Nat
                         /\ q[k].start < q[k].end /\ q[k].end <= Length
  <2>1. n \in Nat /\ \A k \in 1..n : q[k] \in Spans
    BY LenProperties, ElementOfSeq
  <2> QED BY <2>1, SpanAssumption
<1>2. Original \in Seq(E) /\ Intact(Original, Length)
  BY OriginalOf
<1>3. PICK f \in [0..n -> Seq(E)] :
         /\ f[0] = Original /\ \A k \in 1..n : f[k] = Splice(f[k - 1], q[k], p)
         /\ Splices(Original, q, p) = f[n]
  BY <1>2, SplicesOf
<1> DEFINE Fine(k) == /\ Intact(f[k], Edge(k))
                      /\ \A m \in 1..k : Absent(q[m].start + 1, f[k])
                      /\ \A m \in 1..k : Free(q, m) =>
                           \A x \in (q[m].start + 1)..q[m].end : Absent(x, f[k])
           Bad == {k \in 0..n : ~ Fine(k)}
<1>4. Bad = {}
  <2>1. SUFFICES ASSUME Bad # {} PROVE FALSE
    OBVIOUS
  <2>2. PICK k \in Bad : \A i \in Bad : k <= i
    <3>1. Bad \subseteq Nat
      OBVIOUS
    <3> QED BY <2>1, <3>1, LeastElement
  <2>3. Fine(0)
    <3>1. 1..0 = {}
      OBVIOUS
    <3> QED BY <1>2, <1>3, <3>1
  <2>4. k \in 1..n /\ k - 1 \in 0..n /\ k - 1 \notin Bad
    <3> HIDE DEF Fine
    <3> QED BY <2>2, <2>3
  <2>5. Fine(k - 1)
    <3> HIDE DEF Fine
    <3> QED BY <2>4
  <2> DEFINE a == Edge(k - 1)
             s == q[k]
             t == f[k - 1]
  <2>6. a \in 0..Length /\ s.start <= a
    <3>1. CASE k = 1
      BY <1>1, <2>4, <3>1
    <3>2. CASE k # 1
      <4>1. k - 1 \in 1..n /\ k - 1 \in 1..(k - 1) /\ k - 1 # 0
        BY <1>1, <2>4, <3>2
      <4>2. q[k - 1].start >= q[k].start
        BY <2>4, <4>1 DEF Descending
      <4>3. a = q[k - 1].start
        BY <4>1
      <4>4. /\ q[k - 1].start \in Nat /\ q[k - 1].end \in Nat
            /\ q[k - 1].start < q[k - 1].end /\ q[k - 1].end <= Length
        BY <1>1, <4>1
      <4>5. q[k].start \in Nat
        BY <1>1, <2>4
      <4> HIDE DEF a
      <4> QED BY <1>1, <4>2, <4>3, <4>4, <4>5
    <3> QED BY <3>1, <3>2
  <2>7. t \in Seq(E) /\ s \in Spans /\ Intact(t, a) /\ f[k] = Splice(t, s, p)
    BY <1>1, <1>3, <2>4, <2>5
  <2>8. /\ Intact(f[k], s.start)
        /\ \A x \in 1..Length : Absent(x, t) => Absent(x, f[k])
        /\ \A x \in (s.start + 1)..s.end : x <= a => Absent(x, f[k])
    <3> HIDE DEF a, s, t
    <3> QED BY <2>6, <2>7, SpliceCuts
  <2>9. Intact(f[k], Edge(k))
    BY <2>4, <2>8
  <2>10. ASSUME NEW m \in 1..k PROVE Absent(q[m].start + 1, f[k])
    <3> HIDE DEF n
    <3>1. m \in 1..n
      BY <1>1, <2>4, <2>10
    <3>5. q[m].start + 1 \in 1..Length
      <4>1. q[m].start \in Nat /\ q[m].end \in Nat /\ q[m].start < q[m].end /\ q[m].end <= Length
        BY <1>1, <3>1
      <4> QED BY <1>1, <4>1, Behind
    <3>6. s.start \in Nat /\ s.end \in Nat /\ s.start < s.end /\ a \in Nat
      BY <1>1, <2>4, <2>6
    <3>2. CASE m # k
      <4>1. m \in 1..(k - 1)
        BY <2>4, <3>2
      <4> QED BY <2>5, <2>8, <3>5, <4>1
    <3>3. CASE m = k /\ s.start + 1 <= a
      <4>1. s.start + 1 \in (s.start + 1)..s.end
        <5> HIDE DEF s
        <5> QED BY <3>6
      <4> QED BY <2>8, <3>3, <4>1
    <3>4. CASE m = k /\ ~ (s.start + 1 <= a)
      <4>1. s.start = a
        <5> HIDE DEF s, a
        <5> QED BY <2>6, <3>4, <3>6
      <4>2. k # 1
        <5>1. s.start # Length
          <6>1. s.end \in Nat /\ s.end <= Length
            BY <1>1, <2>4
          <6> HIDE DEF s
          <6> QED BY <1>1, <3>6, <6>1, Behind
        <5> QED BY <4>1, <5>1
      <4>3. k - 1 \in 1..(k - 1) /\ q[k - 1].start = s.start
        BY <2>4, <4>1, <4>2
      <4>4. Absent(s.start + 1, t)
        BY <2>5, <4>3
      <4> QED BY <2>8, <3>4, <3>5, <4>4
    <3> QED BY <3>2, <3>3, <3>4
  <2>11. ASSUME NEW m \in 1..k, Free(q, m), NEW x \in (q[m].start + 1)..q[m].end
         PROVE  Absent(x, f[k])
    <3>1. m \in 1..n /\ x \in 1..Length
      BY <1>1, <2>4
    <3>2. CASE m # k
      <4>1. m \in 1..(k - 1)
        BY <2>4, <3>2
      <4> QED BY <2>5, <2>8, <2>11, <3>1, <4>1
    <3>3. CASE m = k
      <4>1. s.end <= a
        <5>1. CASE k = 1
          BY <1>1, <2>4, <5>1
        <5>2. CASE k # 1
          <6>1. k - 1 # 0
            BY <1>1, <2>4, <5>2
          <6> QED BY <2>11, <3>3, <5>2, <6>1 DEF Free
        <5> QED BY <5>1, <5>2
      <4>2. x \in Nat /\ x <= s.end /\ s.end \in Nat /\ a \in Nat
        BY <1>1, <2>4, <2>6, <2>11, <3>3
      <4>3. x <= a
        <5> HIDE DEF a, s
        <5> QED BY <4>1, <4>2
      <4> QED BY <2>8, <2>11, <3>3, <4>3
    <3> QED BY <3>2, <3>3
  <2>12. Fine(k)
    BY <2>9, <2>10, <2>11
  <2> QED BY <2>2, <2>12
<1>5. Fine(n) /\ f[n] \in Seq(E)
  <2>1. n \in 0..n
    BY <1>1
  <2> HIDE DEF Fine
  <2> QED BY <1>3, <1>4, <2>1
<1> QED BY <1>3, <1>5

(* What one more element makes of a list.                                  *)
LEMMA Appended ==
    ASSUME NEW v \in Seq(Spans), NEW e \in Spans
    PROVE  /\ Append(v, e) \in Seq(Spans) /\ Len(v) \in Nat /\ Len(Append(v, e)) = Len(v) + 1
           /\ \A m \in 1..Len(v) : Append(v, e)[m] = v[m]
           /\ Append(v, e)[Len(v) + 1] = e
<1>1. Append(v, e) \in Seq(Spans) /\ Len(Append(v, e)) = Len(v) + 1 /\ Len(v) \in Nat
  BY AppendProperties, LenProperties
<1>2. \A m \in 1..(Len(v) + 1) : Append(v, e)[m] = IF m <= Len(v) THEN v[m] ELSE e
  BY AppendProperties
<1> QED BY <1>1, <1>2

LEMMA Endmost ==
    ASSUME NEW v \in Seq(Spans), v # <<>>
    PROVE  Len(v) \in 1..Len(v) /\ Last(v) = v[Len(v)]
BY EmptySeq, LenProperties DEF Last

LEMMA BackwardKeeps ==
    ASSUME NEW spans \in Seq(Spans)
    PROVE  LET kept == KeptBackward(spans)
           IN  /\ kept \in Seq(Spans) /\ Descending(kept) /\ Disjoint(kept)
               /\ \A i \in 1..Len(spans) : HitLater(kept, spans[i])
               /\ Taken(kept, spans, Len(spans))
<1>0. PICK q : q = Downward(spans)
  OBVIOUS
<1> DEFINE n == Len(q)
<1>1. /\ q \in Seq(Spans)
      /\ \A m \in 1..n : \A k \in 1..(m - 1) : q[k].start >= q[m].start
      /\ \A i \in 1..Len(spans) : \E m \in 1..n : q[m] = spans[i]
      /\ \A m \in 1..n : \E i \in 1..Len(spans) : q[m] = spans[i]
  <2>1. Falling(q, spans)
    BY <1>0, SortedBackward
  <2> QED BY <2>1 DEF Falling
<1>2. PICK f \in [0..n -> Seq(Spans)] :
        /\ f[0] = <<>>
        /\ \A k \in 1..n :
             f[k] = (IF f[k - 1] # <<>> /\ q[k].end > Last(f[k - 1]).start THEN f[k - 1]
                     ELSE Append(f[k - 1], q[k]))
        /\ KeptBackward(spans) = f[n]
  <2>1. q \in Seq(Spans)
    BY <1>1
  <2> QED BY <1>0, <2>1, KeptBackwardOf
<1>3. /\ n \in Nat
      /\ \A k \in 1..n : /\ q[k] \in Spans /\ q[k].start \in Nat /\ q[k].end \in Nat
                         /\ q[k].start < q[k].end
  <2>1. n \in Nat /\ \A k \in 1..n : q[k] \in Spans
    BY <1>1, LenProperties, ElementOfSeq
  <2> QED BY <2>1, SpanAssumption
<1> HIDE DEF n
<1> DEFINE Fine(k) == /\ Taken(f[k], q, k) /\ Descending(f[k]) /\ Disjoint(f[k])
                      /\ \A i \in 1..k : HitLater(f[k], q[i])
           Bad == {k \in 0..n : ~ Fine(k)}
<1>4. Bad = {}
  <2>1. SUFFICES ASSUME Bad # {} PROVE FALSE
    OBVIOUS
  <2>2. PICK k \in Bad : \A i \in Bad : k <= i
    <3>1. Bad \subseteq Nat
      OBVIOUS
    <3> QED BY <2>1, <3>1, LeastElement
  <2>3. Fine(0)
    <3>1. f[0] = <<>> /\ Len(<<>>) = 0 /\ 1..0 = {} /\ 2..0 = {}
      BY <1>2
    <3> QED BY <3>1 DEF Taken, Descending, Disjoint
  <2>4. k \in 1..n /\ k - 1 \in 0..n /\ k - 1 \notin Bad
    <3> HIDE DEF Fine
    <3> QED BY <1>3, <2>2, <2>3
  <2>5. Fine(k - 1)
    <3> HIDE DEF Fine
    <3> QED BY <2>4
  <2> DEFINE v == f[k - 1]
             s == q[k]
  <2>6. v \in Seq(Spans) /\ s \in Spans /\ s.start \in Nat /\ s.end \in Nat /\ s.start < s.end /\ k \in Nat
    BY <1>2, <1>3, <2>4
  <2>7. /\ Taken(v, q, k - 1) /\ Descending(v) /\ Disjoint(v)
        /\ \A i \in 1..(k - 1) : HitLater(v, q[i])
    BY <2>5
  <2>8. f[k] = IF v # <<>> /\ s.end > Last(v).start THEN v ELSE Append(v, s)
    BY <1>2, <2>4
  <2>9. \A m \in 1..Len(v) : \E i \in 1..(k - 1) : v[m] = q[i] /\ q[i].start >= s.start /\ q[i] \in Spans
    BY <1>1, <1>3, <2>4, <2>7 DEF Taken, n
  <2>10. \A i \in 1..k : i \in 1..(k - 1) \/ i = k
    BY <2>6
  <2>11. \A i \in 1..(k - 1) : i \in 1..k
    BY <2>6
  <2>20. k \in 1..k
    BY <2>4
  <2> HIDE DEF v, s, Fine
  <2>12. CASE v # <<>> /\ s.end > Last(v).start
    <3>1. f[k] = v
      BY <2>8, <2>12
    <3>2. Len(v) \in 1..Len(v) /\ Last(v) = v[Len(v)]
      BY <2>6, <2>12, Endmost
    <3>3. s.start <= v[Len(v)].start /\ v[Len(v)].start < s.end
      <4>1. PICK i \in 1..(k - 1) : v[Len(v)] = q[i] /\ q[i].start >= s.start
        BY <2>9, <3>2
      <4>2. q[i].start \in Nat
        BY <1>3, <2>4
      <4> QED BY <2>6, <2>12, <3>2, <4>1, <4>2
    <3>4. HitLater(v, s)
      BY <3>2, <3>3 DEF HitLater
    <3>5. \A i \in 1..k : HitLater(v, q[i])
      BY <2>7, <2>10, <3>4 DEF s
    <3>6. Taken(v, q, k)
      BY <2>7, <2>11 DEF Taken
    <3>7. Fine(k)
      BY <2>7, <3>1, <3>5, <3>6 DEF Fine
    <3> QED BY <2>2, <3>7
  <2>13. CASE ~ (v # <<>> /\ s.end > Last(v).start)
    <3> DEFINE w == Append(v, s)
               l == Len(v)
    <3>1. /\ w \in Seq(Spans) /\ l \in Nat /\ Len(w) = l + 1
          /\ \A m \in 1..l : w[m] = v[m]
          /\ w[l + 1] = s
      BY <2>6, Appended
    <3>2. f[k] = w
      BY <2>8, <2>13
    <3> HIDE DEF w
    <3>3. \A m \in 1..(l + 1) : m \in 1..l \/ m = l + 1
      BY <3>1
    <3>4. Taken(w, q, k)
      <4>1. ASSUME NEW m \in 1..Len(w) PROVE \E i \in 1..k : w[m] = q[i]
        <5>1. CASE m = l + 1
          BY <2>20, <3>1, <5>1 DEF s
        <5>2. CASE m \in 1..l
          BY <2>9, <2>11, <3>1, <5>2
        <5> QED BY <3>1, <3>3, <5>1, <5>2
      <4> QED BY <4>1 DEF Taken
    <3>5. \A m \in 1..l : v[m].start >= s.start
      BY <2>9
    <3>6. Descending(w)
      <4>1. ASSUME NEW m \in 1..Len(w), NEW j \in 1..(m - 1) PROVE w[j].start >= w[m].start
        <5>1. j \in 1..l
          BY <3>1
        <5>2. CASE m = l + 1
          BY <3>1, <3>5, <5>1, <5>2
        <5>3. CASE m \in 1..l
          BY <2>7, <3>1, <5>1, <5>3 DEF Descending
        <5> QED BY <3>1, <3>3, <5>2, <5>3
      <4> QED BY <4>1 DEF Descending
    <3>7. Disjoint(w)
      <4>1. ASSUME NEW m \in 2..Len(w) PROVE w[m].end <= w[m - 1].start
        <5>1. m - 1 \in 1..l /\ m \in 1..(l + 1)
          BY <3>1
        <5>2. CASE m = l + 1
          <6>1. v # <<>>
            BY <3>1, <5>1, EmptySeq
          <6>2. Last(v) = v[l] /\ m - 1 = l /\ ~ (s.end > Last(v).start)
            BY <2>6, <2>13, <3>1, <5>2, <6>1, Endmost
          <6>3. v[l].start \in Nat
            <7>1. PICK i \in 1..(k - 1) : v[l] = q[i]
              BY <2>9, <5>1, <6>2
            <7> QED BY <1>3, <2>4, <7>1
          <6>4. w[m] = s /\ w[m - 1] = v[l]
            BY <3>1, <5>1, <5>2, <6>2
          <6> QED BY <2>6, <6>2, <6>3, <6>4
        <5>3. CASE m \in 1..l
          <6>1. m \in 2..l
            BY <3>1, <5>3
          <6> QED BY <2>7, <3>1, <5>1, <5>3, <6>1 DEF Disjoint
        <5> QED BY <3>3, <5>1, <5>2, <5>3
      <4> QED BY <4>1 DEF Disjoint
    <3>8. \A i \in 1..k : HitLater(w, q[i])
      <4>1. HitLater(w, s)
        <5>1. l + 1 \in 1..Len(w)
          BY <3>1
        <5> QED BY <2>6, <3>1, <5>1 DEF HitLater
      <4>2. ASSUME NEW i \in 1..(k - 1) PROVE HitLater(w, q[i])
        <5>1. PICK m \in 1..l : q[i].start <= v[m].start /\ v[m].start < q[i].end
          BY <2>7 DEF HitLater
        <5>2. m \in 1..Len(w)
          BY <3>1
        <5> QED BY <3>1, <5>1, <5>2 DEF HitLater
      <4> QED BY <2>10, <4>1, <4>2 DEF s
    <3>9. Fine(k)
      BY <3>2, <3>4, <3>6, <3>7, <3>8 DEF Fine
    <3> QED BY <2>2, <3>9
  <2> QED BY <2>12, <2>13
<1>5. Fine(n) /\ f[n] \in Seq(Spans)
  <2>1. n \in 0..n
    BY <1>3
  <2> HIDE DEF Fine
  <2> QED BY <1>2, <1>4, <2>1
<1>6. \A i \in 1..Len(spans) : HitLater(f[n], spans[i])
  BY <1>1, <1>5 DEF n
<1>7. Taken(f[n], spans, Len(spans))
  BY <1>1, <1>5 DEF Taken, n
<1> QED BY <1>2, <1>5, <1>6, <1>7

LEMMA ForwardKeeps ==
    ASSUME NEW spans \in Seq(Spans)
    PROVE  LET kept == KeptForward(spans)
           IN  /\ kept \in Seq(Spans) /\ Ascending(kept) /\ Apart(kept)
               /\ \A i \in 1..Len(spans) : HitEarlier(kept, spans[i])
               /\ Taken(kept, spans, Len(spans))
<1>0. PICK q : q = Upward(spans)
  OBVIOUS
<1> DEFINE n == Len(q)
<1>1. /\ q \in Seq(Spans)
      /\ \A m \in 1..n : \A k \in 1..(m - 1) : q[k].start <= q[m].start
      /\ \A i \in 1..Len(spans) : \E m \in 1..n : q[m] = spans[i]
      /\ \A m \in 1..n : \E i \in 1..Len(spans) : q[m] = spans[i]
  <2>1. Rising(q, spans)
    BY <1>0, SortedForward
  <2> QED BY <2>1 DEF Rising
<1>2. PICK f \in [0..n -> Seq(Spans)] :
        /\ f[0] = <<>>
        /\ \A k \in 1..n :
             f[k] = (IF f[k - 1] # <<>> /\ q[k].start < Last(f[k - 1]).end THEN f[k - 1]
                     ELSE Append(f[k - 1], q[k]))
        /\ KeptForward(spans) = f[n]
  <2>1. q \in Seq(Spans)
    BY <1>1
  <2> QED BY <1>0, <2>1, KeptForwardOf
<1>3. /\ n \in Nat
      /\ \A k \in 1..n : /\ q[k] \in Spans /\ q[k].start \in Nat /\ q[k].end \in Nat
                         /\ q[k].start < q[k].end
  <2>1. n \in Nat /\ \A k \in 1..n : q[k] \in Spans
    BY <1>1, LenProperties, ElementOfSeq
  <2> QED BY <2>1, SpanAssumption
<1> HIDE DEF n
<1> DEFINE Fine(k) == /\ Taken(f[k], q, k) /\ Ascending(f[k]) /\ Apart(f[k])
                      /\ \A i \in 1..k : HitEarlier(f[k], q[i])
           Bad == {k \in 0..n : ~ Fine(k)}
<1>4. Bad = {}
  <2>1. SUFFICES ASSUME Bad # {} PROVE FALSE
    OBVIOUS
  <2>2. PICK k \in Bad : \A i \in Bad : k <= i
    <3>1. Bad \subseteq Nat
      OBVIOUS
    <3> QED BY <2>1, <3>1, LeastElement
  <2>3. Fine(0)
    <3>1. f[0] = <<>> /\ Len(<<>>) = 0 /\ 1..0 = {} /\ 2..0 = {}
      BY <1>2
    <3> QED BY <3>1 DEF Taken, Ascending, Apart
  <2>4. k \in 1..n /\ k - 1 \in 0..n /\ k - 1 \notin Bad
    <3> HIDE DEF Fine
    <3> QED BY <1>3, <2>2, <2>3
  <2>5. Fine(k - 1)
    <3> HIDE DEF Fine
    <3> QED BY <2>4
  <2> DEFINE v == f[k - 1]
             s == q[k]
  <2>6. v \in Seq(Spans) /\ s \in Spans /\ s.start \in Nat /\ s.end \in Nat /\ s.start < s.end /\ k \in Nat
    BY <1>2, <1>3, <2>4
  <2>7. /\ Taken(v, q, k - 1) /\ Ascending(v) /\ Apart(v)
        /\ \A i \in 1..(k - 1) : HitEarlier(v, q[i])
    BY <2>5
  <2>8. f[k] = IF v # <<>> /\ s.start < Last(v).end THEN v ELSE Append(v, s)
    BY <1>2, <2>4
  <2>9. \A m \in 1..Len(v) : \E i \in 1..(k - 1) : v[m] = q[i] /\ q[i].start <= s.start /\ q[i] \in Spans
    BY <1>1, <1>3, <2>4, <2>7 DEF Taken, n
  <2>10. \A i \in 1..k : i \in 1..(k - 1) \/ i = k
    BY <2>6
  <2>11. \A i \in 1..(k - 1) : i \in 1..k
    BY <2>6
  <2>20. k \in 1..k
    BY <2>4
  <2> HIDE DEF v, s, Fine
  <2>12. CASE v # <<>> /\ s.start < Last(v).end
    <3>1. f[k] = v
      BY <2>8, <2>12
    <3>2. Len(v) \in 1..Len(v) /\ Last(v) = v[Len(v)]
      BY <2>6, <2>12, Endmost
    <3>3. v[Len(v)].start <= s.start /\ s.start < v[Len(v)].end
      <4>1. PICK i \in 1..(k - 1) : v[Len(v)] = q[i] /\ q[i].start <= s.start
        BY <2>9, <3>2
      <4>2. q[i].start \in Nat /\ q[i].end \in Nat
        BY <1>3, <2>4
      <4> QED BY <2>6, <2>12, <3>2, <4>1, <4>2
    <3>4. HitEarlier(v, s)
      BY <3>2, <3>3 DEF HitEarlier
    <3>5. \A i \in 1..k : HitEarlier(v, q[i])
      BY <2>7, <2>10, <3>4 DEF s
    <3>6. Taken(v, q, k)
      BY <2>7, <2>11 DEF Taken
    <3>7. Fine(k)
      BY <2>7, <3>1, <3>5, <3>6 DEF Fine
    <3> QED BY <2>2, <3>7
  <2>13. CASE ~ (v # <<>> /\ s.start < Last(v).end)
    <3> DEFINE w == Append(v, s)
               l == Len(v)
    <3>1. /\ w \in Seq(Spans) /\ l \in Nat /\ Len(w) = l + 1
          /\ \A m \in 1..l : w[m] = v[m]
          /\ w[l + 1] = s
      BY <2>6, Appended
    <3>2. f[k] = w
      BY <2>8, <2>13
    <3> HIDE DEF w
    <3>3. \A m \in 1..(l + 1) : m \in 1..l \/ m = l + 1
      BY <3>1
    <3>4. Taken(w, q, k)
      <4>1. ASSUME NEW m \in 1..Len(w) PROVE \E i \in 1..k : w[m] = q[i]
        <5>1. CASE m = l + 1
          BY <2>20, <3>1, <5>1 DEF s
        <5>2. CASE m \in 1..l
          BY <2>9, <2>11, <3>1, <5>2
        <5> QED BY <3>1, <3>3, <5>1, <5>2
      <4> QED BY <4>1 DEF Taken
    <3>5. \A m \in 1..l : v[m].start <= s.start
      BY <2>9
    <3>6. Ascending(w)
      <4>1. ASSUME NEW m \in 1..Len(w), NEW j \in 1..(m - 1) PROVE w[j].start <= w[m].start
        <5>1. j \in 1..l
          BY <3>1
        <5>2. CASE m = l + 1
          BY <3>1, <3>5, <5>1, <5>2
        <5>3. CASE m \in 1..l
          BY <2>7, <3>1, <5>1, <5>3 DEF Ascending
        <5> QED BY <3>1, <3>3, <5>2, <5>3
      <4> QED BY <4>1 DEF Ascending
    <3>7. Apart(w)
      <4>1. ASSUME NEW m \in 2..Len(w) PROVE w[m - 1].end <= w[m].start
        <5>1. m - 1 \in 1..l /\ m \in 1..(l + 1)
          BY <3>1
        <5>2. CASE m = l + 1
          <6>1. v # <<>>
            BY <3>1, <5>1, EmptySeq
          <6>2. Last(v) = v[l] /\ m - 1 = l /\ ~ (s.start < Last(v).end)
            BY <2>6, <2>13, <3>1, <5>2, <6>1, Endmost
          <6>3. v[l].start \in Nat /\ v[l].end \in Nat
            <7>1. PICK i \in 1..(k - 1) : v[l] = q[i]
              BY <2>9, <5>1, <6>2
            <7> QED BY <1>3, <2>4, <7>1
          <6>4. w[m] = s /\ w[m - 1] = v[l]
            BY <3>1, <5>1, <5>2, <6>2
          <6> QED BY <2>6, <6>2, <6>3, <6>4
        <5>3. CASE m \in 1..l
          <6>1. m \in 2..l
            BY <3>1, <5>3
          <6> QED BY <2>7, <3>1, <5>1, <5>3, <6>1 DEF Apart
        <5> QED BY <3>3, <5>1, <5>2, <5>3
      <4> QED BY <4>1 DEF Apart
    <3>8. \A i \in 1..k : HitEarlier(w, q[i])
      <4>1. HitEarlier(w, s)
        <5>1. l + 1 \in 1..Len(w)
          BY <3>1
        <5> QED BY <2>6, <3>1, <5>1 DEF HitEarlier
      <4>2. ASSUME NEW i \in 1..(k - 1) PROVE HitEarlier(w, q[i])
        <5>1. PICK m \in 1..l : v[m].start <= q[i].start /\ q[i].start < v[m].end
          BY <2>7 DEF HitEarlier
        <5>2. m \in 1..Len(w)
          BY <3>1
        <5> QED BY <3>1, <5>1, <5>2 DEF HitEarlier
      <4> QED BY <2>10, <4>1, <4>2 DEF s
    <3>9. Fine(k)
      BY <3>2, <3>4, <3>6, <3>7, <3>8 DEF Fine
    <3> QED BY <2>2, <3>9
  <2> QED BY <2>12, <2>13
<1>5. Fine(n) /\ f[n] \in Seq(Spans)
  <2>1. n \in 0..n
    BY <1>3
  <2> HIDE DEF Fine
  <2> QED BY <1>2, <1>4, <2>1
<1>6. \A i \in 1..Len(spans) : HitEarlier(f[n], spans[i])
  BY <1>1, <1>5 DEF n
<1>7. Taken(f[n], spans, Len(spans))
  BY <1>1, <1>5 DEF Taken, n
<1> QED BY <1>2, <1>5, <1>6, <1>7

LEMMA ListOf ==
    ASSUME NEW S, NEW n \in Nat, NEW f \in [1..n -> S]
    PROVE  f \in Seq(S) /\ Len(f) = n
<1>1. f \in Seq(S)
  BY SeqDef
<1> QED BY <1>1, LenProperties

LEMMA Turned ==
    ASSUME NEW q \in Seq(Spans), Ascending(q), Apart(q)
    PROVE  /\ Reverse(q) \in Seq(Spans) /\ Descending(Reverse(q)) /\ Disjoint(Reverse(q))
           /\ \A m \in 1..Len(q) : \E k \in 1..Len(Reverse(q)) : Reverse(q)[k] = q[m]
<1> DEFINE n == Len(q)
           r == Reverse(q)
<1>1. /\ n \in Nat
      /\ \A k \in 1..n : q[k] \in Spans /\ q[k].start \in Nat /\ q[k].end \in Nat
  <2>1. n \in Nat /\ \A k \in 1..n : q[k] \in Spans
    BY LenProperties, ElementOfSeq
  <2> QED BY <2>1, SpanAssumption
<1> HIDE DEF n
<1>2. r = [i \in 1..n |-> q[(n - i) + 1]]
  BY DEF Reverse, n
<1> HIDE DEF r
<1>3. \A i \in 1..n : (n - i) + 1 \in 1..n
  BY <1>1
<1>4. r \in [1..n -> Spans] /\ \A i \in 1..n : r[i] = q[(n - i) + 1]
  BY <1>1, <1>2, <1>3
<1>5. r \in Seq(Spans) /\ Len(r) = n
  BY <1>1, <1>4, ListOf
<1>6. Descending(r)
  <2>1. ASSUME NEW m \in 1..n, NEW k \in 1..(m - 1) PROVE r[k].start >= r[m].start
    <3>1. k \in 1..n /\ (n - m) + 1 \in 1..n /\ (n - k) + 1 \in 1..n /\ (n - m) + 1 \in 1..((n - k) + 1 - 1)
      BY <1>1
    <3>2. q[(n - m) + 1].start <= q[(n - k) + 1].start
      BY <3>1 DEF Ascending, n
    <3> QED BY <1>1, <1>4, <3>1, <3>2
  <2> QED BY <1>5, <2>1 DEF Descending
<1>7. Disjoint(r)
  <2>1. ASSUME NEW m \in 2..n PROVE r[m].end <= r[m - 1].start
    <3>1. m \in 1..n /\ m - 1 \in 1..n
      BY <1>1
    <3>2. PICK j \in 2..n : j = (n - (m - 1)) + 1 /\ j - 1 = (n - m) + 1
      BY <1>1
    <3>3. q[j - 1].end <= q[j].start
      BY <3>2 DEF Apart, n
    <3> QED BY <1>4, <3>1, <3>2, <3>3
  <2> QED BY <1>5, <2>1 DEF Disjoint
<1>8. ASSUME NEW m \in 1..n PROVE \E k \in 1..n : r[k] = q[m]
  <2>1. (n - m) + 1 \in 1..n /\ (n - ((n - m) + 1)) + 1 = m
    BY <1>1
  <2> QED BY <1>4, <2>1
<1> QED BY <1>5, <1>6, <1>7, <1>8 DEF n, r

(* Where all matches are personal data or none is.                         *)
LEMMA AllOfKind ==
    ASSUME NEW spans \in Seq(Spans), NEW kind \in BOOLEAN, NEW other \in BOOLEAN, other # kind,
           OfKind(spans, kind) = <<>>
    PROVE  OfKind(spans, other) = spans
<1> DEFINE n == Len(spans)
<1>1. n \in Nat /\ \A k \in 1..n : spans[k] \in Spans /\ spans[k].personal \in BOOLEAN
  <2>1. n \in Nat /\ \A k \in 1..n : spans[k] \in Spans
    BY LenProperties, ElementOfSeq
  <2> QED BY <2>1, SpanAssumption
<1>2. PICK f \in [0..n -> Seq(Spans)] :
        /\ f[0] = <<>>
        /\ \A k \in 1..n : f[k] = (IF spans[k].personal = kind THEN Append(f[k - 1], spans[k]) ELSE f[k - 1])
        /\ OfKind(spans, kind) = f[n]
  BY OfKindOf
<1>3. PICK g \in [0..n -> Seq(Spans)] :
        /\ g[0] = <<>>
        /\ \A k \in 1..n : g[k] = (IF spans[k].personal = other THEN Append(g[k - 1], spans[k]) ELSE g[k - 1])
        /\ OfKind(spans, other) = g[n]
  BY OfKindOf
<1> HIDE DEF n
<1>4. ASSUME NEW c \in 1..n, spans[c].personal = kind PROVE FALSE
  <2> DEFINE Bad == {k \in c..n : f[k] = <<>>}
  <2>1. n \in Bad
    BY <1>1, <1>2
  <2>2. PICK k \in Bad : \A i \in Bad : k <= i
    <3>1. Bad \subseteq Nat
      BY <1>1
    <3>2. Bad # {}
      BY <2>1
    <3> HIDE DEF Bad
    <3> QED BY <3>1, <3>2, LeastElement
  <2>3. k \in 1..n /\ k - 1 \in 0..n /\ f[k] = <<>> /\ f[k - 1] \in Seq(Spans) /\ spans[k] \in Spans
    BY <1>1, <1>2, <2>2
  <2>4. Append(f[k - 1], spans[k]) # <<>>
    <3>1. Len(f[k - 1]) \in Nat /\ Len(Append(f[k - 1], spans[k])) = Len(f[k - 1]) + 1
      BY <2>3, Appended
    <3>2. \A w : w = <<>> => Len(w) = 0
      OBVIOUS
    <3>3. Len(Append(f[k - 1], spans[k])) # 0
      BY <3>1
    <3> QED BY <3>2, <3>3, Zenon
  <2>5. k # c /\ f[k - 1] = <<>>
    BY <1>2, <1>4, <2>3, <2>4
  <2>6. k - 1 \in Bad
    BY <1>1, <2>2, <2>5
  <2> QED BY <2>2, <2>3, <2>6
<1>5. \A k \in 1..n : g[k] = Append(g[k - 1], spans[k])
  <2>1. \A k \in 1..n : spans[k].personal = other
    BY <1>1, <1>4
  <2> QED BY <1>3, <2>1
<1> DEFINE Fine(k) == Len(g[k]) = k /\ \A i \in 1..k : g[k][i] = spans[i]
           Bad == {k \in 0..n : ~ Fine(k)}
<1>6. Bad = {}
  <2>1. SUFFICES ASSUME Bad # {} PROVE FALSE
    OBVIOUS
  <2>2. PICK k \in Bad : \A i \in Bad : k <= i
    <3>1. Bad \subseteq Nat
      OBVIOUS
    <3> QED BY <2>1, <3>1, LeastElement
  <2>3. Fine(0)
    BY <1>3
  <2>4. k \in 1..n /\ k - 1 \in 0..n /\ k - 1 \notin Bad
    <3> HIDE DEF Fine
    <3> QED BY <1>1, <2>2, <2>3
  <2>5. Len(g[k - 1]) = k - 1 /\ \A i \in 1..(k - 1) : g[k - 1][i] = spans[i]
    BY <2>4
  <2>6. g[k - 1] \in Seq(Spans) /\ spans[k] \in Spans
    BY <1>1, <1>3, <2>4
  <2>7. /\ Len(Append(g[k - 1], spans[k])) = k
        /\ \A m \in 1..(k - 1) : Append(g[k - 1], spans[k])[m] = g[k - 1][m]
        /\ Append(g[k - 1], spans[k])[k] = spans[k]
    BY <2>4, <2>5, <2>6, Appended
  <2>8. \A i \in 1..k : i \in 1..(k - 1) \/ i = k
    BY <2>4
  <2>9. Fine(k)
    BY <1>5, <2>4, <2>5, <2>7, <2>8
  <2> QED BY <2>2, <2>9
<1>7. Fine(n)
  <2>1. n \in 0..n
    BY <1>1
  <2> HIDE DEF Fine
  <2> QED BY <1>6, <2>1
<1>8. g[n] \in Seq(Spans) /\ Len(g[n]) = Len(spans) /\ \A i \in 1..Len(g[n]) : g[n][i] = spans[i]
  BY <1>1, <1>3, <1>7 DEF n
<1>9. g[n] = spans
  BY <1>8, SeqEqual
<1> QED BY <1>3, <1>9

LEMMA NothingToCut ==
    ASSUME NEW E, NEW t \in Seq(E), NEW p \in Seq(E)
    PROVE  Splices(t, KeptBackward(<<>>), p) = t /\ Splices(t, Downward(<<>>), p) = t
<1>1. <<>> \in Seq(Spans) /\ Len(<<>>) = 0
  OBVIOUS
<1>2. PICK q : q = Downward(<<>>)
  OBVIOUS
<1>3. q \in Seq(Spans) /\ Len(q) = 0
  <2>1. Falling(q, <<>>)
    BY <1>1, <1>2, SortedBackward
  <2> QED BY <1>1, <2>1 DEF Falling
<1>4. KeptBackward(<<>>) = <<>>
  <2>1. PICK f \in [0..Len(q) -> Seq(Spans)] : f[0] = <<>> /\ KeptBackward(<<>>) = f[Len(q)]
    BY <1>2, <1>3, KeptBackwardOf
  <2> QED BY <1>3, <2>1
<1>5. PICK e \in Seq(Spans) : e = <<>> /\ Len(e) = 0
  BY <1>1
<1>6. Splices(t, e, p) = t
  <2>1. PICK f \in [0..Len(e) -> Seq(E)] :
          /\ f[0] = t /\ \A k \in 1..Len(e) : f[k] = Splice(f[k - 1], e[k], p)
          /\ Splices(t, e, p) = f[Len(e)]
    BY SplicesOf, SMTT(30)
  <2> QED BY <1>5, <2>1
<1>7. q = <<>>
  BY <1>3, EmptySeq
<1> QED BY <1>2, <1>4, <1>5, <1>6, <1>7

LEMMA NotWhole ==
    ASSUME NEW E, 1..Length \subseteq E, NEW t \in Seq(E), NEW s \in Spans, Gone(t, s)
    PROVE  ~ Occurs(t, Cut(s))
<1> DEFINE b == s.start
           e == s.end
           part == Cut(s)
<1>1. b \in Nat /\ e \in Nat /\ b < e /\ e <= Length /\ Length \in Nat
  BY SpanAssumption
<1>2. PICK x \in (b + 1)..e : Absent(x, t)
  BY DEF Gone
<1> HIDE DEF b, e
<1>3. Original \in Seq(E) /\ Len(Original) = Length /\ \A i \in 1..Length : Original[i] = i
  BY OriginalOf DEF Original
<1>4. /\ Len(part) = e - b
      /\ \A i \in 1..(e - b) : part[i] = b + i
  <2>1. b + 1 \in Int /\ e \in Int /\ \A i \in (b + 1)..e : Original[i] \in E
    BY <1>1, <1>3
  <2>2. /\ Len(part) = (IF b + 1 <= e THEN e - (b + 1) + 1 ELSE 0)
        /\ \A i \in 1..(e - (b + 1) + 1) : part[i] = Original[b + 1 + i - 1]
    BY <2>1, SubSeqProperties DEF Cut, b, e
  <2> HIDE DEF part
  <2>3. \A i \in 1..(e - b) : i \in 1..(e - (b + 1) + 1) /\ b + 1 + i - 1 = b + i /\ b + i \in 1..Length
    BY <1>1
  <2> QED BY <1>1, <1>3, <2>2, <2>3
<1> HIDE DEF part
<1>5. Len(t) \in Nat /\ \A i \in 1..Len(t) : t[i] \in E
  BY LenProperties, ElementOfSeq
<1>6. ASSUME NEW i \in 0..(Len(t) - Len(part)), SubSeq(t, i + 1, i + Len(part)) = part
      PROVE  FALSE
  <2> DEFINE n == e - b
             j == x - b
  <2>1. /\ n \in Nat /\ j \in 1..n /\ i \in Nat /\ i + n <= Len(t) /\ i + j \in 1..Len(t) /\ b + j = x
        /\ Len(part) = n
    BY <1>1, <1>2, <1>4, <1>5
  <2>2. part[j] = x
    BY <1>4, <2>1
  <2> HIDE DEF n, j
  <2>3. PICK u \in Int, v \in Int : u = i + 1 /\ v = i + n
    BY <2>1
  <2>4. \A k \in u..v : t[k] \in E
    BY <1>5, <2>1, <2>3
  <2>5. \A k \in 1..(v - u + 1) : SubSeq(t, u, v)[k] = t[u + k - 1]
    BY <2>4, SubSeqProperties
  <2>6. SubSeq(t, i + 1, i + n)[j] = t[i + j]
    <3>1. j \in 1..(v - u + 1) /\ u + j - 1 = i + j
      BY <2>1, <2>3
    <3>2. SubSeq(t, u, v)[j] = t[i + j]
      BY <2>5, <3>1
    <3> QED BY <2>3, <3>2
  <2>7. t[i + j] = x
    BY <1>6, <2>1, <2>2, <2>6
  <2> QED BY <1>2, <2>1, <2>7 DEF Absent
<1> QED BY <1>6 DEF Occurs, part

LEMMA PlaceholdersForeign ==
    /\ 1..Length \subseteq Symbols
    /\ \A p \in {PersonalPlaceholder, Placeholder} : p \in Seq(Symbols) /\ Foreign(p)
<1>1. 1..Length \subseteq Symbols
  BY DEF Symbols
<1>2. ASSUME NEW p \in {PersonalPlaceholder, Placeholder} PROVE p \in Seq(Symbols) /\ Foreign(p)
  <2> DEFINE symbols == {p[i] : i \in DOMAIN p}
  <2>1. p \in Seq(symbols) /\ symbols \cap (1..Length) = {}
    BY SpanAssumption
  <2>2. symbols \subseteq Symbols
    BY DEF Symbols
  <2>3. Len(p) \in Nat /\ DOMAIN p = 1..Len(p) /\ \A i \in 1..Len(p) : p[i] \in symbols
    <3> HIDE DEF symbols
    <3> QED BY <2>1, LenProperties, ElementOfSeq
  <2>4. p \in Seq(Symbols)
    <3> HIDE DEF symbols
    <3>1. p \in [1..Len(p) -> Symbols]
      BY <2>1, <2>2, LenProperties
    <3> QED BY <2>3, <3>1
  <2>5. Foreign(p)
    <3> HIDE DEF symbols
    <3> QED BY <2>1, <2>3 DEF Foreign
  <2> QED BY <2>4, <2>5
<1> QED BY <1>1, <1>2

(* The three redactions.                                                   *)
LEMMA RedactionsCut ==
    ASSUME NEW spans \in Seq(Spans), NEW p \in {PersonalPlaceholder, Placeholder}
    PROVE  \A r \in {Redact(Original, spans, p), RedactDetections(Original, spans, p),
                     Splices(Original, Downward(spans), p)} :
             r \in Seq(Symbols) /\ CutFrom(r, spans)
<1>1. 1..Length \subseteq Symbols /\ p \in Seq(Symbols) /\ Foreign(p)
  BY PlaceholdersForeign
<1>2. /\ Len(spans) \in Nat
      /\ \A i \in 1..Len(spans) : /\ spans[i] \in Spans /\ spans[i].start \in Nat /\ spans[i].end \in Nat
                                  /\ spans[i].start < spans[i].end
  <2>1. Len(spans) \in Nat /\ \A i \in 1..Len(spans) : spans[i] \in Spans
    BY LenProperties, ElementOfSeq
  <2> QED BY <2>1, SpanAssumption
<1>3. ASSUME NEW i \in 1..Len(spans), NEW r, Absent(spans[i].start + 1, r) PROVE Gone(r, spans[i])
  <2>1. spans[i].start + 1 \in (spans[i].start + 1)..spans[i].end
    <3>1. spans[i].start \in Nat /\ spans[i].end \in Nat /\ spans[i].start < spans[i].end
      BY <1>2
    <3> QED BY <3>1
  <2> QED BY <1>3, <2>1 DEF Gone
<1>4. ASSUME NEW r, r = Splices(Original, Downward(spans), p)
      PROVE  r \in Seq(Symbols) /\ CutFrom(r, spans)
  <2>1. PICK q : q = Downward(spans)
    OBVIOUS
  <2>2. Falling(q, spans)
    BY <2>1, SortedBackward
  <2>3. /\ q \in Seq(Spans) /\ Descending(q) /\ Len(q) \in Nat
        /\ \A i \in 1..Len(spans) : \E m \in 1..Len(q) : q[m] = spans[i]
        /\ \A m \in 1..Len(q) : \E i \in 1..Len(spans) : q[m] = spans[i]
    BY <1>2, <2>2 DEF Falling, Descending
  <2>4. r = Splices(Original, q, p)
    BY <1>4, <2>1
  <2>5. /\ r \in Seq(Symbols) /\ \A m \in 1..Len(q) : Absent(q[m].start + 1, r)
        /\ \A m \in 1..Len(q) : Free(q, m) => AllGone(r, q[m])
    BY <1>1, <2>3, <2>4, CutOut DEF AllGone
  <2>6. \A i \in 1..Len(spans) : Absent(spans[i].start + 1, r)
    BY <2>3, <2>5
  <2>7. ASSUME NEW i \in 1..Len(spans), Alone(spans, i) PROVE AllGone(r, spans[i])
    <3> DEFINE At == {m \in 1..Len(q) : q[m] = spans[i]}
    <3>1. PICK m \in At : \A k \in At : m <= k
      <4>1. At # {}
        BY <2>3
      <4>2. At \subseteq Nat
        <5>1. \A k \in 1..Len(q) : k \in Nat
          OBVIOUS
        <5> QED BY <5>1
      <4> HIDE DEF At
      <4> QED BY <4>1, <4>2, LeastElement
    <3>2. ASSUME m # 1 PROVE q[m].end <= q[m - 1].start
      <4>1. m - 1 \in 1..Len(q) /\ m - 1 \notin At /\ m - 1 \in 1..(m - 1)
        <5>1. Len(q) \in Nat /\ m \in 1..Len(q)
          BY <2>3, <3>1
        <5>2. m - 1 \in 1..Len(q) /\ m - 1 \in 1..(m - 1) /\ ~ (m <= m - 1)
          BY <3>2, <5>1
        <5> HIDE DEF At
        <5> QED BY <3>1, <5>2
      <4>2. PICK j \in 1..Len(spans) : q[m - 1] = spans[j]
        BY <2>3, <4>1
      <4>3. q[m - 1] # spans[i] /\ q[m] = spans[i] /\ q[m - 1].start >= q[m].start
        BY <2>3, <3>1, <4>1 DEF Descending
      <4>4. spans[j].end <= spans[i].start \/ spans[i].end <= spans[j].start
        BY <3>2, <4>2, <4>3, <2>7 DEF Alone
      <4> QED BY <1>2, <4>2, <4>3, <4>4
    <3> QED BY <2>5, <3>1, <3>2 DEF Free
  <2> QED BY <1>3, <2>5, <2>6, <2>7 DEF CutFrom
<1>5. ASSUME NEW r, r = RedactDetections(Original, spans, p)
      PROVE  r \in Seq(Symbols) /\ CutFrom(r, spans)
  <2>1. PICK q : q = KeptBackward(spans)
    OBVIOUS
  <2>2. /\ q \in Seq(Spans) /\ Descending(q) /\ Disjoint(q) /\ Taken(q, spans, Len(spans))
        /\ \A i \in 1..Len(spans) : HitLater(q, spans[i])
    BY <2>1, BackwardKeeps
  <2>3. r = Splices(Original, q, p)
    BY <1>5, <2>1 DEF RedactDetections
  <2>4. /\ r \in Seq(Symbols) /\ \A m \in 1..Len(q) : Absent(q[m].start + 1, r)
        /\ \A m \in 1..Len(q) : Free(q, m) => AllGone(r, q[m])
    BY <1>1, <2>2, <2>3, CutOut DEF AllGone
  <2>5. ASSUME NEW i \in 1..Len(spans) PROVE Gone(r, spans[i])
    <3>1. PICK m \in 1..Len(q) : spans[i].start <= q[m].start /\ q[m].start < spans[i].end
      BY <2>2 DEF HitLater
    <3>2. q[m] \in Spans /\ q[m].start \in Nat
      BY <2>2, ElementOfSeq, SpanAssumption, SMTT(30)
    <3>3. q[m].start + 1 \in (spans[i].start + 1)..spans[i].end
      <4>1. spans[i].start \in Nat /\ spans[i].end \in Nat
        BY <1>2
      <4> QED BY <3>1, <3>2, <4>1
    <3> QED BY <2>4, <3>3 DEF Gone
  <2>6. ASSUME NEW i \in 1..Len(spans), Alone(spans, i) PROVE AllGone(r, spans[i])
    <3>1. PICK m \in 1..Len(q) : spans[i].start <= q[m].start /\ q[m].start < spans[i].end
      BY <2>2 DEF HitLater
    <3>2. PICK j \in 1..Len(spans) : q[m] = spans[j]
      BY <2>2 DEF Taken
    <3>3. j = i
      BY <1>2, <2>6, <3>1, <3>2 DEF Alone
    <3>4. Free(q, m)
      BY <2>2, LenProperties DEF Free, Disjoint
    <3> QED BY <2>4, <3>2, <3>3, <3>4
  <2> QED BY <2>4, <2>5, <2>6 DEF CutFrom
<1>6. ASSUME NEW r, r = Redact(Original, spans, p)
      PROVE  r \in Seq(Symbols) /\ CutFrom(r, spans)
  <2>1. PICK kept : kept = KeptForward(spans)
    OBVIOUS
  <2>2. /\ kept \in Seq(Spans) /\ Ascending(kept) /\ Apart(kept)
        /\ \A i \in 1..Len(spans) : HitEarlier(kept, spans[i])
        /\ Taken(kept, spans, Len(spans))
    BY <2>1, ForwardKeeps
  <2>3. PICK q : q = Reverse(kept)
    OBVIOUS
  <2>4. /\ q \in Seq(Spans) /\ Descending(q) /\ Disjoint(q)
        /\ \A m \in 1..Len(kept) : \E k \in 1..Len(q) : q[k] = kept[m]
    BY <2>2, <2>3, Turned
  <2>5. r = Splices(Original, q, p)
    BY <1>6, <2>1, <2>3 DEF Redact
  <2>6. r \in Seq(Symbols) /\ \A m \in 1..Len(q) : \A x \in (q[m].start + 1)..q[m].end : Absent(x, r)
    <3>1. \A m \in 1..Len(q) : Free(q, m)
      BY <2>4, LenProperties DEF Free, Disjoint
    <3> QED BY <1>1, <2>4, <2>5, <3>1, CutOut
  <2>7. ASSUME NEW i \in 1..Len(spans) PROVE Gone(r, spans[i])
    <3>1. PICK m \in 1..Len(kept) : kept[m].start <= spans[i].start /\ spans[i].start < kept[m].end
      BY <2>2 DEF HitEarlier
    <3>2. PICK k \in 1..Len(q) : q[k] = kept[m]
      BY <2>4
    <3>3. q[k] \in Spans /\ q[k].start \in Nat /\ q[k].end \in Nat
      <4>1. q[k] \in Spans
        BY <2>4, ElementOfSeq
      <4> QED BY <4>1, SpanAssumption
    <3>4. spans[i].start + 1 \in (q[k].start + 1)..q[k].end
      <4>1. PICK u \in Nat, x \in Nat, e \in Nat :
               u = q[k].start /\ x = spans[i].start /\ e = q[k].end
        BY <1>2, <3>3
      <4>2. u <= x /\ x < e
        BY <3>1, <3>2, <4>1
      <4>3. x + 1 \in (u + 1)..e
        BY <4>2
      <4> QED BY <4>1, <4>3
    <3>5. Absent(spans[i].start + 1, r)
      BY <2>6, <3>4
    <3> QED BY <1>3, <3>5
  <2>8. ASSUME NEW i \in 1..Len(spans), Alone(spans, i) PROVE AllGone(r, spans[i])
    <3>1. PICK m \in 1..Len(kept) : kept[m].start <= spans[i].start /\ spans[i].start < kept[m].end
      BY <2>2 DEF HitEarlier
    <3>2. PICK j \in 1..Len(spans) : kept[m] = spans[j]
      BY <2>2 DEF Taken
    <3>3. j = i
      BY <1>2, <2>8, <3>1, <3>2 DEF Alone
    <3>4. PICK k \in 1..Len(q) : q[k] = spans[i]
      BY <2>4, <3>2, <3>3
    <3> QED BY <2>6, <3>4 DEF AllGone
  <2> QED BY <2>6, <2>7, <2>8 DEF CutFrom
<1> QED BY <1>4, <1>5, <1>6

LEMMA ListsMatchesNext == ListsMatches /\ [AnalysisNext]_analysed => ListsMatches'
<1> SUFFICES ASSUME ListsMatches, [AnalysisNext]_analysed, bench'.kind = "spans"
             PROVE  list' \in Seq(Spans)
  BY DEF ListsMatches
<1>1. CASE UNCHANGED <<bench, list>>
  BY <1>1 DEF ListsMatches
<1>2. CASE AddSpan
  <2>1. bench' = bench /\ \E x \in Spans : list' = Append(list, x)
    BY <1>2 DEF AddSpan, Append1
  <2>2. list \in Seq(Spans)
    BY <2>1 DEF ListsMatches
  <2> QED BY <2>1, <2>2, AppendProperties
<1>3. CASE AddToken \/ AddWord \/ AddCharacter \/ AddSymbol
  BY <1>3 DEF AddToken, AddWord, AddCharacter, AddSymbol, Append1
<1>4. CASE AddPiece
  BY <1>1, <1>4 DEF AddPiece
<1>5. CASE RunCampaign
  BY <1>1, <1>5 DEF RunCampaign
<1>6. CASE UNCHANGED analysed
  BY <1>1, <1>6 DEF analysed
<1> QED BY <1>2, <1>3, <1>4, <1>5, <1>6 DEF AnalysisNext

LEMMA MatchesRedacted == ListsMatches => NoWholeMatchRemains
<1> SUFFICES ASSUME ListsMatches, bench.kind = "spans" PROVE NoWholeMatchRemains
  BY DEF NoWholeMatchRemains
<1>1. list \in Seq(Spans) /\ DOMAIN list = 1..Len(list) /\ \A i \in 1..Len(list) : list[i] \in Spans
  <2>1. list \in Seq(Spans)
    BY DEF ListsMatches
  <2> QED BY <2>1, LenProperties, ElementOfSeq
<1> DEFINE Clean(r) == r \in Seq(Symbols) /\ CutFrom(r, list)
<1>2. /\ Clean(Redact(Original, list, PersonalPlaceholder))
      /\ Clean(RedactDetections(Original, list, PersonalPlaceholder))
      /\ Clean(Splices(Original, Downward(list), Placeholder))
  BY <1>1, RedactionsCut
<1>3. ASSUME bench.hidden = 0 PROVE Raw = Original
  <2>1. Original \in Seq(Symbols)
    BY OriginalOf, PlaceholdersForeign
  <2>2. [i \in 1..0 |-> 0] = <<>>
    OBVIOUS
  <2> QED BY <1>3, <2>1, <2>2 DEF Raw
<1>4. ASSUME Raw = Original, Personal = <<>> PROVE Clean(Sanitized)
  <2>1. OfKind(list, TRUE) = <<>> /\ OfKind(list, FALSE) = list
    <3>1. OfKind(list, TRUE) = <<>>
      BY <1>4 DEF Personal
    <3> QED BY <1>1, <3>1, AllOfKind
  <2>2. RedactDetections(Original, <<>>, PersonalPlaceholder) = Original
    <3>1. Original \in Seq(Symbols) /\ PersonalPlaceholder \in Seq(Symbols)
      BY OriginalOf, PlaceholdersForeign
    <3> QED BY <3>1, NothingToCut DEF RedactDetections
  <2>3. Sanitized = Splices(Original, Downward(list), Placeholder)
    BY <1>4, <2>1, <2>2 DEF Sanitized, Sanitize, Downward
  <2> QED BY <1>2, <2>3
<1>5. ASSUME Raw = Original, Others = <<>> PROVE Clean(Sanitized)
  <2>1. OfKind(list, TRUE) = list /\ OfKind(list, FALSE) = <<>>
    <3>1. OfKind(list, FALSE) = <<>>
      BY <1>5 DEF Others
    <3> QED BY <1>1, <3>1, AllOfKind
  <2> DEFINE t == RedactDetections(Original, list, PersonalPlaceholder)
  <2>2. Splices(t, Downward(<<>>), Placeholder) = t
    <3>1. t \in Seq(Symbols) /\ Placeholder \in Seq(Symbols)
      BY <1>2, PlaceholdersForeign
    <3> HIDE DEF t
    <3> QED BY <3>1, NothingToCut
  <2>3. Sanitized = Splices(t, Downward(<<>>), Placeholder)
    BY <1>5, <2>1 DEF Sanitized, Sanitize, Downward
  <2> QED BY <1>2, <2>2, <2>3
<1> HIDE DEF Clean
<1>6. ASSUME NEW r, Clean(r), NEW i \in DOMAIN list
      PROVE  /\ ~ Occurs(r, Cut(list[i]))
             /\ Lone(i) => \A n \in DOMAIN r : r[n] \notin Covers(list[i])
  <2>1. r \in Seq(Symbols) /\ i \in 1..Len(list) /\ CutFrom(r, list) /\ DOMAIN r = 1..Len(r)
    BY <1>1, <1>6, LenProperties DEF Clean
  <2>2. ~ Occurs(r, Cut(list[i]))
    BY <1>1, <2>1, NotWhole, PlaceholdersForeign DEF CutFrom
  <2>3. Lone(i) => Alone(list, i)
    BY <1>1 DEF Lone, Alone
  <2> QED BY <2>1, <2>2, <2>3 DEF CutFrom, AllGone, Absent, Covers
<1> DEFINE results == {Redact(Original, list, PersonalPlaceholder)}
                      \cup (IF bench.hidden # 0 THEN {}
                            ELSE {RedactDetections(Raw, list, PersonalPlaceholder)}
                                 \cup (IF Personal = <<>> \/ Others = <<>> THEN {Sanitized} ELSE {}))
<1>7. \A r \in results : Clean(r)
  <2>1. CASE bench.hidden = 0
    BY <1>2, <1>3, <1>4, <1>5, <2>1
  <2>2. CASE bench.hidden # 0
    BY <1>2, <2>2
  <2> QED BY <2>1, <2>2
<1> HIDE DEF results
<1>8. \A r \in results, i \in DOMAIN list :
        /\ ~ Occurs(r, Cut(list[i]))
        /\ Lone(i) => \A n \in DOMAIN r : r[n] \notin Covers(list[i])
  BY <1>6, <1>7
<1> QED BY <1>8 DEF NoWholeMatchRemains, results

(* Redaction leaves no match whole, and of one that overlaps no other not  *)
(* a character: not where redact() replaces the one of two overlapping     *)
(* matches that starts first (pii/redactor.py), in any text; and, in a     *)
(* text that the normalization does not change, neither where              *)
(* redact_with_detections() replaces the one that starts last, nor where   *)
(* sanitize_text() (tool_guard/_sanitize.py) replaces matches of one kind, *)
(* however many there are.                                                 *)
THEOREM RedactionLeavesNothing == Analysis => []NoWholeMatchRemains
<1>1. AnalysisInit => ListsMatches
  BY EmptySeq DEF AnalysisInit, ListsMatches
<1> QED BY <1>1, ListsMatchesNext, MatchesRedacted, PTL DEF Analysis

-----------------------------------------------------------------------------
(***************************************************************************)
(* Normalization.  The characters at some positions of a text: they are    *)
(* the text itself if those are all.                                       *)
(***************************************************************************)
LEMMA ChosenBy ==
    ASSUME NEW E, NEW tx \in Seq(E), NEW positions
    PROVE  \E f \in [0..Len(tx) -> Seq(E)] :
              ChoosesBy(f, tx, positions) /\ Chosen(tx, positions) = f[Len(tx)]
<1> DEFINE n == Len(tx)
           V == Seq(E)
           Op(v, i) == IF i \in positions THEN Append(v, tx[i]) ELSE v
           next == [i \in 1..n |-> [v \in V |-> Op(v, i)]]
           P(g) == g = [i \in 0..n |-> IF i = 0 THEN <<>>
                                        ELSE LET done == g[i - 1]
                                             IN  IF i \in positions THEN Append(done, tx[i]) ELSE done]
           chosen == CHOOSE g : P(g)
<1>1. n \in Nat /\ \A i \in 1..n : tx[i] \in E
  BY LenProperties, ElementOfSeq
<1>2. \A v \in V, i \in 1..n : Op(v, i) \in V
  BY <1>1, AppendProperties
<1>3. <<>> \in V
  OBVIOUS
<1>4. Chosen(tx, positions) = chosen[n]
  BY DEF Chosen
<1> HIDE DEF n, V, chosen
<1>5. PICK f \in [0..n -> V] : f[0] = <<>> /\ \A i \in 1..n : f[i] = Op(f[i - 1], i)
  <2>1. next \in [1..n -> [V -> V]]
    <3> HIDE DEF Op
    <3> QED BY <1>2
  <2> HIDE DEF next, Op
  <2>2. PICK f \in [0..n -> V] : Follows(f, n, <<>>, next)
    BY <1>1, <1>3, <2>1, Recursion
  <2>3. ASSUME NEW i \in 1..n PROVE f[i] = Op(f[i - 1], i)
    <3>1. f[i - 1] \in V
      BY <1>1
    <3>2. next[i][f[i - 1]] = Op(f[i - 1], i)
      BY <3>1 DEF next
    <3> QED BY <2>2, <3>2 DEF Follows
  <2> QED BY <2>2, <2>3 DEF Follows
<1>6. P(f)
  <2>1. \A i \in 0..n : f[i] = IF i = 0 THEN <<>>
                                ELSE LET done == f[i - 1]
                                     IN  IF i \in positions THEN Append(done, tx[i]) ELSE done
    <3> SUFFICES ASSUME NEW i \in 0..n
                 PROVE  f[i] = IF i = 0 THEN <<>>
                               ELSE LET done == f[i - 1]
                                    IN  IF i \in positions THEN Append(done, tx[i]) ELSE done
      OBVIOUS
    <3>1. i = 0 \/ i \in 1..n
      BY <1>1
    <3>2. i \in 1..n => i # 0
      OBVIOUS
    <3> QED BY <1>5, <3>1, <3>2
  <2> QED BY <2>1
<1>7. P(chosen)
  <2> HIDE DEF P
  <2> QED BY <1>6 DEF chosen
<1>8. chosen \in [0..n -> V] /\ chosen[0] = <<>> /\ \A i \in 1..n : chosen[i] = Op(chosen[i - 1], i)
  <2> DEFINE Bad == {i \in 0..n : chosen[i] # f[i]}
  <2>1. /\ DOMAIN chosen = 0..n /\ chosen = [i \in 0..n |-> chosen[i]]
        /\ \A i \in 0..n : chosen[i] = IF i = 0 THEN <<>> ELSE Op(chosen[i - 1], i)
    BY <1>7
  <2> HIDE DEF P
  <2>2. Bad = {}
    <3>1. SUFFICES ASSUME Bad # {} PROVE FALSE
      OBVIOUS
    <3>2. PICK i \in Bad : \A k \in Bad : i <= k
      <4>1. Bad \subseteq Nat
        OBVIOUS
      <4> QED BY <3>1, <4>1, LeastElement
    <3> HIDE DEF Op
    <3>3. i \in 0..n /\ chosen[i] # f[i] /\ i # 0
      <4>1. chosen[0] = <<>>
        <5>1. 0 \in 0..n
          BY <1>1
        <5> QED BY <2>1, <5>1
      <4> QED BY <1>5, <3>2, <4>1
    <3>4. i \in 1..n /\ i - 1 \in 0..n /\ ~ (i <= i - 1)
      BY <1>1, <3>3
    <3>5. i - 1 \notin Bad
      BY <3>2, <3>4
    <3> QED BY <1>5, <2>1, <3>3, <3>4, <3>5
  <2>3. \A i \in 1..n : i \in 0..n /\ i # 0
    BY <1>1
  <2>4. \A i \in 0..n : chosen[i] \in V
    BY <1>5, <2>2
  <2> HIDE DEF Op
  <2> QED BY <1>1, <2>1, <2>3, <2>4
<1> QED BY <1>4, <1>8 DEF ChoosesBy, n, V

LEMMA ChosenIn ==
    ASSUME NEW E, NEW tx \in Seq(E), NEW positions
    PROVE  /\ Chosen(tx, positions) \in Seq(E)
           /\ \A k \in 1..Len(Chosen(tx, positions)) : \E j \in positions \cap (1..Len(tx)) :
                 Chosen(tx, positions)[k] = tx[j]
<1> DEFINE n == Len(tx)
           S == {tx[j] : j \in positions \cap (1..n)}
<1>1. n \in Nat
  BY LenProperties
<1>2. PICK f \in [0..n -> Seq(E)] : ChoosesBy(f, tx, positions) /\ Chosen(tx, positions) = f[n]
  BY ChosenBy
<1>3. f[0] = <<>> /\ \A i \in 1..n : f[i] = IF i \in positions THEN Append(f[i - 1], tx[i]) ELSE f[i - 1]
  BY <1>2 DEF ChoosesBy
<1> HIDE DEF n
<1> DEFINE Bad == {i \in 0..n : f[i] \notin Seq(S)}
<1>4. Bad = {}
  <2>1. SUFFICES ASSUME Bad # {} PROVE FALSE
    OBVIOUS
  <2>2. PICK i \in Bad : \A k \in Bad : i <= k
    <3>1. Bad \subseteq Nat
      OBVIOUS
    <3> QED BY <2>1, <3>1, LeastElement
  <2>3. <<>> \in Seq(S)
    OBVIOUS
  <2>4. i \in 1..n /\ i - 1 \in 0..n /\ i - 1 \notin Bad
    <3> HIDE DEF S
    <3> QED BY <1>1, <1>3, <2>2, <2>3
  <2>5. f[i - 1] \in Seq(S)
    BY <2>4
  <2>6. CASE i \in positions
    <3>1. tx[i] \in S
      BY <2>4, <2>6
    <3> HIDE DEF S
    <3>2. Append(f[i - 1], tx[i]) \in Seq(S)
      BY <2>5, <3>1, AppendProperties
    <3>3. f[i] = Append(f[i - 1], tx[i])
      BY <1>3, <2>4, <2>6
    <3> QED BY <2>2, <3>2, <3>3
  <2>7. CASE i \notin positions
    <3> HIDE DEF S
    <3> QED BY <1>3, <2>2, <2>4, <2>5, <2>7
  <2> QED BY <2>6, <2>7
<1>5. f[n] \in Seq(S)
  <2> HIDE DEF S
  <2>1. n \in 0..n
    BY <1>1
  <2>2. n \notin Bad
    BY <1>4
  <2> QED BY <2>1, <2>2
<1>6. \A k \in 1..Len(f[n]) : f[n][k] \in S
  <2> HIDE DEF S
  <2> QED BY <1>5, ElementOfSeq
<1>7. f[n] \in Seq(E)
  BY <1>1, <1>2
<1> QED BY <1>2, <1>6, <1>7 DEF n

LEMMA ChosenAll ==
    ASSUME NEW E, NEW tx \in Seq(E), NEW positions, 1..Len(tx) \subseteq positions
    PROVE  Chosen(tx, positions) = tx
<1> DEFINE n == Len(tx)
<1>1. n \in Nat /\ \A i \in 1..n : tx[i] \in E
  BY LenProperties, ElementOfSeq
<1>2. PICK f \in [0..n -> Seq(E)] : ChoosesBy(f, tx, positions) /\ Chosen(tx, positions) = f[n]
  BY ChosenBy
<1>3. f[0] = <<>> /\ \A i \in 1..n : f[i] = Append(f[i - 1], tx[i])
  BY <1>2 DEF ChoosesBy
<1> HIDE DEF n
<1> DEFINE Fine(k) == Len(f[k]) = k /\ \A i \in 1..k : f[k][i] = tx[i]
           Bad == {k \in 0..n : ~ Fine(k)}
<1>4. Bad = {}
  <2>1. SUFFICES ASSUME Bad # {} PROVE FALSE
    OBVIOUS
  <2>2. PICK k \in Bad : \A i \in Bad : k <= i
    <3>1. Bad \subseteq Nat
      OBVIOUS
    <3> QED BY <2>1, <3>1, LeastElement
  <2>3. Fine(0)
    BY <1>3
  <2>4. k \in 1..n /\ k - 1 \in 0..n /\ k - 1 \notin Bad
    <3> HIDE DEF Fine
    <3> QED BY <1>1, <2>2, <2>3
  <2>5. Len(f[k - 1]) = k - 1 /\ \A i \in 1..(k - 1) : f[k - 1][i] = tx[i]
    BY <2>4
  <2>6. f[k - 1] \in Seq(E) /\ tx[k] \in E
    BY <1>1, <1>2, <2>4
  <2>7. /\ Len(Append(f[k - 1], tx[k])) = k
        /\ \A m \in 1..k : Append(f[k - 1], tx[k])[m] = IF m <= k - 1 THEN f[k - 1][m] ELSE tx[k]
    BY <2>4, <2>5, <2>6, AppendProperties
  <2>8. \A i \in 1..k : i \in 1..(k - 1) \/ i = k
    BY <2>4
  <2>9. Fine(k)
    <3> DEFINE w == Append(f[k - 1], tx[k])
    <3>1. f[k] = w
      BY <1>3, <2>4
    <3>2. Len(w) = k /\ w[k] = tx[k] /\ \A m \in 1..(k - 1) : w[m] = tx[m]
      <4>1. k \in 1..k /\ ~ (k <= k - 1) /\ \A m \in 1..(k - 1) : m \in 1..k /\ m <= k - 1
        BY <2>4
      <4> QED BY <2>5, <2>7, <4>1
    <3> HIDE DEF w
    <3> QED BY <2>8, <3>1, <3>2
  <2> QED BY <2>2, <2>9
<1>5. Fine(n)
  <2>1. n \in 0..n
    BY <1>1
  <2> HIDE DEF Fine
  <2> QED BY <1>4, <2>1
<1>6. f[n] \in Seq(E) /\ Len(f[n]) = Len(tx) /\ \A i \in 1..Len(f[n]) : f[n][i] = tx[i]
  BY <1>1, <1>2, <1>5 DEF n
<1> QED BY <1>2, <1>6, SeqEqual

LEMMA StripOf ==
    ASSUME NEW t \in Seq(Characters)
    PROVE  /\ StripZeroWidth(t) \in Seq(Characters) /\ Lacks("invisible", StripZeroWidth(t))
           /\ \A c : Lacks(c, t) => Lacks(c, StripZeroWidth(t))
           /\ Lacks("invisible", t) => StripZeroWidth(t) = t
<1> DEFINE S == {i \in DOMAIN t : t[i] # "invisible"}
<1>1. DOMAIN t = 1..Len(t) /\ StripZeroWidth(t) = Chosen(t, S)
  BY LenProperties DEF StripZeroWidth
<1>2. /\ Chosen(t, S) \in Seq(Characters)
      /\ \A k \in 1..Len(Chosen(t, S)) : \E j \in S \cap (1..Len(t)) : Chosen(t, S)[k] = t[j]
  <2> HIDE DEF S
  <2> QED BY ChosenIn
<1>3. Lacks("invisible", Chosen(t, S)) /\ \A c : Lacks(c, t) => Lacks(c, Chosen(t, S))
  BY <1>2 DEF Lacks
<1>4. ASSUME Lacks("invisible", t) PROVE Chosen(t, S) = t
  <2>1. 1..Len(t) \subseteq S
    BY <1>1, <1>4 DEF Lacks
  <2> HIDE DEF S
  <2> QED BY <2>1, ChosenAll
<1> QED BY <1>1, <1>2, <1>3, <1>4

LEMMA HomoglyphsOf ==
    ASSUME NEW t \in Seq(Characters)
    PROVE  /\ MapHomoglyphs(t) \in Seq(Characters) /\ Lacks("double", MapHomoglyphs(t))
           /\ \A c \in {"invisible", "wide"} : Lacks(c, t) => Lacks(c, MapHomoglyphs(t))
           /\ Lacks("double", t) => MapHomoglyphs(t) = t
<1> DEFINE n == Len(t)
           r == [i \in 1..n |-> IF t[i] = "double" THEN "letter" ELSE t[i]]
<1>1. n \in Nat /\ DOMAIN t = 1..n /\ \A i \in 1..n : t[i] \in Characters
  BY LenProperties, ElementOfSeq
<1>2. MapHomoglyphs(t) = r
  BY <1>1 DEF MapHomoglyphs, Mapped
<1>3. r \in [1..n -> Characters]
  BY <1>1 DEF Characters
<1>4. r \in Seq(Characters) /\ Len(r) = n
  BY <1>1, <1>3
<1>5. \A i \in 1..n : r[i] = IF t[i] = "double" THEN "letter" ELSE t[i]
  OBVIOUS
<1> HIDE DEF r
<1>6. Lacks("double", r) /\ \A c \in {"invisible", "wide"} : Lacks(c, t) => Lacks(c, r)
  BY <1>4, <1>5 DEF Lacks
<1>7. ASSUME Lacks("double", t) PROVE r = t
  <2>1. \A i \in 1..Len(r) : r[i] = t[i]
    BY <1>4, <1>5, <1>7 DEF Lacks
  <2> QED BY <1>4, <2>1, SeqEqual
<1> QED BY <1>2, <1>4, <1>6, <1>7

LEMMA LongerBy ==
    ASSUME NEW E, NEW v \in Seq(E), NEW e \in E
    PROVE  /\ Append(v, e) \in Seq(E) /\ Append(v, e) # <<>> /\ Len(v) \in Nat /\ Len(Append(v, e)) = Len(v) + 1
           /\ \A m \in 1..Len(v) : Append(v, e)[m] = v[m]
           /\ Append(v, e)[Len(v) + 1] = e /\ Last(Append(v, e)) = e
           /\ v # <<>> => Len(v) \in 1..Len(v) /\ Last(v) = v[Len(v)] /\ Last(v) \in E
<1> DEFINE w == Append(v, e)
<1>1. w \in Seq(E) /\ Len(w) = Len(v) + 1 /\ Len(v) \in Nat
  BY AppendProperties, LenProperties
<1>2. \A m \in 1..(Len(v) + 1) : w[m] = IF m <= Len(v) THEN v[m] ELSE e
  BY AppendProperties
<1> HIDE DEF w
<1>3. w[Len(v) + 1] = e /\ \A m \in 1..Len(v) : w[m] = v[m]
  BY <1>1, <1>2
<1>4. Last(w) = e
  BY <1>1, <1>3 DEF Last
<1>5. ASSUME v # <<>> PROVE Len(v) \in 1..Len(v) /\ Last(v) = v[Len(v)] /\ Last(v) \in E
  <2>1. Len(v) \in 1..Len(v)
    BY <1>1, <1>5, EmptySeq
  <2> QED BY <2>1, ElementOfSeq DEF Last
<1>6. w # <<>>
  <2>1. \A u : u = <<>> => Len(u) = 0
    OBVIOUS
  <2>2. Len(w) # 0
    BY <1>1
  <2> QED BY <2>1, <2>2, Zenon
<1> QED BY <1>1, <1>3, <1>4, <1>5, <1>6 DEF w

LEMMA CollapseOf ==
    ASSUME NEW t \in Seq(Characters)
    PROVE  /\ CollapseBlanks(t) \in Seq(Characters) /\ Tidy(CollapseBlanks(t))
           /\ \A c : Lacks(c, t) => Lacks(c, CollapseBlanks(t))
           /\ Tidy(t) => CollapseBlanks(t) = t
<1> DEFINE n == Len(t)
           shown == {i \in DOMAIN t : t[i] \notin Blanks}
           kept(i) == /\ \E j, k \in shown : j <= i /\ i <= k
                      /\ ~ (t[i] = "blank" /\ t[i - 1] = "blank")
           S == {i \in DOMAIN t : kept(i)}
           r == Chosen(t, S)
<1>1. n \in Nat /\ DOMAIN t = 1..n /\ \A i \in 1..n : t[i] \in Characters
  BY LenProperties, ElementOfSeq
<1>2. CollapseBlanks(t) = r
  BY DEF CollapseBlanks, Blanks
<1>3. shown = {i \in 1..n : t[i] \notin Blanks} /\ S = {i \in 1..n : kept(i)}
  BY <1>1
<1> HIDE DEF n, shown, S
<1>4. /\ r \in Seq(Characters)
      /\ \A k \in 1..Len(r) : \E j \in S \cap (1..n) : r[k] = t[j]
  BY ChosenIn DEF n
<1>5. \A c : Lacks(c, t) => Lacks(c, r)
  BY <1>4 DEF Lacks, n
<1>6. ASSUME Tidy(t) PROVE r = t
  <2>1. ASSUME NEW i \in 1..n PROVE i \in S
    <3>1. 1 \in 1..n /\ n \in 1..n /\ 1 <= i /\ i <= n /\ t # <<>>
      <4>1. n # 0 => t # <<>>
        BY DEF n
      <4> QED BY <1>1, <4>1
    <3>2. 1 \in shown /\ n \in shown
      BY <1>3, <1>6, <3>1 DEF Tidy, n
    <3>3. ~ (t[i] = "blank" /\ t[i - 1] = "blank")
      <4>1. CASE i = 1
        BY <1>3, <3>2, <4>1 DEF Blanks
      <4>2. CASE i # 1
        <5>1. i \in 2..n
          BY <1>1, <4>2
        <5> QED BY <1>6, <5>1 DEF Tidy, n
      <4> QED BY <4>1, <4>2
    <3> QED BY <1>3, <3>1, <3>2, <3>3
  <2>2. 1..Len(t) \subseteq S
    BY <2>1 DEF n
  <2> QED BY <2>2, ChosenAll
<1>7. Tidy(r)
  <2>1. PICK f \in [0..n -> Seq(Characters)] : ChoosesBy(f, t, S) /\ r = f[n]
    BY ChosenBy DEF n
  <2>2. f[0] = <<>> /\ \A i \in 1..n : f[i] = IF i \in S THEN Append(f[i - 1], t[i]) ELSE f[i - 1]
    BY <2>1 DEF ChoosesBy, n
  <2> HIDE DEF r
  <2>3. CASE shown = {}
    <3>1. S = {}
      BY <1>3, <2>3
    <3>2. \A k \in 1..Len(r) : FALSE
      BY <1>4, <3>1
    <3>3. r = <<>>
      <4>1. Len(r) \in Nat /\ Len(r) = 0
        <5>1. Len(r) \in Nat
          BY <1>4, LenProperties
        <5>2. Len(r) \notin 1..Len(r)
          BY <3>2
        <5> QED BY <5>1, <5>2
      <4> QED BY <1>4, <4>1, EmptySeq
    <3>4. Len(r) = 0 /\ 2..0 = {}
      BY <3>3
    <3> QED BY <3>3, <3>4 DEF Tidy
  <2>4. CASE shown # {}
    <3>1. shown \subseteq 1..n /\ shown \subseteq Nat
      BY <1>3
    <3>2. PICK lo \in shown : \A j \in shown : lo <= j
      BY <2>4, <3>1, LeastElement
    <3>3. Max(shown) \in shown /\ \A j \in shown : j <= Max(shown)
      BY <1>1, <2>4, <3>1, MaxUpTo
    <3>4. PICK hi \in shown : \A j \in shown : j <= hi
      BY <3>3
    <3>5. lo \in 1..n /\ hi \in 1..n /\ lo <= hi /\ t[lo] \notin Blanks /\ t[hi] \notin Blanks
      BY <1>3, <3>1, <3>2, <3>4
    <3>6. \A i \in 1..n : i \in S <=> /\ lo <= i /\ i <= hi
                                      /\ ~ (t[i] = "blank" /\ t[i - 1] = "blank")
      <4>1. ASSUME NEW i \in 1..n, NEW j \in shown, NEW k \in shown, j <= i, i <= k PROVE lo <= i /\ i <= hi
        <5>1. lo <= j /\ k <= hi /\ j \in Nat /\ k \in Nat
          BY <3>1, <3>2, <3>4
        <5> QED BY <3>5, <4>1, <5>1
      <4> QED BY <1>3, <3>2, <3>4, <4>1
    <3> DEFINE At(i) == IF i <= hi THEN i ELSE hi
               Spaced(v) == \A m \in 2..Len(v) : ~ (v[m - 1] = "blank" /\ v[m] = "blank")
               Fine(i) == IF i < lo THEN f[i] = <<>>
                          ELSE f[i] # <<>> /\ Spaced(f[i]) /\ f[i][1] = t[lo] /\ Last(f[i]) = t[At(i)]
               Bad == {i \in 0..n : ~ Fine(i)}
    <3>7. Bad = {}
      <4>1. SUFFICES ASSUME Bad # {} PROVE FALSE
        OBVIOUS
      <4>2. PICK i \in Bad : \A k \in Bad : i <= k
        <5>1. Bad \subseteq Nat
          OBVIOUS
        <5> QED BY <4>1, <5>1, LeastElement
      <4>3. Fine(0)
        BY <2>2, <3>5
      <4>4. i \in 1..n /\ i - 1 \in 0..n /\ i - 1 \notin Bad
        <5> HIDE DEF Fine
        <5> QED BY <1>1, <4>2, <4>3
      <4>5. Fine(i - 1)
        <5> HIDE DEF Fine
        <5> QED BY <4>4
      <4> DEFINE v == f[i - 1]
                 e == t[i]
                 w == Append(v, e)
      <4>6. v \in Seq(Characters) /\ e \in Characters
        BY <1>1, <4>4
      <4>7. f[i] = IF i \in S THEN w ELSE v
        BY <2>2, <4>4
      <4>8. /\ w # <<>> /\ Len(v) \in Nat /\ Len(w) = Len(v) + 1
            /\ \A m \in 1..Len(v) : w[m] = v[m]
            /\ w[Len(v) + 1] = e /\ Last(w) = e
            /\ v # <<>> => Len(v) \in 1..Len(v) /\ Last(v) = v[Len(v)]
        <5> HIDE DEF v, e
        <5> QED BY <4>6, LongerBy
      <4>9. i \in S <=> lo <= i /\ i <= hi /\ ~ (t[i] = "blank" /\ t[i - 1] = "blank")
        BY <3>6, <4>4
      <4>10. IF i - 1 < lo THEN v = <<>>
             ELSE v # <<>> /\ Spaced(v) /\ v[1] = t[lo] /\ Last(v) = t[At(i - 1)]
        BY <4>5
      <4>11. lo \in Nat /\ hi \in Nat /\ i \in Nat /\ lo <= hi
        BY <3>5, <4>4
      <4> HIDE DEF v, w, Spaced
      <4>12. CASE i < lo
        BY <4>2, <4>7, <4>9, <4>10, <4>11, <4>12
      <4>13. CASE i = lo
        <5>1. i \in S /\ f[i] = w /\ v = <<>> /\ Len(v) = 0
          <6>1. i \in S
            BY <3>5, <4>9, <4>11, <4>13 DEF Blanks
          <6>2. v = <<>>
            BY <4>10, <4>11, <4>13
          <6> QED BY <4>7, <6>1, <6>2
        <5>2. Len(w) = 1 /\ w[1] = e /\ 2..1 = {}
          BY <4>8, <5>1
        <5>3. Spaced(w)
          BY <5>2 DEF Spaced
        <5>4. Fine(i)
          BY <4>8, <4>11, <4>13, <5>1, <5>2, <5>3
        <5> QED BY <4>2, <5>4
      <4>14. CASE i > lo /\ i <= hi
        <5>1. v # <<>> /\ Spaced(v) /\ v[1] = t[lo] /\ Last(v) = t[i - 1] /\ ~ (i < lo) /\ At(i) = i
          BY <4>10, <4>11, <4>14
        <5>2. CASE i \in S
          <6>1. 1 \in 1..Len(v) /\ w[1] = t[lo] /\ f[i] = w
            BY <4>7, <4>8, <5>1, <5>2
          <6>2. ASSUME NEW m \in 2..Len(w) PROVE ~ (w[m - 1] = "blank" /\ w[m] = "blank")
            <7>1. CASE m = Len(v) + 1
              <8>1. w[m] = t[i] /\ w[m - 1] = t[i - 1]
                BY <4>8, <5>1, <6>1, <7>1
              <8> QED BY <4>9, <5>2, <8>1
            <7>2. CASE m # Len(v) + 1
              <8>1. m \in 2..Len(v) /\ m \in 1..Len(v) /\ m - 1 \in 1..Len(v)
                BY <4>8, <7>2
              <8> QED BY <4>8, <5>1, <8>1 DEF Spaced
            <7> QED BY <7>1, <7>2
          <6>3. Spaced(w)
            BY <6>2 DEF Spaced
          <6>4. Fine(i)
            BY <4>8, <5>1, <6>1, <6>3
          <6> QED BY <4>2, <6>4
        <5>3. CASE i \notin S
          <6>1. t[i] = "blank" /\ t[i - 1] = "blank" /\ f[i] = v
            BY <4>7, <4>9, <4>11, <4>14, <5>3
          <6>2. Fine(i)
            BY <5>1, <6>1
          <6> QED BY <4>2, <6>2
        <5> QED BY <5>2, <5>3
      <4>15. CASE i > hi
        <5>1. f[i] = v /\ ~ (i - 1 < lo) /\ ~ (i < lo) /\ At(i) = At(i - 1)
          BY <4>7, <4>9, <4>11, <4>15
        <5>2. Fine(i)
          <6> HIDE DEF At
          <6> QED BY <4>10, <5>1
        <5> QED BY <4>2, <5>2
      <4> QED BY <4>11, <4>12, <4>13, <4>14, <4>15
    <3>8. Fine(n)
      <4>1. n \in 0..n
        BY <1>1
      <4> HIDE DEF Fine
      <4> QED BY <3>7, <4>1
    <3>9. r # <<>> /\ Spaced(r) /\ r[1] = t[lo] /\ Last(r) = t[hi]
      BY <1>1, <2>1, <3>5, <3>8
    <3>10. Last(r) = r[Len(r)]
      BY DEF Last
    <3> QED BY <3>5, <3>9, <3>10 DEF Tidy
  <2> QED BY <2>3, <2>4
<1> QED BY <1>2, <1>4, <1>5, <1>6, <1>7

LEMMA FrontOf ==
    ASSUME NEW E, NEW v \in Seq(E), v # <<>>
    PROVE  /\ Front(v) \in Seq(E) /\ Len(v) \in Nat \ {0} /\ Len(Front(v)) = Len(v) - 1
           /\ \A m \in 1..(Len(v) - 1) : Front(v)[m] = v[m]
<1>1. Len(v) \in Nat /\ \A i \in 1..Len(v) : v[i] \in E
  BY LenProperties, ElementOfSeq
<1>2. Len(v) # 0
  BY EmptySeq
<1>3. PICK u \in Int, w \in Int : u = 1 /\ w = Len(v) - 1
  BY <1>1
<1>4. \A i \in u..w : v[i] \in E
  BY <1>1, <1>3
<1>5. /\ SubSeq(v, u, w) \in Seq(E) /\ Len(SubSeq(v, u, w)) = IF u <= w THEN w - u + 1 ELSE 0
      /\ \A i \in 1..(w - u + 1) : SubSeq(v, u, w)[i] = v[u + i - 1]
  BY <1>4, SubSeqProperties
<1>6. Front(v) = SubSeq(v, u, w)
  BY <1>3 DEF Front
<1>7. w - u + 1 = w /\ \A i \in 1..w : u + i - 1 = i
  BY <1>1, <1>3
<1> QED BY <1>1, <1>2, <1>3, <1>5, <1>6, <1>7

LEMMA ComposedOf ==
    ASSUME NEW v \in Seq(Characters), NEW c \in Characters
    PROVE  /\ Composed(v, c) \in Seq(Characters) /\ Composed(v, c) # <<>>
           /\ Last(Composed(v, c)) \in {c, "lettermark"}
           /\ c # "mark" => Last(Composed(v, c)) = c
           /\ c = "mark" => Last(Composed(v, c)) # "letter" /\ Last(Composed(v, c)) # "blank"
           /\ \A k \in 1..Len(Composed(v, c)) :
                 Composed(v, c)[k] \in {c, "lettermark"} \/ \E j \in 1..Len(v) : Composed(v, c)[k] = v[j]
           /\ Unpaired(v) => Unpaired(Composed(v, c))
<1> DEFINE w == Composed(v, c)
<1>1. CASE c = "mark" /\ v # <<>> /\ Last(v) = "letter"
  <2> DEFINE u == Front(v)
             d == "lettermark"
             x == Append(u, d)
  <2>1. /\ u \in Seq(Characters) /\ Len(v) \in Nat \ {0} /\ Len(u) = Len(v) - 1
        /\ \A m \in 1..(Len(v) - 1) : u[m] = v[m]
    BY <1>1, FrontOf
  <2>2. d \in Characters
    BY DEF Characters
  <2> HIDE DEF u, d
  <2>3. /\ x \in Seq(Characters) /\ x # <<>> /\ Len(x) = Len(u) + 1
        /\ \A m \in 1..Len(u) : x[m] = u[m]
        /\ x[Len(u) + 1] = d /\ Last(x) = d
    BY <2>1, <2>2, LongerBy
  <2>4. w = x
    BY <1>1 DEF Composed, u, d
  <2> HIDE DEF w, x
  <2>5. \A k \in 1..Len(x) : k = Len(u) + 1 \/ (k \in 1..Len(u) /\ k \in 1..(Len(v) - 1) /\ k \in 1..Len(v))
    BY <2>1, <2>3
  <2>6. \A k \in 1..Len(x) : x[k] = d \/ \E j \in 1..Len(v) : x[k] = v[j]
    BY <2>1, <2>3, <2>5
  <2>7. ASSUME Unpaired(v), NEW i \in 2..Len(x) PROVE ~ (x[i - 1] = "letter" /\ x[i] = "mark")
    <3>1. CASE i = Len(u) + 1
      BY <2>3, <3>1 DEF d
    <3>2. CASE i # Len(u) + 1
      <4>1. i \in 2..Len(v) /\ i \in 1..Len(u) /\ i - 1 \in 1..Len(u) /\ i \in 1..(Len(v) - 1) /\ i - 1 \in 1..(Len(v) - 1)
        BY <2>1, <2>3, <3>2
      <4> QED BY <2>1, <2>3, <2>7, <4>1 DEF Unpaired
    <3> QED BY <3>1, <3>2
  <2>8. d # "letter" /\ d # "blank" /\ d = "lettermark"
    BY DEF d
  <2> QED BY <1>1, <2>3, <2>4, <2>6, <2>7, <2>8 DEF w, Unpaired
<1>2. CASE ~ (c = "mark" /\ v # <<>> /\ Last(v) = "letter")
  <2> DEFINE x == Append(v, c)
  <2>1. w = x
    BY <1>2 DEF Composed
  <2>2. /\ x \in Seq(Characters) /\ x # <<>> /\ Len(v) \in Nat /\ Len(x) = Len(v) + 1
        /\ \A m \in 1..Len(v) : x[m] = v[m]
        /\ x[Len(v) + 1] = c /\ Last(x) = c
        /\ v # <<>> => Len(v) \in 1..Len(v) /\ Last(v) = v[Len(v)]
    BY LongerBy
  <2> HIDE DEF w, x
  <2>3. \A k \in 1..Len(x) : k = Len(v) + 1 \/ k \in 1..Len(v)
    BY <2>2
  <2>4. \A k \in 1..Len(x) : x[k] = c \/ \E j \in 1..Len(v) : x[k] = v[j]
    BY <2>2, <2>3
  <2>5. ASSUME Unpaired(v), NEW i \in 2..Len(x) PROVE ~ (x[i - 1] = "letter" /\ x[i] = "mark")
    <3>1. CASE i = Len(v) + 1
      <4>1. Len(v) # 0 /\ i - 1 = Len(v) /\ i - 1 \in 1..Len(v)
        BY <2>2, <3>1
      <4>2. v # <<>>
        <5>1. \A e : e = <<>> => Len(e) = 0
          OBVIOUS
        <5> QED BY <4>1, <5>1, Zenon
      <4> QED BY <1>2, <2>2, <3>1, <4>1, <4>2
    <3>2. CASE i # Len(v) + 1
      <4>1. i \in 2..Len(v) /\ i \in 1..Len(v) /\ i - 1 \in 1..Len(v)
        BY <2>2, <3>2
      <4> QED BY <2>2, <2>5, <4>1 DEF Unpaired
    <3> QED BY <3>1, <3>2
  <2>6. "mark" # "letter" /\ "mark" # "blank"
    OBVIOUS
  <2> QED BY <2>1, <2>2, <2>4, <2>5, <2>6 DEF w, Unpaired
<1> QED BY <1>1, <1>2

LEMMA NfkcBy ==
    ASSUME NEW t \in Seq(Characters)
    PROVE  \E f \in [0..Len(t) -> Seq(Characters)] : ComposesBy(f, t) /\ Nfkc(t) = f[Len(t)]
<1> DEFINE n == Len(t)
           V == Seq(Characters)
           plain == Plain(t)
           next == [i \in 1..n |-> [v \in V |-> Composed(v, plain[i])]]
           P(g) == g = [i \in 0..n |-> IF i = 0 THEN <<>>
                                        ELSE LET done == g[i - 1]
                                             IN  IF plain[i] = "mark" /\ done # <<>> /\ Last(done) = "letter"
                                                   THEN Append(Front(done), "lettermark")
                                                   ELSE Append(done, plain[i])]
           composed == CHOOSE g : P(g)
<1>1. n \in Nat /\ DOMAIN t = 1..n /\ \A i \in 1..n : plain[i] \in Characters
  <2>1. n \in Nat /\ DOMAIN t = 1..n /\ \A i \in 1..n : t[i] \in Characters
    BY LenProperties, ElementOfSeq
  <2> QED BY <2>1 DEF Plain, Characters
<1>2. \A v \in V, i \in 1..n : Composed(v, plain[i]) \in V
  BY <1>1, ComposedOf
<1>3. <<>> \in V
  OBVIOUS
<1>4. Nfkc(t) = composed[n]
  BY <1>1 DEF Nfkc, Mapped, Plain
<1> HIDE DEF n, V, composed, plain
<1>5. PICK f \in [0..n -> V] : f[0] = <<>> /\ \A i \in 1..n : f[i] = Composed(f[i - 1], plain[i])
  <2>1. next \in [1..n -> [V -> V]]
    BY <1>2
  <2> HIDE DEF next
  <2>2. PICK f \in [0..n -> V] : Follows(f, n, <<>>, next)
    BY <1>1, <1>3, <2>1, Recursion
  <2>3. ASSUME NEW i \in 1..n PROVE f[i] = Composed(f[i - 1], plain[i])
    <3>1. f[i - 1] \in V
      BY <1>1
    <3>2. next[i][f[i - 1]] = Composed(f[i - 1], plain[i])
      BY <3>1 DEF next
    <3> QED BY <2>2, <3>2 DEF Follows
  <2> QED BY <2>2, <2>3 DEF Follows
<1>6. P(f)
  <2>1. \A i \in 0..n : f[i] = IF i = 0 THEN <<>> ELSE Composed(f[i - 1], plain[i])
    BY <1>1, <1>5
  <2>2. f = [i \in 0..n |-> IF i = 0 THEN <<>> ELSE Composed(f[i - 1], plain[i])]
    BY <2>1
  <2> QED BY <2>2 DEF Composed
<1>7. P(composed)
  <2> HIDE DEF P
  <2> QED BY <1>6 DEF composed
<1>8. composed \in [0..n -> V] /\ composed[0] = <<>> /\ \A i \in 1..n : composed[i] = Composed(composed[i - 1], plain[i])
  <2> DEFINE Bad == {i \in 0..n : composed[i] # f[i]}
  <2>1. composed = [i \in 0..n |-> IF i = 0 THEN <<>> ELSE Composed(composed[i - 1], plain[i])]
    BY <1>7 DEF Composed
  <2> HIDE DEF P
  <2>2. /\ DOMAIN composed = 0..n /\ composed = [i \in 0..n |-> composed[i]]
        /\ \A i \in 0..n : composed[i] = IF i = 0 THEN <<>> ELSE Composed(composed[i - 1], plain[i])
    BY <2>1
  <2>3. Bad = {}
    <3>1. SUFFICES ASSUME Bad # {} PROVE FALSE
      OBVIOUS
    <3>2. PICK i \in Bad : \A k \in Bad : i <= k
      <4>1. Bad \subseteq Nat
        OBVIOUS
      <4> QED BY <3>1, <4>1, LeastElement
    <3>3. i \in 0..n /\ composed[i] # f[i] /\ i # 0
      <4>1. composed[0] = <<>>
        BY <1>1, <2>2
      <4> QED BY <1>5, <3>2, <4>1
    <3>4. i \in 1..n /\ i - 1 \in 0..n /\ ~ (i <= i - 1)
      BY <1>1, <3>3
    <3>5. i - 1 \notin Bad
      BY <3>2, <3>4
    <3> QED BY <1>5, <2>2, <3>3, <3>4, <3>5
  <2>4. \A i \in 1..n : i \in 0..n /\ i # 0
    BY <1>1
  <2>5. \A i \in 0..n : composed[i] \in V
    BY <1>5, <2>3
  <2> QED BY <1>1, <2>2, <2>4, <2>5
<1> QED BY <1>4, <1>8 DEF ComposesBy, n, V, plain

LEMMA NfkcOf ==
    ASSUME NEW t \in Seq(Characters)
    PROVE  /\ Nfkc(t) \in Seq(Characters) /\ Unpaired(Nfkc(t)) /\ Lacks("wide", Nfkc(t))
           /\ \A c \in {"invisible", "double"} : Lacks(c, t) => Lacks(c, Nfkc(t))
           /\ Lacks("wide", t) /\ Tidy(t) => Tidy(Nfkc(t))
<1> DEFINE n == Len(t)
           plain == Plain(t)
<1>1. /\ n \in Nat
      /\ \A i \in 1..n : /\ t[i] \in Characters /\ plain[i] \in Characters
                         /\ plain[i] = IF t[i] = "wide" THEN "blank" ELSE t[i]
  <2>1. n \in Nat /\ \A i \in 1..n : t[i] \in Characters
    BY LenProperties, ElementOfSeq
  <2> QED BY <2>1 DEF Plain, Characters
<1>2. PICK f \in [0..n -> Seq(Characters)] :
        f[0] = <<>> /\ Nfkc(t) = f[n] /\ \A i \in 1..n : f[i] = Composed(f[i - 1], plain[i])
  BY NfkcBy DEF ComposesBy
<1> HIDE DEF n, plain
<1>3. Len(<<>>) = 0 /\ 1..0 = {} /\ 2..0 = {}
  OBVIOUS
<1> DEFINE Keen(v) == /\ Unpaired(v) /\ Lacks("wide", v)
                      /\ \A c \in {"invisible", "double"} : Lacks(c, t) => Lacks(c, v)
           Ends(i) == i > 0 => f[i] # <<>> /\ (Last(f[i]) = "blank" <=> plain[i] = "blank")
           Near(v) == \A m \in 2..Len(v) : ~ (v[m - 1] = "blank" /\ v[m] = "blank")
           Spaced(i) == Lacks("wide", t) /\ Tidy(t) => Near(f[i]) /\ (i > 0 => f[i][1] # "blank")
           Fine(i) == Keen(f[i]) /\ Ends(i) /\ Spaced(i)
           Bad == {i \in 0..n : ~ Fine(i)}
<1>4. Bad = {}
  <2>1. SUFFICES ASSUME Bad # {} PROVE FALSE
    OBVIOUS
  <2>2. PICK i \in Bad : \A k \in Bad : i <= k
    <3>1. Bad \subseteq Nat
      OBVIOUS
    <3> QED BY <2>1, <3>1, LeastElement
  <2>3. Fine(0)
    <3>1. ~ (0 > 0)
      OBVIOUS
    <3>2. Keen(f[0])
      BY <1>2, <1>3 DEF Unpaired, Lacks
    <3> QED BY <1>2, <1>3, <3>1, <3>2
  <2>4. i \in 1..n /\ i - 1 \in 0..n /\ i - 1 \notin Bad
    <3> HIDE DEF Fine
    <3> QED BY <1>1, <2>2, <2>3
  <2>5. Fine(i - 1)
    <3> HIDE DEF Fine
    <3> QED BY <2>4
  <2> DEFINE v == f[i - 1]
             c == plain[i]
             w == Composed(v, c)
  <2>6. v \in Seq(Characters) /\ c \in Characters /\ f[i] = w
    BY <1>1, <1>2, <2>4
  <2>7. /\ w \in Seq(Characters) /\ w # <<>>
        /\ Last(w) \in {c, "lettermark"}
        /\ c # "mark" => Last(w) = c
        /\ c = "mark" => Last(w) # "letter" /\ Last(w) # "blank"
        /\ \A k \in 1..Len(w) : w[k] \in {c, "lettermark"} \/ \E j \in 1..Len(v) : w[k] = v[j]
        /\ Unpaired(v) => Unpaired(w)
    <3> HIDE DEF v, c
    <3> QED BY <2>6, ComposedOf
  <2>8. c # "wide" /\ \A d \in {"invisible", "double"} : Lacks(d, t) => c # d
    BY <1>1, <2>4 DEF Lacks, n
  <2>9. Keen(w)
    <3>1. Keen(v)
      BY <2>5
    <3> HIDE DEF w, v, c
    <3> QED BY <2>7, <2>8, <3>1 DEF Lacks
  <2>10. Ends(i)
    <3> HIDE DEF w, v, c
    <3>1. Last(w) = "blank" <=> c = "blank"
      BY <2>7
    <3> QED BY <2>6, <2>7, <3>1 DEF c
  <2>11. ASSUME Lacks("wide", t), Tidy(t) PROVE Near(w) /\ w[1] # "blank"
    <3>1. Near(v) /\ (i - 1 > 0 => v[1] # "blank") /\ (i - 1 > 0 => v # <<>> /\ (Last(v) = "blank" <=> plain[i - 1] = "blank"))
      BY <2>5, <2>11
    <3>2. CASE i = 1
      <4>1. v = <<>> /\ c # "blank"
        <5>1. t[1] \notin Blanks /\ t[1] # "wide"
          <6>1. t # <<>> /\ 1 \in 1..n
            <7>1. \A e : e = <<>> => Len(e) = 0
              OBVIOUS
            <7> QED BY <1>1, <2>4, <3>2, <7>1 DEF n
          <6> QED BY <2>11, <6>1 DEF Tidy, Lacks, n
        <5> QED BY <1>1, <1>2, <2>4, <3>2, <5>1 DEF Blanks
      <4>2. w = <<c>>
        BY <4>1 DEF Composed
      <4>3. Len(w) = 1 /\ w[1] = c /\ 2..1 = {}
        <5> HIDE DEF w, c
        <5> QED BY <4>2
      <4> QED BY <4>1, <4>3
    <3>3. CASE i # 1
      <4>1. i - 1 > 0 /\ i - 1 \in 1..n /\ i \in 2..n
        BY <1>1, <2>4, <3>3
      <4>2. ~ (plain[i - 1] = "blank" /\ plain[i] = "blank")
        BY <1>1, <2>4, <2>11, <4>1 DEF Tidy, Lacks, n
      <4>3. v # <<>> /\ v[1] # "blank" /\ Near(v) /\ ~ (Last(v) = "blank" /\ c = "blank")
        BY <3>1, <4>1, <4>2
      <4>4. CASE c = "mark" /\ v # <<>> /\ Last(v) = "letter"
        <5> DEFINE u == Front(v)
                   d == "lettermark"
        <5>1. w = Append(u, d)
          BY <4>4 DEF Composed
        <5> HIDE DEF v, w, c
        <5>2. /\ u \in Seq(Characters) /\ Len(v) \in Nat \ {0} /\ Len(u) = Len(v) - 1
              /\ \A m \in 1..(Len(v) - 1) : u[m] = v[m]
          BY <2>6, <4>4, FrontOf
        <5>3. d \in Characters
          BY DEF Characters
        <5> HIDE DEF u, d
        <5>4. Len(w) = Len(u) + 1 /\ (\A m \in 1..Len(u) : w[m] = u[m]) /\ w[Len(u) + 1] = d
          BY <5>1, <5>2, <5>3, LongerBy
        <5>5. d # "blank"
          BY DEF d
        <5>6. ASSUME NEW m \in 2..Len(w) PROVE ~ (w[m - 1] = "blank" /\ w[m] = "blank")
          <6>1. CASE m = Len(u) + 1
            BY <5>4, <5>5, <6>1
          <6>2. CASE m # Len(u) + 1
            <7>1. m \in 2..Len(v) /\ m \in 1..Len(u) /\ m - 1 \in 1..Len(u) /\ m \in 1..(Len(v) - 1) /\ m - 1 \in 1..(Len(v) - 1)
              BY <5>2, <5>4, <6>2
            <7> QED BY <4>3, <5>2, <5>4, <7>1
          <6> QED BY <6>1, <6>2
        <5>7. w[1] # "blank"
          <6>1. CASE Len(v) = 1
            BY <5>2, <5>4, <5>5, <6>1
          <6>2. CASE Len(v) # 1
            <7>1. 1 \in 1..Len(u) /\ 1 \in 1..(Len(v) - 1)
              BY <5>2, <6>2
            <7> QED BY <4>3, <5>2, <5>4, <7>1
          <6> QED BY <6>1, <6>2
        <5> QED BY <5>6, <5>7
      <4>5. CASE ~ (c = "mark" /\ v # <<>> /\ Last(v) = "letter")
        <5>1. w = Append(v, c)
          BY <4>5 DEF Composed
        <5> HIDE DEF v, w, c
        <5>2. /\ Len(v) \in Nat /\ Len(w) = Len(v) + 1
              /\ \A m \in 1..Len(v) : w[m] = v[m]
              /\ w[Len(v) + 1] = c /\ Len(v) \in 1..Len(v) /\ Last(v) = v[Len(v)]
          BY <2>6, <4>3, <5>1, LongerBy
        <5>3. ASSUME NEW m \in 2..Len(w) PROVE ~ (w[m - 1] = "blank" /\ w[m] = "blank")
          <6>1. CASE m = Len(v) + 1
            <7>1. m - 1 = Len(v)
              BY <5>2, <6>1
            <7> QED BY <4>3, <5>2, <6>1, <7>1
          <6>2. CASE m # Len(v) + 1
            <7>1. m \in 2..Len(v) /\ m \in 1..Len(v) /\ m - 1 \in 1..Len(v)
              BY <5>2, <6>2
            <7> QED BY <4>3, <5>2, <7>1
          <6> QED BY <6>1, <6>2
        <5>4. 1 \in 1..Len(v)
          BY <5>2
        <5> QED BY <4>3, <5>2, <5>3, <5>4
      <4> QED BY <4>4, <4>5
    <3> QED BY <3>2, <3>3
  <2>12. Fine(i)
    <3> HIDE DEF Near, w
    <3>1. Spaced(i)
      BY <2>6, <2>11
    <3> QED BY <2>6, <2>9, <2>10, <3>1
  <2> QED BY <2>2, <2>12
<1>5. Fine(n)
  <2>1. n \in 0..n
    BY <1>1
  <2> HIDE DEF Fine
  <2> QED BY <1>4, <2>1
<1> DEFINE r == f[n]
<1>6. r \in Seq(Characters) /\ Keen(r)
  BY <1>1, <1>2, <1>5
<1>7. ASSUME Lacks("wide", t), Tidy(t) PROVE Tidy(r)
  <2>1. CASE n = 0
    BY <1>2, <1>3, <2>1 DEF Tidy
  <2>2. CASE n # 0
    <3>1. n > 0 /\ n \in 1..n /\ t # <<>>
      <4>1. \A e : e = <<>> => Len(e) = 0
        OBVIOUS
      <4>2. n > 0 /\ n \in 1..n
        BY <1>1, <2>2
      <4> QED BY <2>2, <4>1, <4>2 DEF n
    <3>2. plain[n] # "blank"
      BY <1>1, <1>7, <3>1 DEF Tidy, Blanks, n
    <3>3. Near(r) /\ r[1] # "blank" /\ r # <<>> /\ Last(r) # "blank"
      BY <1>5, <1>7, <3>1, <3>2
    <3>4. Lacks("wide", r)
      BY <1>6
    <3> HIDE DEF r
    <3>5. 1 \in 1..Len(r) /\ Len(r) \in 1..Len(r) /\ Last(r) = r[Len(r)]
      <4>1. Len(r) \in Nat /\ Len(r) # 0
        BY <1>6, <3>3, EmptySeq, LenProperties
      <4> QED BY <4>1 DEF Last
    <3> QED BY <3>3, <3>4, <3>5 DEF Tidy, Lacks, Blanks
  <2> QED BY <2>1, <2>2
<1> QED BY <1>2, <1>6, <1>7

LEMMA NfkcSettles ==
    ASSUME NEW t \in Seq(Characters), Unpaired(t), Lacks("wide", t)
    PROVE  Nfkc(t) = t
<1> DEFINE n == Len(t)
           plain == Plain(t)
<1>1. /\ n \in Nat
      /\ \A i \in 1..n : t[i] \in Characters /\ plain[i] = t[i]
  <2>1. n \in Nat /\ \A i \in 1..n : t[i] \in Characters /\ t[i] # "wide"
    BY LenProperties, ElementOfSeq DEF Lacks
  <2> QED BY <2>1 DEF Plain
<1>2. PICK f \in [0..n -> Seq(Characters)] :
        f[0] = <<>> /\ Nfkc(t) = f[n] /\ \A i \in 1..n : f[i] = Composed(f[i - 1], plain[i])
  BY NfkcBy DEF ComposesBy
<1> HIDE DEF n, plain
<1> DEFINE Fine(k) == Len(f[k]) = k /\ \A i \in 1..k : f[k][i] = t[i]
           Bad == {k \in 0..n : ~ Fine(k)}
<1>3. Bad = {}
  <2>1. SUFFICES ASSUME Bad # {} PROVE FALSE
    OBVIOUS
  <2>2. PICK k \in Bad : \A i \in Bad : k <= i
    <3>1. Bad \subseteq Nat
      OBVIOUS
    <3> QED BY <2>1, <3>1, LeastElement
  <2>3. Fine(0)
    BY <1>2
  <2>4. k \in 1..n /\ k - 1 \in 0..n /\ k - 1 \notin Bad
    <3> HIDE DEF Fine
    <3> QED BY <1>1, <2>2, <2>3
  <2> DEFINE v == f[k - 1]
  <2>5. Len(v) = k - 1 /\ \A i \in 1..(k - 1) : v[i] = t[i]
    BY <2>4
  <2>6. v \in Seq(Characters) /\ t[k] \in Characters /\ f[k] = Composed(v, t[k])
    BY <1>1, <1>2, <2>4
  <2> HIDE DEF v
  <2>7. ~ (t[k] = "mark" /\ v # <<>> /\ Last(v) = "letter")
    <3> SUFFICES ASSUME v # <<>> PROVE ~ (t[k] = "mark" /\ Last(v) = "letter")
      OBVIOUS
    <3>1. Len(v) \in 1..Len(v) /\ Last(v) = v[Len(v)]
      BY <2>6, LongerBy
    <3>2. Last(v) = t[k - 1] /\ k \in 2..n
      BY <1>1, <2>4, <2>5, <3>1
    <3> QED BY <3>2 DEF Unpaired, n
  <2>8. f[k] = Append(v, t[k])
    BY <2>6, <2>7 DEF Composed
  <2>9. /\ Len(Append(v, t[k])) = k
        /\ \A m \in 1..(k - 1) : Append(v, t[k])[m] = v[m]
        /\ Append(v, t[k])[k] = t[k]
    BY <2>4, <2>5, <2>6, LongerBy
  <2>10. \A i \in 1..k : i \in 1..(k - 1) \/ i = k
    BY <2>4
  <2>11. Fine(k)
    BY <2>4, <2>5, <2>8, <2>9, <2>10
  <2> QED BY <2>2, <2>11
<1>4. Fine(n)
  <2>1. n \in 0..n
    BY <1>1
  <2> HIDE DEF Fine
  <2> QED BY <1>3, <2>1
<1>5. f[n] \in Seq(Characters) /\ Len(f[n]) = Len(t) /\ \A i \in 1..Len(f[n]) : f[n][i] = t[i]
  <2>1. f[n] \in Seq(Characters)
    BY <1>1, <1>2
  <2> QED BY <1>4, <2>1 DEF n
<1> QED BY <1>2, <1>5, SeqEqual

LEMMA StageByStage ==
    ASSUME NEW t, NEW S
    PROVE  \E a, b, c : Passed(a, b, c, t, S)
<1> DEFINE a == IF "nfkc" \in S THEN Nfkc(t) ELSE t
           b == IF "zero_width" \in S THEN StripZeroWidth(a) ELSE a
           c == IF "homoglyph" \in S THEN MapHomoglyphs(b) ELSE b
<1>1. Passed(a, b, c, t, S)
  BY Zenon DEF Passed, Normalize, If
<1> QED BY <1>1

LEMMA PassSettles ==
    ASSUME NEW t \in Seq(Characters), NEW S
    PROVE  Settled(Normalize(t, S), S)
<1>1. PICK a, b, c : Passed(a, b, c, t, S)
  BY StageByStage
<1> DEFINE d == Normalize(t, S)
<1>2. a \in Seq(Characters) /\ ("nfkc" \in S => Lacks("wide", a))
  BY <1>1, NfkcOf DEF Passed
<1>3. /\ b \in Seq(Characters) /\ ("nfkc" \in S => Lacks("wide", b))
      /\ "zero_width" \in S => Lacks("invisible", b)
  BY <1>1, <1>2, StripOf DEF Passed
<1>4. /\ c \in Seq(Characters) /\ ("nfkc" \in S => Lacks("wide", c))
      /\ "zero_width" \in S => Lacks("invisible", c)
      /\ "homoglyph" \in S => Lacks("double", c)
  BY <1>1, <1>3, HomoglyphsOf DEF Passed
<1>5. d = IF "whitespace" \in S THEN CollapseBlanks(c) ELSE c
  BY <1>1 DEF Passed
<1> HIDE DEF d
<1>6. Settled(d, S)
  BY <1>4, <1>5, CollapseOf DEF Settled
<1> QED BY <1>6 DEF d

LEMMA SettledPass ==
    ASSUME NEW t, NEW S, Settled(t, S)
    PROVE  LET u == IF "nfkc" \in S THEN Nfkc(t) ELSE t
           IN  /\ Normalize(t, S) = u /\ Settled(u, S)
               /\ "nfkc" \in S => Unpaired(u)
<1> DEFINE u == IF "nfkc" \in S THEN Nfkc(t) ELSE t
<1>1. PICK a, b, c : Passed(a, b, c, t, S)
  BY StageByStage
<1>2. a = u
  BY <1>1 DEF Passed
<1>3. ASSUME "nfkc" \in S PROVE Settled(u, S) /\ Unpaired(u)
  <2>1. u = Nfkc(t)
    BY <1>3
  <2> HIDE DEF u
  <2>2. Settled(u, S) /\ Unpaired(u)
    BY <1>3, <2>1, NfkcOf DEF Settled
  <2> QED BY <2>2
<1>4. ASSUME "nfkc" \notin S PROVE Settled(u, S)
  BY <1>4
<1> HIDE DEF u
<1>5. Settled(u, S) /\ ("nfkc" \in S => Unpaired(u))
  BY <1>3, <1>4
<1>6. u \in Seq(Characters)
  BY <1>5 DEF Settled
<1>7. b = u
  BY <1>1, <1>2, <1>5, <1>6, StripOf DEF Passed, Settled
<1>8. c = u
  BY <1>1, <1>5, <1>6, <1>7, HomoglyphsOf DEF Passed, Settled
<1>9. Normalize(t, S) = u
  BY <1>1, <1>5, <1>6, <1>8, CollapseOf DEF Passed, Settled
<1> QED BY <1>5, <1>9 DEF u

LEMMA ListsTextNext == ListsText /\ [AnalysisNext]_analysed => ListsText'
<1> SUFFICES ASSUME ListsText, [AnalysisNext]_analysed, bench'.kind = "characters"
             PROVE  list' \in Seq(Characters)
  BY DEF ListsText
<1>1. CASE UNCHANGED <<bench, list>>
  BY <1>1 DEF ListsText
<1>2. CASE AddCharacter
  <2>1. bench' = bench /\ \E x \in Characters : list' = Append(list, x)
    BY <1>2 DEF AddCharacter, Append1
  <2>2. list \in Seq(Characters)
    BY <2>1 DEF ListsText
  <2> QED BY <2>1, <2>2, AppendProperties
<1>3. CASE AddToken \/ AddWord \/ AddSpan \/ AddSymbol
  BY <1>3 DEF AddToken, AddWord, AddSpan, AddSymbol, Append1
<1>4. CASE AddPiece
  BY <1>1, <1>4 DEF AddPiece
<1>5. CASE RunCampaign
  BY <1>1, <1>5 DEF RunCampaign
<1>6. CASE UNCHANGED analysed
  BY <1>1, <1>6 DEF analysed
<1> QED BY <1>2, <1>3, <1>4, <1>5, <1>6 DEF AnalysisNext

LEMMA TextNormalized == ListsText => NormalizeSettles
<1> SUFFICES ASSUME ListsText, bench.kind = "characters" PROVE NormalizeSettles
  BY DEF NormalizeSettles
<1>1. PICK S : S = bench.stages
  OBVIOUS
<1>2. PICK once : once = Normalize(list, S)
  OBVIOUS
<1>3. PICK twice : twice = Normalize(once, S)
  OBVIOUS
<1>4. Settled(once, S)
  BY <1>2, PassSettles DEF ListsText
<1>5. /\ twice = IF "nfkc" \in S THEN Nfkc(once) ELSE once
      /\ Settled(twice, S) /\ ("nfkc" \in S => Unpaired(twice))
  BY <1>3, <1>4, SettledPass
<1>6. Normalize(twice, S) = twice
  <2>1. Normalize(twice, S) = IF "nfkc" \in S THEN Nfkc(twice) ELSE twice
    BY <1>5, SettledPass
  <2> QED BY <1>5, <2>1, NfkcSettles DEF Settled
<1>7. once \in Seq(Characters) /\ DOMAIN once = 1..Len(once)
  <2>1. once \in Seq(Characters)
    BY <1>4 DEF Settled
  <2> QED BY <2>1, LenProperties
<1>8. "whitespace" \in S => CollapseBlanks(once) = once
  BY <1>4, <1>7, CollapseOf DEF Settled
<1>9. \A c : Lacks(c, once) => c \notin {once[i] : i \in DOMAIN once}
  BY <1>7 DEF Lacks
<1>10. /\ "nfkc" \in S => "wide" \notin {once[i] : i \in DOMAIN once}
       /\ "zero_width" \in S => "invisible" \notin {once[i] : i \in DOMAIN once}
       /\ "homoglyph" \in S => "double" \notin {once[i] : i \in DOMAIN once}
  BY <1>4, <1>9 DEF Settled
<1> QED BY <1>1, <1>2, <1>3, <1>5, <1>6, <1>8, <1>10, Zenon DEF NormalizeSettles, If

(* Two passes of the normalization are as good as any number of them, for  *)
(* every text and every set of enabled stages, and the first leaves        *)
(* nothing for any stage to do but for the composition.                    *)
(* (normalization/pipeline.py: normalize, and the stages it runs.)         *)
THEOREM NormalizationSettles == Analysis => []NormalizeSettles
<1>1. AnalysisInit => ListsText
  BY EmptySeq DEF AnalysisInit, ListsText
<1> QED BY <1>1, ListsTextNext, TextNormalized, PTL DEF Analysis

-----------------------------------------------------------------------------
(***************************************************************************)
(* Watermarks.  What is left of two texts one after the other is what is   *)
(* left of each.                                                           *)
(***************************************************************************)
LEMMA StripBy ==
    ASSUME NEW E, NEW t \in Seq(E), NEW marks
    PROVE  \E f \in [0..Len(t) -> Seq(E)] : StripsBy(f, t, marks) /\ Strip(t, marks) = f[Len(t)]
<1> DEFINE S == {i \in DOMAIN t : t[i] \notin marks}
<1>1. DOMAIN t = 1..Len(t)
  BY LenProperties
<1>2. Strip(t, marks) = Chosen(t, S)
  BY DEF Strip
<1>3. \A i \in 1..Len(t) : i \in S <=> t[i] \notin marks
  BY <1>1
<1> HIDE DEF S
<1>4. PICK f \in [0..Len(t) -> Seq(E)] : ChoosesBy(f, t, S) /\ Chosen(t, S) = f[Len(t)]
  BY ChosenBy
<1>5. StripsBy(f, t, marks)
  BY <1>3, <1>4 DEF ChoosesBy, StripsBy
<1> QED BY <1>2, <1>4, <1>5

LEMMA StripIn ==
    ASSUME NEW E, NEW t \in Seq(E), NEW marks
    PROVE  /\ Strip(t, marks) \in Seq(E)
           /\ (\A i \in 1..Len(t) : t[i] \in marks) => Strip(t, marks) = <<>>
<1> DEFINE S == {i \in DOMAIN t : t[i] \notin marks}
<1>1. DOMAIN t = 1..Len(t)
  BY LenProperties
<1>2. Strip(t, marks) = Chosen(t, S)
  BY DEF Strip
<1>3. \A i \in 1..Len(t) : i \in S <=> t[i] \notin marks
  BY <1>1
<1> HIDE DEF S
<1>4. /\ Chosen(t, S) \in Seq(E)
      /\ \A k \in 1..Len(Chosen(t, S)) : \E j \in S \cap (1..Len(t)) : Chosen(t, S)[k] = t[j]
  BY ChosenIn
<1>5. ASSUME \A i \in 1..Len(t) : t[i] \in marks PROVE Chosen(t, S) = <<>>
  <2>1. \A k \in 1..Len(Chosen(t, S)) : FALSE
    BY <1>3, <1>4, <1>5
  <2>2. Len(Chosen(t, S)) \in Nat
    BY <1>4, LenProperties
  <2>3. Len(Chosen(t, S)) \notin 1..Len(Chosen(t, S))
    BY <2>1
  <2>4. Len(Chosen(t, S)) = 0
    BY <2>2, <2>3
  <2> QED BY <1>4, <2>4, EmptySeq
<1> QED BY <1>2, <1>4, <1>5

LEMMA AppendJoins ==
    ASSUME NEW E, NEW x \in Seq(E), NEW y \in Seq(E), NEW e \in E
    PROVE  Joins(x, y, e)
<1>1. <<e>> \in Seq(E) /\ x \o y \in Seq(E)
  BY ConcatProperties
<1>2. Append(y, e) = y \o <<e>> /\ Append(x \o y, e) = (x \o y) \o <<e>>
  BY <1>1, AppendIsConcat
<1>3. PICK s : s = <<e>>
  OBVIOUS
<1>4. (x \o y) \o s = x \o (y \o s)
  BY <1>1, <1>3, ConcatAssociative
<1> QED BY <1>2, <1>3, <1>4 DEF Joins

LEMMA StripJoins ==
    ASSUME NEW E, NEW a \in Seq(E), NEW b \in Seq(E), NEW marks
    PROVE  a \o b \in Seq(E) /\ Strip(a \o b, marks) = Strip(a, marks) \o Strip(b, marks)
<1> DEFINE n == Len(a)
           m == Len(b)
           t == a \o b
<1>1. /\ n \in Nat /\ m \in Nat /\ t \in Seq(E) /\ Len(t) = n + m
      /\ \A i \in 1..n : t[i] = a[i] /\ i \in 1..(n + m)
      /\ \A k \in 1..m : t[n + k] = b[k] /\ n + k \in 1..(n + m) /\ b[k] \in E
  <2>1. /\ n \in Nat /\ m \in Nat /\ t \in Seq(E) /\ Len(t) = n + m
        /\ \A i \in 1..(n + m) : t[i] = IF i <= n THEN a[i] ELSE b[i - n]
    BY ConcatProperties, LenProperties
  <2>2. \A k \in 1..m : b[k] \in E
    BY ElementOfSeq
  <2> HIDE DEF n, m, t
  <2>3. \A i \in 1..n : i <= n /\ i \in 1..(n + m)
    BY <2>1
  <2>4. \A k \in 1..m : ~ (n + k <= n) /\ n + k \in 1..(n + m) /\ n + k - n = k
    BY <2>1
  <2> QED BY <2>1, <2>2, <2>3, <2>4
<1>2. PICK f \in [0..n -> Seq(E)] : StripsBy(f, a, marks) /\ Strip(a, marks) = f[n]
  BY StripBy
<1>3. PICK g \in [0..m -> Seq(E)] : StripsBy(g, b, marks) /\ Strip(b, marks) = g[m]
  BY StripBy
<1>4. PICK h \in [0..(n + m) -> Seq(E)] : StripsBy(h, t, marks) /\ Strip(t, marks) = h[n + m]
  <2> HIDE DEF t, n, m
  <2>1. \E h \in [0..Len(t) -> Seq(E)] : StripsBy(h, t, marks) /\ Strip(t, marks) = h[Len(t)]
    <3>1. PICK x \in Seq(E) : x = t
      BY <1>1
    <3>2. \E h \in [0..Len(x) -> Seq(E)] : StripsBy(h, x, marks) /\ Strip(x, marks) = h[Len(x)]
      BY StripBy
    <3> QED BY <3>1, <3>2
  <2> QED BY <1>1, <2>1
<1>5. /\ f[0] = <<>> /\ g[0] = <<>> /\ h[0] = <<>>
      /\ \A i \in 1..n : f[i] = IF a[i] \notin marks THEN Append(f[i - 1], a[i]) ELSE f[i - 1]
      /\ \A i \in 1..m : g[i] = IF b[i] \notin marks THEN Append(g[i - 1], b[i]) ELSE g[i - 1]
      /\ \A i \in 1..(n + m) : h[i] = IF t[i] \notin marks THEN Append(h[i - 1], t[i]) ELSE h[i - 1]
  BY <1>1, <1>2, <1>3, <1>4 DEF StripsBy
<1> HIDE DEF n, m, t
<1> DEFINE Bad == {i \in 0..n : h[i] # f[i]}
<1>6. Bad = {}
  <2>1. SUFFICES ASSUME Bad # {} PROVE FALSE
    OBVIOUS
  <2>2. PICK i \in Bad : \A k \in Bad : i <= k
    <3>1. Bad \subseteq Nat
      OBVIOUS
    <3> QED BY <2>1, <3>1, LeastElement
  <2>3. i \in 1..n /\ i - 1 \in 0..n /\ ~ (i <= i - 1) /\ h[i] # f[i]
    BY <1>1, <1>5, <2>2
  <2>4. h[i - 1] = f[i - 1]
    BY <2>2, <2>3
  <2> QED BY <1>1, <1>5, <2>3, <2>4, ZenonT(30)
<1> DEFINE Worse == {k \in 0..m : h[n + k] # f[n] \o g[k]}
<1>7. f[n] \in Seq(E) /\ h[n] = f[n]
  <2>1. n \in 0..n
    BY <1>1
  <2> QED BY <1>6, <2>1
<1>8. Worse = {}
  <2>1. SUFFICES ASSUME Worse # {} PROVE FALSE
    OBVIOUS
  <2>2. PICK k \in Worse : \A j \in Worse : k <= j
    <3>1. Worse \subseteq Nat
      OBVIOUS
    <3> QED BY <2>1, <3>1, LeastElement
  <2>3. k # 0
    <3>1. f[n] \o g[0] = f[n] /\ n + 0 = n
      BY <1>1, <1>5, <1>7, ConcatEmptySeq
    <3> QED BY <1>7, <2>2, <3>1
  <2>4. k \in 1..m /\ k - 1 \in 0..m /\ ~ (k <= k - 1) /\ n + k - 1 = n + (k - 1)
    <3>1. k \in 0..m
      BY <2>2
    <3>2. k \in Nat /\ k - 1 \in Nat /\ k <= m
      BY <1>1, <2>3, <3>1
    <3> QED BY <1>1, <3>2
  <2>5. h[n + (k - 1)] = f[n] \o g[k - 1]
    BY <2>2, <2>4
  <2>6. g[k - 1] \in Seq(E) /\ b[k] \in E
    BY <1>1, <2>4
  <2>7. Append(f[n] \o g[k - 1], b[k]) = f[n] \o Append(g[k - 1], b[k])
    <3>1. PICK x \in Seq(E), y \in Seq(E), e \in E : x = f[n] /\ y = g[k - 1] /\ e = b[k]
      BY <1>7, <2>6
    <3>2. Joins(x, y, e)
      BY AppendJoins
    <3> QED BY <3>1, <3>2 DEF Joins
  <2>8. h[n + k] = IF b[k] \notin marks THEN Append(h[n + (k - 1)], b[k]) ELSE h[n + (k - 1)]
    <3>1. n + k \in 1..(n + m) /\ t[n + k] = b[k]
      BY <1>1, <2>4
    <3>2. PICK j \in 1..(n + m) : j = n + k
      BY <3>1
    <3>3. h[j] = IF t[j] \notin marks THEN Append(h[j - 1], t[j]) ELSE h[j - 1]
      BY <1>5
    <3>4. j - 1 = n + (k - 1)
      BY <1>1, <2>4, <3>2
    <3> QED BY <3>1, <3>2, <3>3, <3>4
  <2>9. g[k] = IF b[k] \notin marks THEN Append(g[k - 1], b[k]) ELSE g[k - 1]
    BY <1>5, <2>4
  <2>10. h[n + k] = f[n] \o g[k]
    BY <2>5, <2>7, <2>8, <2>9
  <2> QED BY <2>2, <2>10
<1>9. h[n + m] = f[n] \o g[m]
  <2>1. m \in 0..m
    BY <1>1
  <2> QED BY <1>8, <2>1
<1> QED BY <1>1, <1>2, <1>3, <1>4, <1>9 DEF t, n, m

LEMMA FindsExist ==
    ASSUME NEW E, NEW t \in Seq(E), NEW s \in Seq(E)
    PROVE  \E f \in [0..Len(t) -> 0..Len(s)] :
              FindsBy(f, t, s) /\ (Detect(t, s) <=> f[Len(t)] = Len(s))
<1> DEFINE n == Len(t)
           L == Len(s)
           V == 0..L
           Op(v, i) == IF v < L /\ t[i] = s[v + 1] THEN v + 1 ELSE v
           next == [i \in 1..n |-> [v \in V |-> Op(v, i)]]
           P(g) == g = [i \in 0..n |-> IF i = 0 THEN 0
                                        ELSE LET c == g[i - 1]
                                             IN  IF c < L /\ t[i] = s[c + 1] THEN c + 1 ELSE c]
           found == CHOOSE g : P(g)
<1>1. n \in Nat /\ L \in Nat
  BY LenProperties
<1>2. \A v \in V, i \in 1..n : Op(v, i) \in V
  <2> HIDE DEF L
  <2> QED BY <1>1
<1>3. 0 \in V
  BY <1>1
<1>4. Detect(t, s) <=> found[n] = L
  BY DEF Detect
<1> HIDE DEF n, L, V, found
<1>5. PICK f \in [0..n -> V] : f[0] = 0 /\ \A i \in 1..n : f[i] = Op(f[i - 1], i)
  <2>1. next \in [1..n -> [V -> V]]
    <3> HIDE DEF Op
    <3> QED BY <1>2
  <2> HIDE DEF next, Op
  <2>2. PICK f \in [0..n -> V] : Follows(f, n, 0, next)
    BY <1>1, <1>3, <2>1, Recursion
  <2>3. ASSUME NEW i \in 1..n PROVE f[i] = Op(f[i - 1], i)
    <3>1. f[i - 1] \in V
      BY <1>1
    <3>2. next[i][f[i - 1]] = Op(f[i - 1], i)
      BY <3>1 DEF next
    <3> QED BY <2>2, <3>2 DEF Follows
  <2> QED BY <2>2, <2>3 DEF Follows
<1>6. P(f)
  <2>1. \A i \in 0..n : f[i] = IF i = 0 THEN 0
                                ELSE LET c == f[i - 1]
                                     IN  IF c < L /\ t[i] = s[c + 1] THEN c + 1 ELSE c
    <3> SUFFICES ASSUME NEW i \in 0..n
                 PROVE  f[i] = IF i = 0 THEN 0
                               ELSE LET c == f[i - 1]
                                    IN  IF c < L /\ t[i] = s[c + 1] THEN c + 1 ELSE c
      OBVIOUS
    <3>1. i = 0 \/ i \in 1..n
      BY <1>1
    <3>2. i \in 1..n => i # 0
      OBVIOUS
    <3> QED BY <1>5, <3>1, <3>2, SMTT(30)
  <2> QED BY <2>1
<1>7. P(found)
  <2> HIDE DEF P
  <2> QED BY <1>6 DEF found
<1>8. found[n] = f[n]
  <2> DEFINE Bad == {i \in 0..n : found[i] # f[i]}
  <2>1. \A i \in 0..n : found[i] = IF i = 0 THEN 0 ELSE Op(found[i - 1], i)
    BY <1>7
  <2> HIDE DEF P
  <2>2. Bad = {}
    <3>1. SUFFICES ASSUME Bad # {} PROVE FALSE
      OBVIOUS
    <3>2. PICK i \in Bad : \A k \in Bad : i <= k
      <4>1. Bad \subseteq Nat
        OBVIOUS
      <4> QED BY <3>1, <4>1, LeastElement
    <3> HIDE DEF Op
    <3>3. i \in 0..n /\ found[i] # f[i] /\ i # 0
      <4>1. found[0] = 0
        <5>1. 0 \in 0..n
          BY <1>1
        <5> QED BY <2>1, <5>1
      <4> QED BY <1>5, <3>2, <4>1
    <3>4. i \in 1..n /\ i - 1 \in 0..n /\ ~ (i <= i - 1)
      BY <1>1, <3>3
    <3>5. i - 1 \notin Bad
      BY <3>2, <3>4
    <3> QED BY <1>5, <2>1, <3>3, <3>4, <3>5
  <2>3. n \in 0..n
    BY <1>1
  <2> QED BY <2>2, <2>3
<1>9. FindsBy(f, t, s)
  BY <1>5 DEF FindsBy, n, L
<1> QED BY <1>4, <1>8, <1>9 DEF n, L, V

LEMMA FindsAlike ==
    ASSUME NEW t, NEW u, NEW s, Begins(t, u), NEW f, NEW g, FindsBy(f, t, s), FindsBy(g, u, s)
    PROVE  \A i \in 0..Len(t) : f[i] = g[i]
<1>0. PICK n \in Nat, m \in Nat :
        n = Len(t) /\ m = Len(u) /\ n <= m /\ \A i \in 1..n : t[i] = u[i]
  BY DEF Begins
<1>00. SUFFICES \A i \in 0..n : f[i] = g[i]
  BY <1>0
<1> DEFINE Bad == {i \in 0..n : f[i] # g[i]}
<1>1. SUFFICES ASSUME Bad # {} PROVE FALSE
  OBVIOUS
<1>2. PICK i \in Bad : \A k \in Bad : i <= k
  <2>1. Bad \subseteq Nat
    OBVIOUS
  <2> QED BY <1>1, <2>1, LeastElement
<1>3. i \in 0..n /\ f[i] # g[i] /\ i # 0
  BY <1>2 DEF FindsBy
<1>4. i \in 1..n /\ i \in 1..m /\ i - 1 \in 0..n /\ ~ (i <= i - 1)
  BY <1>0, <1>3
<1>5. f[i - 1] = g[i - 1]
  BY <1>2, <1>4
<1>6. /\ f[i] = IF f[i - 1] < Len(s) /\ t[i] = s[f[i - 1] + 1] THEN f[i - 1] + 1 ELSE f[i - 1]
      /\ g[i] = IF g[i - 1] < Len(s) /\ u[i] = s[g[i - 1] + 1] THEN g[i - 1] + 1 ELSE g[i - 1]
  BY <1>0, <1>4 DEF FindsBy
<1>7. t[i] = u[i]
  BY <1>0, <1>4
<1> QED BY <1>3, <1>5, <1>6, <1>7

LEMMA Joined2 ==
    ASSUME NEW E, NEW a \in Seq(E), NEW b \in Seq(E)
    PROVE  /\ Len(a) \in Nat /\ Len(b) \in Nat /\ a \o b \in Seq(E) /\ Len(a \o b) = Len(a) + Len(b)
           /\ \A i \in 1..Len(a) : a[i] = (a \o b)[i]
           /\ \A k \in 1..Len(b) : (a \o b)[Len(a) + k] = b[k]
<1> DEFINE n == Len(a)
           m == Len(b)
           t == a \o b
<1>1. /\ n \in Nat /\ m \in Nat /\ t \in Seq(E) /\ Len(t) = n + m
      /\ \A i \in 1..(n + m) : t[i] = IF i <= n THEN a[i] ELSE b[i - n]
  BY ConcatProperties, LenProperties
<1> HIDE DEF n, m, t
<1>2. \A i \in 1..n : i <= n /\ i \in 1..(n + m)
  BY <1>1
<1>3. \A k \in 1..m : ~ (n + k <= n) /\ n + k \in 1..(n + m) /\ n + k - n = k
  BY <1>1
<1>4. \A i \in 1..n : a[i] = t[i]
  BY <1>1, <1>2
<1>5. ASSUME NEW k \in 1..m PROVE t[n + k] = b[k]
  <2>1. PICK j \in 1..(n + m) : j = n + k
    BY <1>3
  <2>2. ~ (j <= n) /\ j - n = k
    <3>1. n \in Nat /\ k \in 1..m /\ m \in Nat
      BY <1>1
    <3> QED BY <2>1, <3>1
  <2>3. t[j] = b[j - n]
    BY <1>1, <2>2
  <2> QED BY <2>1, <2>2, <2>3
<1> QED BY <1>1, <1>4, <1>5 DEF n, m, t

(* More text does not hide the marks, and the next mark is found.          *)
LEMMA FindsLonger ==
    ASSUME NEW E, NEW a \in Seq(E), NEW b \in Seq(E), NEW s \in Seq(E), NEW q \in Nat, Finds(a, s, q)
    PROVE  Finds(a \o b, s, q)
<1> DEFINE n == Len(a)
           m == Len(b)
           L == Len(s)
<1>1. PICK t : t = a \o b
  OBVIOUS
<1>2. /\ n \in Nat /\ m \in Nat /\ L \in Nat /\ t \in Seq(E) /\ Len(t) = n + m
      /\ \A i \in 1..n : a[i] = t[i]
  BY <1>1, Joined2, LenProperties
<1>3. PICK f \in [0..n -> 0..L] : FindsBy(f, a, s) /\ f[n] >= q
  BY DEF Finds
<1>4. PICK g \in [0..(n + m) -> 0..L] : FindsBy(g, t, s)
  BY <1>2, FindsExist
<1>5. \A i \in 0..n : f[i] = g[i]
  <2>1. Begins(a, t)
    BY <1>2 DEF Begins
  <2> QED BY <1>3, <1>4, <2>1, FindsAlike, SMTT(30)
<1>6. \A i \in 1..(n + m) : i - 1 \in 0..(n + m) /\ g[i] >= g[i - 1]
  <2> SUFFICES ASSUME NEW i \in 1..(n + m) PROVE i - 1 \in 0..(n + m) /\ g[i] >= g[i - 1]
    OBVIOUS
  <2>1. i - 1 \in 0..(n + m)
    BY <1>2
  <2>2. g[i] = IF g[i - 1] < L /\ t[i] = s[g[i - 1] + 1] THEN g[i - 1] + 1 ELSE g[i - 1]
    BY <1>2, <1>4 DEF FindsBy
  <2>3. g[i - 1] \in Nat
    <3>1. g[i - 1] \in 0..L
      BY <1>4, <2>1
    <3> QED BY <3>1
  <2> QED BY <2>1, <2>2, <2>3
<1> DEFINE Bad == {k \in 0..m : ~ (g[n + k] >= q)}
<1>7. Bad = {}
  <2>1. SUFFICES ASSUME Bad # {} PROVE FALSE
    OBVIOUS
  <2>2. PICK k \in Bad : \A j \in Bad : k <= j
    <3>1. Bad \subseteq Nat
      OBVIOUS
    <3> QED BY <2>1, <3>1, LeastElement
  <2>3. k \in 0..m /\ ~ (g[n + k] >= q)
    BY <2>2
  <2>4. k # 0
    <3>1. n + 0 = n /\ n \in 0..n
      BY <1>2
    <3> QED BY <1>3, <1>5, <2>3, <3>1
  <2>5. k \in 1..m /\ k - 1 \in 0..m /\ ~ (k <= k - 1)
    BY <1>2, <2>3, <2>4
  <2>6. g[n + (k - 1)] >= q
    BY <2>2, <2>5
  <2>7. PICK i \in 1..(n + m) : i = n + k /\ i - 1 = n + (k - 1)
    BY <1>2, <2>5
  <2>8. g[i] \in 0..L /\ g[i - 1] \in 0..L /\ g[i] >= g[i - 1]
    <3>1. i \in 0..(n + m)
      BY <2>7
    <3> QED BY <1>4, <1>6, <3>1
  <2> QED BY <1>2, <2>3, <2>6, <2>7, <2>8
<1>8. g[n + m] >= q
  <2>1. m \in 0..m
    BY <1>2
  <2> QED BY <1>7, <2>1
<1>9. Finds(t, s, q)
  BY <1>2, <1>4, <1>8 DEF Finds
<1> QED BY <1>1, <1>9

LEMMA FindsNext ==
    ASSUME NEW E, NEW a \in Seq(E), NEW s \in Seq(E), NEW q \in Nat, q < Len(s), Finds(a, s, q),
           NEW e \in E, e = s[q + 1]
    PROVE  Finds(Append(a, e), s, q + 1)
<1> DEFINE n == Len(a)
           L == Len(s)
<1>1. PICK t : t = Append(a, e)
  OBVIOUS
<1>2. /\ n \in Nat /\ L \in Nat /\ t \in Seq(E) /\ Len(t) = n + 1 /\ t[n + 1] = e
      /\ \A i \in 1..n : a[i] = t[i]
  BY <1>1, LongerBy, LenProperties
<1>3. PICK f \in [0..n -> 0..L] : FindsBy(f, a, s) /\ f[n] >= q
  BY DEF Finds
<1>4. PICK g \in [0..(n + 1) -> 0..L] : FindsBy(g, t, s)
  BY <1>2, FindsExist
<1>5. \A i \in 0..n : f[i] = g[i]
  <2>1. Begins(a, t)
    BY <1>2 DEF Begins
  <2> QED BY <1>3, <1>4, <2>1, FindsAlike
<1>6. g[n] \in 0..L /\ g[n] >= q
  <2>1. n \in 0..n /\ n \in 0..(n + 1)
    BY <1>2
  <2> QED BY <1>3, <1>4, <1>5, <2>1
<1>7. g[n + 1] = IF g[n] < L /\ t[n + 1] = s[g[n] + 1] THEN g[n] + 1 ELSE g[n]
  <2>1. PICK j \in 1..Len(t) : j = n + 1 /\ j - 1 = n
    BY <1>2
  <2>2. g[j] = IF g[j - 1] < Len(s) /\ t[j] = s[g[j - 1] + 1] THEN g[j - 1] + 1 ELSE g[j - 1]
    BY <1>4 DEF FindsBy
  <2> QED BY <2>1, <2>2
<1>8. g[n + 1] >= q + 1
  BY <1>2, <1>6, <1>7
<1>9. Finds(t, s, q + 1)
  BY <1>2, <1>4, <1>8 DEF Finds
<1> QED BY <1>1, <1>9

LEMMA FindsTail ==
    ASSUME NEW E, NEW a \in Seq(E), NEW s \in Seq(E), NEW q \in 0..Len(s), Finds(a, s, q)
    PROVE  Finds(a \o SubSeq(s, q + 1, Len(s)), s, Len(s)) /\ SubSeq(s, q + 1, Len(s)) \in Seq(E)
<1> DEFINE L == Len(s)
           part(k) == SubSeq(s, q + 1, k)
<1>1. L \in Nat /\ q \in Nat /\ q <= L /\ \A i \in 1..L : s[i] \in E
  BY LenProperties, ElementOfSeq
<1> HIDE DEF L
<1>2. \A k \in q..L : part(k) \in Seq(E)
  <2> SUFFICES ASSUME NEW k \in q..L PROVE part(k) \in Seq(E)
    OBVIOUS
  <2>1. PICK u \in Int, v \in Int : u = q + 1 /\ v = k
    BY <1>1
  <2>2. \A i \in u..v : s[i] \in E
    BY <1>1, <2>1
  <2>3. SubSeq(s, u, v) \in Seq(E)
    BY <2>2, SubSeqProperties
  <2> QED BY <2>1, <2>3
<1>3. ASSUME NEW k \in (q + 1)..L PROVE part(k) = Append(part(k - 1), s[k])
  <2>1. k \in Int /\ k - 1 \in q..L /\ s[k] \in E /\ k \in q..L /\ k \in 1..L
    BY <1>1
  <2>2. PICK u \in Int, v \in Int, w \in Int : u = q + 1 /\ v = k /\ w = k - 1
    BY <1>1, <2>1
  <2>3. \A i \in u..v : s[i] \in E
    BY <1>1, <2>2
  <2>4. /\ Len(SubSeq(s, u, v)) = v - u + 1
        /\ \A i \in 1..(v - u + 1) : SubSeq(s, u, v)[i] = s[u + i - 1]
    <3>1. u <= v
      BY <2>2
    <3> QED BY <2>3, <3>1, SubSeqProperties
  <2>5. \A i \in u..w : s[i] \in E
    BY <1>1, <2>2
  <2>6. /\ Len(SubSeq(s, u, w)) = w - u + 1
        /\ \A i \in 1..(w - u + 1) : SubSeq(s, u, w)[i] = s[u + i - 1]
    <3>1. Len(SubSeq(s, u, w)) = IF u <= w THEN w - u + 1 ELSE 0
      BY <2>5, SubSeqProperties
    <3>2. ~ (u <= w) => w - u + 1 = 0
      BY <1>1, <2>2
    <3> QED BY <2>5, <3>1, <3>2, SubSeqProperties
  <2>7. PICK x \in Seq(E), y \in Seq(E) : x = SubSeq(s, u, v) /\ y = SubSeq(s, u, w)
    BY <1>2, <2>1, <2>2
  <2>8. /\ Append(y, s[k]) \in Seq(E) /\ Len(Append(y, s[k])) = Len(y) + 1
        /\ \A i \in 1..Len(y) : Append(y, s[k])[i] = y[i]
        /\ Append(y, s[k])[Len(y) + 1] = s[k]
    BY <2>1, LongerBy
  <2>9. Len(x) = Len(y) + 1 /\ Len(y) \in Nat /\ Len(y) = k - 1 - q /\ Len(x) = k - q
    BY <1>1, <2>1, <2>2, <2>4, <2>6, <2>7
  <2>10. \A i \in 1..Len(x) : x[i] = Append(y, s[k])[i]
    <3> SUFFICES ASSUME NEW i \in 1..Len(x) PROVE x[i] = Append(y, s[k])[i]
      OBVIOUS
    <3>1. x[i] = s[u + i - 1]
      BY <2>2, <2>4, <2>7, <2>9
    <3>2. CASE i = Len(y) + 1
      <4>1. u + i - 1 = k
        BY <1>1, <2>2, <2>9, <3>2
      <4> QED BY <2>8, <3>1, <3>2, <4>1
    <3>3. CASE i # Len(y) + 1
      <4>1. i \in 1..Len(y) /\ i \in 1..(w - u + 1)
        BY <1>1, <2>2, <2>9, <3>3
      <4> QED BY <2>6, <2>7, <2>8, <3>1, <4>1
    <3> QED BY <3>2, <3>3
  <2>11. x = Append(y, s[k])
    <3>1. PICK z \in Seq(E) : z = Append(y, s[k])
      BY <2>8
    <3>2. Len(x) = Len(z) /\ \A i \in 1..Len(x) : x[i] = z[i]
      BY <2>8, <2>9, <2>10, <3>1
    <3>3. x = z
      BY <3>2, SeqEqual
    <3> QED BY <3>1, <3>3
  <2> QED BY <2>2, <2>7, <2>11
<1> DEFINE Bad == {k \in q..L : ~ Finds(a \o part(k), s, k)}
<1>4. Bad = {}
  <2>1. SUFFICES ASSUME Bad # {} PROVE FALSE
    OBVIOUS
  <2>2. PICK k \in Bad : \A j \in Bad : k <= j
    <3>1. Bad \subseteq Nat
      BY <1>1
    <3> HIDE DEF Bad
    <3> QED BY <2>1, <3>1, LeastElement
  <2>3. k \in q..L /\ ~ Finds(a \o part(k), s, k)
    BY <2>2
  <2>4. k # q
    <3>1. part(q) = <<>>
      <4>1. q + 1 \in Int /\ q \in Int /\ q < q + 1
        BY <1>1
      <4> QED BY <4>1, SubSeqEmpty
    <3>2. a \o <<>> = a
      BY ConcatEmptySeq
    <3> HIDE DEF part
    <3> QED BY <2>3, <3>1, <3>2
  <2>5. k \in (q + 1)..L /\ k - 1 \in q..L /\ ~ (k <= k - 1)
    BY <1>1, <2>3, <2>4
  <2>6. Finds(a \o part(k - 1), s, k - 1)
    <3> HIDE DEF part
    <3> QED BY <2>2, <2>5
  <2>7. PICK y \in Seq(E), e \in E : y = part(k - 1) /\ e = s[k]
    <3>1. part(k - 1) \in Seq(E)
      BY <1>2, <2>5
    <3>2. s[k] \in E
      BY <1>1, <2>5
    <3> HIDE DEF part
    <3> QED BY <3>1, <3>2
  <2>8. a \o y \in Seq(E) /\ Append(a \o y, e) = a \o Append(y, e)
    <3>1. Joins(a, y, e)
      BY AppendJoins
    <3> QED BY <3>1, ConcatProperties DEF Joins
  <2>9. part(k) = Append(y, e)
    BY <1>3, <2>5, <2>7
  <2>10. PICK x \in Seq(E), j \in Nat : x = a \o y /\ j = k - 1 /\ j + 1 = k /\ j < L
    <3>1. PICK j \in Nat : j = k - 1 /\ j + 1 = k /\ j < L
      BY <1>1, <2>5
    <3> QED BY <2>8, <3>1
  <2> HIDE DEF part
  <2>11. Finds(x, s, j) /\ e = s[j + 1]
    BY <2>6, <2>7, <2>10
  <2>12. Finds(Append(x, e), s, j + 1)
    BY <2>10, <2>11, FindsNext DEF L
  <2> QED BY <2>3, <2>8, <2>9, <2>10, <2>12
<1>5. Finds(a \o part(L), s, L) /\ part(L) \in Seq(E)
  <2>1. L \in q..L
    BY <1>1
  <2> HIDE DEF part
  <2> QED BY <1>2, <1>4, <2>1
<1> QED BY <1>5 DEF L

LEMMA FoundAll ==
    ASSUME NEW E, NEW t \in Seq(E), NEW s \in Seq(E), Finds(t, s, Len(s))
    PROVE  Detect(t, s)
<1>1. Len(t) \in Nat /\ Len(s) \in Nat
  BY LenProperties
<1>2. PICK f \in [0..Len(t) -> 0..Len(s)] : FindsBy(f, t, s) /\ (Detect(t, s) <=> f[Len(t)] = Len(s))
  BY FindsExist
<1>3. PICK g \in [0..Len(t) -> 0..Len(s)] : FindsBy(g, t, s) /\ g[Len(t)] >= Len(s)
  BY DEF Finds
<1>4. \A i \in 0..Len(t) : f[i] = g[i]
  <2>1. Begins(t, t)
    BY <1>1 DEF Begins
  <2> QED BY <1>2, <1>3, <2>1, FindsAlike
<1>5. Len(t) \in 0..Len(t)
  BY <1>1
<1>6. f[Len(t)] \in 0..Len(s) /\ f[Len(t)] >= Len(s)
  BY <1>2, <1>3, <1>4, <1>5
<1>7. f[Len(t)] = Len(s)
  BY <1>1, <1>6
<1> QED BY <1>2, <1>7

LEMMA FindsNone == ASSUME NEW E, NEW t \in Seq(E), NEW s \in Seq(E) PROVE Finds(t, s, 0)
<1>1. Len(t) \in Nat /\ Len(s) \in Nat
  BY LenProperties
<1>2. PICK f \in [0..Len(t) -> 0..Len(s)] : FindsBy(f, t, s)
  BY FindsExist
<1>3. f[Len(t)] \in 0..Len(s)
  BY <1>1, <1>2
<1>4. f[Len(t)] >= 0
  BY <1>1, <1>3
<1> QED BY <1>2, <1>4 DEF Finds

LEMMA Flattened ==
    ASSUME NEW E, NEW parts, Len(parts) \in Nat \ {0}, \A i \in 1..Len(parts) : parts[i] \in Seq(E)
    PROVE  \E f \in [0..Len(parts) -> Seq(E)] :
              Flattens(f, parts) /\ FlattenSeq(parts) = f[Len(parts)]
<1> DEFINE n == Len(parts)
           V == Seq(E)
           Op(v, i) == v \o parts[i]
           next == [i \in 1..n |-> [v \in V |-> Op(v, i)]]
           P(g) == g = [i \in 1..n |-> IF i = 1 THEN parts[i] ELSE g[i - 1] \o parts[i]]
           flat == CHOOSE g : P(g)
<1>1. n \in Nat /\ n # 0 /\ \A i \in 1..n : parts[i] \in V
  OBVIOUS
<1>2. \A v \in V, i \in 1..n : Op(v, i) \in V
  <2> SUFFICES ASSUME NEW v \in V, NEW i \in 1..n PROVE v \o parts[i] \in V
    OBVIOUS
  <2>1. PICK p \in Seq(E) : p = parts[i]
    BY <1>1
  <2>2. v \o p \in Seq(E)
    BY ConcatProperties
  <2> QED BY <2>1, <2>2
<1>3. <<>> \in V
  OBVIOUS
<1>4. FlattenSeq(parts) = flat[n]
  BY <1>1 DEF FlattenSeq
<1> HIDE DEF n, V, flat
<1>5. PICK f \in [0..n -> V] : f[0] = <<>> /\ \A i \in 1..n : f[i] = Op(f[i - 1], i)
  <2>1. next \in [1..n -> [V -> V]]
    <3> HIDE DEF Op
    <3> QED BY <1>2
  <2> HIDE DEF next, Op
  <2>2. PICK f \in [0..n -> V] : Follows(f, n, <<>>, next)
    BY <1>1, <1>3, <2>1, Recursion
  <2>3. ASSUME NEW i \in 1..n PROVE f[i] = Op(f[i - 1], i)
    <3>1. f[i - 1] \in V
      BY <1>1
    <3>2. next[i][f[i - 1]] = Op(f[i - 1], i)
      BY <3>1 DEF next
    <3> QED BY <2>2, <3>2 DEF Follows
  <2> QED BY <2>2, <2>3 DEF Follows
<1> DEFINE h == [i \in 1..n |-> f[i]]
<1>6. P(h)
  <2>1. \A i \in 1..n : h[i] = IF i = 1 THEN parts[i] ELSE h[i - 1] \o parts[i]
    <3> SUFFICES ASSUME NEW i \in 1..n
                 PROVE  f[i] = IF i = 1 THEN parts[i] ELSE h[i - 1] \o parts[i]
      OBVIOUS
    <3>1. CASE i = 1
      <4>1. PICK p \in Seq(E) : p = parts[i]
        BY <1>1 DEF V
      <4>2. <<>> \o p = p
        BY ConcatEmptySeq
      <4>3. f[1] = f[0] \o parts[1]
        <5>1. 1 \in 1..n /\ 1 - 1 = 0
          BY <1>1
        <5>2. f[1] = f[1 - 1] \o parts[1]
          BY <1>5, <5>1
        <5> QED BY <5>1, <5>2
      <4> QED BY <1>5, <3>1, <4>1, <4>2, <4>3
    <3>2. CASE i # 1
      <4>1. i - 1 \in 1..n
        BY <1>1, <3>2
      <4>2. h[i - 1] = f[i - 1]
        BY <4>1
      <4> HIDE DEF h
      <4> QED BY <1>5, <3>2, <4>2
    <3> QED BY <3>1, <3>2
  <2> QED BY <2>1
<1>7. P(flat)
  <2> HIDE DEF P, h
  <2> QED BY <1>6 DEF flat
<1>8. flat[n] = f[n]
  <2> DEFINE Bad == {i \in 1..n : flat[i] # h[i]}
  <2>1. \A i \in 1..n : flat[i] = IF i = 1 THEN parts[i] ELSE flat[i - 1] \o parts[i]
    BY <1>7
  <2>2. \A i \in 1..n : h[i] = IF i = 1 THEN parts[i] ELSE h[i - 1] \o parts[i]
    <3> HIDE DEF h
    <3> QED BY <1>6
  <2>3. h[n] = f[n] /\ n \in 1..n
    BY <1>1
  <2> HIDE DEF P, h
  <2>4. Bad = {}
    <3>1. SUFFICES ASSUME Bad # {} PROVE FALSE
      OBVIOUS
    <3>2. PICK i \in Bad : \A k \in Bad : i <= k
      <4>1. Bad \subseteq Nat
        OBVIOUS
      <4> QED BY <3>1, <4>1, LeastElement
    <3>3. i \in 1..n /\ flat[i] # h[i] /\ i # 1
      BY <2>1, <2>2, <3>2
    <3>4. i - 1 \in 1..n /\ ~ (i <= i - 1)
      BY <1>1, <3>3
    <3>5. flat[i - 1] = h[i - 1]
      BY <3>2, <3>4
    <3> QED BY <2>1, <2>2, <3>3, <3>5
  <2> QED BY <2>3, <2>4
<1>9. Flattens(f, parts)
  BY <1>5 DEF Flattens, n
<1> QED BY <1>4, <1>8, <1>9 DEF n, V

LEMMA SpreadRises ==
    ASSUME NEW gaps \in Nat, NEW marks \in Nat \ {0}, marks < gaps
    PROVE  /\ \A i \in 0..(marks - 1) : Spread(gaps, marks, i) \in 0..(gaps - 1)
           /\ \A i \in 0..(marks - 1), k \in 0..(marks - 1) :
                i < k => Spread(gaps, marks, i) < Spread(gaps, marks, k)
<1>1. ASSUME NEW i \in 0..(marks - 1) PROVE Spread(gaps, marks, i) \in 0..(gaps - 1)
  <2>1. PICK a \in Nat : a = i * gaps
    BY TimesGrows
  <2>2. PICK d \in Nat : d = a \div marks /\ marks * d <= a
    BY DivOf
  <2>3. a < marks * gaps
    <3>1. i * gaps + gaps <= marks * gaps
      OBVIOUS
    <3> QED BY <2>1, <3>1
  <2>4. d < gaps
    <3>1. SUFFICES ASSUME gaps <= d PROVE FALSE
      OBVIOUS
    <3>2. marks * gaps <= marks * d
      BY <3>1
    <3>3. PICK x \in Int, y \in Int : x = marks * gaps /\ y = marks * d
      OBVIOUS
    <3> QED BY <2>2, <2>3, <3>2, <3>3
  <2> QED BY <2>1, <2>2, <2>4 DEF Spread
<1>2. ASSUME NEW i \in 0..(marks - 1), NEW k \in 0..(marks - 1), i < k
      PROVE  Spread(gaps, marks, i) < Spread(gaps, marks, k)
  <2>1. PICK a \in Nat, b \in Nat : a = i * gaps /\ b = k * gaps
    BY TimesGrows
  <2>2. PICK d \in Nat : d = a \div marks /\ marks * d <= a
    BY DivOf
  <2>3. PICK e \in Nat : e = b \div marks /\ b < marks * e + marks
    BY DivOf
  <2>4. a + gaps <= b
    <3>1. i * gaps + gaps <= k * gaps
      BY <1>2
    <3> QED BY <2>1, <3>1
  <2>5. d < e
    <3>1. SUFFICES ASSUME e <= d PROVE FALSE
      OBVIOUS
    <3>2. marks * e <= marks * d
      BY <3>1
    <3>3. PICK x \in Int, y \in Int : x = marks * e /\ y = marks * d
      OBVIOUS
    <3> QED BY <2>2, <2>3, <2>4, <3>2, <3>3
  <2> QED BY <2>1, <2>2, <2>3, <2>5 DEF Spread
<1> QED BY <1>1, <1>2

LEMMA PositionsOf ==
    ASSUME NEW gaps \in Nat, NEW marks \in Nat
    PROVE  /\ Positions(gaps, marks) \subseteq 0..(gaps - 1)
           /\ IsFiniteSet(Positions(gaps, marks))
           /\ Cardinality(Positions(gaps, marks)) = IF marks >= gaps THEN gaps ELSE marks
<1>1. CASE marks >= gaps
  <2>1. Positions(gaps, marks) = 0..(gaps - 1)
    BY <1>1 DEF Positions
  <2>2. IsFiniteSet(0..(gaps - 1)) /\ Cardinality(0..(gaps - 1)) = gaps
    <3>1. PICK b \in Int : b = gaps - 1
      OBVIOUS
    <3>2. /\ IsFiniteSet(0..b)
          /\ Cardinality(0..b) = IF 0 > b THEN 0 ELSE b - 0 + 1
      BY FS_Interval
    <3> QED BY <3>1, <3>2
  <2> QED BY <1>1, <2>1, <2>2
<1>2. CASE ~ (marks >= gaps) /\ marks = 0
  <2>1. 0..(marks - 1) = {}
    BY <1>2
  <2>2. Positions(gaps, marks) = {(i * gaps) \div marks : i \in 0..(marks - 1)}
    BY <1>2 DEF Positions
  <2>3. Positions(gaps, marks) = {}
    BY <2>1, <2>2
  <2> QED BY <1>2, <2>3, FS_EmptySet
<1>3. CASE ~ (marks >= gaps) /\ marks # 0
  <2> DEFINE D == 0..(marks - 1)
             P == {Spread(gaps, marks, i) : i \in D}
             f == [i \in D |-> Spread(gaps, marks, i)]
  <2>1. Positions(gaps, marks) = P
    BY <1>3 DEF Positions, Spread
  <2>2. /\ \A i \in D : Spread(gaps, marks, i) \in 0..(gaps - 1)
        /\ \A i \in D, k \in D : i < k => Spread(gaps, marks, i) < Spread(gaps, marks, k)
    BY <1>3, SpreadRises
  <2>3. f \in Bijection(D, P)
    <3>1. f \in [D -> P]
      OBVIOUS
    <3>2. \A i, k \in D : f[i] = f[k] => i = k
      <4> SUFFICES ASSUME NEW i \in D, NEW k \in D, i # k PROVE f[i] # f[k]
        OBVIOUS
      <4>1. i < k \/ k < i
        OBVIOUS
      <4>2. Spread(gaps, marks, i) \in Int /\ Spread(gaps, marks, k) \in Int
        BY <2>2
      <4>3. Spread(gaps, marks, i) < Spread(gaps, marks, k) \/ Spread(gaps, marks, k) < Spread(gaps, marks, i)
        BY <2>2, <4>1
      <4>4. Spread(gaps, marks, i) # Spread(gaps, marks, k)
        BY <4>2, <4>3
      <4> QED BY <4>4
    <3>3. \A p \in P : \E i \in D : f[i] = p
      OBVIOUS
    <3>4. DOMAIN f = D
      OBVIOUS
    <3> HIDE DEF f, P, D
    <3>5. IsInjective(f)
      BY <3>2, <3>4 DEF IsInjective
    <3>6. f \in Injection(D, P)
      BY <3>1, <3>5 DEF Injection
    <3>7. f \in Surjection(D, P)
      BY <3>1, <3>3 DEF Surjection
    <3> QED BY <3>6, <3>7 DEF Bijection
  <2>4. IsFiniteSet(D) /\ Cardinality(D) = marks
    <3>1. PICK b \in Int : b = marks - 1
      OBVIOUS
    <3>2. /\ IsFiniteSet(0..b)
          /\ Cardinality(0..b) = IF 0 > b THEN 0 ELSE b - 0 + 1
      BY FS_Interval
    <3> QED BY <1>3, <3>1, <3>2
  <2>5. P \subseteq 0..(gaps - 1)
    BY <2>2
  <2> HIDE DEF f, P, D
  <2>6. IsFiniteSet(P) /\ Cardinality(P) = Cardinality(D)
    <3>1. ExistsBijection(D, P)
      BY <2>3 DEF ExistsBijection
    <3> QED BY <2>4, <3>1, FS_Bijection
  <2> QED BY <1>3, <2>1, <2>4, <2>5, <2>6
<1> QED BY <1>1, <1>2, <1>3

LEMMA PassingOf ==
    ASSUME NEW n \in Nat, NEW at, Gaps(at, n)
    PROVE  /\ Passing(at, 0) = 0 /\ Passing(at, n) = Cardinality(at)
           /\ \A i \in 1..n : /\ Passing(at, i - 1) \in Nat /\ Passing(at, i) <= Cardinality(at)
                              /\ Passing(at, i) = IF i - 1 \in at THEN Passing(at, i - 1) + 1
                                                  ELSE Passing(at, i - 1)
<1>1. IsFiniteSet(at) /\ \A k \in at : k \in Int /\ 0 <= k /\ k <= n - 1
  BY DEF Gaps
<1>2. Passing(at, 0) = 0
  <2>1. \A k \in at : ~ (k < 0)
    BY <1>1
  <2>2. {k \in at : k < 0} = {}
    BY <2>1, Zenon
  <2> QED BY <2>2, FS_EmptySet DEF Passing
<1>3. Passing(at, n) = Cardinality(at)
  <2>1. \A k \in at : k < n
    BY <1>1
  <2>2. {k \in at : k < n} = at
    BY <2>1, Zenon
  <2> QED BY <2>2 DEF Passing
<1>4. ASSUME NEW i \in 1..n
      PROVE  /\ Passing(at, i - 1) \in Nat /\ Passing(at, i) <= Cardinality(at)
             /\ Passing(at, i) = IF i - 1 \in at THEN Passing(at, i - 1) + 1 ELSE Passing(at, i - 1)
  <2> DEFINE A == {k \in at : k < i - 1}
             B == {k \in at : k < i}
  <2>1. IsFiniteSet(A) /\ IsFiniteSet(B) /\ Cardinality(A) \in Nat /\ Cardinality(B) <= Cardinality(at)
    <3>1. A \subseteq at /\ B \subseteq at
      OBVIOUS
    <3> HIDE DEF A, B
    <3> QED BY <1>1, <3>1, FS_Subset, FS_CardinalityType
  <2>2. ASSUME i - 1 \in at PROVE Cardinality(B) = Cardinality(A) + 1
    <3>1. \A k \in at : k < i <=> k < i - 1 \/ k = i - 1
      BY <1>1
    <3>2. ~ (i - 1 < i - 1)
      OBVIOUS
    <3>3. B = A \cup {i - 1} /\ i - 1 \notin A
      BY <2>2, <3>1, <3>2, Zenon
    <3> HIDE DEF A, B
    <3> QED BY <2>1, <3>3, FS_AddElement
  <2>3. ASSUME i - 1 \notin at PROVE B = A
    <3>1. \A k \in at : k < i <=> k < i - 1 \/ k = i - 1
      BY <1>1
    <3>2. \A k \in at : k < i <=> k < i - 1
      BY <2>3, <3>1
    <3> QED BY <3>2, Zenon
  <2>4. Passing(at, i - 1) = Cardinality(A) /\ Passing(at, i) = Cardinality(B)
    BY DEF Passing
  <2> HIDE DEF A, B
  <2> QED BY <2>1, <2>2, <2>3, <2>4
<1> QED BY <1>2, <1>3, <1>4

LEMMA OneSymbol == ASSUME NEW E, NEW e \in E PROVE <<e>> \in Seq(E) /\ Len(<<e>>) = 1
OBVIOUS

LEMMA MarkShape ==
    ASSUME NEW E, NEW v \in Seq(E), NEW x \in Seq(E), NEW z \in Seq(E), NEW e \in E
    PROVE  v \o x \in Seq(E) /\ Append(v \o x, e) \in Seq(E) /\ MarkShaped(v, x, e, z)
<1>1. PICK m \in Seq(E) : m = <<e>>
  BY OneSymbol
<1>2. x \o m \in Seq(E) /\ v \o x \in Seq(E)
  BY ConcatProperties
<1>3. Append(v \o x, e) = (v \o x) \o m /\ Append(v \o x, e) \in Seq(E)
  BY <1>1, <1>2, AppendIsConcat, AppendProperties
<1>4. (v \o x) \o m = v \o (x \o m)
  BY ConcatAssociative
<1>5. PICK xm \in Seq(E) : xm = x \o m
  BY <1>2
<1>6. (v \o xm) \o z = v \o (xm \o z)
  BY ConcatAssociative, SMTT(30)
<1>7. Append(v \o x, e) \o z = v \o ((x \o m) \o z)
  BY <1>3, <1>4, <1>5, <1>6
<1> QED BY <1>1, <1>2, <1>3, <1>7 DEF MarkShaped

LEMMA MarkFound ==
    ASSUME NEW E, NEW v \in Seq(E), NEW x \in Seq(E), NEW z \in Seq(E), NEW s \in Seq(E),
           NEW q \in Nat, q < Len(s), Finds(v, s, q), NEW e \in E, e = s[q + 1]
    PROVE  Finds(v \o ((x \o <<e>>) \o z), s, q + 1)
<1>1. v \o x \in Seq(E) /\ Append(v \o x, e) \in Seq(E) /\ MarkShaped(v, x, e, z)
  BY MarkShape
<1>2. Finds(v \o x, s, q)
  BY FindsLonger
<1>3. Finds(Append(v \o x, e), s, q + 1)
  <2>1. PICK vx \in Seq(E) : vx = v \o x
    BY <1>1
  <2>2. Finds(vx, s, q)
    BY <1>2, <2>1
  <2>3. Finds(Append(vx, e), s, q + 1)
    BY <2>2, FindsNext
  <2> QED BY <2>1, <2>3
<1>4. Finds(Append(v \o x, e) \o z, s, q + 1)
  <2>0. PICK r \in Nat : r = q + 1
    OBVIOUS
  <2>1. PICK a \in Seq(E) : a = Append(v \o x, e)
    BY <1>1, Zenon
  <2>2. Finds(a \o z, s, r)
    BY <1>3, <2>0, <2>1, FindsLonger
  <2> QED BY <2>0, <2>1, <2>2
<1> QED BY <1>1, <1>4 DEF MarkShaped

LEMMA MarkedIn ==
    ASSUME NEW E, NEW s \in Seq(E), NEW n \in Nat, NEW at, Gaps(at, n),
           Cardinality(at) <= Len(s), NEW i \in 1..n
    PROVE  /\ Marked(s, at, i) \in Seq(E)
           /\ \A marks : (\A k \in 1..Len(s) : s[k] \in marks) =>
                \A k \in 1..Len(Marked(s, at, i)) : Marked(s, at, i)[k] \in marks
<1>1. CASE i - 1 \notin at
  <2>1. Marked(s, at, i) = <<>>
    BY <1>1 DEF Marked
  <2>2. Len(<<>>) = 0
    OBVIOUS
  <2>3. \A k \in 1..0 : FALSE
    OBVIOUS
  <2>4. <<>> \in Seq(E)
    OBVIOUS
  <2> QED BY <2>1, <2>2, <2>3, <2>4
<1>2. CASE i - 1 \in at
  <2>1. PICK p : p = Passing(at, i)
    OBVIOUS
  <2>2. p \in 1..Len(s)
    <3>1. /\ Passing(at, i - 1) \in Nat /\ p <= Cardinality(at) /\ p = Passing(at, i - 1) + 1
      BY <1>2, <2>1, PassingOf
    <3>2. Len(s) \in Nat /\ Cardinality(at) \in Nat
      BY LenProperties, FS_CardinalityType DEF Gaps
    <3> QED BY <3>1, <3>2
  <2>3. PICK e \in E : e = s[p]
    BY <2>2, ElementOfSeq
  <2>4. Marked(s, at, i) = <<e>>
    BY <1>2, <2>1, <2>3 DEF Marked
  <2>5. <<e>> \in Seq(E) /\ Len(<<e>>) = 1 /\ \A k \in 1..1 : <<e>>[k] = e
    OBVIOUS
  <2> QED BY <2>2, <2>3, <2>4, <2>5
<1> QED BY <1>1, <1>2

(* The marks are found in the order of the gaps.                           *)
LEMMA WovenFinds ==
    ASSUME NEW E, NEW c \in E, NEW s \in Seq(E), NEW n \in Nat, NEW at, Gaps(at, n),
           Cardinality(at) <= Len(s),
           NEW w, \A i \in 1..n : w[i] \in Seq(E),
           NEW f \in [0..n -> Seq(E)], Weaves(f, w, s, at, n, c)
    PROVE  Finds(f[n], s, Cardinality(at))
<1> DEFINE Bad == {i \in 0..n : ~ Finds(f[i], s, Passing(at, i))}
<1>1. PICK space \in Seq(E) : space = <<c>>
  BY OneSymbol
<1>2. Bad = {}
  <2>1. SUFFICES ASSUME Bad # {} PROVE FALSE
    OBVIOUS
  <2>2. PICK i \in Bad : \A k \in Bad : i <= k
    <3>1. Bad \subseteq Nat
      OBVIOUS
    <3> HIDE DEF Bad
    <3> QED BY <2>1, <3>1, LeastElement
  <2>3. i \in 0..n /\ ~ Finds(f[i], s, Passing(at, i))
    BY <2>2
  <2>4. i # 0
    <3>1. Finds(<<>>, s, 0)
      <4>1. <<>> \in Seq(E)
        OBVIOUS
      <4> QED BY <4>1, FindsNone
    <3> QED BY <2>3, <3>1, PassingOf DEF Weaves
  <2>5. i \in 1..n /\ i - 1 \in 0..n /\ ~ (i <= i - 1)
    BY <2>3, <2>4
  <2>6. Finds(f[i - 1], s, Passing(at, i - 1))
    BY <2>2, <2>5
  <2>7. PICK v \in Seq(E), x \in Seq(E), m \in Seq(E), q \in Nat :
          v = f[i - 1] /\ x = w[i] /\ m = Marked(s, at, i) /\ q = Passing(at, i - 1)
    <3>1. f[i - 1] \in Seq(E) /\ w[i] \in Seq(E)
      BY <2>5
    <3>2. Marked(s, at, i) \in Seq(E)
      BY <2>5, MarkedIn
    <3>3. Passing(at, i - 1) \in Nat
      BY <2>5, PassingOf
    <3> QED BY <3>1, <3>2, <3>3
  <2>8. f[i] = v \o ((x \o m) \o space)
    BY <1>1, <2>5, <2>7 DEF Weaves
  <2>9. CASE i - 1 \notin at
    <3>1. Passing(at, i) = q
      BY <2>5, <2>7, <2>9, PassingOf
    <3>2. PICK part \in Seq(E) : part = (x \o m) \o space
      <4>1. PICK xm \in Seq(E) : xm = x \o m
        BY ConcatProperties
      <4>2. xm \o space \in Seq(E)
        BY ConcatProperties
      <4> QED BY <4>1, <4>2
    <3>3. Finds(v, s, q)
      BY <2>6, <2>7
    <3>4. Finds(v \o part, s, q)
      BY <3>3, FindsLonger
    <3> QED BY <2>3, <2>8, <3>1, <3>2, <3>4
  <2>10. CASE i - 1 \in at
    <3>1. Passing(at, i) = q + 1 /\ q + 1 <= Cardinality(at)
      BY <2>5, <2>7, <2>10, PassingOf
    <3>2. q < Len(s) /\ q + 1 \in 1..Len(s)
      <4>1. Len(s) \in Nat /\ Cardinality(at) \in Nat
        BY LenProperties, FS_CardinalityType DEF Gaps
      <4> QED BY <3>1, <4>1
    <3>3. PICK e \in E : e = s[q + 1]
      BY <3>2, ElementOfSeq
    <3>4. m = <<e>>
      BY <2>7, <2>10, <3>1, <3>3 DEF Marked
    <3>5. Finds(v, s, q)
      BY <2>6, <2>7
    <3>6. Finds(v \o ((x \o <<e>>) \o space), s, q + 1)
      BY <3>2, <3>3, <3>5, MarkFound
    <3> QED BY <2>3, <2>8, <3>1, <3>4, <3>6
  <2> QED BY <2>9, <2>10
<1>3. n \in 0..n
  OBVIOUS
<1>4. Passing(at, n) = Cardinality(at)
  BY PassingOf
<1> QED BY <1>2, <1>3, <1>4

LEMMA StripParted ==
    ASSUME NEW E, NEW a \in Seq(E), NEW b \in Seq(E), NEW marks
    PROVE  Parted(a, b, marks)
BY StripJoins DEF Parted

LEMMA StripMarked ==
    ASSUME NEW E, NEW v \in Seq(E), NEW x \in Seq(E), NEW m \in Seq(E), NEW z \in Seq(E), NEW marks,
           Strip(m, marks) = <<>>
    PROVE  /\ (x \o m) \o z \in Seq(E) /\ v \o ((x \o m) \o z) \in Seq(E)
           /\ MarkParted(v, x, m, z, marks)
<1>1. PICK xm \in Seq(E) : xm = x \o m
  BY StripJoins
<1>2. Strip(xm, marks) = Strip(x, marks)
  <2>1. Strip(xm, marks) = Strip(x, marks) \o Strip(m, marks)
    <3>1. Parted(x, m, marks)
      BY StripParted
    <3> QED BY <1>1, <3>1 DEF Parted
  <2>2. Strip(x, marks) \in Seq(E)
    BY StripIn
  <2>3. Strip(x, marks) \o <<>> = Strip(x, marks)
    BY <2>2, ConcatEmptySeq
  <2> QED BY <2>1, <2>3
<1>3. PICK p \in Seq(E) : p = xm \o z
  BY StripJoins
<1>4. Strip(p, marks) = Strip(x, marks) \o Strip(z, marks)
  <2>1. Strip(p, marks) = Strip(xm, marks) \o Strip(z, marks)
    <3>1. Parted(xm, z, marks)
      BY StripParted
    <3> QED BY <1>3, <3>1 DEF Parted
  <2> QED BY <1>2, <2>1
<1>5. v \o p \in Seq(E) /\ Strip(v \o p, marks) = Strip(v, marks) \o Strip(p, marks)
  <2>1. Parted(v, p, marks) /\ v \o p \in Seq(E)
    BY StripParted, ConcatProperties
  <2> QED BY <2>1 DEF Parted
<1> QED BY <1>1, <1>3, <1>4, <1>5 DEF MarkParted

LEMMA FourJoined ==
    ASSUME NEW E, NEW g \in Seq(E), NEW z \in Seq(E), NEW x \in Seq(E)
    PROVE  FourJoin(g, z, x)
<1>1. PICK xz \in Seq(E), zx \in Seq(E) : xz = x \o z /\ zx = z \o x
  BY StripJoins
<1>2. (g \o z) \o xz = g \o (z \o xz)
  BY ConcatAssociative, SMTT(30)
<1>3. (z \o x) \o z = z \o (x \o z)
  BY ConcatAssociative, SMTT(30)
<1>4. (g \o zx) \o z = g \o (zx \o z)
  BY ConcatAssociative, SMTT(30)
<1> QED BY <1>1, <1>2, <1>3, <1>4 DEF FourJoin

LEMMA WovenStrips ==
    ASSUME NEW E, NEW c \in E, NEW s \in Seq(E), NEW n \in Nat, NEW at, NEW marks,
           NEW w, NEW f, NEW g, Woven(E, c, s, n, at, marks, w, f, g)
    PROVE  StrippedAlike(f, g, n, c, marks)
<1> /\ Gaps(at, n) /\ Cardinality(at) <= Len(s) /\ \A k \in 1..Len(s) : s[k] \in marks
    /\ \A i \in 1..n : w[i] \in Seq(E)
    /\ f \in [0..n -> Seq(E)] /\ Weaves(f, w, s, at, n, c)
    /\ g \in [0..(n + 1) -> Seq(E)] /\ Chains(g, w, n, c)
  BY DEF Woven
<1> DEFINE Bad == {i \in 1..n : Strip(f[i], marks) # Strip(g[i], marks) \o Strip(<<c>>, marks)}
<1>1. PICK z \in Seq(E) : z = <<c>>
  BY OneSymbol
<1>2. SUFFICES ASSUME Bad # {} PROVE FALSE
  BY DEF StrippedAlike
<1>3. PICK i \in Bad : \A k \in Bad : i <= k
  <2>1. Bad \subseteq Nat
    OBVIOUS
  <2> HIDE DEF Bad
  <2> QED BY <1>2, <2>1, LeastElement
<1>4. i \in 1..n /\ Strip(f[i], marks) # Strip(g[i], marks) \o Strip(z, marks)
  BY <1>1, <1>3
<1>5. PICK v \in Seq(E), u \in Seq(E), x \in Seq(E), m \in Seq(E) :
        v = f[i - 1] /\ u = g[i - 1] /\ x = w[i] /\ m = Marked(s, at, i)
  <2>1. i - 1 \in 0..n /\ i - 1 \in 0..(n + 1)
    BY <1>4
  <2>2. f[i - 1] \in Seq(E) /\ g[i - 1] \in Seq(E)
    BY <2>1
  <2>3. w[i] \in Seq(E)
    BY <1>4
  <2>4. Marked(s, at, i) \in Seq(E)
    BY <1>4, MarkedIn
  <2> QED BY <2>2, <2>3, <2>4
<1>6. Strip(m, marks) = <<>>
  <2>1. \A k \in 1..Len(m) : m[k] \in marks
    BY <1>4, <1>5, MarkedIn
  <2> QED BY <2>1, StripIn
<1>7. PICK V \in Seq(E), U \in Seq(E), X \in Seq(E), Z \in Seq(E) :
        V = Strip(v, marks) /\ U = Strip(u, marks) /\ X = Strip(x, marks) /\ Z = Strip(z, marks)
  BY StripIn
<1>8. f[i] = v \o ((x \o m) \o z)
  BY <1>1, <1>4, <1>5 DEF Weaves
<1>9. Strip(f[i], marks) = V \o (X \o Z)
  <2>1. Strip(v \o ((x \o m) \o z), marks) = Strip(v, marks) \o (Strip(x, marks) \o Strip(z, marks))
    <3>1. MarkParted(v, x, m, z, marks)
      BY <1>6, StripMarked
    <3> QED BY <3>1 DEF MarkParted
  <2> QED BY <1>7, <1>8, <2>1
<1>10. CASE i = 1
  <2>1. v = <<>> /\ u = <<>>
    BY <1>4, <1>5, <1>10 DEF Weaves, Chains
  <2>2. g[i] = u \o x
    BY <1>4, <1>5, <1>10 DEF Chains
  <2>3. u \o x = x
    BY <2>1, ConcatEmptySeq
  <2>4. V = <<>>
    <3>1. \A k \in 1..Len(v) : v[k] \in marks
      <4>1. Len(v) = 0
        BY <2>1
      <4> QED BY <4>1
    <3> QED BY <1>7, <3>1, StripIn
  <2>5. X \o Z \in Seq(E)
    BY ConcatProperties
  <2>6. V \o (X \o Z) = X \o Z
    BY <2>4, <2>5, ConcatEmptySeq
  <2>7. Strip(g[i], marks) = X
    BY <1>7, <2>2, <2>3
  <2> QED BY <1>4, <1>7, <1>9, <2>6, <2>7
<1>11. CASE i # 1
  <2>1. i - 1 \in 1..n /\ ~ (i <= i - 1)
    BY <1>4, <1>11
  <2>2. V = U \o Z
    <3>1. Strip(f[i - 1], marks) = Strip(g[i - 1], marks) \o Strip(<<c>>, marks)
      BY <1>3, <2>1
    <3> QED BY <1>1, <1>5, <1>7, <3>1
  <2>3. g[i] = u \o (z \o x)
    BY <1>1, <1>4, <1>5, <1>11 DEF Chains
  <2>4. Strip(g[i], marks) = U \o (Z \o X)
    <3>1. PICK zx \in Seq(E) : zx = z \o x
      BY StripJoins
    <3>2. Strip(zx, marks) = Z \o X
      <4>1. Parted(z, x, marks)
        BY StripParted
      <4> QED BY <1>7, <3>1, <4>1 DEF Parted
    <3>3. Strip(u \o zx, marks) = Strip(u, marks) \o Strip(zx, marks)
      <4>1. Parted(u, zx, marks)
        BY StripParted
      <4> QED BY <4>1 DEF Parted
    <3> QED BY <1>7, <2>3, <3>1, <3>2, <3>3
  <2>5. (U \o Z) \o (X \o Z) = (U \o (Z \o X)) \o Z
    <3>1. FourJoin(U, Z, X)
      BY FourJoined
    <3> QED BY <3>1 DEF FourJoin
  <2> QED BY <1>4, <1>7, <1>9, <2>2, <2>4, <2>5
<1> QED BY <1>10, <1>11

LEMMA TailMarked ==
    ASSUME NEW E, NEW s \in Seq(E), NEW n \in Nat, NEW marks, \A k \in 1..Len(s) : s[k] \in marks
    PROVE  /\ SubSeq(s, n + 1, Len(s)) \in Seq(E)
           /\ Strip(SubSeq(s, n + 1, Len(s)), marks) = <<>>
           /\ Len(s) < n + 1 => SubSeq(s, n + 1, Len(s)) = <<>>
<1>1. PICK u \in Int, v \in Int : u = n + 1 /\ v = Len(s) /\ v >= 0
  <2>1. Len(s) \in Nat
    BY LenProperties
  <2> QED BY <2>1
<1>2. \A i \in u..v : s[i] \in E /\ s[i] \in marks
  <2> SUFFICES ASSUME NEW i \in u..v PROVE s[i] \in E /\ s[i] \in marks
    OBVIOUS
  <2>1. i \in 1..Len(s)
    BY <1>1
  <2> QED BY <2>1, ElementOfSeq
<1>3. PICK t : t = SubSeq(s, u, v)
  OBVIOUS
<1>4. /\ t \in Seq(E) /\ Len(t) = IF u <= v THEN v - u + 1 ELSE 0
      /\ \A i \in 1..(v - u + 1) : t[i] = s[u + i - 1]
  BY <1>2, <1>3, SubSeqProperties
<1>5. \A i \in 1..Len(t) : t[i] \in marks
  <2> SUFFICES ASSUME NEW i \in 1..Len(t) PROVE t[i] \in marks
    OBVIOUS
  <2>1. i \in 1..(v - u + 1) /\ u + i - 1 \in u..v
    BY <1>4
  <2> QED BY <1>2, <1>4, <2>1
<1>6. Strip(t, marks) = <<>>
  BY <1>4, <1>5, StripIn
<1>7. v < u => t = <<>>
  BY <1>3, SubSeqEmpty
<1> QED BY <1>1, <1>3, <1>4, <1>6, <1>7

LEMMA EmbeddedFew ==
    ASSUME NEW E, NEW c \in E, NEW s \in Seq(E), NEW marks, \A k \in 1..Len(s) : s[k] \in marks,
           NEW w, Len(w) = 1, w[1] \in Seq(E), NEW g, Chains(g, w, 1, c)
    PROVE  Embedded(s \o w[1], w, s, g, marks)
<1>1. PICK x \in Seq(E) : x = w[1]
  OBVIOUS
<1>2. g[1] = x
  <2>1. 1 \in 1..1 /\ 1 - 1 = 0
    OBVIOUS
  <2>2. g[1] = g[0] \o x
    BY <1>1, <2>1 DEF Chains
  <2>3. <<>> \o x = x
    BY ConcatEmptySeq
  <2> QED BY <2>2, <2>3 DEF Chains
<1>3. Strip(s \o x, marks) = Strip(x, marks)
  <2>1. Strip(s, marks) = <<>>
    BY StripIn
  <2>2. Parted(s, x, marks)
    BY StripParted
  <2>3. PICK y \in Seq(E) : y = Strip(x, marks)
    BY StripIn
  <2>4. <<>> \o y = y
    BY ConcatEmptySeq
  <2> QED BY <2>1, <2>2, <2>3, <2>4 DEF Parted
<1>4. Finds(s, s, Len(s))
  <2>0. PICK q \in Nat : q = 0
    OBVIOUS
  <2>1. PICK a \in Seq(E) : a = <<>>
    <3>1. <<>> \in Seq(E)
      OBVIOUS
    <3> QED BY <3>1, Zenon
  <2>2. q \in 0..Len(s) /\ Len(s) \in Nat
    BY <2>0, LenProperties
  <2>3. Finds(a, s, q)
    BY <2>0, FindsNone
  <2>4. Finds(a \o SubSeq(s, q + 1, Len(s)), s, Len(s)) /\ SubSeq(s, q + 1, Len(s)) \in Seq(E)
    BY <2>2, <2>3, FindsTail
  <2>5. SubSeq(s, q + 1, Len(s)) = s
    <3>1. PICK t \in Seq(E) : t = SubSeq(s, 1, Len(s))
      BY <2>0, <2>4
    <3>2. \A i \in 1..Len(s) : s[i] \in E
      BY ElementOfSeq
    <3>3. Len(t) = Len(s) /\ \A i \in 1..Len(t) : t[i] = s[i]
      <4>1. PICK v \in Int : v = Len(s) /\ v >= 0
        BY <2>2
      <4>2. /\ Len(SubSeq(s, 1, v)) = IF 1 <= v THEN v - 1 + 1 ELSE 0
            /\ \A i \in 1..(v - 1 + 1) : SubSeq(s, 1, v)[i] = s[1 + i - 1]
        BY <3>2, <4>1, SubSeqProperties
      <4> QED BY <3>1, <4>1, <4>2
    <3>4. t = s
      BY <3>3, SeqEqual
    <3> QED BY <2>0, <3>1, <3>4
  <2>6. <<>> \o s = s
    BY ConcatEmptySeq
  <2> QED BY <2>1, <2>4, <2>5, <2>6
<1>5. Detect(s \o x, s)
  <2>1. PICK q \in Nat : q = Len(s)
    BY LenProperties
  <2>2. Finds(s \o x, s, q)
    BY <1>4, <2>1, FindsLonger
  <2>3. s \o x \in Seq(E)
    BY ConcatProperties
  <2> QED BY <2>1, <2>2, <2>3, FoundAll
<1> QED BY <1>1, <1>2, <1>3, <1>5 DEF Embedded

LEMMA Concat3 ==
    ASSUME NEW E, NEW a \in Seq(E), NEW b \in Seq(E), NEW d \in Seq(E)
    PROVE  Parts3(a, b, d)
BY ConcatAssociative DEF Parts3

LEMMA EmbeddedMany ==
    ASSUME NEW E, NEW c \in E, NEW s \in Seq(E), NEW marks, \A k \in 1..Len(s) : s[k] \in marks,
           NEW n \in Nat, n # 0, NEW w, Len(w) = n + 1, \A i \in 1..(n + 1) : w[i] \in Seq(E),
           NEW at, at = Positions(n, Len(s)),
           NEW f \in [0..n -> Seq(E)], Weaves(f, w, s, at, n, c),
           NEW g \in [0..(n + 1) -> Seq(E)], Chains(g, w, n + 1, c)
    PROVE  Embedded((f[n] \o w[n + 1]) \o SubSeq(s, n + 1, Len(s)), w, s, g, marks)
<1>1. PICK L \in Nat : L = Len(s)
  BY LenProperties
<1>2. Gaps(at, n) /\ Cardinality(at) = IF L >= n THEN n ELSE L
  BY <1>1, PositionsOf DEF Gaps
<1>3. Cardinality(at) <= Len(s)
  BY <1>1, <1>2
<1>4. PICK v \in Seq(E), x \in Seq(E), u \in Seq(E), z \in Seq(E) :
        v = f[n] /\ x = w[n + 1] /\ u = g[n] /\ z = <<c>>
  <2>1. f[n] \in Seq(E) /\ g[n] \in Seq(E)
    <3>1. n \in 0..n /\ n \in 0..(n + 1)
      OBVIOUS
    <3> QED BY <3>1
  <2>2. w[n + 1] \in Seq(E)
    <3>1. n + 1 \in 1..(n + 1)
      OBVIOUS
    <3> QED BY <3>1
  <2> QED BY <2>1, <2>2, OneSymbol
<1>5. PICK t \in Seq(E) : t = SubSeq(s, n + 1, Len(s))
  BY TailMarked
<1>6. PICK vx \in Seq(E) : vx = v \o x
  BY ConcatProperties
<1>7. Finds(vx, s, Cardinality(at))
  <2>1. Finds(v, s, Cardinality(at))
    <3>1. \A i \in 1..n : w[i] \in Seq(E)
      OBVIOUS
    <3>2. Gaps(at, n)
      BY <1>2
    <3>3. Finds(f[n], s, Cardinality(at))
      BY <1>3, <3>1, <3>2, WovenFinds
    <3> QED BY <1>4, <3>3
  <2>2. PICK q \in Nat : q = Cardinality(at)
    BY <1>1, <1>2
  <2>3. Finds(v \o x, s, q)
    BY <2>1, <2>2, FindsLonger
  <2> QED BY <1>6, <2>2, <2>3
<1>8. Detect(vx \o t, s)
  <2>1. vx \o t \in Seq(E)
    BY ConcatProperties
  <2>2. CASE L >= n
    <3>1. PICK q \in 0..Len(s) : q = n
      BY <1>1, <2>2
    <3>2. Finds(vx, s, q)
      BY <1>2, <1>7, <2>2, <3>1
    <3>3. Finds(vx \o SubSeq(s, q + 1, Len(s)), s, Len(s))
      BY <3>2, FindsTail
    <3> QED BY <1>5, <2>1, <3>1, <3>3, FoundAll
  <2>3. CASE ~ (L >= n)
    <3>1. Len(s) < n + 1
      BY <1>1, <2>3
    <3>2. t = <<>>
      BY <1>5, <3>1, TailMarked
    <3>3. vx \o t = vx
      BY <3>2, ConcatEmptySeq
    <3>4. Finds(vx, s, Len(s))
      BY <1>1, <1>2, <1>7, <2>3
    <3> QED BY <3>3, <3>4, FoundAll
  <2> QED BY <2>2, <2>3
<1>9. Strip(vx \o t, marks) = Strip(g[n + 1], marks)
  <2>1. PICK X \in Seq(E), U \in Seq(E), Z \in Seq(E), VX \in Seq(E) :
          /\ X = Strip(x, marks) /\ U = Strip(u, marks) /\ Z = Strip(z, marks)
          /\ VX = Strip(vx, marks)
    BY StripIn
  <2>2. Strip(vx \o t, marks) = VX
    <3>1. Strip(t, marks) = <<>>
      BY <1>5, TailMarked
    <3>2. Parted(vx, t, marks)
      BY StripParted
    <3>3. VX \o <<>> = VX
      BY ConcatEmptySeq
    <3> QED BY <2>1, <3>1, <3>2, <3>3 DEF Parted
  <2>3. Strip(v, marks) = U \o Z
    <3>1. n \in 1..n
      OBVIOUS
    <3>2. Chains(g, w, n, c)
      <4>1. \A i \in 1..n : i \in 1..(n + 1)
        OBVIOUS
      <4> QED BY <4>1 DEF Chains
    <3>3. \A i \in 1..n : w[i] \in Seq(E)
      OBVIOUS
    <3>4. StrippedAlike(f, g, n, c, marks)
      <4>1. Gaps(at, n)
        BY <1>2
      <4>2. Woven(E, c, s, n, at, marks, w, f, g)
        BY <1>3, <3>2, <3>3, <4>1 DEF Woven
      <4> QED BY <4>2, WovenStrips
    <3> QED BY <1>4, <2>1, <3>1, <3>4 DEF StrippedAlike
  <2>4. VX = (U \o Z) \o X
    <3>1. Parted(v, x, marks)
      BY StripParted
    <3> QED BY <1>6, <2>1, <2>3, <3>1 DEF Parted
  <2>5. g[n + 1] = u \o (z \o x)
    <3>1. PICK j \in 1..(n + 1) : j = n + 1 /\ j - 1 = n /\ j # 1
      OBVIOUS
    <3>2. g[j] = g[j - 1] \o (<<c>> \o w[j])
      BY <3>1 DEF Chains
    <3> QED BY <1>4, <3>1, <3>2
  <2>6. Strip(g[n + 1], marks) = U \o (Z \o X)
    <3>1. PICK zx \in Seq(E) : zx = z \o x
      BY ConcatProperties
    <3>2. Parted(z, x, marks) /\ Parted(u, zx, marks)
      BY StripParted
    <3> QED BY <2>1, <2>5, <3>1, <3>2 DEF Parted
  <2>7. (U \o Z) \o X = U \o (Z \o X)
    <3>1. Parts3(U, Z, X)
      BY Concat3, SMTT(30)
    <3> QED BY <3>1 DEF Parts3
  <2> QED BY <2>2, <2>4, <2>6, <2>7
<1> QED BY <1>4, <1>5, <1>6, <1>8, <1>9 DEF Embedded

LEMMA EmbedFound ==
    ASSUME NEW E, NEW c \in E, c = Space, list \in Seq(Seq(E)), list # <<>>, Watermark \in Seq(E)
    PROVE  Detect(Embed(list, Watermark), Watermark)
             /\ Strip(Embed(list, Watermark), Marks) = Strip(Joined, Marks)
<1>1. PICK N \in Nat : N = Len(list) /\ N # 0 /\ DOMAIN list = 1..N
  <2>1. Len(list) \in Nat /\ DOMAIN list = 1..Len(list)
    BY LenProperties
  <2>2. Len(list) # 0
    BY EmptySeq
  <2> QED BY <2>1, <2>2, ZenonT(30)
<1>2. \A i \in 1..N : list[i] \in Seq(E)
  BY <1>1, ElementOfSeq
<1>3. \A k \in 1..Len(Watermark) : Watermark[k] \in Marks
  <2>1. DOMAIN Watermark = 1..Len(Watermark)
    BY LenProperties
  <2> QED BY <2>1 DEF Marks
<1> DEFINE joints == [i \in 1..N |-> IF i = 1 THEN list[i] ELSE <<c>> \o list[i]]
<1>4. Len(joints) = N /\ \A i \in 1..N : joints[i] = IF i = 1 THEN list[i] ELSE <<c>> \o list[i]
  BY <1>1
<1>5. Joined = FlattenSeq(joints)
  BY <1>1 DEF Joined
<1> HIDE DEF joints
<1>6. \A i \in 1..Len(joints) : joints[i] \in Seq(E)
  <2> SUFFICES ASSUME NEW i \in 1..N PROVE joints[i] \in Seq(E)
    BY <1>4
  <2>1. PICK x \in Seq(E), z \in Seq(E) : x = list[i] /\ z = <<c>>
    BY <1>2, OneSymbol
  <2>2. z \o x \in Seq(E)
    BY ConcatProperties
  <2> QED BY <1>4, <2>1, <2>2
<1>7. PICK g \in [0..N -> Seq(E)] : Flattens(g, joints) /\ Joined = g[N]
  <2>1. Len(joints) \in Nat \ {0}
    BY <1>1, <1>4
  <2>2. PICK g \in [0..Len(joints) -> Seq(E)] :
          Flattens(g, joints) /\ FlattenSeq(joints) = g[Len(joints)]
    BY <1>6, <2>1, Flattened
  <2> QED BY <1>4, <1>5, <2>2
<1>8. Chains(g, list, N, c)
  BY <1>4, <1>7, ZenonT(30) DEF Flattens, Chains
<1> SUFFICES Embedded(Embed(list, Watermark), list, Watermark, g, Marks)
  BY <1>1, <1>7 DEF Embedded
<1>9. CASE N = 1
  <2>1. Embed(list, Watermark) = Watermark \o list[1]
    BY <1>1, <1>9 DEF Embed
  <2>2. Len(list) = 1 /\ list[1] \in Seq(E) /\ Chains(g, list, 1, c)
    BY <1>1, <1>2, <1>8, <1>9
  <2>3. Embedded(Watermark \o list[1], list, Watermark, g, Marks)
    BY <1>3, <2>2, EmbeddedFew
  <2> QED BY <2>1, <2>3
<1>10. CASE N # 1
  <2>1. PICK n \in Nat : n = Len(list) - 1 /\ n # 0 /\ N = n + 1 /\ ~ (Len(list) < 2)
    <3>1. N - 1 \in Nat /\ N - 1 # 0 /\ N = N - 1 + 1 /\ ~ (N < 2)
      BY <1>1, <1>10
    <3> QED BY <1>1, <3>1
  <2>2. PICK at : at = Positions(n, Len(Watermark))
    OBVIOUS
  <2> DEFINE parts == [i \in 1..n |-> (list[i] \o Marked(Watermark, at, i)) \o <<c>>]
  <2>3. Len(parts) = n /\ \A i \in 1..n : parts[i] = (list[i] \o Marked(Watermark, at, i)) \o <<c>>
    BY <2>1, SMTT(30)
  <2>4. EmbedInGaps(list, Watermark) = FlattenSeq(parts) \o list[n + 1]
    BY <1>1, <2>1, <2>2 DEF EmbedInGaps, Marked, Passing
  <2> HIDE DEF parts
  <2>5. Embed(list, Watermark)
          = (FlattenSeq(parts) \o list[n + 1]) \o SubSeq(Watermark, n + 1, Len(Watermark))
    BY <2>1, <2>4 DEF Embed
  <2>6. Gaps(at, n) /\ Cardinality(at) <= Len(Watermark)
    <3>1. PICK L \in Nat : L = Len(Watermark)
      BY LenProperties
    <3>2. /\ Positions(n, L) \subseteq 0..(n - 1) /\ IsFiniteSet(Positions(n, L))
          /\ Cardinality(Positions(n, L)) = IF L >= n THEN n ELSE L
      BY PositionsOf
    <3>3. Cardinality(at) <= L
      BY <2>2, <3>1, <3>2
    <3> QED BY <2>2, <3>1, <3>2, <3>3 DEF Gaps
  <2>7. \A i \in 1..Len(parts) : parts[i] \in Seq(E)
    <3> SUFFICES ASSUME NEW i \in 1..n PROVE parts[i] \in Seq(E)
      BY <2>3
    <3>1. list[i] \in Seq(E)
      BY <1>2, <2>1
    <3>2. Marked(Watermark, at, i) \in Seq(E)
      BY <2>6, MarkedIn
    <3>3. PICK x \in Seq(E), m \in Seq(E), z \in Seq(E) :
            x = list[i] /\ m = Marked(Watermark, at, i) /\ z = <<c>>
      BY <3>1, <3>2, OneSymbol
    <3>4. PICK xm \in Seq(E) : xm = x \o m
      BY ConcatProperties
    <3>5. xm \o z \in Seq(E)
      BY ConcatProperties
    <3> QED BY <2>3, <3>3, <3>4, <3>5
  <2>8. PICK f \in [0..n -> Seq(E)] : Flattens(f, parts) /\ FlattenSeq(parts) = f[n]
    BY <2>1, <2>3, <2>7, Flattened
  <2>9. Weaves(f, list, Watermark, at, n, c)
    BY <2>3, <2>8 DEF Flattens, Weaves
  <2>10. Embedded((f[n] \o list[n + 1]) \o SubSeq(Watermark, n + 1, Len(Watermark)),
                  list, Watermark, g, Marks)
    <3>1. Len(list) = n + 1 /\ \A i \in 1..(n + 1) : list[i] \in Seq(E)
      BY <1>1, <1>2, <2>1
    <3>2. g \in [0..(n + 1) -> Seq(E)] /\ Chains(g, list, n + 1, c)
      BY <1>7, <1>8, <2>1
    <3> QED BY <1>3, <2>1, <2>2, <2>9, <3>1, <3>2, EmbeddedMany
  <2> QED BY <2>5, <2>8, <2>10
<1> QED BY <1>9, <1>10

LEMMA RunsExist ==
    ASSUME Len(list) \in Nat, Len(Token) \in Nat
    PROVE  \E f \in [0..Len(list) -> [0..Len(Token) -> Nat]] :
              RunsBy(f) /\ CommonRuns = {f[i][j] : i \in 0..Len(list), j \in 0..Len(Token)}
<1> DEFINE n == Len(list)
           m == Len(Token)
           V == [0..m -> Nat]
           none == [j \in 0..m |-> 0]
           next == [i \in 1..n |-> [v \in V |-> RunsRow(i, v)]]
           P(g) == g = [i \in 0..n |->
                          IF i = 0 THEN [j \in 0..m |-> 0]
                          ELSE LET above == g[i - 1]
                               IN  [j \in 0..m |-> IF j > 0 /\ list[i] = Token[j] THEN above[j - 1] + 1
                                                   ELSE 0]]
           found == CHOOSE g : P(g)
<1>1. n \in Nat /\ m \in Nat
  OBVIOUS
<1>2. CommonRuns = {found[i][j] : i \in 0..n, j \in 0..m}
  BY DEF CommonRuns
<1>3. \A v \in V, i \in 1..n : RunsRow(i, v) \in V
  <2> SUFFICES ASSUME NEW v \in V, NEW i \in 1..n,
                      NEW j \in 0..m, j > 0, list[i] = Token[j]
               PROVE  v[j - 1] + 1 \in Nat
    BY DEF RunsRow
  <2>1. j - 1 \in 0..m
    BY <1>1
  <2>2. v[j - 1] \in Nat
    BY <2>1
  <2> QED BY <2>2
<1>4. none \in V
  OBVIOUS
<1> HIDE DEF n, m, V, found
<1>5. PICK f \in [0..n -> V] : f[0] = none /\ \A i \in 1..n : f[i] = RunsRow(i, f[i - 1])
  <2> HIDE DEF none
  <2>1. next \in [1..n -> [V -> V]]
    BY <1>3
  <2> HIDE DEF next
  <2>2. PICK f \in [0..n -> V] : Follows(f, n, none, next)
    BY <1>1, <1>4, <2>1, Recursion
  <2>3. ASSUME NEW i \in 1..n PROVE f[i] = RunsRow(i, f[i - 1])
    <3>1. f[i - 1] \in V
      BY <1>1
    <3>2. next[i][f[i - 1]] = RunsRow(i, f[i - 1])
      BY <3>1 DEF next
    <3> QED BY <2>2, <3>2 DEF Follows
  <2> QED BY <2>2, <2>3 DEF Follows
<1>6. P(f)
  <2>1. \A i \in 0..n : f[i] = IF i = 0 THEN none ELSE RunsRow(i, f[i - 1])
    <3> SUFFICES ASSUME NEW i \in 0..n PROVE f[i] = IF i = 0 THEN none ELSE RunsRow(i, f[i - 1])
      OBVIOUS
    <3>1. i = 0 \/ i \in 1..n
      BY <1>1
    <3>2. i \in 1..n => i # 0
      OBVIOUS
    <3> HIDE DEF none
    <3> QED BY <1>5, <3>1, <3>2
  <2>2. f = [i \in 0..n |-> IF i = 0 THEN none ELSE RunsRow(i, f[i - 1])]
    <3> HIDE DEF none
    <3> QED BY <2>1
  <2> QED BY <2>2 DEF RunsRow, m
<1>7. P(found)
  <2> HIDE DEF P
  <2> QED BY <1>6 DEF found
<1>8. found = f
  <2>1. found = [i \in 0..n |-> IF i = 0 THEN none ELSE RunsRow(i, found[i - 1])]
    BY <1>7 DEF RunsRow, m
  <2> HIDE DEF P, none
  <2>2. \A i \in 0..n : found[i] = IF i = 0 THEN none ELSE RunsRow(i, found[i - 1])
    BY <2>1
  <2> DEFINE Bad == {i \in 0..n : found[i] # f[i]}
  <2>3. Bad = {}
    <3>1. SUFFICES ASSUME Bad # {} PROVE FALSE
      OBVIOUS
    <3>2. PICK i \in Bad : \A k \in Bad : i <= k
      <4>1. Bad \subseteq Nat
        OBVIOUS
      <4> QED BY <3>1, <4>1, LeastElement
    <3>3. i \in 0..n /\ found[i] # f[i] /\ i # 0
      <4>1. found[0] = none
        <5>1. 0 \in 0..n
          BY <1>1
        <5> QED BY <2>2, <5>1
      <4> QED BY <1>5, <3>2, <4>1
    <3>4. i \in 1..n /\ i - 1 \in 0..n /\ ~ (i <= i - 1)
      BY <1>1, <3>3
    <3>5. found[i - 1] = f[i - 1]
      BY <3>2, <3>4
    <3> QED BY <1>5, <2>2, <3>3, <3>4, <3>5
  <2>4. DOMAIN found = 0..n /\ DOMAIN f = 0..n
    BY <2>1
  <2>5. \A i \in 0..n : found[i] = f[i]
    BY <2>3
  <2> QED BY <2>1, <2>4, <2>5
<1>9. RunsBy(f)
  BY <1>5 DEF RunsBy, n, m
<1> QED BY <1>2, <1>8, <1>9 DEF n, m, V

LEMMA RunsAreAlike ==
    ASSUME Len(list) \in Nat, Len(Token) \in Nat,
           NEW f \in [0..Len(list) -> [0..Len(Token) -> Nat]], RunsBy(f)
    PROVE  \A i \in 0..Len(list), j \in 0..Len(Token) :
              f[i][j] <= i /\ f[i][j] <= j /\ Alike(i - f[i][j], j - f[i][j], f[i][j])
<1> DEFINE Good(i, j, k) == k <= i /\ k <= j /\ Alike(i - k, j - k, k)
           Bad == {i \in 0..Len(list) : \E j \in 0..Len(Token) : ~ Good(i, j, f[i][j])}
<1>1. SUFFICES Bad = {}
  OBVIOUS
<1>2. SUFFICES ASSUME Bad # {} PROVE FALSE
  OBVIOUS
<1>3. PICK i \in Bad : \A k \in Bad : i <= k
  <2>1. Bad \subseteq Nat
    OBVIOUS
  <2> HIDE DEF Bad
  <2> QED BY <1>2, <2>1, LeastElement
<1>4. PICK j \in 0..Len(Token) : ~ Good(i, j, f[i][j])
  BY <1>3
<1>5. i \in 0..Len(list) /\ f[i] \in [0..Len(Token) -> Nat]
  BY <1>3
<1>6. PICK k \in Nat : k = f[i][j]
  BY <1>4, <1>5
<1>7. k # 0
  <2>1. SUFFICES ASSUME k = 0 PROVE Good(i, j, k)
    BY <1>4, <1>6
  <2>2. Alike(i - k, j - k, k)
    BY <2>1 DEF Alike
  <2> QED BY <1>4, <1>5, <2>1, <2>2
<1>8. i # 0
  BY <1>4, <1>6, <1>7 DEF RunsBy
<1>9. i \in 1..Len(list) /\ i - 1 \in 0..Len(list) /\ ~ (i <= i - 1)
  BY <1>5, <1>8
<1>10. j > 0 /\ list[i] = Token[j] /\ k = f[i - 1][j - 1] + 1
  <2>1. f[i] = RunsRow(i, f[i - 1])
    BY <1>9 DEF RunsBy
  <2>2. k = IF j > 0 /\ list[i] = Token[j] THEN f[i - 1][j - 1] + 1 ELSE 0
    BY <1>4, <1>6, <2>1 DEF RunsRow
  <2> QED BY <1>7, <2>2
<1>11. j - 1 \in 0..Len(Token)
  BY <1>4, <1>10
<1>12. Good(i - 1, j - 1, f[i - 1][j - 1])
  <2>1. i - 1 \notin Bad
    BY <1>3, <1>9
  <2> HIDE DEF Good
  <2> QED BY <1>9, <1>11, <2>1
<1>13. f[i - 1][j - 1] = k - 1
  <2>1. f[i - 1] \in [0..Len(Token) -> Nat]
    BY <1>9
  <2>2. f[i - 1][j - 1] \in Nat
    BY <1>11, <2>1
  <2> QED BY <1>10, <2>2, SMTT(30)
<1>14. k - 1 <= i - 1 /\ k - 1 <= j - 1 /\ Alike(i - 1 - (k - 1), j - 1 - (k - 1), k - 1)
  BY <1>12, <1>13
<1>15. k <= i /\ k <= j
  BY <1>4, <1>5, <1>14
<1>16. PICK p \in Nat, q \in Nat : p = i - k /\ q = j - k /\ p = i - 1 - (k - 1) /\ q = j - 1 - (k - 1)
  BY <1>4, <1>5, <1>15
<1>17. Alike(p, q, k)
  <2> SUFFICES ASSUME NEW d \in 1..k PROVE list[p + d] = Token[q + d]
    BY DEF Alike
  <2>1. CASE d = k
    <3>1. p + d = i /\ q + d = j
      BY <1>4, <1>5, <1>16, <2>1
    <3> QED BY <1>10, <3>1
  <2>2. CASE d # k
    <3>1. d \in 1..(k - 1)
      BY <2>2
    <3>2. Alike(p, q, k - 1)
      BY <1>14, <1>16
    <3> QED BY <3>1, <3>2 DEF Alike
  <2> QED BY <2>1, <2>2
<1> QED BY <1>4, <1>6, <1>15, <1>16, <1>17

LEMMA AlikeRuns ==
    ASSUME Len(list) \in Nat, Len(Token) \in Nat,
           NEW f \in [0..Len(list) -> [0..Len(Token) -> Nat]], RunsBy(f),
           NEW k \in Nat, NEW p \in 0..(Len(list) - k), NEW q \in 0..(Len(Token) - k), Alike(p, q, k)
    PROVE  p + k \in 0..Len(list) /\ q + k \in 0..Len(Token) /\ f[p + k][q + k] >= k
<1> DEFINE Bad == {e \in 0..k : ~ (f[p + e][q + e] >= e)}
<1>0. \A e \in 0..k : p + e \in 0..Len(list) /\ q + e \in 0..Len(Token) /\ f[p + e][q + e] \in Nat
  <2> SUFFICES ASSUME NEW e \in 0..k
               PROVE  p + e \in 0..Len(list) /\ q + e \in 0..Len(Token) /\ f[p + e][q + e] \in Nat
    OBVIOUS
  <2>1. p + e \in 0..Len(list) /\ q + e \in 0..Len(Token)
    OBVIOUS
  <2>2. f[p + e] \in [0..Len(Token) -> Nat]
    BY <2>1
  <2> QED BY <2>1, <2>2
<1>1. Bad = {}
  <2>1. SUFFICES ASSUME Bad # {} PROVE FALSE
    OBVIOUS
  <2>2. PICK e \in Bad : \A d \in Bad : e <= d
    <3>1. Bad \subseteq Nat
      OBVIOUS
    <3> HIDE DEF Bad
    <3> QED BY <2>1, <3>1, LeastElement
  <2>3. e \in 0..k /\ ~ (f[p + e][q + e] >= e)
    BY <2>2
  <2>4. e # 0
    <3>1. f[p + e][q + e] \in Nat
      BY <1>0, <2>3
    <3> QED BY <2>3, <3>1
  <2>5. e \in 1..k /\ e - 1 \in 0..k /\ ~ (e <= e - 1)
    BY <2>3, <2>4
  <2>6. f[p + (e - 1)][q + (e - 1)] >= e - 1 /\ f[p + (e - 1)][q + (e - 1)] \in Nat
    BY <1>0, <2>2, <2>5
  <2>7. PICK i \in 1..Len(list), j \in 0..Len(Token) :
          i = p + e /\ j = q + e /\ i - 1 = p + (e - 1) /\ j - 1 = q + (e - 1) /\ j > 0
    <3>1. p + e \in 1..Len(list) /\ q + e \in 0..Len(Token) /\ q + e > 0
      BY <2>5
    <3>2. p + e - 1 = p + (e - 1) /\ q + e - 1 = q + (e - 1)
      BY <2>5
    <3> QED BY <3>1, <3>2
  <2>8. list[i] = Token[j]
    BY <2>5, <2>7 DEF Alike
  <2>9. f[i] = RunsRow(i, f[i - 1])
    BY <2>7 DEF RunsBy
  <2>10. f[i][j] = f[i - 1][j - 1] + 1
    BY <2>7, <2>8, <2>9 DEF RunsRow
  <2> QED BY <2>3, <2>6, <2>7, <2>10, SMTT(30)
<1>2. k \in 0..k
  OBVIOUS
<1> QED BY <1>0, <1>1, <1>2

LEMMA SliceOf ==
    ASSUME NEW E, NEW s \in Seq(E), NEW k \in Nat, NEW p \in 0..(Len(s) - k)
    PROVE  \E t \in Seq(E) : Slice(t, s, p, k)
<1>1. PICK u \in Int, v \in Int : u = p + 1 /\ v = p + k /\ v - u + 1 = k
  <2>1. Len(s) \in Nat
    BY LenProperties
  <2> QED BY <2>1
<1>2. \A i \in u..v : s[i] \in E
  <2> SUFFICES ASSUME NEW i \in u..v PROVE s[i] \in E
    OBVIOUS
  <2>1. i \in 1..Len(s)
    <3>1. Len(s) \in Nat
      BY LenProperties
    <3> QED BY <1>1, <3>1
  <2> QED BY <2>1, ElementOfSeq
<1>3. PICK t : t = SubSeq(s, u, v)
  OBVIOUS
<1>4. /\ t \in Seq(E) /\ Len(t) = IF u <= v THEN v - u + 1 ELSE 0
      /\ \A i \in 1..(v - u + 1) : t[i] = s[u + i - 1]
  BY <1>2, <1>3, SubSeqProperties
<1>5. Len(t) = k
  BY <1>1, <1>4
<1>6. ASSUME NEW d \in 1..k PROVE t[d] = s[p + d]
  <2>1. d \in 1..(v - u + 1) /\ u + d - 1 = p + d
    BY <1>1
  <2>2. t[d] = s[u + d - 1]
    BY <1>4, <2>1
  <2> QED BY <2>1, <2>2
<1>7. Slice(t, s, p, k)
  BY <1>1, <1>3, <1>5, <1>6 DEF Slice
<1> QED BY <1>4, <1>7

LEMMA OccursAlike ==
    ASSUME NEW E, list \in Seq(E), Token \in Seq(E),
           NEW k \in Nat, NEW q \in 0..(Len(Token) - k)
    PROVE  Occurs(list, SubSeq(Token, q + 1, q + k)) <=> \E p \in 0..(Len(list) - k) : Alike(p, q, k)
<1>0. PICK t \in Seq(E) : Slice(t, Token, q, k)
  BY SliceOf
<1>1. /\ t = SubSeq(Token, q + 1, q + k) /\ Len(t) = k
      /\ \A d \in 1..k : t[d] = Token[q + d]
  BY <1>0 DEF Slice
<1>2. ASSUME NEW p \in 0..(Len(list) - k)
      PROVE  SubSeq(list, p + 1, p + k) = t <=> Alike(p, q, k)
  <2>0. PICK u \in Seq(E) : Slice(u, list, p, k)
    BY SliceOf
  <2>1. /\ u = SubSeq(list, p + 1, p + k) /\ Len(u) = k
        /\ \A d \in 1..k : u[d] = list[p + d]
    BY <2>0 DEF Slice
  <2>2. ASSUME Alike(p, q, k) PROVE u = t
    <3>1. Len(u) = Len(t) /\ \A d \in 1..Len(u) : u[d] = t[d]
      BY <1>1, <2>1, <2>2 DEF Alike
    <3> QED BY <3>1, SeqEqual
  <2>3. ASSUME u = t PROVE Alike(p, q, k)
    BY <1>1, <2>1, <2>3 DEF Alike
  <2> QED BY <2>1, <2>2, <2>3
<1>3. Occurs(list, t) <=> \E p \in 0..(Len(list) - k) : SubSeq(list, p + 1, p + k) = t
  BY <1>1 DEF Occurs
<1> QED BY <1>1, <1>2, <1>3

LEMMA LeaksCommon ==
    ASSUME NEW E, list \in Seq(E), Token \in Seq(E), Least \in Nat
    PROVE  Leaks(list, Token, Least) <=>
             Common(Len(Token)) \/ \E k \in (Least + 1)..(Len(Token) - 1) : Common(k)
<1>1. PICK m \in Nat : m = Len(Token)
  BY LenProperties
<1>2. Occurs(list, Token) <=> Common(m)
  <2>1. PICK q \in 0..(Len(Token) - m) : q = 0
    BY <1>1
  <2>2. SubSeq(Token, q + 1, q + m) = Token
    <3>0. PICK t \in Seq(E) : Slice(t, Token, q, m)
      BY <1>1, SliceOf
    <3>1. /\ t = SubSeq(Token, q + 1, q + m) /\ Len(t) = m
          /\ \A d \in 1..m : t[d] = Token[q + d]
      BY <3>0 DEF Slice
    <3>2. Len(t) = Len(Token) /\ \A d \in 1..Len(t) : t[d] = Token[d]
      BY <1>1, <2>1, <3>1
    <3>3. t = Token
      BY <3>2, SeqEqual
    <3> QED BY <3>1, <3>3
  <2>3. Occurs(list, Token) <=> \E p \in 0..(Len(list) - m) : Alike(p, q, m)
    BY <2>2, OccursAlike
  <2>4. \A r \in 0..(Len(Token) - m) : r = q
    BY <1>1, <2>1
  <2> QED BY <2>3, <2>4 DEF Common
<1>3. ASSUME NEW k \in (Least + 1)..(m - 1)
      PROVE  (\E q \in 0..(m - k) : Occurs(list, SubSeq(Token, q + 1, q + k))) <=> Common(k)
  <2>1. k \in Nat
    OBVIOUS
  <2>2. \A q \in 0..(Len(Token) - k) :
          Occurs(list, SubSeq(Token, q + 1, q + k)) <=> \E p \in 0..(Len(list) - k) : Alike(p, q, k)
    BY <2>1, OccursAlike
  <2> QED BY <1>1, <2>2 DEF Common
<1> QED BY <1>1, <1>2, <1>3 DEF Leaks

LEMMA LeaksExactly ==
    ASSUME NEW E, list \in Seq(E), Token \in Seq(E), Least \in Nat
    PROVE  Leaks(list, Token, Least) <=> Top(CommonRuns) > Least \/ Top(CommonRuns) = Len(Token)
<1>1. PICK n \in Nat, m \in Nat : n = Len(list) /\ m = Len(Token)
  BY LenProperties
<1>2. PICK f \in [0..n -> [0..m -> Nat]] :
        RunsBy(f) /\ CommonRuns = {f[i][j] : i \in 0..n, j \in 0..m}
  BY <1>1, RunsExist
<1>3. ASSUME NEW v \in CommonRuns PROVE v \in 0..m /\ Common(v)
  <2>1. PICK i \in 0..n, j \in 0..m : v = f[i][j]
    BY <1>2
  <2>2. v \in Nat
    <3>1. f[i] \in [0..m -> Nat]
      OBVIOUS
    <3> QED BY <2>1, <3>1
  <2>3. v <= i /\ v <= j /\ Alike(i - v, j - v, v)
    BY <1>1, <1>2, <2>1, RunsAreAlike
  <2>4. PICK p \in 0..(n - v), q \in 0..(m - v) : p = i - v /\ q = j - v
    BY <2>2, <2>3
  <2> QED BY <1>1, <2>2, <2>3, <2>4 DEF Common
<1>4. ASSUME NEW k \in Nat, Common(k) PROVE \E v \in CommonRuns : v >= k
  <2>1. PICK p \in 0..(Len(list) - k), q \in 0..(Len(Token) - k) : Alike(p, q, k)
    BY <1>4 DEF Common
  <2>2. p + k \in 0..n /\ q + k \in 0..m /\ f[p + k][q + k] >= k
    BY <1>1, <1>2, <2>1, AlikeRuns
  <2> QED BY <1>2, <2>2, SMTT(30)
<1>5. CommonRuns \subseteq 0..m /\ IsFiniteSet(CommonRuns)
  <2>1. CommonRuns \subseteq 0..m
    BY <1>3
  <2>2. IsFiniteSet(0..m)
    BY FS_Interval
  <2> QED BY <2>1, <2>2, FS_Subset
<1>6. PICK t \in Nat : t = Top(CommonRuns) /\ t \in CommonRuns /\ \A v \in CommonRuns : v <= t
  <2>1. CommonRuns \in SUBSET Int
    BY <1>5
  <2>2. /\ Top(CommonRuns) \in CommonRuns \cup {0} /\ Top(CommonRuns) \in Nat
        /\ \A v \in CommonRuns : v <= Top(CommonRuns)
    BY <1>5, <2>1, TopOf
  <2>3. 0 \in CommonRuns
    <3>1. 0 \in 0..n /\ 0 \in 0..m
      OBVIOUS
    <3>2. f[0][0] = 0
      BY <1>1, <1>2, <3>1 DEF RunsBy
    <3> QED BY <1>2, <3>1, <3>2
  <2> QED BY <2>2, <2>3
<1>7. t \in 0..m /\ Common(t)
  BY <1>3, <1>6
<1>8. \A k \in Nat : Common(k) => k <= t
  <2> SUFFICES ASSUME NEW k \in Nat, Common(k) PROVE k <= t
    OBVIOUS
  <2>1. PICK v \in CommonRuns : v >= k
    BY <1>4
  <2>2. v <= t /\ v \in 0..m
    BY <1>3, <1>6
  <2> QED BY <2>1, <2>2
<1>9. Leaks(list, Token, Least) <=> Common(m) \/ \E k \in (Least + 1)..(m - 1) : Common(k)
  BY <1>1, LeaksCommon
<1>10. ASSUME Leaks(list, Token, Least) PROVE t > Least \/ t = m
  <2>1. CASE Common(m)
    BY <1>7, <1>8, <2>1
  <2>2. CASE \E k \in (Least + 1)..(m - 1) : Common(k)
    <3>1. PICK k \in (Least + 1)..(m - 1) : Common(k)
      BY <2>2
    <3>2. k \in Nat /\ k > Least
      OBVIOUS
    <3> QED BY <1>8, <3>1, <3>2
  <2> QED BY <1>9, <1>10, <2>1, <2>2
<1>11. ASSUME t > Least \/ t = m PROVE Leaks(list, Token, Least)
  <2>1. CASE t = m
    BY <1>7, <1>9, <2>1
  <2>2. CASE t # m
    <3>1. t \in (Least + 1)..(m - 1)
      BY <1>7, <1>11, <2>2
    <3> QED BY <1>7, <1>9, <3>1
  <2> QED BY <2>1, <2>2
<1> QED BY <1>1, <1>6, <1>10, <1>11

LEMMA SeqWithin == ASSUME NEW A, NEW B, A \subseteq B, NEW s \in Seq(A) PROVE s \in Seq(B)
<1>1. Len(s) \in Nat /\ \A i \in 1..Len(s) : s[i] \in B
  BY LenProperties, ElementOfSeq
<1>2. s \in [1..Len(s) -> A]
  BY LenProperties
<1>3. s \in [1..Len(s) -> B]
  BY <1>1, <1>2
<1> QED BY <1>1, <1>3, SeqDef

LEMMA AllSymbols ==
    /\ \A s \in WordsToMark \cup {Watermark, Token} : s \in Seq(MarkSymbols)
    /\ Told \subseteq MarkSymbols /\ Space \in MarkSymbols
<1>1. ASSUME NEW s \in WordsToMark \cup {Watermark, Token} PROVE s \in Seq(MarkSymbols)
  <2>1. PICK A : A = {s[i] : i \in DOMAIN s}
    OBVIOUS
  <2>2. s \in Seq(A)
    BY <2>1, MarkAssumption
  <2>3. A \subseteq MarkSymbols
    BY <2>1 DEF MarkSymbols
  <2> QED BY <2>2, <2>3, SeqWithin
<1>2. Told \subseteq MarkSymbols /\ Space \in MarkSymbols
  BY DEF Told, MarkSymbols
<1> QED BY <1>1, <1>2

LEMMA ListsMarksNext == ListsMarks /\ [AnalysisNext]_analysed => ListsMarks'
<1> SUFFICES ASSUME ListsMarks, [AnalysisNext]_analysed,
                    bench'.kind = "words" \/ bench'.kind = "response"
             PROVE  ListsMarks'
  BY DEF ListsMarks
<1>1. CASE AddWord
  <2>1. bench' = bench /\ bench.kind = "words" /\ \E x \in WordsToMark : list' = Append(list, x)
    BY <1>1 DEF AddWord, Append1
  <2>2. list \in Seq(WordsToMark)
    BY <2>1 DEF ListsMarks
  <2>3. list' \in Seq(WordsToMark)
    BY <2>1, <2>2, AppendProperties
  <2> QED BY <2>1, <2>3 DEF ListsMarks
<1>2. CASE AddSymbol
  <2>1. bench' = bench /\ bench.kind = "response" /\ \E x \in Told : list' = Append(list, x)
    BY <1>2 DEF AddSymbol, Append1, Told
  <2>2. list \in Seq(Told)
    BY <2>1 DEF ListsMarks
  <2>3. list' \in Seq(Told)
    BY <2>1, <2>2, AppendProperties
  <2> QED BY <2>1, <2>3 DEF ListsMarks
<1>3. CASE AddToken \/ AddSpan \/ AddCharacter
  BY <1>3 DEF AddToken, AddSpan, AddCharacter, Append1
<1>4. CASE AddPiece
  BY <1>4 DEF AddPiece
<1>5. CASE RunCampaign
  BY <1>5 DEF RunCampaign
<1>6. CASE UNCHANGED analysed
  BY <1>6 DEF analysed, ListsMarks, Told
<1> QED BY <1>1, <1>2, <1>3, <1>4, <1>5, <1>6 DEF AnalysisNext

LEMMA MarksFound == ListsMarks => MarksSurvive
<1> SUFFICES ASSUME ListsMarks PROVE MarksSurvive
  OBVIOUS
<1>1. PICK E : E = MarkSymbols
  OBVIOUS
<1>2. Watermark \in Seq(E) /\ Token \in Seq(E) /\ Least \in Nat /\ Told \subseteq E
  BY <1>1, AllSymbols, MarkAssumption
<1>3. PICK c \in E : c = Space
  BY <1>1, AllSymbols
<1>4. ASSUME bench.kind = "words", list # <<>>
      PROVE  Detect(Embed(list, Watermark), Watermark)
               /\ Strip(Embed(list, Watermark), Marks) = Strip(Joined, Marks)
  <2>1. WordsToMark \subseteq Seq(E)
    BY <1>1, AllSymbols
  <2>2. list \in Seq(Seq(E))
    BY <1>4, <2>1, SeqWithin DEF ListsMarks
  <2> QED BY <1>2, <1>3, <1>4, <2>2, EmbedFound
<1>5. ASSUME bench.kind = "response"
      PROVE  Leaks(list, Token, Least) <=> Top(CommonRuns) > Least \/ Top(CommonRuns) = Len(Token)
  <2>1. list \in Seq(E)
    BY <1>2, <1>5, SeqWithin DEF ListsMarks
  <2> QED BY <1>2, <2>1, LeaksExactly
<1> QED BY <1>4, <1>5 DEF MarksSurvive

(* However many words there are and whatever marks they hold already, a    *)
(* watermark is found in the text it was put into and leaves no trace when *)
(* it is stripped; a canary is reported exactly when a long enough run of  *)
(* it is in the response.                                                  *)
(* (watermark.py: embed, detect, strip; leak_detector.py: check.)          *)
THEOREM MarksAreKept == Analysis => []MarksSurvive
<1>1. AnalysisInit => ListsMarks
  BY EmptySeq DEF AnalysisInit, ListsMarks
<1> QED BY <1>1, ListsMarksNext, MarksFound, PTL DEF Analysis
-----------------------------------------------------------------------------
(***************************************************************************)
(* Local alignments: as many positions of one text as of the other.        *)
(***************************************************************************)
LEMMA MaxIs ==
    ASSUME NEW S \in SUBSET Int, NEW x \in S, \A y \in S : y <= x
    PROVE  Max(S) = x
<1>1. Max(S) \in S /\ \A n \in S : Max(S) >= n
  <2>1. \A n \in S : x >= n
    OBVIOUS
  <2> QED BY <2>1 DEF Max
<1>2. x \in Int /\ Max(S) \in Int /\ x <= Max(S) /\ Max(S) <= x
  BY <1>1
<1> QED BY <1>2

LEMMA MinIs ==
    ASSUME NEW S \in SUBSET Int, NEW x \in S, \A y \in S : x <= y
    PROVE  Min(S) = x
<1>1. Min(S) \in S /\ \A n \in S : Min(S) =< n
  BY DEF Min
<1>2. x \in Int /\ Min(S) \in Int /\ x <= Min(S) /\ Min(S) <= x
  BY <1>1
<1> QED BY <1>2

LEMMA Ends ==
    ASSUME NEW I, NEW k, Sites(I, k)
    PROVE  /\ Max(I) \in I /\ Max(I) \in Nat /\ \A y \in I : y <= Max(I)
           /\ Min(I) \in I /\ Min(I) \in Nat /\ \A y \in I : Min(I) <= y
<1>1. I \subseteq Nat /\ I \in SUBSET Int /\ IsFiniteSet(I) /\ I # {}
  BY FS_EmptySet DEF Sites
<1>2. Max(I) \in I /\ \A y \in I : y <= Max(I)
  BY <1>1, MaxOf
<1>3. PICK m \in I : \A y \in I : m <= y
  BY <1>1, LeastElement
<1>4. Min(I) = m
  BY <1>1, <1>3, MinIs
<1> QED BY <1>1, <1>2, <1>3, <1>4

(* One position: the first and only.                                       *)
LEMMA Single ==
    ASSUME NEW I, NEW x \in Nat, Only(I, x)
    PROVE  /\ Sites(I, 1) /\ Max(I) = x /\ Min(I) = x /\ Nth(I, 1) = x
<1>1. Sites({x}, 1)
  <2>1. IsFiniteSet({x}) /\ Cardinality({x}) = 1
    BY FS_Singleton, Zenon
  <2> QED BY <2>1 DEF Sites
<1>2. Max({x}) = x /\ Min({x}) = x
  BY MaxIs, MinIs
<1>3. Nth({x}, 1) = x
  <2>1. {y \in {x} : y < x} = {}
    OBVIOUS
  <2>2. Cardinality({y \in {x} : y < x}) = 1 - 1
    BY <2>1, FS_EmptySet
  <2> QED BY <2>2 DEF Nth
<1> QED BY <1>1, <1>2, <1>3 DEF Only

(* A position above the others comes last, and leaves the others where     *)
(* they are.                                                               *)
LEMMA Above ==
    ASSUME NEW I, NEW k, Sites(I, k), NEW x \in Nat, \A y \in I : y < x,
           NEW V, WithMore(V, I, x)
    PROVE  /\ Sites(V, k + 1) /\ Max(V) = x /\ Min(V) = Min(I)
           /\ Nth(V, k + 1) = x
           /\ \A m \in 1..k : Nth(V, m) = Nth(I, m)
<1>1. /\ I \subseteq Nat /\ IsFiniteSet(I) /\ k \in Nat \ {0} /\ Cardinality(I) = k /\ x \notin I
  BY DEF Sites
<1>2. Min(I) \in I /\ \A y \in I : Min(I) <= y
  BY Ends
<1> DEFINE U == I \cup {x}
<1>3. U \in SUBSET Int /\ x \in U /\ Min(I) \in U /\ (\A y \in U : y <= x) /\ \A y \in U : Min(I) <= y
  <2>1. \A y \in U : y \in I \/ y = x
    OBVIOUS
  <2>2. \A y \in I : y \in Int /\ y <= x
    BY <1>1
  <2>3. Min(I) \in I /\ x \in Int /\ x <= x /\ Min(I) <= x
    BY <1>2, <2>2
  <2>4. U \subseteq Int /\ x \in U /\ Min(I) \in U
    BY <2>1, <2>2, <2>3
  <2> HIDE DEF U
  <2> QED BY <1>2, <2>1, <2>2, <2>3, <2>4
<1>4. Sites(U, k + 1)
  BY <1>1, FS_AddElement DEF Sites
<1>5. Max(U) = x /\ Min(U) = Min(I)
  BY <1>3, MaxIs, MinIs
<1>6. Before(U, x) = I
  <2>1. ~ (x < x)
    OBVIOUS
  <2>2. \A z : z \in Before(U, x) <=> z \in I
    BY <2>1 DEF Before
  <2> QED BY <2>2
<1>7. ASSUME NEW y \in I
      PROVE  Before(U, y) = Before(I, y) /\ Cardinality(Before(I, y)) \in 0..(k - 1)
  <2>1. ASSUME NEW z PROVE z \in Before(U, y) <=> z \in Before(I, y)
    <3>1. ~ (x < y)
      BY <1>1
    <3> QED BY <3>1 DEF Before
  <2>2. Before(U, y) = Before(I, y)
    BY <2>1
  <2>3. IsFiniteSet(I \ {y}) /\ Cardinality(I \ {y}) = k - 1
    BY <1>1, FS_RemoveElement
  <2>4. Before(I, y) \in SUBSET (I \ {y})
    <3>1. ~ (y < y)
      BY <1>1
    <3>2. \A z \in Before(I, y) : z \in I /\ z < y
      BY DEF Before
    <3> QED BY <3>1, <3>2
  <2>5. IsFiniteSet(Before(I, y)) /\ Cardinality(Before(I, y)) <= k - 1
    BY <2>3, <2>4, FS_Subset
  <2>6. Cardinality(Before(I, y)) \in Nat
    BY <2>5, FS_CardinalityType
  <2> QED BY <1>1, <2>2, <2>5, <2>6
<1>8. \A m : Nth(U, m) = CHOOSE z \in U : Cardinality(Before(U, z)) = m - 1
  BY DEF Nth, Before
<1>9. \A m : Nth(I, m) = CHOOSE z \in I : Cardinality(Before(I, z)) = m - 1
  BY DEF Nth, Before
<1>10. Nth(U, k + 1) = x
  <2>1. \A z \in U : Cardinality(Before(U, z)) = (k + 1) - 1 <=> z = x
    <3>1. ASSUME NEW z \in I PROVE Cardinality(Before(U, z)) # (k + 1) - 1
      BY <1>1, <1>7
    <3>2. Cardinality(Before(U, x)) = (k + 1) - 1
      BY <1>1, <1>6
    <3> QED BY <1>1, <3>1, <3>2
  <2> HIDE DEF U
  <2>2. PICK w : w = CHOOSE z \in U : Cardinality(Before(U, z)) = (k + 1) - 1
    OBVIOUS
  <2>3. w \in U /\ Cardinality(Before(U, w)) = (k + 1) - 1
    BY <1>3, <2>1, <2>2
  <2> QED BY <1>8, <2>1, <2>2, <2>3
<1>11. ASSUME NEW m \in 1..k PROVE Nth(U, m) = Nth(I, m)
  <2>1. ASSUME NEW z
        PROVE  (z \in U /\ Cardinality(Before(U, z)) = m - 1) <=>
               (z \in I /\ Cardinality(Before(I, z)) = m - 1)
    <3>1. Cardinality(Before(U, x)) # m - 1
      BY <1>1, <1>6
    <3> QED BY <1>7, <3>1
  <2> HIDE DEF U
  <2>2. (CHOOSE z : z \in U /\ Cardinality(Before(U, z)) = m - 1) =
        (CHOOSE z : z \in I /\ Cardinality(Before(I, z)) = m - 1)
    BY <2>1
  <2>3. Nth(U, m) = CHOOSE z : z \in U /\ Cardinality(Before(U, z)) = m - 1
    BY <1>8
  <2>4. Nth(I, m) = CHOOSE z : z \in I /\ Cardinality(Before(I, z)) = m - 1
    BY <1>9
  <2> QED BY <2>2, <2>3, <2>4
<1>12. V = U
  BY DEF WithMore
<1> HIDE DEF U
<1> QED BY <1>4, <1>5, <1>10, <1>11, <1>12

(* More than one is the last and the others.                               *)
LEMMA TakenApart ==
    ASSUME NEW I, NEW k, Sites(I, k), k # 1
    PROVE  \E R, x : /\ Sites(R, k - 1) /\ x \in Nat /\ x \in I /\ (\A y \in R : y < x /\ y \in I)
                     /\ WithMore(I, R, x) /\ x = Max(I)
<1>1. PICK x : x = Max(I)
  OBVIOUS
<1>2. PICK R : R = I \ {x}
  OBVIOUS
<1>3. /\ I \subseteq Nat /\ IsFiniteSet(I) /\ k \in Nat \ {0} /\ Cardinality(I) = k
  BY DEF Sites
<1>4. x \in I /\ x \in Nat /\ \A y \in I : y <= x
  BY <1>1, Ends
<1>5. IsFiniteSet(R) /\ Cardinality(R) = k - 1
  BY <1>2, <1>3, <1>4, FS_RemoveElement
<1>6. k - 1 \in Nat \ {0}
  BY <1>3
<1>7. \A y \in R : y \in I /\ y # x /\ y \in Nat
  BY <1>2, <1>3
<1>8. \A y \in R : y < x /\ y \in I
  BY <1>4, <1>7
<1>9. Sites(R, k - 1)
  BY <1>5, <1>6, <1>7 DEF Sites
<1>10. WithMore(I, R, x)
  BY <1>2, <1>4 DEF WithMore
<1> QED BY <1>1, <1>4, <1>8, <1>9, <1>10

LEMMA OnlyOne ==
    ASSUME NEW I, Sites(I, 1)
    PROVE  \E x \in Nat : Only(I, x)
<1>1. PICK x : I = {x}
  BY FS_Singleton DEF Sites
<1> QED BY <1>1 DEF Sites, Only

LEMMA SummedUp ==
    ASSUME NEW hay, NEW needle, NEW I, NEW J, NEW n \in Nat
    PROVE  \E f : Summed(f, hay, needle, I, J, n)
<1> DEFINE next == [m \in 1..n |-> [v \in Int |-> v + PairAt(hay, needle, I, J, m)]]
<1>1. \A m : PairAt(hay, needle, I, J, m) \in Int
  BY PairScoreOf DEF PairAt
<1>2. next \in [1..n -> [Int -> Int]]
  BY <1>1
<1>3. \A m \in 1..n, v \in Int : next[m][v] = v + PairAt(hay, needle, I, J, m)
  OBVIOUS
<1> HIDE DEF next
<1>4. PICK f \in [0..n -> Int] : Follows(f, n, 0, next)
  <2>1. 0 \in Int
    OBVIOUS
  <2> QED BY <1>2, <2>1, Recursion
<1>5. ASSUME NEW m \in 1..n PROVE f[m] = f[m - 1] + PairAt(hay, needle, I, J, m)
  <2>1. f[m - 1] \in Int
    <3>1. m - 1 \in 0..n
      OBVIOUS
    <3> QED BY <3>1
  <2> QED BY <1>3, <1>4, <2>1 DEF Follows
<1> QED BY <1>4, <1>5 DEF Summed, Follows

(* There is only one sum, and only the pairs decide it.                    *)
LEMMA SummedOnce ==
    ASSUME NEW hay, NEW needle, NEW I, NEW J, NEW n \in Nat, NEW f, Summed(f, hay, needle, I, J, n),
           NEW other, NEW sub, NEW K, NEW M, NEW top \in Nat, NEW g, Summed(g, other, sub, K, M, top),
           n <= top, \A m \in 1..n : PairAt(other, sub, K, M, m) = PairAt(hay, needle, I, J, m)
    PROVE  g[n] = f[n] /\ f[n] \in Int
<1> DEFINE Bad == {m \in 0..n : g[m] # f[m]}
<1>1. /\ f[0] = 0 /\ g[0] = 0 /\ f \in [0..n -> Int]
      /\ \A m \in 1..n : f[m] = f[m - 1] + PairAt(hay, needle, I, J, m)
      /\ \A m \in 1..n : m \in 1..top /\ m # 0 /\ m - 1 \in 0..n /\ ~ (m <= m - 1)
      /\ \A m \in 0..n : m # 0 => m \in 1..n
      /\ \A m \in 1..top : g[m] = g[m - 1] + PairAt(other, sub, K, M, m)
      /\ n \in 0..n
  BY DEF Summed
<1>2. Bad = {}
  <2>1. SUFFICES ASSUME Bad # {} PROVE FALSE
    OBVIOUS
  <2>2. PICK m \in Bad : \A j \in Bad : m <= j
    <3>1. Bad \subseteq Nat
      OBVIOUS
    <3> QED BY <2>1, <3>1, LeastElement
  <2>3. m \in 1..n /\ g[m] # f[m]
    BY <1>1, <2>2
  <2>4. m - 1 \in 0..n /\ m - 1 \notin Bad
    BY <1>1, <2>2, <2>3
  <2>5. g[m - 1] = f[m - 1]
    BY <2>4
  <2> QED BY <1>1, <2>3, <2>5
<1>3. g[n] = f[n]
  BY <1>1, <1>2
<1> QED BY <1>1, <1>3

LEMMA ScoreIs ==
    ASSUME NEW hay, NEW needle, NEW I, NEW J, NEW k, Sites(I, k), Sites(J, k),
           NEW f, Summed(f, hay, needle, I, J, k)
    PROVE  /\ ScoreOf(hay, needle, I, J) = f[k] - Skipped(I, J, k)
           /\ ScoreOf(hay, needle, I, J) \in Int
<1>1. k \in Nat \ {0} /\ Cardinality(I) = k /\ k \in 0..k
  BY DEF Sites
<1> DEFINE P(g) == g = [m \in 0..k |-> IF m = 0 THEN 0 ELSE g[m - 1] + PairAt(hay, needle, I, J, m)]
           pairs == CHOOSE g : P(g)
<1>2. P(f)
  <2>1. \A m \in 0..k : f[m] = IF m = 0 THEN 0 ELSE f[m - 1] + PairAt(hay, needle, I, J, m)
    <3>1. \A m \in 0..k : m # 0 => m \in 1..k
      OBVIOUS
    <3> QED BY <3>1 DEF Summed
  <2> QED BY <2>1 DEF Summed
<1>3. P(pairs)
  BY <1>2
<1>4. ScoreOf(hay, needle, I, J) = pairs[k] + Gap * Skipped(I, J, k)
  BY <1>1 DEF ScoreOf, Skipped, PairAt
<1> HIDE DEF pairs
<1>5. Summed(pairs, hay, needle, I, J, k)
  <2>1. pairs[0] = 0 /\ \A m \in 1..k : pairs[m] = pairs[m - 1] + PairAt(hay, needle, I, J, m)
    BY <1>1, <1>3
  <2>2. \A m : PairAt(hay, needle, I, J, m) \in Int
    BY PairScoreOf DEF PairAt
  <2> DEFINE Bad == {m \in 0..k : pairs[m] \notin Int}
  <2>3. Bad = {}
    <3>1. SUFFICES ASSUME Bad # {} PROVE FALSE
      OBVIOUS
    <3>2. PICK m \in Bad : \A j \in Bad : m <= j
      <4>1. Bad \subseteq Nat
        OBVIOUS
      <4> QED BY <3>1, <4>1, LeastElement
    <3>3. m \in 0..k /\ m # 0 /\ pairs[m] \notin Int
      BY <2>1, <3>2
    <3>4. m \in 1..k /\ m - 1 \in 0..k /\ ~ (m <= m - 1)
      BY <1>1, <3>3
    <3>5. m - 1 \notin Bad
      BY <3>2, <3>4
    <3>6. pairs[m - 1] \in Int
      BY <3>4, <3>5
    <3> QED BY <2>1, <2>2, <3>3, <3>4, <3>6
  <2>4. pairs \in [0..k -> Int]
    <3>1. \A m \in 0..k : pairs[m] \in Int
      BY <2>3
    <3> QED BY <1>3, <3>1
  <2> QED BY <2>1, <2>4 DEF Summed
<1>6. pairs[k] = f[k] /\ f[k] \in Int
  <2>1. k \in Nat /\ k <= k
    BY <1>1
  <2> QED BY <1>5, <2>1, SummedOnce
<1>7. Skipped(I, J, k) \in Int
  BY <1>1, Ends DEF Skipped
<1>8. PICK z \in Int : z = Skipped(I, J, k)
  BY <1>7
<1> QED BY <1>4, <1>6, <1>8 DEF Gap

(* One pair alone, and one more pair after the others.                     *)
LEMMA ScoreOfOne ==
    ASSUME NEW hay, NEW needle, NEW I, NEW x, Only(I, x), NEW J, NEW y, Only(J, y),
           NEW pair, PairIs(hay, needle, x, y, pair)
    PROVE  ScoreOf(hay, needle, I, J) = pair
<1>1. PICK f : Summed(f, hay, needle, I, J, 1)
  BY SummedUp
<1> USE DEF PairIs
<1>2. /\ Sites(I, 1) /\ Max(I) = x /\ Min(I) = x /\ Nth(I, 1) = x
      /\ Sites(J, 1) /\ Max(J) = y /\ Min(J) = y /\ Nth(J, 1) = y
  BY Single
<1>3. ScoreOf(hay, needle, I, J) = f[1] - Skipped(I, J, 1)
  BY <1>1, <1>2, ScoreIs
<1>4. f[1] = 0 + pair /\ pair \in Int
  <2>1. 1 \in 1..1 /\ 1 - 1 = 0
    OBVIOUS
  <2> QED BY <1>1, <1>2, <2>1, PairScoreOf DEF Summed, PairAt
<1>5. Skipped(I, J, 1) = 0
  BY <1>2 DEF Skipped
<1> QED BY <1>3, <1>4, <1>5

LEMMA ScoreOfMore ==
    ASSUME NEW hay, NEW needle, NEW I, NEW J, NEW k, Sites(I, k), Sites(J, k),
           NEW x \in Nat, NEW y \in Nat, \A z \in I : z < x, \A z \in J : z < y,
           NEW U, WithMore(U, I, x), NEW V, WithMore(V, J, y)
    PROVE  /\ ScoreOf(hay, needle, I, J) \in Int
           /\ ScoreOf(hay, needle, U, V) =
                ScoreOf(hay, needle, I, J) + PairScore(hay[x], needle[y])
                  - (x - 1 - Max(I)) - (y - 1 - Max(J))
<1>1. /\ Sites(U, k + 1) /\ Max(U) = x /\ Min(U) = Min(I)
      /\ Nth(U, k + 1) = x /\ \A m \in 1..k : Nth(U, m) = Nth(I, m)
  BY Above
<1>2. /\ Sites(V, k + 1) /\ Max(V) = y /\ Min(V) = Min(J)
      /\ Nth(V, k + 1) = y /\ \A m \in 1..k : Nth(V, m) = Nth(J, m)
  BY Above
<1>4. k \in Nat /\ k + 1 \in Nat /\ k + 1 \in 1..(k + 1) /\ (k + 1) - 1 = k /\ k <= k + 1
  BY DEF Sites
<1>5. PICK f : Summed(f, hay, needle, I, J, k)
  BY <1>4, SummedUp
<1>6. PICK g : Summed(g, hay, needle, U, V, k + 1)
  BY <1>4, SummedUp
<1>7. \A m \in 1..k : PairAt(hay, needle, U, V, m) = PairAt(hay, needle, I, J, m)
  BY <1>1, <1>2 DEF PairAt
<1>8. g[k] = f[k] /\ f[k] \in Int
  BY <1>4, <1>5, <1>6, <1>7, SummedOnce
<1>9. g[k + 1] = f[k] + PairScore(hay[x], needle[y])
  <2>1. g[k + 1] = g[k] + PairAt(hay, needle, U, V, k + 1)
    BY <1>4, <1>6 DEF Summed
  <2> QED BY <1>1, <1>2, <1>8, <2>1 DEF PairAt
<1>10. /\ ScoreOf(hay, needle, I, J) = f[k] - Skipped(I, J, k)
       /\ ScoreOf(hay, needle, I, J) \in Int
  BY <1>5, ScoreIs
<1>11. ScoreOf(hay, needle, U, V) = g[k + 1] - Skipped(U, V, k + 1)
  <2>1. PICK n : n = k + 1
    OBVIOUS
  <2>2. Sites(U, n) /\ Sites(V, n) /\ Summed(g, hay, needle, U, V, n)
    BY <1>1, <1>2, <1>6, <2>1
  <2> QED BY <2>1, <2>2, ScoreIs
<1>12. PICK p \in Int : p = PairScore(hay[x], needle[y])
  BY PairScoreOf
<1>13. Max(I) \in Nat /\ Min(I) \in Nat /\ Max(J) \in Nat /\ Min(J) \in Nat
  BY Ends
<1>14. Skipped(U, V, k + 1) = Skipped(I, J, k) + (x - 1 - Max(I)) + (y - 1 - Max(J))
  <2>1. Max(U) = x /\ Min(U) = Min(I) /\ Max(V) = y /\ Min(V) = Min(J)
    BY <1>1, <1>2
  <2>2. Skipped(U, V, k + 1) = (x - Min(I) + 1 - (k + 1)) + (y - Min(J) + 1 - (k + 1))
    BY <2>1 DEF Skipped
  <2> QED BY <1>4, <1>13, <2>2 DEF Skipped
<1>15. Skipped(I, J, k) \in Int
  BY <1>4, <1>13 DEF Skipped
<1> QED BY <1>8, <1>9, <1>10, <1>11, <1>12, <1>13, <1>14, <1>15

LEMMA MatrixFilled ==
    ASSUME NEW hay, Len(hay) \in Nat, NEW needle, Len(needle) \in Nat
    PROVE  Shaped(Matrix(hay, needle), Len(hay) + 1, needle) /\ Filled(Matrix(hay, needle), hay, needle)
<1>1. PICK L \in Nat, N \in Nat : L = Len(hay) /\ N = Len(needle)
  OBVIOUS
<1>2. PICK r : RowsBy(r, hay, needle) /\ Rows(hay, needle, 0) = r[L]
  BY <1>1, RowsOf
<1>3. PICK H : H = Matrix(hay, needle)
  OBVIOUS
<1>4. /\ H = r[L] /\ r[0] = <<FirstRow(needle)>>
      /\ \A i \in 1..L : r[i] = Grown(r[i - 1], hay, needle, i)
      /\ \A i \in 0..L : Shaped(r[i], i + 1, needle)
  BY <1>1, <1>2, <1>3 DEF RowsBy, Matrix
<1>5. Shaped(H, L + 1, needle)
  BY <1>4
<1>6. PICK c : c = [i \in 1..L |-> Row(r[i - 1][i], hay[i], needle, i, 0)]
  OBVIOUS
<1>7. Builds(r, L, Seq(Cells), c)
  <2>1. \A i \in 0..L : r[i] \in Seq(Seq(Cells)) /\ Len(r[i]) = i + 1
    BY <1>4 DEF Shaped
  <2>2. \A i \in 1..L : r[i] = Append(r[i - 1], c[i])
    BY <1>4, <1>6 DEF Grown
  <2> QED BY <2>1, <2>2 DEF Builds
<1>8. H[1] = r[0][1] /\ \A i \in 1..L : H[i + 1] = c[i] /\ r[i - 1][i] = H[i]
  BY <1>4, <1>7, Built
<1>9. ASSUME NEW i \in 0..L
      PROVE  H[i + 1] \in Seq(Cells) /\ Len(H[i + 1]) = N + 1
               /\ \A j \in 0..N : CellAt(H, i, j) \in Cells
  <2>1. i + 1 \in 1..(L + 1)
    OBVIOUS
  <2>2. PICK row \in Seq(Cells) : row = H[i + 1] /\ Len(row) = N + 1
    BY <1>1, <1>5, <2>1 DEF Shaped
  <2>3. \A j \in 0..N : j + 1 \in 1..Len(row)
    BY <2>2
  <2>4. \A j \in 1..Len(row) : row[j] \in Cells
    BY ElementOfSeq
  <2> QED BY <2>2, <2>3, <2>4 DEF CellAt
<1>10. ASSUME NEW j \in 0..N PROVE CellAt(H, 0, j) = Empty
  <2>1. j + 1 \in 1..(N + 1) /\ 0 + 1 = 1
    OBVIOUS
  <2>2. H[1] = FirstRow(needle)
    BY <1>4, <1>8
  <2>3. FirstRow(needle)[j + 1] = Empty
    BY <1>1, <2>1 DEF FirstRow
  <2> QED BY <2>1, <2>2, <2>3 DEF CellAt
<1>11. ASSUME NEW i \in 1..L
       PROVE  RowBy(H[i + 1], H[i], hay[i], needle, i, 0)
  <2>1. i - 1 \in 0..L /\ (i - 1) + 1 = i /\ i \in Int /\ 0 \in Int
    OBVIOUS
  <2>2. H[i] \in Seq(Cells) /\ Len(H[i]) = N + 1
    BY <1>9, <2>1
  <2>3. H[i + 1] = Row(H[i], hay[i], needle, i, 0)
    BY <1>6, <1>8
  <2>4. PICK above \in Seq(Cells) : above = H[i] /\ Len(above) = Len(needle) + 1
    BY <1>1, <2>2
  <2>5. PICK token : token = hay[i]
    OBVIOUS
  <2>6. RowBy(Row(above, token, needle, i, 0), above, token, needle, i, 0)
    BY <2>1, <2>4, RowOf
  <2> QED BY <2>3, <2>4, <2>5, <2>6
<1>12. ASSUME NEW i \in 0..L PROVE CellAt(H, i, 0) = Empty
  <2>1. CASE i = 0
    BY <1>10, <2>1
  <2>2. CASE i # 0
    <3>1. i \in 1..L /\ 0 + 1 = 1
      BY <2>2
    <3>2. H[i + 1][1] = Empty
      BY <1>11, <3>1 DEF RowBy
    <3> QED BY <3>1, <3>2 DEF CellAt
  <2> QED BY <2>1, <2>2
<1>13. ASSUME NEW i \in 1..L, NEW j \in 1..N
       PROVE  CellAt(H, i, j) = Cell(CellAt(H, i - 1, j - 1), CellAt(H, i - 1, j), CellAt(H, i, j - 1),
                                 PairScore(hay[i], needle[j]), i, 0)
  <2>1. (i - 1) + 1 = i /\ (j - 1) + 1 = j
    OBVIOUS
  <2>2. H[i + 1][j + 1] = Cell(H[i][j], H[i][j + 1], H[i + 1][j], PairScore(hay[i], needle[j]), i, 0)
    BY <1>1, <1>11 DEF RowBy
  <2> QED BY <2>1, <2>2 DEF CellAt
<1>14. Filled(H, hay, needle)
  BY <1>1, <1>9, <1>10, <1>12, <1>13 DEF Filled
<1> QED BY <1>1, <1>3, <1>5, <1>14

(* What a cell says of the three it is made from.                          *)
LEMMA CellSays ==
    ASSUME NEW diag \in Cells, NEW up \in Cells, NEW left \in Cells, NEW pair \in Int, NEW i \in Int,
           NEW c, c = Cell(diag, up, left, pair, i, 0)
    PROVE  /\ 0 <= c.score /\ diag.score + pair <= c.score
           /\ up.score - 1 <= c.score /\ left.score - 1 <= c.score
           /\ 0 < c.score =>
                \/ /\ c.score = diag.score + pair
                   /\ c.start = IF 0 < diag.score THEN diag.start ELSE i
                \/ c.score = up.score - 1 /\ 0 < up.score /\ c.start = up.start
                \/ c.score = left.score - 1 /\ 0 < left.score /\ c.start = left.start
<1> DEFINE S == {0, diag.score + pair, up.score + Gap, left.score + Gap}
           best == Max(S)
           from == IF best = diag.score + pair THEN diag ELSE IF best = up.score + Gap THEN up ELSE left
           start == IF best > 0 /\ from.score > 0 THEN from.start ELSE i
<1>1. /\ diag.score \in Int /\ up.score \in Int /\ left.score \in Int
      /\ diag.start \in Int /\ up.start \in Int /\ left.start \in Int
  BY DEF Cells
<1>2. up.score + Gap = up.score - 1 /\ left.score + Gap = left.score - 1
  BY <1>1 DEF Gap
<1>3. S \in SUBSET Int /\ IsFiniteSet(S) /\ S # {}
  <2>1. IsFiniteSet(((({} \cup {0}) \cup {diag.score + pair}) \cup {up.score + Gap})
                    \cup {left.score + Gap})
    BY FS_EmptySet, FS_AddElement
  <2>2. S = ((({} \cup {0}) \cup {diag.score + pair}) \cup {up.score + Gap}) \cup {left.score + Gap}
    OBVIOUS
  <2>3. S \in SUBSET Int
    BY <1>1, <1>2
  <2> HIDE DEF S
  <2>4. 0 \in S
    BY DEF S
  <2> QED BY <2>1, <2>2, <2>3, <2>4
<1>4. best \in S /\ \A x \in S : x <= best
  <2> HIDE DEF S
  <2> QED BY <1>3, MaxOf
<1>5. c = [score |-> best, start |-> start]
  BY DEF Cell
<1> HIDE DEF best
<1>6. best \in Int /\ best \in {0, diag.score + pair, up.score - 1, left.score - 1}
      /\ 0 <= best /\ diag.score + pair <= best /\ up.score - 1 <= best /\ left.score - 1 <= best
  BY <1>1, <1>2, <1>4
<1>7. c.score = best /\ c.start = start
  <2> HIDE DEF start
  <2> QED BY <1>5
<1>8. ASSUME 0 < best, best = diag.score + pair
      PROVE  start = IF 0 < diag.score THEN diag.start ELSE i
  BY <1>1, <1>6, <1>8
<1>9. ASSUME 0 < best, best # diag.score + pair, best = up.score - 1
      PROVE  0 < up.score /\ start = up.start
  BY <1>1, <1>2, <1>6, <1>9
<1>10. ASSUME 0 < best, best # diag.score + pair, best # up.score - 1
       PROVE  best = left.score - 1 /\ 0 < left.score /\ start = left.start
  <2>1. best = left.score - 1 /\ 0 < left.score
    BY <1>1, <1>6, <1>10
  <2> QED BY <1>1, <1>2, <1>6, <1>10, <2>1
<1> HIDE DEF start
<1> QED BY <1>6, <1>7, <1>8, <1>9, <1>10

LEMMA FallsSlowly ==
    ASSUME NEW n \in Nat, NEW f, \A m \in 0..n : f[m] \in Int, \A m \in 1..n : f[m - 1] - 1 <= f[m]
    PROVE  \A m \in 0..n : \A p \in 0..m : f[p] - (m - p) <= f[m]
<1> SUFFICES ASSUME NEW p \in 0..n PROVE \A m \in 0..n : p <= m => f[p] - (m - p) <= f[m]
  OBVIOUS
<1> DEFINE Bad == {m \in 0..n : p <= m /\ ~ (f[p] - (m - p) <= f[m])}
<1>1. SUFFICES ASSUME Bad # {} PROVE FALSE
  OBVIOUS
<1>2. PICK m \in Bad : \A j \in Bad : m <= j
  <2>1. Bad \subseteq Nat
    OBVIOUS
  <2> QED BY <1>1, <2>1, LeastElement
<1>3. m \in 0..n /\ p <= m /\ ~ (f[p] - (m - p) <= f[m])
  BY <1>2
<1>4. m # p
  <2>1. f[p] \in Int /\ f[p] - (p - p) <= f[p]
    OBVIOUS
  <2> QED BY <1>3, <2>1
<1>5. m \in 1..n /\ m - 1 \in 0..n /\ ~ (m <= m - 1) /\ p <= m - 1
  BY <1>3, <1>4
<1>6. m - 1 \notin Bad
  BY <1>2, <1>5
<1>7. f[p] - ((m - 1) - p) <= f[m - 1]
  BY <1>5, <1>6
<1>8. f[m - 1] - 1 <= f[m] /\ f[p] \in Int /\ f[m] \in Int /\ f[m - 1] \in Int
  BY <1>3, <1>5
<1> QED BY <1>3, <1>5, <1>7, <1>8

LEMMA StepsOf ==
    ASSUME NEW L \in Nat, NEW N \in Nat, NEW hay, NEW needle, L = Len(hay), N = Len(needle),
           NEW H, Filled(H, hay, needle)
    PROVE  /\ \A i \in 0..L : \A j \in 0..N : Score(H, i, j) \in Nat /\ CellAt(H, i, j) \in Cells
           /\ \A i \in 1..L : \A j \in 0..N : Score(H, i - 1, j) - 1 <= Score(H, i, j)
           /\ \A i \in 0..L : \A j \in 1..N : Score(H, i, j - 1) - 1 <= Score(H, i, j)
           /\ \A i \in 1..L : \A j \in 1..N :
                Score(H, i - 1, j - 1) + PairScore(hay[i], needle[j]) <= Score(H, i, j)
<1>1. /\ \A i \in 0..L : \A j \in 0..N : CellAt(H, i, j) \in Cells
      /\ \A i \in 0..L : CellAt(H, i, 0) = Empty
      /\ \A j \in 0..N : CellAt(H, 0, j) = Empty
      /\ \A i \in 1..L : \A j \in 1..N :
           CellAt(H, i, j) = Cell(CellAt(H, i - 1, j - 1), CellAt(H, i - 1, j), CellAt(H, i, j - 1),
                              PairScore(hay[i], needle[j]), i, 0)
  BY DEF Filled
<1>2. Empty.score = 0
  BY DEF Empty
<1>3. \A i \in 0..L : \A j \in 0..N : Score(H, i, j) \in Int
  BY <1>1 DEF Score, Cells
<1>4. ASSUME NEW i \in 1..L, NEW j \in 1..N
      PROVE  /\ 0 <= Score(H, i, j)
             /\ Score(H, i - 1, j - 1) + PairScore(hay[i], needle[j]) <= Score(H, i, j)
             /\ Score(H, i - 1, j) - 1 <= Score(H, i, j) /\ Score(H, i, j - 1) - 1 <= Score(H, i, j)
  <2>1. i - 1 \in 0..L /\ j - 1 \in 0..N /\ i \in 0..L /\ j \in 0..N /\ i \in Int
    OBVIOUS
  <2>2. PICK pair \in Int : pair = PairScore(hay[i], needle[j])
    BY PairScoreOf
  <2>3. PICK diag \in Cells : diag = CellAt(H, i - 1, j - 1)
    BY <1>1, <2>1
  <2>4. PICK up \in Cells : up = CellAt(H, i - 1, j)
    BY <1>1, <2>1
  <2>5. PICK left \in Cells : left = CellAt(H, i, j - 1)
    BY <1>1, <2>1
  <2>6. CellAt(H, i, j) = Cell(diag, up, left, pair, i, 0)
    BY <1>1, <2>2, <2>3, <2>4, <2>5
  <2>7. PICK c : c = CellAt(H, i, j)
    OBVIOUS
  <2>8. 0 <= c.score /\ diag.score + pair <= c.score /\ up.score - 1 <= c.score
        /\ left.score - 1 <= c.score
    BY <2>1, <2>6, <2>7, CellSays
  <2> QED BY <2>2, <2>3, <2>4, <2>5, <2>7, <2>8 DEF Score
<1>5. \A i \in 0..L : Score(H, i, 0) = 0
  BY <1>1, <1>2 DEF Score
<1>6. \A j \in 0..N : Score(H, 0, j) = 0
  BY <1>1, <1>2 DEF Score
<1>7. /\ \A i \in 0..L : i # 0 => i \in 1..L
      /\ \A j \in 0..N : j # 0 => j \in 1..N
      /\ \A i \in 1..L : i - 1 \in 0..L /\ i \in 0..L
      /\ \A j \in 1..N : j - 1 \in 0..N /\ j \in 0..N
      /\ 0 - 1 <= 0
  OBVIOUS
<1>8. ASSUME NEW i \in 0..L, NEW j \in 0..N PROVE 0 <= Score(H, i, j)
  <2>1. CASE i = 0 \/ j = 0
    BY <1>5, <1>6, <2>1
  <2>2. CASE i # 0 /\ j # 0
    BY <1>4, <1>7, <2>2
  <2> QED BY <2>1, <2>2
<1>9. ASSUME NEW i \in 1..L, NEW j \in 0..N PROVE Score(H, i - 1, j) - 1 <= Score(H, i, j)
  <2>1. CASE j = 0
    BY <1>5, <1>7, <2>1
  <2>2. CASE j # 0
    BY <1>4, <1>7, <2>2
  <2> QED BY <2>1, <2>2
<1>10. ASSUME NEW i \in 0..L, NEW j \in 1..N PROVE Score(H, i, j - 1) - 1 <= Score(H, i, j)
  <2>1. CASE i = 0
    BY <1>6, <1>7, <2>1
  <2>2. CASE i # 0
    BY <1>4, <1>7, <2>2
  <2> QED BY <2>1, <2>2
<1>11. \A i \in 0..L : \A j \in 0..N : Score(H, i, j) \in Nat
  BY <1>3, <1>8
<1> QED BY <1>1, <1>4, <1>9, <1>10, <1>11

LEMMA GapsCost ==
    ASSUME NEW L \in Nat, NEW N \in Nat, NEW hay, NEW needle, L = Len(hay), N = Len(needle),
           NEW H, Filled(H, hay, needle),
           NEW i \in 0..L, NEW j \in 0..N, NEW p \in 0..i, NEW q \in 0..j
    PROVE  Score(H, p, q) - (i - p) - (j - q) <= Score(H, i, j)
<1>1. p \in 0..L /\ q \in 0..N /\ i \in Int /\ j \in Int /\ p \in Int /\ q \in Int
  OBVIOUS
<1>2. /\ \A a \in 0..L : \A b \in 0..N : Score(H, a, b) \in Int
      /\ \A a \in 1..L : \A b \in 0..N : Score(H, a - 1, b) - 1 <= Score(H, a, b)
      /\ \A a \in 0..L : \A b \in 1..N : Score(H, a, b - 1) - 1 <= Score(H, a, b)
  <2>1. \A x \in Nat : x \in Int
    OBVIOUS
  <2> QED BY <2>1, StepsOf, ZenonT(30)
<1>3. Score(H, p, j) - (i - p) <= Score(H, i, j)
  <2>1. PICK f : f = [a \in 0..L |-> Score(H, a, j)]
    OBVIOUS
  <2>2. \A a \in 0..L : f[a] \in Int
    BY <1>2, <2>1
  <2>3. ASSUME NEW a \in 1..L PROVE f[a - 1] - 1 <= f[a]
    <3>1. a \in 0..L /\ a - 1 \in 0..L
      OBVIOUS
    <3> QED BY <1>2, <2>1, <3>1
  <2>4. f[p] - (i - p) <= f[i]
    BY <2>2, <2>3, FallsSlowly
  <2> QED BY <1>1, <2>1, <2>4
<1>4. Score(H, p, q) - (j - q) <= Score(H, p, j)
  <2>1. PICK f : f = [b \in 0..N |-> Score(H, p, b)]
    OBVIOUS
  <2>2. \A b \in 0..N : f[b] \in Int
    BY <1>1, <1>2, <2>1
  <2>3. ASSUME NEW b \in 1..N PROVE f[b - 1] - 1 <= f[b]
    <3>1. b \in 0..N /\ b - 1 \in 0..N
      OBVIOUS
    <3> QED BY <1>1, <1>2, <2>1, <3>1
  <2>4. f[q] - (j - q) <= f[j]
    BY <2>2, <2>3, FallsSlowly
  <2> QED BY <1>1, <2>1, <2>4
<1>5. Score(H, p, q) \in Int /\ Score(H, p, j) \in Int /\ Score(H, i, j) \in Int
  BY <1>1, <1>2
<1> QED BY <1>1, <1>3, <1>4, <1>5, SMTT(30)

LEMMA BoundedOne ==
    ASSUME NEW L \in Nat, NEW N \in Nat, NEW hay, NEW needle, L = Len(hay), N = Len(needle),
           NEW H, Filled(H, hay, needle)
    PROVE  Bounded(H, hay, needle, L, N, 1)
<1> SUFFICES ASSUME NEW I, NEW J, Sites(I, 1), Sites(J, 1), Within(I, L), Within(J, N)
             PROVE  /\ ScoreOf(hay, needle, I, J) \in Int
                    /\ ScoreOf(hay, needle, I, J) <= Score(H, Max(I), Max(J))
  BY DEF Bounded
<1>1. PICK x \in Nat : Only(I, x)
  BY OnlyOne
<1>2. PICK y \in Nat : Only(J, y)
  BY OnlyOne
<1>3. x \in 1..L /\ y \in 1..N /\ x - 1 \in 0..L /\ y - 1 \in 0..N /\ x \in 0..L /\ y \in 0..N
  <2>1. x \in 1..L /\ y \in 1..N
    BY <1>1, <1>2 DEF Within, Only
  <2> QED BY <2>1
<1>4. PICK pair \in Int : pair = PairScore(hay[x], needle[y])
  BY PairScoreOf
<1>5. ScoreOf(hay, needle, I, J) = pair /\ Max(I) = x /\ Max(J) = y
  <2>1. ScoreOf(hay, needle, I, J) = pair
    <3>1. PairIs(hay, needle, x, y, pair)
      BY <1>1, <1>2, <1>4 DEF PairIs
    <3> QED BY <1>1, <1>2, <3>1, ScoreOfOne
  <2>2. Max(I) = x /\ Max(J) = y
    BY <1>1, <1>2, Single
  <2> QED BY <2>1, <2>2
<1>6. Score(H, x - 1, y - 1) + pair <= Score(H, x, y)
  BY <1>3, <1>4, StepsOf
<1>7. Score(H, x - 1, y - 1) \in Nat /\ Score(H, x, y) \in Nat
  BY <1>3, StepsOf
<1> QED BY <1>4, <1>5, <1>6, <1>7

LEMMA BoundedMore ==
    ASSUME NEW L \in Nat, NEW N \in Nat, NEW hay, NEW needle, L = Len(hay), N = Len(needle),
           NEW H, Filled(H, hay, needle), NEW k, k # 1, Bounded(H, hay, needle, L, N, k - 1)
    PROVE  Bounded(H, hay, needle, L, N, k)
<1> SUFFICES ASSUME NEW I, NEW J, Sites(I, k), Sites(J, k), Within(I, L), Within(J, N)
             PROVE  /\ ScoreOf(hay, needle, I, J) \in Int
                    /\ ScoreOf(hay, needle, I, J) <= Score(H, Max(I), Max(J))
  BY DEF Bounded
<1>1. PICK n : n = k - 1
  OBVIOUS
<1>2. PICK R, x : /\ Sites(R, n) /\ x \in Nat /\ x \in I /\ (\A z \in R : z < x /\ z \in I)
                  /\ WithMore(I, R, x) /\ x = Max(I)
  BY <1>1, TakenApart
<1>3. PICK S, y : /\ Sites(S, n) /\ y \in Nat /\ y \in J /\ (\A z \in S : z < y /\ z \in J)
                  /\ WithMore(J, S, y) /\ y = Max(J)
  BY <1>1, TakenApart
<1>4. PICK p, q : p = Max(R) /\ q = Max(S)
  OBVIOUS
<1>5. p \in R /\ q \in S
  BY <1>2, <1>3, <1>4, Ends
<1>6. Within(R, L) /\ Within(S, N)
  BY <1>2, <1>3 DEF Within
<1>7. /\ x \in 1..L /\ y \in 1..N /\ x \in 0..L /\ y \in 0..N /\ x - 1 \in 0..L /\ y - 1 \in 0..N
      /\ p \in 0..(x - 1) /\ q \in 0..(y - 1) /\ p \in 0..L /\ q \in 0..N
  <2>1. x \in 1..L /\ y \in 1..N /\ p \in 1..L /\ q \in 1..N /\ p < x /\ q < y
    BY <1>2, <1>3, <1>5, <1>6 DEF Within
  <2> QED BY <2>1
<1>8. PICK old \in Int : old = ScoreOf(hay, needle, R, S) /\ old <= Score(H, p, q)
  BY <1>1, <1>2, <1>3, <1>4, <1>6 DEF Bounded
<1>9. PICK pair \in Int : pair = PairScore(hay[x], needle[y])
  BY PairScoreOf
<1>10. ScoreOf(hay, needle, I, J) = old + pair - (x - 1 - p) - (y - 1 - q)
  <2>1. ScoreOf(hay, needle, I, J) =
          ScoreOf(hay, needle, R, S) + PairScore(hay[x], needle[y]) - (x - 1 - Max(R)) - (y - 1 - Max(S))
    BY <1>2, <1>3, ScoreOfMore, SMTT(30)
  <2> QED BY <1>4, <1>8, <1>9, <2>1
<1>11. Score(H, p, q) - (x - 1 - p) - (y - 1 - q) <= Score(H, x - 1, y - 1)
  BY <1>7, GapsCost
<1>12. Score(H, x - 1, y - 1) + pair <= Score(H, x, y)
  BY <1>7, <1>9, StepsOf
<1>13. Score(H, p, q) \in Nat /\ Score(H, x - 1, y - 1) \in Nat /\ Score(H, x, y) \in Nat
  BY <1>7, StepsOf
<1>14. x \in Int /\ y \in Int /\ p \in Int /\ q \in Int
  BY <1>7
<1>15. PICK a \in Nat, b \in Nat, c \in Nat :
         a = Score(H, p, q) /\ b = Score(H, x - 1, y - 1) /\ c = Score(H, x, y)
  BY <1>13
<1>16. PICK v : v = old + pair - (x - 1 - p) - (y - 1 - q)
  OBVIOUS
<1>17. v \in Int /\ v <= c
  <2>1. old <= a /\ a - (x - 1 - p) - (y - 1 - q) <= b /\ b + pair <= c
    BY <1>8, <1>11, <1>12, <1>15
  <2> QED BY <1>14, <1>16, <2>1
<1> QED BY <1>2, <1>3, <1>10, <1>15, <1>16, <1>17

LEMMA BoundedAll ==
    ASSUME NEW L \in Nat, NEW N \in Nat, NEW hay, NEW needle, L = Len(hay), N = Len(needle),
           NEW H, Filled(H, hay, needle)
    PROVE  \A k \in Nat \ {0} : Bounded(H, hay, needle, L, N, k)
<1> DEFINE Bad == {k \in Nat \ {0} : ~ Bounded(H, hay, needle, L, N, k)}
<1>1. SUFFICES ASSUME Bad # {} PROVE FALSE
  OBVIOUS
<1>2. PICK k \in Bad : \A j \in Bad : k <= j
  <2>1. Bad \subseteq Nat
    OBVIOUS
  <2> QED BY <1>1, <2>1, LeastElement
<1>3. k # 1
  BY <1>2, BoundedOne
<1>4. k - 1 \in Nat \ {0} /\ ~ (k <= k - 1)
  BY <1>2, <1>3
<1>5. Bounded(H, hay, needle, L, N, k - 1)
  BY <1>2, <1>4
<1>6. Bounded(H, hay, needle, L, N, k)
  BY <1>3, <1>5, BoundedMore
<1> QED BY <1>2, <1>6

LEMMA TracedCell ==
    ASSUME NEW L \in Nat, NEW N \in Nat, NEW hay, NEW needle, L = Len(hay), N = Len(needle),
           NEW H, Filled(H, hay, needle), NEW i \in 1..L, NEW j \in 1..N,
           Traced(H, hay, needle, i - 1, j - 1), Traced(H, hay, needle, i - 1, j),
           Traced(H, hay, needle, i, j - 1)
    PROVE  Traced(H, hay, needle, i, j)
<1> SUFFICES ASSUME 0 < Score(H, i, j)
             PROVE  \E I, J, k : Traces(I, J, k, H, hay, needle, i, j)
  BY DEF Traced
<1>1. /\ i \in Nat /\ j \in Nat /\ i - 1 \in 0..L /\ j - 1 \in 0..N /\ i \in 0..L /\ j \in 0..N
      /\ i \in 1..i /\ j \in 1..j /\ i \in Int /\ j \in Int
  OBVIOUS
<1>2. PICK pair \in Int : pair = PairScore(hay[i], needle[j])
  BY PairScoreOf
<1>3. PICK diag \in Cells : diag = CellAt(H, i - 1, j - 1)
  BY <1>1, StepsOf
<1>4. PICK up \in Cells : up = CellAt(H, i - 1, j)
  BY <1>1, StepsOf
<1>5. PICK left \in Cells : left = CellAt(H, i, j - 1)
  BY <1>1, StepsOf
<1>6. PICK c : c = CellAt(H, i, j)
  OBVIOUS
<1>7. c = Cell(diag, up, left, pair, i, 0)
  BY <1>2, <1>3, <1>4, <1>5, <1>6 DEF Filled
<1>8. 0 < c.score
  BY <1>6 DEF Score
<1>9. \/ /\ c.score = diag.score + pair
         /\ c.start = IF 0 < diag.score THEN diag.start ELSE i
      \/ c.score = up.score - 1 /\ 0 < up.score /\ c.start = up.start
      \/ c.score = left.score - 1 /\ 0 < left.score /\ c.start = left.start
  BY <1>1, <1>7, <1>8, CellSays
<1>10. CASE c.score = diag.score + pair /\ c.start = (IF 0 < diag.score THEN diag.start ELSE i)
  <2>1. CASE 0 < diag.score
    <3>1. PICK I, J, k : Traces(I, J, k, H, hay, needle, i - 1, j - 1)
      BY <1>3, <2>1 DEF Traced, Score
    <3>2. /\ Sites(I, k) /\ Sites(J, k) /\ Within(I, i - 1) /\ Within(J, j - 1)
          /\ Min(I) = diag.start
          /\ diag.score = ScoreOf(hay, needle, I, J) - (i - 1 - Max(I)) - (j - 1 - Max(J))
      BY <1>3, <3>1 DEF Traces, Score
    <3>3. (\A z \in I : z < i) /\ (\A z \in J : z < j)
      BY <1>1, <3>2 DEF Within
    <3>4. PICK A, B : WithMore(A, I, i) /\ WithMore(B, J, j)
      BY DEF WithMore
    <3>5. Sites(A, k + 1) /\ Max(A) = i /\ Min(A) = diag.start
      BY <1>1, <3>2, <3>3, <3>4, Above
    <3>6. Sites(B, k + 1) /\ Max(B) = j
      BY <1>1, <3>2, <3>3, <3>4, Above
    <3>7. Within(A, i) /\ Within(B, j)
      BY <1>1, <3>2, <3>4 DEF Within, WithMore
    <3>8. /\ ScoreOf(hay, needle, I, J) \in Int
          /\ ScoreOf(hay, needle, A, B) =
               ScoreOf(hay, needle, I, J) + pair - (i - 1 - Max(I)) - (j - 1 - Max(J))
      BY <1>1, <1>2, <3>2, <3>3, <3>4, ScoreOfMore
    <3>9. Max(I) \in Nat /\ Max(J) \in Nat
      BY <3>2, Ends
    <3>10. PICK old \in Int : old = ScoreOf(hay, needle, I, J)
      BY <3>8
    <3>11. ScoreOf(hay, needle, A, B) = diag.score + pair
      BY <1>1, <3>2, <3>8, <3>9, <3>10, SMTT(30)
    <3>12. ASSUME NEW v \in Int PROVE v = v - (i - i) - (j - j)
      BY <1>1
    <3>13. Score(H, i, j) = ScoreOf(hay, needle, A, B) - (i - Max(A)) - (j - Max(B))
      <4>1. PICK v \in Int : v = diag.score + pair
        BY DEF Cells
      <4>2. Score(H, i, j) = v /\ ScoreOf(hay, needle, A, B) = v
        BY <1>6, <1>10, <3>11, <4>1 DEF Score
      <4> QED BY <3>5, <3>6, <3>12, <4>2
    <3>14. Min(A) = CellAt(H, i, j).start
      BY <1>6, <1>10, <2>1, <3>5
    <3> QED BY <3>5, <3>6, <3>7, <3>13, <3>14 DEF Traces
  <2>2. CASE ~ (0 < diag.score)
    <3>1. diag.score = 0
      <4>1. diag.score \in Nat
        BY <1>1, <1>3, StepsOf DEF Score
      <4> QED BY <2>2, <4>1
    <3>2. PICK I, J : Only(I, i) /\ Only(J, j)
      BY DEF Only
    <3>3. Sites(I, 1) /\ Max(I) = i /\ Min(I) = i /\ Sites(J, 1) /\ Max(J) = j
      BY <1>1, <3>2, Single
    <3>4. Within(I, i) /\ Within(J, j) /\ ScoreOf(hay, needle, I, J) = pair
      <4>1. Within(I, i) /\ Within(J, j)
        BY <1>1, <3>2 DEF Within, Only
      <4>2. ScoreOf(hay, needle, I, J) = pair
        <5>1. PairIs(hay, needle, i, j, pair)
          BY <1>1, <1>2 DEF PairIs
        <5> QED BY <3>2, <5>1, ScoreOfOne
      <4> QED BY <4>1, <4>2
    <3>5. Score(H, i, j) = pair /\ CellAt(H, i, j).start = i
      BY <1>6, <1>10, <2>2, <3>1 DEF Score
    <3>6. pair = pair - (i - i) - (j - j)
      BY <1>1
    <3>7. Traces(I, J, 1, H, hay, needle, i, j)
      BY <3>3, <3>4, <3>5, <3>6 DEF Traces
    <3> QED BY <3>7
  <2> QED BY <2>1, <2>2
<1>11. CASE c.score = up.score - 1 /\ 0 < up.score /\ c.start = up.start
  <2>1. PICK I, J, k : Traces(I, J, k, H, hay, needle, i - 1, j)
    BY <1>4, <1>11 DEF Traced, Score
  <2>2. /\ Sites(I, k) /\ Sites(J, k) /\ Within(I, i - 1) /\ Within(J, j)
        /\ Min(I) = up.start
        /\ up.score = ScoreOf(hay, needle, I, J) - (i - 1 - Max(I)) - (j - Max(J))
    BY <1>4, <2>1 DEF Traces, Score
  <2>3. Within(I, i)
    BY <1>1, <2>2 DEF Within
  <2>4. Max(I) \in Nat /\ Max(J) \in Nat
    BY <2>2, Ends
  <2>5. PICK old \in Int : old = ScoreOf(hay, needle, I, J)
    <3>1. \E f : Summed(f, hay, needle, I, J, k)
      BY <2>2, SummedUp DEF Sites
    <3> QED BY <2>2, <3>1, ScoreIs
  <2>6. Score(H, i, j) = old - (i - Max(I)) - (j - Max(J))
    BY <1>1, <1>6, <1>11, <2>2, <2>4, <2>5, SMTT(30) DEF Score
  <2>7. Min(I) = CellAt(H, i, j).start
    BY <1>6, <1>11, <2>2
  <2> QED BY <2>2, <2>3, <2>5, <2>6, <2>7 DEF Traces
<1>12. CASE c.score = left.score - 1 /\ 0 < left.score /\ c.start = left.start
  <2>1. PICK I, J, k : Traces(I, J, k, H, hay, needle, i, j - 1)
    BY <1>5, <1>12 DEF Traced, Score
  <2>2. /\ Sites(I, k) /\ Sites(J, k) /\ Within(I, i) /\ Within(J, j - 1)
        /\ Min(I) = left.start
        /\ left.score = ScoreOf(hay, needle, I, J) - (i - Max(I)) - (j - 1 - Max(J))
    BY <1>5, <2>1 DEF Traces, Score
  <2>3. Within(J, j)
    BY <1>1, <2>2 DEF Within
  <2>4. Max(I) \in Nat /\ Max(J) \in Nat
    BY <2>2, Ends
  <2>5. PICK old \in Int : old = ScoreOf(hay, needle, I, J)
    <3>1. \E f : Summed(f, hay, needle, I, J, k)
      BY <2>2, SummedUp DEF Sites
    <3> QED BY <2>2, <3>1, ScoreIs
  <2>6. Score(H, i, j) = old - (i - Max(I)) - (j - Max(J))
    BY <1>1, <1>6, <1>12, <2>2, <2>4, <2>5, SMTT(30) DEF Score
  <2>7. Min(I) = CellAt(H, i, j).start
    BY <1>6, <1>12, <2>2
  <2> QED BY <2>2, <2>3, <2>5, <2>6, <2>7 DEF Traces
<1> QED BY <1>9, <1>10, <1>11, <1>12

LEMMA TracedAll ==
    ASSUME NEW L \in Nat, NEW N \in Nat, NEW hay, NEW needle, L = Len(hay), N = Len(needle),
           NEW H, Filled(H, hay, needle)
    PROVE  \A i \in 0..L : \A j \in 0..N : Traced(H, hay, needle, i, j)
<1> DEFINE RowOK(i) == \A j \in 0..N : Traced(H, hay, needle, i, j)
           Bad == {i \in 0..L : ~ RowOK(i)}
<1>1. SUFFICES ASSUME Bad # {} PROVE FALSE
  OBVIOUS
<1>2. PICK i \in Bad : \A m \in Bad : i <= m
  <2>1. Bad \subseteq Nat
    OBVIOUS
  <2> QED BY <1>1, <2>1, LeastElement
<1>3. \A m \in 0..L : \A j \in 0..N : m = 0 \/ j = 0 => Traced(H, hay, needle, m, j)
  <2>1. /\ \A m \in 0..L : CellAt(H, m, 0) = Empty
        /\ \A j \in 0..N : CellAt(H, 0, j) = Empty
    BY DEF Filled
  <2>2. Empty.score = 0
    BY DEF Empty
  <2> QED BY <2>1, <2>2 DEF Traced, Score
<1>4. i \in 0..L /\ ~ RowOK(i)
  BY <1>2
<1>5. i # 0
  BY <1>3, <1>4
<1>6. i \in 1..L /\ i - 1 \in 0..L /\ ~ (i <= i - 1)
  BY <1>4, <1>5
<1>7. RowOK(i - 1)
  <2>1. i - 1 \notin Bad
    BY <1>2, <1>6
  <2> QED BY <1>6, <2>1
<1> DEFINE Cols == {j \in 0..N : ~ Traced(H, hay, needle, i, j)}
<1>8. PICK j \in Cols : \A m \in Cols : j <= m
  <2>1. Cols \subseteq Nat /\ Cols # {}
    BY <1>4
  <2> QED BY <2>1, LeastElement
<1>9. j \in 0..N /\ ~ Traced(H, hay, needle, i, j)
  BY <1>8
<1>10. j # 0
  BY <1>3, <1>4, <1>9
<1>11. j \in 1..N /\ j - 1 \in 0..N /\ ~ (j <= j - 1)
  BY <1>9, <1>10
<1>12. Traced(H, hay, needle, i, j - 1)
  <2>1. j - 1 \notin Cols
    BY <1>8, <1>11
  <2> QED BY <1>11, <2>1
<1>13. Traced(H, hay, needle, i - 1, j - 1) /\ Traced(H, hay, needle, i - 1, j)
  BY <1>7, <1>9, <1>11
<1> QED BY <1>6, <1>9, <1>11, <1>12, <1>13, TracedCell

LEMMA OneMoved ==
    ASSUME NEW d \in Int, NEW hay, NEW other, NEW needle
    PROVE  AllMoved(d, 1, hay, other, needle)
<1> SUFFICES ASSUME NEW I, NEW K, NEW J, Sites(K, 1), Sites(J, 1), MovedBy(I, K, d),
                    SameTokens(hay, other, K, d)
             PROVE  Moved(I, K, J, d, 1, hay, other, needle)
  BY DEF AllMoved
<1>1. PICK x \in Nat : Only(K, x)
  BY OnlyOne
<1>2. PICK y \in Nat : Only(J, y)
  BY OnlyOne
<1>3. PICK z : z = x + d
  OBVIOUS
<1>4. z \in Nat /\ Only(I, z)
  <2>1. z \in I /\ I \subseteq Nat /\ \A u \in I : u - d = x
    BY <1>1, <1>3 DEF Only, MovedBy
  <2>2. \A u \in I : u = z
    <3> SUFFICES ASSUME NEW u \in I PROVE u = z
      OBVIOUS
    <3>1. u \in Int /\ u - d = x
      BY <2>1
    <3> QED BY <1>3, <3>1
  <2> QED BY <2>1, <2>2 DEF Only
<1>5. PICK pair : pair = PairScore(other[x], needle[y])
  OBVIOUS
<1>6. other[x] = hay[z]
  BY <1>1, <1>3 DEF Only, SameTokens
<1>7. PairIs(other, needle, x, y, pair) /\ PairIs(hay, needle, z, y, pair)
  BY <1>1, <1>2, <1>4, <1>5, <1>6 DEF PairIs
<1>8. ScoreOf(other, needle, K, J) = pair /\ ScoreOf(hay, needle, I, J) = pair
  <2>1. ScoreOf(other, needle, K, J) = pair
    BY <1>1, <1>2, <1>7, ScoreOfOne
  <2>2. ScoreOf(hay, needle, I, J) = pair
    BY <1>2, <1>4, <1>7, ScoreOfOne
  <2> QED BY <2>1, <2>2
<1>9. Sites(I, 1) /\ Max(I) = z /\ Min(I) = z /\ Max(K) = x /\ Min(K) = x
  BY <1>1, <1>4, Single
<1> QED BY <1>3, <1>8, <1>9 DEF Moved

LEMMA MoreMoved ==
    ASSUME NEW d \in Int, NEW hay, NEW other, NEW needle, NEW k, k # 1,
           AllMoved(d, k - 1, hay, other, needle)
    PROVE  AllMoved(d, k, hay, other, needle)
<1> SUFFICES ASSUME NEW I, NEW K, NEW J, Sites(K, k), Sites(J, k), MovedBy(I, K, d),
                    SameTokens(hay, other, K, d)
             PROVE  Moved(I, K, J, d, k, hay, other, needle)
  BY DEF AllMoved
<1>1. PICK n : n = k - 1
  OBVIOUS
<1>2. PICK R, x : /\ Sites(R, n) /\ x \in Nat /\ x \in K /\ (\A u \in R : u < x /\ u \in K)
                  /\ WithMore(K, R, x) /\ x = Max(K)
  BY <1>1, TakenApart
<1>3. PICK S, y : /\ Sites(S, n) /\ y \in Nat /\ y \in J /\ (\A u \in S : u < y /\ u \in J)
                  /\ WithMore(J, S, y) /\ y = Max(J)
  BY <1>1, TakenApart
<1>4. PICK z : z = x + d
  OBVIOUS
<1>5. PICK Q : Q = I \ {z}
  OBVIOUS
<1>6. /\ z \in I /\ z \in Nat /\ I \subseteq Nat /\ R \subseteq Nat
      /\ \A u \in K : u + d \in I
      /\ \A u \in I : u - d \in K
  BY <1>2, <1>4 DEF MovedBy, Sites
<1>7. WithMore(I, Q, z)
  BY <1>5, <1>6 DEF WithMore
<1>8. \A u \in K : u \in R \/ u = x
  BY <1>2 DEF WithMore
<1>9. ASSUME NEW u \in R PROVE u + d \in Q
  <2>1. u \in Int /\ u # x /\ u \in K
    BY <1>2, <1>6
  <2>2. u + d # z
    BY <1>2, <1>4, <2>1
  <2> QED BY <1>5, <1>6, <2>1, <2>2
<1>10. ASSUME NEW u \in Q PROVE u - d \in R /\ u < z
  <2>1. u \in I /\ u # z /\ u \in Int
    BY <1>5, <1>6
  <2>2. u - d # x
    BY <1>2, <1>4, <2>1
  <2>3. u - d \in R
    BY <1>6, <1>8, <2>1, <2>2
  <2>4. u - d < x
    BY <1>2, <2>3
  <2> QED BY <1>2, <1>4, <2>1, <2>3, <2>4
<1>11. MovedBy(Q, R, d)
  <2>1. Q \subseteq Nat
    BY <1>5, <1>6
  <2> QED BY <1>9, <1>10, <2>1 DEF MovedBy
<1>12. SameTokens(hay, other, R, d)
  BY <1>2 DEF SameTokens
<1>13. Moved(Q, R, S, d, n, hay, other, needle)
  BY <1>1, <1>2, <1>3, <1>11, <1>12 DEF AllMoved
<1>14. /\ Sites(Q, n) /\ Max(Q) = Max(R) + d /\ Min(Q) = Min(R) + d
       /\ ScoreOf(hay, needle, Q, S) = ScoreOf(other, needle, R, S)
  BY <1>13 DEF Moved
<1>15. n \in Nat \ {0} /\ n + 1 = k
  <2>1. k \in Nat \ {0}
    BY DEF Sites
  <2> QED BY <1>1, <2>1
<1>16. Sites(I, k) /\ Max(I) = z /\ Min(I) = Min(Q)
  <2>1. \A u \in Q : u < z
    BY <1>10
  <2>2. Sites(I, n + 1) /\ Max(I) = z /\ Min(I) = Min(Q)
    BY <1>6, <1>7, <1>14, <2>1, Above
  <2> QED BY <1>15, <2>2
<1>17. Max(K) = x /\ Min(K) = Min(R)
  <2>1. \A u \in R : u < x
    BY <1>2
  <2> QED BY <1>2, <2>1, Above
<1>18. PICK pair : pair = PairScore(other[x], needle[y])
  OBVIOUS
<1>19. pair = PairScore(hay[z], needle[y])
  <2>1. other[x] = hay[z]
    BY <1>2, <1>4 DEF SameTokens
  <2> QED BY <1>18, <2>1
<1>20. PICK old : old = ScoreOf(other, needle, R, S)
  OBVIOUS
<1>21. PICK a, b, c : a = Max(R) /\ b = Max(S) /\ c = Max(Q)
  OBVIOUS
<1>22. a \in Nat /\ b \in Nat /\ c = a + d /\ c \in Nat
  BY <1>2, <1>3, <1>14, <1>21, Ends
<1>23. ScoreOf(other, needle, K, J) = old + pair - (x - 1 - a) - (y - 1 - b) /\ old \in Int
  <2>1. /\ ScoreOf(other, needle, R, S) \in Int
        /\ ScoreOf(other, needle, K, J) =
             ScoreOf(other, needle, R, S) + PairScore(other[x], needle[y]) - (x - 1 - Max(R)) - (y - 1 - Max(S))
    BY <1>2, <1>3, ScoreOfMore
  <2> QED BY <1>18, <1>20, <1>21, <2>1
<1>24. ScoreOf(hay, needle, I, J) = old + pair - (z - 1 - c) - (y - 1 - b)
  <2>1. \A u \in Q : u < z
    BY <1>10
  <2>2. ScoreOf(hay, needle, I, J) =
          ScoreOf(hay, needle, Q, S) + PairScore(hay[z], needle[y]) - (z - 1 - Max(Q)) - (y - 1 - Max(S))
    BY <1>3, <1>6, <1>7, <1>14, <2>1, ScoreOfMore
  <2> QED BY <1>14, <1>19, <1>20, <1>21, <2>2
<1>25. z - 1 - c = x - 1 - a
  BY <1>2, <1>4, <1>22
<1>26. ScoreOf(hay, needle, I, J) = ScoreOf(other, needle, K, J)
  BY <1>23, <1>24, <1>25
<1> QED BY <1>4, <1>14, <1>16, <1>17, <1>26 DEF Moved

LEMMA AllAreMoved ==
    ASSUME NEW d \in Int, NEW hay, NEW other, NEW needle
    PROVE  \A k \in Nat \ {0} : AllMoved(d, k, hay, other, needle)
<1> DEFINE Bad == {k \in Nat \ {0} : ~ AllMoved(d, k, hay, other, needle)}
<1>1. SUFFICES ASSUME Bad # {} PROVE FALSE
  OBVIOUS
<1>2. PICK k \in Bad : \A j \in Bad : k <= j
  <2>1. Bad \subseteq Nat
    OBVIOUS
  <2> QED BY <1>1, <2>1, LeastElement
<1>3. k # 1
  BY <1>2, OneMoved
<1>4. k - 1 \in Nat \ {0} /\ ~ (k <= k - 1)
  BY <1>2, <1>3
<1>5. AllMoved(d, k - 1, hay, other, needle)
  BY <1>2, <1>4
<1>6. AllMoved(d, k, hay, other, needle)
  BY <1>3, <1>5, MoreMoved
<1> QED BY <1>2, <1>6

LEMMA SitesWithin ==
    ASSUME NEW n \in Nat, NEW k
    PROVE  /\ \A I : I \in kSubset(k, 1..n) /\ k \in Nat \ {0} => Sites(I, k) /\ Within(I, n)
           /\ \A I : Sites(I, k) /\ Within(I, n) => I \in kSubset(k, 1..n) /\ k <= n
<1>1. IsFiniteSet(1..n) /\ Cardinality(1..n) = n
  <2>1. 1 \in Int /\ n \in Int
    OBVIOUS
  <2>2. IsFiniteSet(1..n) /\ Cardinality(1..n) = IF 1 > n THEN 0 ELSE n - 1 + 1
    BY <2>1, FS_Interval, Zenon
  <2> QED BY <2>2
<1>2. PICK R : R = 1..n
  OBVIOUS
<1>3. \A x \in R : x \in Nat
  BY <1>2
<1>4. ASSUME NEW I, I \in kSubset(k, R), k \in Nat \ {0} PROVE Sites(I, k) /\ Within(I, n)
  <2>1. I \subseteq R /\ Cardinality(I) = k
    BY <1>4 DEF kSubset
  <2>2. IsFiniteSet(I)
    BY <1>1, <1>2, <2>1, FS_Subset
  <2>3. I \subseteq Nat
    BY <1>3, <2>1
  <2> QED BY <1>2, <1>4, <2>1, <2>2, <2>3 DEF Sites, Within
<1>5. ASSUME NEW I, Sites(I, k), Within(I, n) PROVE I \in kSubset(k, R) /\ k <= n
  <2>1. I \subseteq R /\ Cardinality(I) = k
    BY <1>2, <1>5 DEF Sites, Within
  <2>2. Cardinality(I) <= Cardinality(R)
    BY <1>1, <1>2, <2>1, FS_Subset
  <2> QED BY <1>1, <1>2, <2>1, <2>2 DEF kSubset
<1> QED BY <1>2, <1>4, <1>5

LEMMA BestIs ==
    ASSUME NEW L \in Nat, NEW N \in Nat, NEW hay, NEW needle, L = Len(hay), N = Len(needle),
           NEW v \in Nat, NoneBetter(hay, needle, L, N, v), v = 0 \/ OneAsGood(hay, needle, L, N, v)
    PROVE  BestAlignment(hay, needle) = v
<1> DEFINE of(k) == {ScoreOf(hay, needle, I, J) : I \in kSubset(k, 1..L), J \in kSubset(k, 1..N)}
           K == 1..Min({L, N})
           S == {0} \cup UNION {of(k) : k \in K}
<1>1. BestAlignment(hay, needle) = Max(S)
  BY DEF BestAlignment
<1>2. PICK m \in Nat : m = Min({L, N}) /\ \A k \in Nat : k <= L /\ k <= N => k <= m
  <2>1. Min({L, N}) = IF L <= N THEN L ELSE N
    <3>1. L \in Int /\ N \in Int
      OBVIOUS
    <3>2. Cap(L, N) = IF L <= N THEN L ELSE N
      BY <3>1, CapOf
    <3> QED BY <3>2 DEF Cap
  <2> QED BY <2>1
<1>3. ASSUME NEW k \in K, NEW I \in kSubset(k, 1..L), NEW J \in kSubset(k, 1..N)
      PROVE  ScoreOf(hay, needle, I, J) \in Int /\ ScoreOf(hay, needle, I, J) <= v
  <2>1. k \in Nat \ {0}
    BY <1>2
  <2>2. Sites(I, k) /\ Within(I, L) /\ Sites(J, k) /\ Within(J, N)
    BY <2>1, SitesWithin
  <2>3. ScoreOf(hay, needle, I, J) <= v
    BY <2>1, <2>2 DEF NoneBetter
  <2>4. \E f : Summed(f, hay, needle, I, J, k)
    BY <2>1, SummedUp
  <2> QED BY <2>2, <2>3, <2>4, ScoreIs
<1>4. ASSUME NEW w \in S PROVE w \in Int /\ w <= v
  <2>1. CASE w = 0
    BY <2>1
  <2>2. CASE w # 0
    <3>1. PICK k \in K : w \in of(k)
      BY <2>2, SMTT(30)
    <3>2. \E I \in kSubset(k, 1..L) : \E J \in kSubset(k, 1..N) : w = ScoreOf(hay, needle, I, J)
      BY <3>1
    <3> HIDE DEF K
    <3> QED BY <1>3, <3>2
  <2> QED BY <2>1, <2>2
<1>5. v \in S
  <2>1. CASE v = 0
    BY <2>1
  <2>2. CASE v # 0
    <3>1. PICK I, J, k : /\ Sites(I, k) /\ Sites(J, k) /\ Within(I, L) /\ Within(J, N)
                         /\ ScoreOf(hay, needle, I, J) = v
      BY <2>2 DEF OneAsGood
    <3>2. k \in Nat \ {0}
      BY <3>1 DEF Sites
    <3>3. I \in kSubset(k, 1..L) /\ k <= L /\ J \in kSubset(k, 1..N) /\ k <= N
      BY <3>1, SitesWithin
    <3>4. k \in K
      <4>1. k <= m
        <5> HIDE DEF K, S
        <5> QED BY <1>2, <3>2, <3>3
      <4>2. K = 1..m
        BY <1>2
      <4>3. k \in 1..m
        BY <3>2, <4>1
      <4> QED BY <4>2, <4>3
    <3>5. v \in of(k)
      BY <3>1, <3>3
    <3> HIDE DEF of, K
    <3>6. v \in UNION {of(j) : j \in K}
      BY <3>4, <3>5
    <3> QED BY <3>6
  <2> HIDE DEF S
  <2> QED BY <2>1, <2>2
<1> HIDE DEF S
<1>6. S \in SUBSET Int
  BY <1>4
<1>7. Max(S) = v
  BY <1>4, <1>5, <1>6, MaxIs
<1> QED BY <1>1, <1>7

LEMMA LeastIn == ASSUME NEW S, S \subseteq Nat, S # {} PROVE Min(S) \in S
<1>1. PICK m \in S : \A y \in S : m <= y
  BY LeastElement
<1>2. S \in SUBSET Int
  OBVIOUS
<1> QED BY <1>1, <1>2, MinIs

LEMMA AlignSays ==
    ASSUME NEW L \in Nat, NEW N \in Nat, NEW hay, NEW needle, L = Len(hay), N = Len(needle),
           NEW H, H = Matrix(hay, needle)
    PROVE  Says(Align(hay, needle), H, L, N)
<1> DEFINE cells == (1..L) \X (1..N)
           at(c) == H[c[1] + 1][c[2] + 1]
           score == Max({0} \cup {at(c).score : c \in cells})
           best == {c \in cells : at(c).score = score}
           end == Min({c[1] : c \in best})
           col == Min({c[2] : c \in {e \in best : e[1] = end}})
           start == at(<<end, col>>).start - 1
<1>1. Align(hay, needle) = IF score = 0 THEN [score |-> 0, start |-> 0, end |-> 0]
                           ELSE [score |-> score, start |-> start, end |-> end]
  BY DEF Align
<1>2. Shaped(H, L + 1, needle) /\ Filled(H, hay, needle)
  BY MatrixFilled
<1>3. /\ Scores(hay, needle) \in SUBSET Int /\ IsFiniteSet(Scores(hay, needle))
      /\ Align(hay, needle).score = Top(Scores(hay, needle))
  BY <1>2, ScoresOf
<1>4. {0} \cup {at(c).score : c \in cells} = Scores(hay, needle) \cup {0}
  BY DEF Scores, ScoreAt, Grid
<1>5. score = Top(Scores(hay, needle))
  BY <1>4 DEF Top
<1>6. Scores(hay, needle) = {at(c).score : c \in cells}
  BY DEF Scores, ScoreAt, Grid
<1> HIDE DEF score
<1>7. /\ score \in Nat /\ score \in Scores(hay, needle) \cup {0}
      /\ \A x \in Scores(hay, needle) : x <= score
  BY <1>3, <1>5, TopOf
<1>8. ASSUME NEW i \in 1..L, NEW j \in 1..N PROVE Score(H, i, j) <= score
  <2>1. <<i, j>> \in cells /\ at(<<i, j>>).score = Score(H, i, j)
    BY DEF Score, CellAt
  <2>2. Score(H, i, j) \in Scores(hay, needle)
    BY <1>6, <2>1
  <2> QED BY <1>7, <2>2
<1>9. ASSUME 0 < score
      PROVE  /\ end \in 1..L /\ col \in 1..N
             /\ Score(H, end, col) = score /\ start = CellAt(H, end, col).start - 1
  <2>1. PICK c \in cells : at(c).score = score
    <3>1. score \in Scores(hay, needle)
      BY <1>7, <1>9
    <3> QED BY <1>6, <3>1
  <2>2. PICK rows : rows = {e[1] : e \in best}
    OBVIOUS
  <2>3. rows \subseteq Nat /\ rows # {}
    BY <2>1, <2>2
  <2>4. end \in rows
    BY <2>2, <2>3, LeastIn
  <2> HIDE DEF end
  <2>5. PICK b \in best : b[1] = end
    BY <2>2, <2>4
  <2>6. PICK cols : cols = {e[2] : e \in {f \in best : f[1] = end}}
    OBVIOUS
  <2>7. cols \subseteq Nat /\ cols # {}
    BY <2>5, <2>6
  <2>8. col \in cols
    BY <2>6, <2>7, LeastIn
  <2> HIDE DEF col
  <2>9. PICK e \in best : e[1] = end /\ e[2] = col
    BY <2>6, <2>8
  <2>10. end \in 1..L /\ col \in 1..N
    BY <2>9
  <2>11. at(e).score = score
    BY <2>9
  <2>12. at(e) = CellAt(H, end, col) /\ at(<<end, col>>) = CellAt(H, end, col)
    BY <2>9 DEF CellAt
  <2> QED BY <2>10, <2>11, <2>12 DEF Score
<1>10. CASE score = 0
  <2>1. Align(hay, needle).score = 0
    BY <1>1, <1>10
  <2> QED BY <1>8, <1>10, <2>1 DEF Says
<1>11. CASE score # 0
  <2> HIDE DEF start, end
  <2>1. 0 < score
    BY <1>7, <1>11
  <2>2. PICK a : a = Align(hay, needle)
    OBVIOUS
  <2>3. a.score = score /\ a.start = start /\ a.end = end
    BY <1>1, <1>11, <2>2
  <2> HIDE DEF col
  <2> QED BY <1>7, <1>8, <1>9, <2>1, <2>2, <2>3 DEF Says
<1> QED BY <1>10, <1>11

LEMMA NothingBetter ==
    ASSUME NEW L \in Nat, NEW N \in Nat, NEW hay, NEW needle, L = Len(hay), N = Len(needle),
           NEW H, Filled(H, hay, needle), NEW a, Says(a, H, L, N)
    PROVE  NoneBetter(hay, needle, L, N, a.score)
<1> SUFFICES ASSUME NEW I, NEW J, NEW k \in Nat \ {0},
                    Sites(I, k), Sites(J, k), Within(I, L), Within(J, N)
             PROVE  ScoreOf(hay, needle, I, J) <= a.score
  BY DEF NoneBetter
<1>1. /\ ScoreOf(hay, needle, I, J) \in Int
      /\ ScoreOf(hay, needle, I, J) <= Score(H, Max(I), Max(J))
  BY BoundedAll DEF Bounded
<1>2. Max(I) \in 1..L /\ Max(J) \in 1..N
  BY Ends DEF Within
<1>3. Score(H, Max(I), Max(J)) \in Nat
  BY <1>2, StepsOf
<1>4. Score(H, Max(I), Max(J)) <= a.score /\ a.score \in Nat
  BY <1>2 DEF Says
<1>5. PICK u, w : u = ScoreOf(hay, needle, I, J) /\ w = Score(H, Max(I), Max(J))
  OBVIOUS
<1> QED BY <1>1, <1>3, <1>4, <1>5

LEMMA BestFound ==
    ASSUME NEW L \in Nat, NEW N \in Nat, NEW hay, NEW needle, L = Len(hay), N = Len(needle),
           NEW H, Filled(H, hay, needle), NEW a, Says(a, H, L, N), 0 < a.score
    PROVE  \E I, J, k : Best(I, J, k, hay, needle, L, N, a)
<1>1. PICK j \in 1..N : /\ a.end \in 1..L /\ Score(H, a.end, j) = a.score
                        /\ a.start = CellAt(H, a.end, j).start - 1
  BY DEF Says
<1>2. PICK i : i = a.end
  OBVIOUS
<1>3. i \in 1..L /\ i \in 0..L /\ j \in 0..N /\ i \in Nat /\ j \in Nat
  BY <1>1, <1>2
<1>4. PICK I, J, k : Traces(I, J, k, H, hay, needle, i, j)
  BY <1>1, <1>2, <1>3, TracedAll DEF Traced
<1>5. /\ Sites(I, k) /\ Sites(J, k) /\ Within(I, i) /\ Within(J, j)
      /\ Min(I) = CellAt(H, i, j).start
      /\ a.score = ScoreOf(hay, needle, I, J) - (i - Max(I)) - (j - Max(J))
  BY <1>1, <1>2, <1>4 DEF Traces
<1>6. Within(I, L) /\ Within(J, N)
  BY <1>3, <1>5 DEF Within
<1>7. k \in Nat \ {0}
  BY <1>5 DEF Sites
<1>8. PICK v \in Int : v = ScoreOf(hay, needle, I, J) /\ v <= a.score
  <2>1. ScoreOf(hay, needle, I, J) \in Int
    BY <1>5, <1>6, <1>7, BoundedAll DEF Bounded
  <2>2. NoneBetter(hay, needle, L, N, a.score)
    BY NothingBetter
  <2>3. ScoreOf(hay, needle, I, J) <= a.score
    BY <1>5, <1>6, <1>7, <2>2 DEF NoneBetter
  <2> QED BY <2>1, <2>3
<1>9. Max(I) \in Nat /\ Max(J) \in Nat /\ Max(I) <= i /\ Max(J) <= j
  BY <1>3, <1>5, Ends DEF Within
<1>10. a.score \in Nat
  BY DEF Says
<1>11. Max(I) = i /\ v = a.score
  BY <1>3, <1>5, <1>8, <1>9, <1>10
<1> QED BY <1>1, <1>2, <1>5, <1>6, <1>8, <1>11 DEF Best

LEMMA BestInside ==
    ASSUME NEW L \in Nat, NEW N \in Nat, NEW V, NEW hay \in Seq(V), NEW needle, L = Len(hay),
           N = Len(needle), NEW a, a.score \in Nat, NoneBetter(hay, needle, L, N, a.score),
           NEW I, NEW J, NEW k, Best(I, J, k, hay, needle, L, N, a)
    PROVE  BestAlignment(SubSeq(hay, a.start + 1, a.end), needle) = a.score
<1>1. /\ Sites(I, k) /\ Sites(J, k) /\ Within(I, L) /\ Within(J, N)
      /\ ScoreOf(hay, needle, I, J) = a.score
      /\ a.end = Max(I) /\ a.start = Min(I) - 1
  BY DEF Best
<1>2. PICK b, e : b = Min(I) /\ e = Max(I)
  OBVIOUS
<1>3. /\ b \in 1..L /\ e \in 1..L /\ b <= e /\ b \in Nat /\ e \in Nat
      /\ \A x \in I : b <= x /\ x <= e /\ x \in Nat
  <2>1. b \in I /\ e \in I /\ \A x \in I : b <= x /\ x <= e
    BY <1>1, <1>2, Ends
  <2>2. \A x \in I : x \in 1..L /\ x \in Nat
    BY <1>1 DEF Within
  <2> QED BY <2>1, <2>2
<1>4. PICK d \in Int : d = b - 1
  BY <1>3
<1>5. PICK sub : sub = SubSeq(hay, b, e)
  OBVIOUS
<1>6. PICK M \in Nat : M = e - b + 1
  BY <1>3
<1>7. Len(sub) = M /\ \A x \in 1..M : sub[x] = hay[x + d]
  <2>1. \A x \in b..e : hay[x] \in V
    <3>1. \A x \in b..e : x \in 1..Len(hay)
      BY <1>3
    <3> QED BY <3>1, ElementOfSeq
  <2>2. b \in Int /\ e \in Int
    BY <1>3
  <2>3. /\ Len(sub) = IF b <= e THEN e - b + 1 ELSE 0
        /\ \A x \in 1..(e - b + 1) : sub[x] = hay[b + x - 1]
    BY <1>5, <2>1, <2>2, SubSeqProperties
  <2>4. \A x \in 1..M : b + x - 1 = x + d
    BY <1>3, <1>4
  <2> QED BY <1>3, <1>6, <2>3, <2>4
<1>8. SubSeq(hay, a.start + 1, a.end) = sub
  <2>1. (b - 1) + 1 = b
    BY <1>3
  <2> QED BY <1>1, <1>2, <1>5, <2>1
<1>9. NoneBetter(sub, needle, M, N, a.score)
  <2> SUFFICES ASSUME NEW K, NEW T, NEW n \in Nat \ {0},
                      Sites(K, n), Sites(T, n), Within(K, M), Within(T, N)
               PROVE  ScoreOf(sub, needle, K, T) <= a.score
    BY DEF NoneBetter
  <2>1. PICK A : A = {x + d : x \in K}
    OBVIOUS
  <2>2. \A x \in K : x \in 1..M /\ x \in Int /\ x + d \in 1..L /\ x + d \in Nat /\ (x + d) - d \in K
    <3> SUFFICES ASSUME NEW x \in K
                 PROVE  x \in 1..M /\ x \in Int /\ x + d \in 1..L /\ x + d \in Nat /\ (x + d) - d \in K
      OBVIOUS
    <3>1. x \in 1..M
      BY DEF Within
    <3>2. x + d \in 1..L /\ (x + d) - d = x
      BY <1>3, <1>4, <1>6, <3>1
    <3> QED BY <3>1, <3>2
  <2>3. MovedBy(A, K, d) /\ Within(A, L)
    <3>1. \A z \in A : \E x \in K : z = x + d
      BY <2>1
    <3>2. \A x \in K : x + d \in A
      BY <2>1
    <3>3. \A z \in A : z \in 1..L /\ z \in Nat /\ z - d \in K
      BY <2>2, <3>1
    <3> QED BY <3>2, <3>3 DEF MovedBy, Within
  <2>4. SameTokens(hay, sub, K, d)
    BY <1>7, <2>2 DEF SameTokens
  <2>5. Moved(A, K, T, d, n, hay, sub, needle)
    BY <2>3, <2>4, AllAreMoved DEF AllMoved
  <2>6. Sites(A, n) /\ ScoreOf(hay, needle, A, T) = ScoreOf(sub, needle, K, T)
    BY <2>5 DEF Moved
  <2> QED BY <2>3, <2>6 DEF NoneBetter
<1>10. OneAsGood(sub, needle, M, N, a.score)
  <2>1. PICK K : K = {x - d : x \in I}
    OBVIOUS
  <2>2. PICK c \in Int : c = 0 - d
    OBVIOUS
  <2>3. \A x \in I : x - d = x + c /\ x + c \in 1..M /\ x + c \in Nat /\ (x + c) - c = x
                     /\ (x + c) + d = x
    BY <1>3, <1>4, <1>6, <2>2, SMTT(30)
  <2>4. MovedBy(K, I, c) /\ Within(K, M)
    <3>1. \A z \in K : \E x \in I : z = x + c
      BY <2>1, <2>3
    <3>2. \A x \in I : x + c \in K
      BY <2>1, <2>3
    <3>3. \A z \in K : z \in 1..M /\ z \in Nat /\ z - c \in I
      BY <2>3, <3>1
    <3> QED BY <3>2, <3>3 DEF MovedBy, Within
  <2>5. SameTokens(sub, hay, I, c)
    <3> SUFFICES ASSUME NEW x \in I PROVE hay[x] = sub[x + c]
      BY DEF SameTokens
    <3>1. x + c \in 1..M /\ (x + c) + d = x
      BY <2>3
    <3>2. PICK z : z = x + c
      OBVIOUS
    <3>3. sub[z] = hay[z + d] /\ z + d = x
      BY <1>7, <3>1, <3>2
    <3> QED BY <3>2, <3>3
  <2>6. k \in Nat \ {0}
    BY <1>1 DEF Sites
  <2>7. Moved(K, I, J, c, k, sub, hay, needle)
    BY <1>1, <2>4, <2>5, <2>6, AllAreMoved DEF AllMoved
  <2>8. Sites(K, k) /\ ScoreOf(sub, needle, K, J) = ScoreOf(hay, needle, I, J)
    BY <2>7 DEF Moved
  <2> QED BY <1>1, <2>4, <2>8 DEF OneAsGood
<1>11. BestAlignment(sub, needle) = a.score
  BY <1>7, <1>9, <1>10, BestIs
<1> QED BY <1>8, <1>11

LEMMA AlignmentIsExact ==
    ASSUME NEW V, NEW hay \in Seq(V), NEW needle, Len(needle) \in Nat, NEW a, a = Align(hay, needle)
    PROVE  /\ a.score = BestAlignment(hay, needle)
           /\ a.score > 0 => BestAlignment(SubSeq(hay, a.start + 1, a.end), needle) = a.score
<1>1. PICK L \in Nat : L = Len(hay)
  BY LenProperties
<1>2. PICK N \in Nat : N = Len(needle)
  OBVIOUS
<1>3. PICK H : H = Matrix(hay, needle)
  OBVIOUS
<1>4. Filled(H, hay, needle)
  BY <1>1, <1>2, <1>3, MatrixFilled
<1>5. Says(a, H, L, N)
  BY <1>1, <1>2, <1>3, AlignSays
<1>6. NoneBetter(hay, needle, L, N, a.score) /\ a.score \in Nat
  BY <1>1, <1>2, <1>4, <1>5, NothingBetter DEF Says
<1>7. CASE 0 < a.score
  <2>1. PICK I, J, k : Best(I, J, k, hay, needle, L, N, a)
    BY <1>1, <1>2, <1>4, <1>5, <1>7, BestFound
  <2>2. OneAsGood(hay, needle, L, N, a.score)
    BY <2>1 DEF Best, OneAsGood
  <2>3. BestAlignment(hay, needle) = a.score
    BY <1>1, <1>2, <1>6, <2>2, BestIs
  <2>4. BestAlignment(SubSeq(hay, a.start + 1, a.end), needle) = a.score
    BY <1>1, <1>2, <1>6, <2>1, BestInside
  <2> QED BY <2>3, <2>4
<1>8. CASE ~ (0 < a.score)
  <2>1. a.score = 0
    BY <1>6, <1>8
  <2>2. BestAlignment(hay, needle) = 0
    <3>1. 0 \in Nat /\ NoneBetter(hay, needle, L, N, 0)
      BY <1>6, <2>1
    <3> QED BY <1>1, <1>2, <3>1, BestIs
  <2> QED BY <2>1, <2>2
<1> QED BY <1>7, <1>8

(* The score d028 reports for an attack it looks for in a list of tokens   *)
(* is that of the best of all ways to align the two, and the tokens it     *)
(* reports hold an alignment of that score.                                *)
(* (d028_sequence_alignment.py: _align.)                                   *)
THEOREM AlignmentIsBest == Analysis => []AlignmentExact
<1>1. Sound => AlignmentExact
  <2> SUFFICES ASSUME Sound, bench.kind = "tokens", NEW needle \in Needles,
                      NEW a, a = Align(list, needle)
               PROVE  /\ a.score = BestAlignment(list, needle)
                      /\ a.score > 0 => BestAlignment(SubSeq(list, a.start + 1, a.end), needle) = a.score
    BY DEF AlignmentExact
  <2>1. list \in Seq(Vocabulary)
    BY DEF Sound
  <2>2. Len(needle) \in Nat
    <3>1. needle \in Seq({needle[j] : j \in DOMAIN needle})
      BY AlignmentAssumption
    <3> QED BY <3>1, LenProperties
  <2> QED BY <2>1, <2>2, AlignmentIsExact
<1> QED BY <1>1, SoundHolds, PTL
=============================================================================
