------------------------- MODULE AttackVault_proofs -------------------------
(***************************************************************************)
(* No hash twice, no import that loses an entry, nothing exported that was *)
(* imported, and a bounded contamination: for every number of              *)
(* installations, all feeds and every relation of similarity.              *)
(***************************************************************************)
EXTENDS AttackVault, FiniteSetTheorems, SequenceTheorems, TLAPS

(* What the scans of v stored, and the ids they have used up.              *)
OwnIds(v) == {v} \X (1..stored)

(* Who wrote an entry can be told from its metadata.                       *)
Traced(v) == \A e \in entries[v] :
    /\ e.source = "local" => e.keys = StoredKeys /\ e.id \in OwnIds(v)
    /\ e.source = "feed" => /\ e.keys = ImportedKeys
                            /\ [id |-> e.id, text |-> e.text, hash |-> e.hash] \in FeedEntries

(* A feed file of v is about entries of v.                                 *)
OwnFeed(v) == \A f \in ToSet(feed[v]) : f \in Exported /\ f.id \in OwnIds(v)

(* A file to import is a published feed or somebody's export; what is left *)
(* to do is of it.                                                         *)
Origin(v) ==
    \/ ToSet(import[v].file) \subseteq PublishedEntries
    \/ \A f \in ToSet(import[v].file) : f \in Exported /\ f.id[2] <= stored

Remains(v) == /\ import[v].at = "idle" => import[v].todo = <<>> /\ import[v].file = <<>>
              /\ ToSet(import[v].todo) \subseteq ToSet(import[v].file)

(* The set of known hashes, read once, still covers the collection.        *)
SeenCovers(v) == import[v].at = "adding" =>
    \A e \in entries[v] : "pattern_hash" \in e.keys => e.hash \in import[v].seen

(* Of the entries of v that v exported, all are in the vault or none is:   *)
(* nothing but clear() removes any.                                        *)
Whole(v, file) ==
    (\E f \in ToSet(file), e \in entries[v] : e.source = "local" /\ e.id = f.id)
        => \A f \in ToSet(file) : \E e \in entries[v] : e.id = f.id
WholeFeeds(v) == Whole(v, feed[v]) /\ Whole(v, import[v].file)

Held(v, h) == \E e \in entries[v] : "pattern_hash" \in e.keys /\ e.hash = h
Present(v, f) == (\E e \in entries[v] : e.id = f.id) \/ Held(v, f.hash)

(* What an import has done, and what its set of known hashes stands for:   *)
(* a hash it skips is in the vault, or all that has the hash is.           *)
Progress(v) == (import[v].at = "adding" /\ ~ import[v].cleared) =>
    /\ \A f \in ToSet(import[v].file) : f \in ToSet(import[v].todo) \/ Present(v, f)
    /\ \A h \in import[v].seen :
          Held(v, h) \/ \A f \in ToSet(import[v].file) : f.hash = h => Present(v, f)

(* Whatever contains the sources and is closed under variants contains all *)
(* that is stored, published or about to be stored.                        *)
Closed(S) == S \in SUBSET Texts /\ Sources \cup VariantsOf(S) \subseteq S
Within(S, v) ==
    /\ \A e \in entries[v] : e.text \in S
    /\ \A f \in ToSet(feed[v]) \cup ToSet(import[v].file) : f.text \in S
    /\ scan[v].verdict = "high" => scan[v].text \in S
Contained(v) == \A S \in SUBSET Texts : Closed(S) => Within(S, v)

Distinct(v) == \A e, x \in entries[v] :
    ("pattern_hash" \in e.keys /\ "pattern_hash" \in x.keys /\ e.hash = x.hash) => e = x

Consistent(v) ==
    /\ IsFiniteSet(entries[v]) /\ Distinct(v)
    /\ Traced(v) /\ OwnFeed(v) /\ Origin(v) /\ Remains(v)
    /\ SeenCovers(v) /\ WholeFeeds(v) /\ Progress(v) /\ Contained(v)

IInv == VaultTypeOK /\ \A v \in Vaults : Consistent(v)
-----------------------------------------------------------------------------
(* A sequence is its head and the rest.                                    *)
LEMMA HeadAndTail ==
    ASSUME NEW S, NEW s \in Seq(S)
    PROVE  /\ ToSet(s) \subseteq S
           /\ s # <<>> => /\ Head(s) \in S /\ Tail(s) \in Seq(S)
                          /\ ToSet(s) = {Head(s)} \cup ToSet(Tail(s))
<1>1. ToSet(s) \subseteq S
  BY DEF ToSet
<1>2. ASSUME s # <<>>
      PROVE  /\ Head(s) \in S /\ Tail(s) \in Seq(S)
             /\ ToSet(s) = {Head(s)} \cup ToSet(Tail(s))
  <2>1. PICK n \in Nat : DOMAIN s = 1..n /\ Len(s) = n
    OBVIOUS
  <2>2. n > 0 /\ Head(s) = s[1] /\ Tail(s) \in Seq(S) /\ Len(Tail(s)) = n - 1
    BY <1>2, <2>1, HeadTailProperties
  <2>3. \A i \in 1..n - 1 : Tail(s)[i] = s[i + 1]
    BY <1>2, <2>1, <2>2, HeadTailProperties
  <2>4. DOMAIN Tail(s) = 1..n - 1
    BY <2>1, <2>2, LenProperties
  <2>5. ASSUME NEW x \in ToSet(s) PROVE x \in {Head(s)} \cup ToSet(Tail(s))
    <3>1. PICK i \in 1..n : x = s[i]
      BY <2>1 DEF ToSet
    <3>2. CASE i = 1
      BY <2>2, <3>1, <3>2
    <3>3. CASE i # 1
      <4>1. i - 1 \in 1..n - 1 /\ Tail(s)[i - 1] = s[i]
        BY <2>1, <2>3, <3>1, <3>3
      <4> QED BY <2>4, <3>1, <4>1 DEF ToSet
    <3> QED BY <3>2, <3>3
  <2>6. ASSUME NEW x \in {Head(s)} \cup ToSet(Tail(s)) PROVE x \in ToSet(s)
    <3>1. CASE x = Head(s)
      BY <2>1, <2>2, <3>1 DEF ToSet
    <3>2. CASE x \in ToSet(Tail(s))
      <4>1. PICK i \in 1..n - 1 : x = Tail(s)[i]
        BY <2>4, <3>2 DEF ToSet
      <4>2. i + 1 \in 1..n /\ x = s[i + 1]
        BY <2>1, <2>3, <4>1
      <4> QED BY <2>1, <4>2 DEF ToSet
    <3> QED BY <2>6, <3>1, <3>2
  <2>7. Head(s) \in S
    BY <1>2, HeadTailProperties
  <2> QED BY <2>2, <2>5, <2>6, <2>7
<1> QED BY <1>1, <1>2

(* A finite set can be written down as a sequence.                         *)
LEMMA WrittenDown ==
    ASSUME NEW S, IsFiniteSet(S)
    PROVE  SetToSeq(S) \in Seq(S) /\ ToSet(SetToSeq(S)) \subseteq S
<1> DEFINE n == Cardinality(S)
<1>1. n \in Nat /\ ExistsBijection(1..n, S)
  BY FS_CardinalityType
<1>2. \E f \in [1..n -> S] : IsInjective(f)
  BY <1>1 DEF ExistsBijection, Bijection, Injection, IsInjective
<1>3. SetToSeq(S) \in [1..n -> S]
  BY <1>2 DEF SetToSeq
<1>4. SetToSeq(S) \in Seq(S)
  BY <1>1, <1>3
<1> QED BY <1>4, HeadAndTail

(* The entries of a feed are records about texts.                          *)
LEMMA FeedRecords ==
    /\ Published \subseteq Seq(FeedEntries)
    /\ \A f \in FeedEntries : /\ f = [id |-> f.id, text |-> f.text, hash |-> f.hash]
                              /\ f.text \in Texts /\ f.hash \in Texts \cup {""}
<1>1. \A f \in Published : f \in Seq(PublishedEntries)
  BY VaultAssumption
<1>2. PublishedEntries \subseteq FeedEntries
  BY DEF FeedEntries
<1>3. Published \subseteq Seq(FeedEntries)
  BY <1>1, <1>2, SeqMonotonic
<1>4. \A f \in Exported : /\ f = [id |-> f.id, text |-> f.text, hash |-> f.hash]
                          /\ f.text \in Texts /\ f.hash \in Texts \cup {""}
  <2> TAKE f \in Exported
  <2>1. f \in [id : Vaults \X (1..MaxStored), text : Texts, hash : {""}]
    BY DEF Exported
  <2>2. f.text \in Texts /\ f.hash = ""
    BY <2>1
  <2>3. f = [id |-> f.id, text |-> f.text, hash |-> f.hash]
    BY <2>1
  <2> QED BY <2>2, <2>3
<1>5. \A f \in PublishedEntries : /\ f = [id |-> f.id, text |-> f.text, hash |-> f.hash]
                                  /\ f.text \in Texts /\ f.hash \in Texts \cup {""}
  BY VaultAssumption
<1> QED BY <1>3, <1>4, <1>5 DEF FeedEntries

(* An imported entry is one.                                               *)
LEMMA ImportedTypes ==
    ASSUME NEW f \in FeedEntries
    PROVE  ImportedEntry(f) \in Entries
<1>1. f.id \in {e.id : e \in FeedEntries} /\ f.text \in Texts /\ f.hash \in Texts \cup {""}
  BY FeedRecords
<1> QED BY <1>1 DEF ImportedEntry, Entries

LEMMA LocalTypes ==
    ASSUME NEW v \in Vaults, NEW t \in Texts, stored \in 0..MaxStored, stored < MaxStored
    PROVE  LocalEntry(v, t) \in Entries
<1>1. stored + 1 \in 1..MaxStored
  BY VaultAssumption
<1>2. PICK e \in FeedEntries : e.id = <<v, stored + 1>>
  <2>1. [id |-> <<v, stored + 1>>, text |-> t, hash |-> ""] \in FeedEntries
    BY <1>1 DEF FeedEntries, Exported
  <2> QED BY <2>1
<1>3. <<v, stored + 1>> \in {x.id : x \in FeedEntries}
  BY <1>2
<1> QED BY <1>3 DEF LocalEntry, Entries

(* No entry has the metadata by which feedback() looks for entries.        *)
LEMMA NothingCleanedUp ==
    ASSUME VaultTypeOK, NEW v \in Vaults, NEW t \in Texts
    PROVE  CleanedUp(entries[v], t) = {}
<1>1. \A e \in entries[v] : e.keys \in {StoredKeys, ImportedKeys}
  <2>1. entries[v] \subseteq Entries
    BY DEF VaultTypeOK
  <2> QED BY <2>1 DEF Entries
<1>2. "attack_hash" \notin StoredKeys /\ "attack_hash" \notin ImportedKeys
  BY DEF StoredKeys, ImportedKeys
<1> QED BY <1>1, <1>2 DEF CleanedUp
-----------------------------------------------------------------------------
LEMMA StoredIsNumber ==
    ASSUME VaultTypeOK
    PROVE  stored \in Nat /\ stored <= MaxStored /\ MaxStored \in Nat
<1>1. MaxStored \in Nat
  BY VaultAssumption
<1>2. stored \in 0..MaxStored
  BY DEF VaultTypeOK
<1> QED BY <1>1, <1>2

LEMMA TypesOf ==
    ASSUME VaultTypeOK, NEW v \in Vaults
    PROVE  /\ entries[v] \subseteq Entries
           /\ open[v] \in BOOLEAN
           /\ scan[v].text \in Texts \cup {NoText}
           /\ scan[v].verdict \in {"none", "clean", "low", "high"}
           /\ import[v].at \in {"idle", "adding"} /\ import[v].cleared \in BOOLEAN
           /\ import[v].file \in Seq(FeedEntries) /\ import[v].todo \in Seq(FeedEntries)
           /\ import[v].seen \subseteq Texts \cup {""}
           /\ feed[v] \in Seq(FeedEntries)
           /\ stored \in Nat /\ stored <= MaxStored /\ MaxStored \in Nat
<1>1. entries[v] \in SUBSET Entries /\ open[v] \in BOOLEAN /\ feed[v] \in Seq(FeedEntries)
  BY DEF VaultTypeOK
<1>2. scan[v] \in [text : Texts \cup {NoText}, verdict : {"none", "clean", "low", "high"}]
  BY DEF VaultTypeOK
<1>3. import[v] \in [at : {"idle", "adding"}, file : Seq(FeedEntries),
                     todo : Seq(FeedEntries), seen : SUBSET (Texts \cup {""}),
                     cleared : BOOLEAN]
  BY DEF VaultTypeOK
<1>5. import[v].seen \in SUBSET (Texts \cup {""})
  BY <1>3
<1> QED BY <1>1, <1>2, <1>3, <1>5, StoredIsNumber

LEMMA ExportedIds ==
    \A f \in Exported : f.id \in Vaults \X (1..MaxStored) /\ f.id[2] \in Nat /\ f.hash = ""
<1> TAKE f \in Exported
<1>1. f.id \in Vaults \X (1..MaxStored) /\ f.hash = ""
  BY DEF Exported
<1>2. f.id[2] \in 1..MaxStored
  BY <1>1
<1>3. f.id[2] \in Nat
  BY <1>2
<1> QED BY <1>1, <1>3

(* What the invariant says of a vault holds on while the vault, its feed   *)
(* and its import stay as they are.                                        *)
LEMMA Untouched ==
    ASSUME VaultTypeOK, NEW v \in Vaults, Consistent(v),
           entries'[v] = entries[v], import'[v] = import[v], feed'[v] = feed[v],
           scan'[v] = scan[v] \/ scan'[v].verdict # "high",
           stored' \in {stored, stored + 1}
    PROVE  Consistent(v)'
<1> USE DEF Consistent
<1>1. stored \in Nat /\ stored' \in Nat /\ stored <= stored' /\ 1..stored \subseteq 1..stored'
  <2>1. stored \in Nat
    BY TypesOf
  <2> QED BY <2>1
<1>2. IsFiniteSet(entries[v])' /\ Distinct(v)'
  BY DEF Distinct
<1>3. OwnIds(v) \subseteq OwnIds(v)'
  BY <1>1 DEF OwnIds
<1>4. Traced(v)' /\ OwnFeed(v)'
  BY <1>3 DEF Traced, OwnFeed
<1>5. Origin(v)'
  <2>1. CASE ToSet(import[v].file) \subseteq PublishedEntries
    BY <2>1 DEF Origin
  <2>2. CASE \A f \in ToSet(import[v].file) : f \in Exported /\ f.id[2] <= stored
    <3>1. \A f \in Exported : f.id[2] \in Nat
      BY ExportedIds
    <3>2. \A f \in ToSet(import[v].file) : f \in Exported /\ f.id[2] <= stored'
      BY <1>1, <2>2, <3>1
    <3> QED BY <3>2 DEF Origin
  <2> QED BY <2>1, <2>2 DEF Origin
<1>6. Remains(v)' /\ SeenCovers(v)'
  BY DEF Remains, SeenCovers
<1>7. WholeFeeds(v)'
  BY DEF WholeFeeds, Whole
<1>8. Progress(v)'
  BY DEF Progress, Present, Held
<1>9. Contained(v)'
  BY DEF Contained, Within, Closed
<1> QED BY <1>2, <1>4, <1>5, <1>6, <1>7, <1>8, <1>9

(* An action on v leaves the other vaults alone.                           *)
LEMMA Elsewhere ==
    ASSUME IInv, NEW v \in Vaults, Consistent(v)', VaultTypeOK',
           \A w \in Vaults \ {v} : /\ entries'[w] = entries[w] /\ import'[w] = import[w]
                                   /\ feed'[w] = feed[w] /\ scan'[w] = scan[w],
           stored' \in {stored, stored + 1}
    PROVE  IInv'
<1>1. \A w \in Vaults \ {v} : Consistent(w)'
  BY Untouched DEF IInv
<1> QED BY <1>1 DEF IInv
-----------------------------------------------------------------------------
(* The scans.                                                              *)
LEMMA DetectKeeps ==
    ASSUME IInv, NEW v \in Vaults, NEW t \in Texts, Detect(v, t)
    PROVE  IInv'
<1> USE DEF IInv
<1>1. VaultTypeOK'
  <2>1. Verdict(v, t) \in {"none", "clean", "low", "high"}
    BY DEF Verdict
  <2> QED BY <2>1 DEF Detect, VaultTypeOK
<1>2. scan'[v] = [text |-> t, verdict |-> Verdict(v, t)]
  BY DEF Detect, VaultTypeOK
<1>3. Contained(v)'
  <2> SUFFICES ASSUME NEW S \in SUBSET Texts, Closed(S) PROVE Within(S, v)'
    BY DEF Contained, Closed, Sources, VariantsOf
  <2>1. Within(S, v)
    BY DEF Consistent, Contained
  <2>2. ASSUME Verdict(v, t) = "high" PROVE t \in S
    <3>1. CASE t \in Strong
      BY <3>1 DEF Closed, Sources
    <3>2. CASE Matches(entries[v], t)
      <4>1. PICK e \in entries[v] : <<t, e.text>> \in Similar
        BY <3>2 DEF Matches
      <4>2. e.text \in S
        BY <2>1 DEF Within
      <4> QED BY <4>1, <4>2 DEF Closed, VariantsOf
    <3> QED BY <2>2, <3>1, <3>2 DEF Verdict
  <2> QED BY <1>2, <2>1, <2>2 DEF Within, Detect
<1>4. Consistent(v)'
  <2>1. UNCHANGED <<entries, import, feed, stored>>
    BY DEF Detect
  <2>2. Consistent(v)
    OBVIOUS
  <2> QED BY <1>3, <2>1, <2>2
          DEF Consistent, Distinct, Traced, OwnIds, OwnFeed, Origin, Remains, SeenCovers,
              WholeFeeds, Whole, Progress, Present, Held
<1>5. \A w \in Vaults \ {v} : /\ entries'[w] = entries[w] /\ import'[w] = import[w]
                               /\ feed'[w] = feed[w] /\ scan'[w] = scan[w]
  BY DEF Detect, VaultTypeOK
<1>6. stored' = stored
  BY DEF Detect
<1> QED BY <1>1, <1>4, <1>5, <1>6, Elsewhere

LEMMA FinishKeeps ==
    ASSUME IInv, NEW v \in Vaults, Finish(v)
    PROVE  IInv'
<1> USE DEF IInv
<1>1. VaultTypeOK'
  BY DEF Finish, VaultTypeOK, NoScan
<1>2. scan'[v].verdict = "none"
  BY DEF Finish, VaultTypeOK, NoScan
<1>3. UNCHANGED <<entries, import, feed, stored>>
  BY DEF Finish
<1>4. Consistent(v)'
  BY <1>2, <1>3, Untouched
<1>5. \A w \in Vaults \ {v} : /\ entries'[w] = entries[w] /\ import'[w] = import[w]
                               /\ feed'[w] = feed[w] /\ scan'[w] = scan[w]
  BY DEF Finish, VaultTypeOK
<1> QED BY <1>1, <1>3, <1>4, <1>5, Elsewhere
(* What is about to be stored is a text, within every closed set.          *)
LEMMA HighIsText ==
    ASSUME NEW v \in Vaults, Consistent(v), scan[v].verdict = "high"
    PROVE  scan[v].text \in Texts /\ \A S \in SUBSET Texts : Closed(S) => scan[v].text \in S
<1>1. \A S \in SUBSET Texts : Closed(S) => scan[v].text \in S
  BY DEF Consistent, Contained, Within
<1>2. Closed(Texts)
  BY VaultAssumption DEF Closed, Sources, VariantsOf
<1> QED BY <1>1, <1>2

(* An entry stored under a new id: no feed has the id yet.                 *)
LEMMA NewLocalEntry ==
    ASSUME IInv, NEW v \in Vaults, NEW t \in Texts,
           \A S \in SUBSET Texts : Closed(S) => t \in S,
           entries'[v] = entries[v] \cup {LocalEntry(v, t)},
           import'[v] = import[v], feed'[v] = feed[v], scan'[v].verdict # "high",
           stored' = stored + 1, stored + 1 \in 0..MaxStored
    PROVE  Consistent(v)'
<1> DEFINE e0 == LocalEntry(v, t)
<1> USE DEF IInv
<1>1. /\ e0.keys = StoredKeys /\ e0.source = "local" /\ e0.id = <<v, stored + 1>>
      /\ e0.text = t /\ "pattern_hash" \notin e0.keys
  BY DEF LocalEntry, StoredKeys
<1> HIDE DEF e0
<1>2. entries'[v] = entries[v] \cup {e0}
  BY DEF e0
<1>3. stored \in Nat /\ stored + 1 \in 1..MaxStored
  BY StoredIsNumber
<1>4. OwnIds(v) \subseteq OwnIds(v)' /\ e0.id \in OwnIds(v)' /\ e0.id \notin OwnIds(v)
  BY <1>1, <1>3 DEF OwnIds
<1>5. Consistent(v)
  OBVIOUS
<1>6. IsFiniteSet(entries[v])'
  <2>1. IsFiniteSet(entries[v])
    BY <1>5 DEF Consistent
  <2> QED BY <1>2, <2>1, FS_AddElement
<1>7. Distinct(v)'
  BY <1>1, <1>2, <1>5 DEF Consistent, Distinct
<1>8. Traced(v)' /\ OwnFeed(v)'
  BY <1>1, <1>2, <1>4, <1>5 DEF Consistent, Traced, OwnFeed
<1>9. Remains(v)' /\ SeenCovers(v)'
  BY <1>1, <1>2, <1>5 DEF Consistent, Remains, SeenCovers
<1>10. Origin(v)'
  <2>1. CASE ToSet(import[v].file) \subseteq PublishedEntries
    BY <2>1 DEF Origin
  <2>2. CASE \A f \in ToSet(import[v].file) : f \in Exported /\ f.id[2] <= stored
    <3>1. \A f \in Exported : f.id[2] \in Nat
      BY ExportedIds
    <3>2. \A f \in ToSet(import[v].file) : f \in Exported /\ f.id[2] <= stored'
      BY <1>3, <2>2, <3>1
    <3> QED BY <3>2 DEF Origin
  <2> QED BY <1>5, <2>1, <2>2 DEF Consistent, Origin
<1>11. \A f \in ToSet(feed[v]) \cup ToSet(import[v].file) : f.id # e0.id
  <2>1. ASSUME NEW f \in ToSet(feed[v]) PROVE f.id # e0.id
    BY <1>4, <1>5 DEF Consistent, OwnFeed
  <2>2. ASSUME NEW f \in ToSet(import[v].file), f \in PublishedEntries PROVE f.id # e0.id
    <3>1. e0.id \in Vaults \X (1..MaxStored)
      BY <1>1, <1>3
    <3> QED BY <2>2, <3>1, IdAssumption
  <2>3. ASSUME NEW f \in ToSet(import[v].file), f.id[2] <= stored PROVE f.id # e0.id
    BY <1>1, <1>3, <2>3
  <2> QED BY <1>5, <2>1, <2>2, <2>3 DEF Consistent, Origin
<1>12. WholeFeeds(v)'
  <2>1. \A file : Whole(v, file) /\ (\A f \in ToSet(file) : f.id # e0.id) => Whole(v, file)'
    BY <1>2 DEF Whole
  <2>2. Whole(v, feed[v])' /\ Whole(v, import[v].file)'
    BY <1>5, <1>11, <2>1 DEF Consistent, WholeFeeds, Whole
  <2> QED BY <2>2 DEF WholeFeeds
<1>13. Progress(v)'
  BY <1>2, <1>5 DEF Consistent, Progress, Present, Held
<1>14. Contained(v)'
  <2> SUFFICES ASSUME NEW S \in SUBSET Texts, Closed(S) PROVE Within(S, v)'
    BY DEF Contained, Closed, Sources, VariantsOf
  <2>1. Within(S, v)
    BY <1>5 DEF Consistent, Contained
  <2> QED BY <1>1, <1>2, <2>1 DEF Within
<1> QED BY <1>6, <1>7, <1>8, <1>9, <1>10, <1>12, <1>13, <1>14 DEF Consistent

(* Store: what the scan flagged, under an id of its own, or nothing.       *)
LEMMA StoreKeeps ==
    ASSUME IInv, NEW v \in Vaults, Store(v)
    PROVE  IInv'
<1> USE DEF IInv
<1> DEFINE t == scan[v].text
           e0 == LocalEntry(v, t)
<1>1. scan' = [scan EXCEPT ![v] = NoScan] /\ UNCHANGED <<open, import, feed>>
  BY DEF Store
<1>2. /\ scan'[v].verdict = "none"
      /\ \A w \in Vaults \ {v} : scan'[w] = scan[w]
  BY <1>1 DEF VaultTypeOK, NoScan
<1>3. scan' \in [Vaults -> [text : Texts \cup {NoText},
                            verdict : {"none", "clean", "low", "high"}]]
  BY <1>1 DEF VaultTypeOK, NoScan
<1>4. CASE UNCHANGED <<entries, stored, dismissed>>
  <2>1. VaultTypeOK'
    BY <1>1, <1>3, <1>4 DEF VaultTypeOK
  <2>2. Consistent(v)'
    BY <1>1, <1>2, <1>4, Untouched
  <2> QED BY <1>1, <1>2, <1>4, <2>1, <2>2, Elsewhere
<1>5. CASE /\ stored < MaxStored
           /\ entries' = [entries EXCEPT ![v] = Added(@, e0)]
           /\ stored' = stored + 1
           /\ dismissed' = [dismissed EXCEPT ![v] = @ \ {t}]
  <2>1. t \in Texts /\ \A S \in SUBSET Texts : Closed(S) => t \in S
    <3>1. scan[v].verdict = "high"
      BY DEF Store, WorthStoring
    <3> QED BY <3>1, HighIsText
  <2>2. stored \in Nat /\ stored + 1 \in 0..MaxStored
    BY <1>5, StoredIsNumber
  <2>3. e0 \in Entries
    BY <1>5, <2>1, LocalTypes DEF VaultTypeOK
  <2>4. /\ entries'[v] = Added(entries[v], e0)
        /\ \A w \in Vaults \ {v} : entries'[w] = entries[w]
    BY <1>5 DEF VaultTypeOK
  <2>5. entries'[v] \in {entries[v], entries[v] \cup {e0}}
    BY <2>4 DEF Added
  <2>6. VaultTypeOK'
    <3>1. Added(entries[v], e0) \in SUBSET Entries
      <4>1. entries[v] \in SUBSET Entries
        BY DEF VaultTypeOK
      <4> QED BY <2>3, <2>4, <2>5, <4>1
    <3>2. entries' \in [Vaults -> SUBSET Entries]
      BY <1>5, <3>1 DEF VaultTypeOK
    <3>3. dismissed' \in [Vaults -> SUBSET Texts]
      BY <1>5 DEF VaultTypeOK
    <3> QED BY <1>1, <1>3, <1>5, <2>2, <3>2, <3>3 DEF VaultTypeOK
  <2>7. Consistent(v)'
    <3>1. CASE entries'[v] = entries[v]
      BY <1>1, <1>2, <1>5, <3>1, Untouched
    <3>2. CASE entries'[v] = entries[v] \cup {e0}
      BY <1>1, <1>2, <1>5, <2>1, <2>2, <3>2, NewLocalEntry
    <3> QED BY <2>5, <3>1, <3>2
  <2> QED BY <1>1, <1>2, <1>5, <2>4, <2>6, <2>7, Elsewhere
<1> QED BY <1>4, <1>5 DEF Store
-----------------------------------------------------------------------------
(* The feedback removes nothing.                                           *)
LEMMA FalsePositiveKeeps ==
    ASSUME IInv, NEW v \in Vaults, NEW t \in Texts, FalsePositive(v, t)
    PROVE  IInv'
<1> USE DEF IInv
<1>1. UNCHANGED <<open, scan, import, feed, stored>>
  BY DEF FalsePositive
<1>2. entries' = entries
  <2>1. CleanedUp(entries[v], t) = {}
    BY NothingCleanedUp
  <2>2. entries' = [entries EXCEPT ![v] = entries[v]]
    BY <2>1 DEF FalsePositive
  <2> QED BY <2>2 DEF VaultTypeOK
<1>3. VaultTypeOK'
  <2>1. dismissed' \in [Vaults -> SUBSET Texts]
    BY DEF FalsePositive, VaultTypeOK
  <2> QED BY <1>1, <1>2, <2>1 DEF VaultTypeOK
<1>4. Consistent(v)'
  BY <1>1, <1>2, Untouched
<1> QED BY <1>1, <1>2, <1>3, <1>4, Elsewhere

LEMMA ClearRecreateKeeps ==
    ASSUME IInv, NEW v \in Vaults, ClearRecreate(v)
    PROVE  IInv'
<1> USE DEF IInv
<1>1. UNCHANGED <<entries, scan, import, feed, stored, dismissed>>
  BY DEF ClearRecreate
<1>2. VaultTypeOK'
  BY <1>1 DEF ClearRecreate, VaultTypeOK
<1>3. Consistent(v)'
  BY <1>1, Untouched
<1> QED BY <1>1, <1>2, <1>3, Elsewhere

(* clear(): the import under way is told, and nothing is left to be wrong. *)
LEMMA ClearDeleteKeeps ==
    ASSUME IInv, NEW v \in Vaults, ClearDelete(v)
    PROVE  IInv'
<1> USE DEF IInv
<1>1. UNCHANGED <<scan, feed, stored, dismissed>>
  BY DEF ClearDelete
<1>2. /\ entries'[v] = {}
      /\ \A w \in Vaults \ {v} : entries'[w] = entries[w] /\ import'[w] = import[w]
  BY DEF ClearDelete, VaultTypeOK
<1>3. import'[v] = [import[v] EXCEPT !.cleared = import[v].at = "adding"]
  BY DEF ClearDelete, VaultTypeOK
<1>4. import[v] \in [at : {"idle", "adding"}, file : Seq(FeedEntries),
                     todo : Seq(FeedEntries), seen : SUBSET (Texts \cup {""}),
                     cleared : BOOLEAN]
  BY DEF VaultTypeOK
<1>5. /\ import'[v].at = import[v].at /\ import'[v].file = import[v].file
      /\ import'[v].todo = import[v].todo /\ import'[v].seen = import[v].seen
      /\ import[v].at = "adding" => import'[v].cleared
  BY <1>3, <1>4
<1>6. VaultTypeOK'
  <2>1. import' \in [Vaults -> [at : {"idle", "adding"}, file : Seq(FeedEntries),
                     todo : Seq(FeedEntries), seen : SUBSET (Texts \cup {""}),
                     cleared : BOOLEAN]]
    <3>1. import'[v] \in [at : {"idle", "adding"}, file : Seq(FeedEntries),
                     todo : Seq(FeedEntries), seen : SUBSET (Texts \cup {""}),
                     cleared : BOOLEAN]
      BY <1>3, <1>4
    <3> QED BY <3>1 DEF ClearDelete, VaultTypeOK
  <2>2. entries' \in [Vaults -> SUBSET Entries] /\ open' \in [Vaults -> BOOLEAN]
    BY DEF ClearDelete, VaultTypeOK
  <2> QED BY <1>1, <2>1, <2>2 DEF VaultTypeOK
<1>7. Consistent(v)'
  <2>1. Consistent(v)
    OBVIOUS
  <2>2. IsFiniteSet(entries[v])' /\ Distinct(v)' /\ Traced(v)' /\ SeenCovers(v)' /\ WholeFeeds(v)'
    BY <1>2, FS_EmptySet DEF Distinct, Traced, SeenCovers, WholeFeeds, Whole
  <2>3. OwnFeed(v)' /\ Origin(v)' /\ Remains(v)'
    BY <1>1, <1>5, <2>1 DEF Consistent, OwnFeed, OwnIds, Origin, Remains
  <2>4. Progress(v)'
    BY <1>5 DEF Progress
  <2>5. Contained(v)'
    BY <1>1, <1>2, <1>5, <2>1 DEF Consistent, Contained, Closed, Within, Sources, VariantsOf
  <2> QED BY <2>2, <2>3, <2>4, <2>5 DEF Consistent
<1> QED BY <1>1, <1>2, <1>6, <1>7, Elsewhere
-----------------------------------------------------------------------------
(* Export: a file of own entries, whatever the date.                       *)
FeedRecord(e) == [id |-> e.id, text |-> e.text, hash |-> PatternHash(e)]

LEMMA OwnRecord ==
    ASSUME IInv, NEW v \in Vaults, NEW e \in ExportedEntries(v)
    PROVE  /\ FeedRecord(e) \in Exported /\ FeedRecord(e).id \in OwnIds(v)
           /\ FeedRecord(e).id = e.id /\ FeedRecord(e).text = e.text
<1>1. e \in entries[v] /\ e.source = "local"
  BY DEF ExportedEntries
<1>2. e.keys = StoredKeys /\ e.id \in OwnIds(v)
  BY <1>1 DEF IInv, Consistent, Traced
<1>3. e.text \in Texts
  BY <1>1, TypesOf DEF IInv, Entries
<1>4. PatternHash(e) = ""
  BY <1>2 DEF PatternHash, StoredKeys
<1>5. OwnIds(v) \subseteq Vaults \X (1..MaxStored)
  <2>1. 1..stored \subseteq 1..MaxStored
    BY StoredIsNumber DEF IInv
  <2> QED BY <2>1 DEF OwnIds
<1> QED BY <1>2, <1>3, <1>4, <1>5 DEF FeedRecord, Exported

LEMMA OwnFile ==
    ASSUME IInv, NEW v \in Vaults, NEW es \in SUBSET ExportedEntries(v)
    PROVE  LET file == SetToSeq({FeedRecord(e) : e \in es})
           IN  /\ file \in Seq(Exported)
               /\ \A f \in ToSet(file) : \E e \in es : f = FeedRecord(e)
<1> DEFINE T == {FeedRecord(e) : e \in es}
           rec == [e \in es |-> FeedRecord(e)]
<1>1. IsFiniteSet(es)
  <2>1. IsFiniteSet(entries[v]) /\ es \in SUBSET entries[v]
    BY DEF IInv, Consistent, ExportedEntries
  <2> QED BY <2>1, FS_Subset
<1>2. rec \in Surjection(es, T)
  BY DEF Surjection
<1>3. IsFiniteSet(T)
  BY <1>1, <1>2, FS_Surjection
<1>4. SetToSeq(T) \in Seq(T) /\ ToSet(SetToSeq(T)) \subseteq T
  BY <1>3, WrittenDown
<1>5. T \subseteq Exported
  BY OwnRecord
<1> HIDE DEF T
<1>6. SetToSeq(T) \in Seq(Exported)
  BY <1>4, <1>5, SeqMonotonic
<1>7. \A f \in T : \E e \in es : f = FeedRecord(e)
  BY DEF T
<1>8. /\ SetToSeq(T) \in Seq(Exported)
      /\ \A f \in ToSet(SetToSeq(T)) : \E e \in es : f = FeedRecord(e)
  BY <1>4, <1>6, <1>7
<1> QED BY <1>8 DEF T

LEMMA ExportKeeps ==
    ASSUME IInv, NEW v \in Vaults, Export(v)
    PROVE  IInv'
<1> USE DEF IInv
<1>1. UNCHANGED <<entries, open, scan, import, stored, dismissed>>
  BY DEF Export
<1>2. PICK es \in SUBSET ExportedEntries(v) :
          feed' = [feed EXCEPT ![v] = SetToSeq({FeedRecord(e) : e \in es})]
  <2>1. PICK since \in BOOLEAN :
          LET es == {e \in ExportedEntries(v) : since => "first_seen" \in e.keys}
          IN  feed' = [feed EXCEPT ![v] =
                  SetToSeq({[id |-> e.id, text |-> e.text, hash |-> PatternHash(e)] : e \in es})]
    BY DEF Export
  <2> DEFINE es == {e \in ExportedEntries(v) : since => "first_seen" \in e.keys}
  <2>2. es \in SUBSET ExportedEntries(v)
    OBVIOUS
  <2>3. feed' = [feed EXCEPT ![v] = SetToSeq({FeedRecord(e) : e \in es})]
    BY <2>1 DEF FeedRecord
  <2> QED BY <2>2, <2>3
<1>3. /\ feed'[v] \in Seq(Exported)
      /\ \A f \in ToSet(feed'[v]) : \E e \in es : f = FeedRecord(e)
  <2>1. feed'[v] = SetToSeq({FeedRecord(e) : e \in es})
    BY <1>2 DEF VaultTypeOK
  <2> QED BY <2>1, OwnFile
<1>4. \A f \in ToSet(feed'[v]) :
         /\ f \in Exported /\ f.id \in OwnIds(v)
         /\ \E e \in entries[v] : e.id = f.id /\ e.text = f.text
  <2> TAKE f \in ToSet(feed'[v])
  <2>1. PICK e \in ExportedEntries(v) : f = FeedRecord(e)
    BY <1>3
  <2> QED BY <2>1, OwnRecord DEF ExportedEntries
<1>5. \A w \in Vaults \ {v} : feed'[w] = feed[w]
  BY <1>2 DEF VaultTypeOK
<1>6. VaultTypeOK'
  <2>1. Exported \subseteq FeedEntries
    BY DEF FeedEntries
  <2>2. feed'[v] \in Seq(FeedEntries)
    BY <1>3, <2>1, SeqMonotonic
  <2>3. feed' \in [Vaults -> Seq(FeedEntries)]
    BY <1>2, <2>2 DEF VaultTypeOK
  <2> QED BY <1>1, <2>3 DEF VaultTypeOK
<1>7. Consistent(v)'
  <2>1. Consistent(v)
    OBVIOUS
  <2>2. /\ IsFiniteSet(entries[v])' /\ Distinct(v)' /\ Traced(v)' /\ Origin(v)' /\ Remains(v)'
        /\ SeenCovers(v)' /\ Progress(v)'
    BY <1>1, <2>1 DEF Consistent, Distinct, Traced, OwnIds, Origin, Remains, SeenCovers,
                      Progress, Present, Held
  <2>3. OwnFeed(v)'
    BY <1>1, <1>4 DEF OwnFeed, OwnIds
  <2>4. WholeFeeds(v)'
    BY <1>1, <1>4, <2>1 DEF Consistent, WholeFeeds, Whole
  <2>5. Contained(v)'
    <3> SUFFICES ASSUME NEW S \in SUBSET Texts, Closed(S) PROVE Within(S, v)'
      BY DEF Contained, Closed, Sources, VariantsOf
    <3>1. Within(S, v)
      BY <2>1 DEF Consistent, Contained
    <3> QED BY <1>1, <1>4, <3>1 DEF Within
  <2> QED BY <2>2, <2>3, <2>4, <2>5 DEF Consistent
<1> QED BY <1>1, <1>5, <1>6, <1>7, Elsewhere
-----------------------------------------------------------------------------
(* The imports.                                                            *)
Imports == [at : {"idle", "adding"}, file : Seq(FeedEntries), todo : Seq(FeedEntries),
            seen : SUBSET (Texts \cup {""}), cleared : BOOLEAN]

LEMMA NoImportTypes ==
    NoImport \in Imports /\ NoImport.at = "idle" /\ ToSet(NoImport.file) = {}
<1> QED BY DEF NoImport, Imports, ToSet

(* What an import that has ended leaves.                                   *)
LEMMA EndedImport ==
    ASSUME IInv, NEW v \in Vaults, import' = [import EXCEPT ![v] = NoImport],
           UNCHANGED <<entries, open, scan, feed, stored, dismissed>>
    PROVE  IInv'
<1> USE DEF IInv
<1>1. import'[v] = NoImport /\ \A w \in Vaults \ {v} : import'[w] = import[w]
  BY DEF VaultTypeOK
<1>2. VaultTypeOK'
  <2>1. import' \in [Vaults -> Imports]
    BY NoImportTypes DEF VaultTypeOK, Imports
  <2> QED BY <2>1 DEF VaultTypeOK, Imports
<1>3. /\ import'[v].at = "idle" /\ import'[v].todo = <<>> /\ import'[v].file = <<>>
      /\ ToSet(import'[v].file) = {} /\ ToSet(import'[v].todo) = {}
  BY <1>1, NoImportTypes DEF NoImport
<1>4. Consistent(v)'
  <2>1. Consistent(v)
    OBVIOUS
  <2>2. IsFiniteSet(entries[v])' /\ Distinct(v)' /\ Traced(v)' /\ OwnFeed(v)'
    BY <2>1 DEF Consistent, Distinct, Traced, OwnIds, OwnFeed
  <2>3. Origin(v)' /\ Remains(v)' /\ SeenCovers(v)' /\ Progress(v)'
    BY <1>3 DEF Origin, Remains, SeenCovers, Progress
  <2>4. WholeFeeds(v)'
    BY <1>3, <2>1 DEF Consistent, WholeFeeds, Whole
  <2>5. Contained(v)'
    <3> SUFFICES ASSUME NEW S \in SUBSET Texts, Closed(S) PROVE Within(S, v)'
      BY DEF Contained, Closed, Sources, VariantsOf
    <3>1. Within(S, v)
      BY <2>1 DEF Consistent, Contained
    <3> QED BY <1>3, <3>1 DEF Within
  <2> QED BY <2>2, <2>3, <2>4, <2>5 DEF Consistent
<1> QED BY <1>1, <1>2, <1>4, Elsewhere

LEMMA ImportFailKeeps ==
    ASSUME IInv, NEW v \in Vaults, ImportFail(v)
    PROVE  IInv'
BY EndedImport DEF ImportFail, Aborted

LEMMA ImportDoneKeeps ==
    ASSUME IInv, NEW v \in Vaults, ImportDone(v)
    PROVE  IInv'
BY EndedImport DEF ImportDone

(* The ids of local entries are nobody else's.                             *)
LEMMA LocalIds ==
    ASSUME IInv, NEW v \in Vaults, NEW e \in entries[v], e.source = "local"
    PROVE  /\ e.id \in OwnIds(v) /\ e.id \in Vaults \X (1..MaxStored)
           /\ \A f \in PublishedEntries : e.id # f.id
<1>1. e.id \in OwnIds(v)
  BY DEF IInv, Consistent, Traced
<1>2. 1..stored \subseteq 1..MaxStored
  BY StoredIsNumber DEF IInv
<1>3. e.id \in Vaults \X (1..MaxStored)
  BY <1>1, <1>2 DEF OwnIds
<1> QED BY <1>1, <1>3, IdAssumption

(* An import that has only begun, from a file that is sound.               *)
LEMMA StartedImport ==
    ASSUME IInv, NEW v \in Vaults, NEW file, VaultTypeOK', Origin(v)', Whole(v, file),
           \A S \in SUBSET Texts : Closed(S) => \A f \in ToSet(file) : f.text \in S,
           UNCHANGED <<entries, open, scan, feed, stored, dismissed>>,
           \A w \in Vaults \ {v} : import'[w] = import[w],
           import'[v].at = "adding", import'[v].file = file, import'[v].todo = file,
           import'[v].seen = {e.hash : e \in {x \in entries[v] : "pattern_hash" \in x.keys}}
    PROVE  IInv'
<1>1. Consistent(v)
  BY DEF IInv
<1>2. IsFiniteSet(entries[v])' /\ Distinct(v)' /\ Traced(v)' /\ OwnFeed(v)'
  BY <1>1 DEF Consistent, Distinct, Traced, OwnIds, OwnFeed
<1>3. Remains(v)' /\ SeenCovers(v)'
  BY DEF Remains, SeenCovers
<1>4. Progress(v)'
  BY DEF Progress, Held
<1>5. WholeFeeds(v)'
  BY <1>1 DEF Consistent, WholeFeeds, Whole
<1>6. Contained(v)'
  <2> SUFFICES ASSUME NEW S \in SUBSET Texts, Closed(S) PROVE Within(S, v)'
    BY DEF Contained, Closed, Sources, VariantsOf
  <2>1. Within(S, v)
    BY <1>1 DEF Consistent, Contained
  <2> QED BY <2>1 DEF Within
<1>7. Consistent(v)'
  BY <1>2, <1>3, <1>4, <1>5, <1>6 DEF Consistent
<1> QED BY <1>7, Elsewhere

LEMMA ImportStartKeeps ==
    ASSUME IInv, NEW v \in Vaults, NEW file \in Published \cup {feed[w] : w \in Vaults},
           ImportStart(v, file)
    PROVE  IInv'
<1> USE DEF IInv
<1> DEFINE hashes == {e.hash : e \in {x \in entries[v] : "pattern_hash" \in x.keys}}
           i0 == [at |-> "adding", file |-> file, todo |-> file, cleared |-> FALSE,
                  seen |-> hashes]
<1>1. UNCHANGED <<entries, open, scan, feed, stored, dismissed>>
  BY DEF ImportStart
<1>2. import' = [import EXCEPT ![v] = i0]
  BY DEF ImportStart
<1>3. import'[v] = i0 /\ \A w \in Vaults \ {v} : import'[w] = import[w]
  BY <1>2 DEF VaultTypeOK
<1>4. /\ import'[v].at = "adding" /\ import'[v].file = file /\ import'[v].todo = file
      /\ import'[v].seen = hashes
  BY <1>3
<1>5. file \in Seq(FeedEntries)
  BY FeedRecords, TypesOf
<1>6. VaultTypeOK'
  <2>1. hashes \in SUBSET (Texts \cup {""})
    <3>1. entries[v] \subseteq Entries
      BY TypesOf
    <3> QED BY <3>1 DEF Entries
  <2>2. i0 \in Imports
    BY <1>5, <2>1 DEF Imports
  <2>3. import' \in [Vaults -> Imports]
    BY <1>2, <2>2 DEF VaultTypeOK, Imports
  <2> QED BY <1>1, <2>3 DEF VaultTypeOK, Imports
<1> HIDE DEF i0
<1>7. \/ ToSet(file) \subseteq PublishedEntries
      \/ \E w \in Vaults : file = feed[w]
  BY DEF PublishedEntries
<1>8. CASE ToSet(file) \subseteq PublishedEntries
  <2>1. Origin(v)'
    BY <1>4, <1>8 DEF Origin
  <2>2. Whole(v, file)
    <3>1. ~ \E f \in ToSet(file), e \in entries[v] : e.source = "local" /\ e.id = f.id
      BY <1>8, LocalIds
    <3> QED BY <3>1 DEF Whole
  <2>3. \A S \in SUBSET Texts : Closed(S) => \A f \in ToSet(file) : f.text \in S
    BY <1>8 DEF Closed, Sources
  <2> QED BY <2>1, <2>2, <2>3, <1>1, <1>3, <1>4, <1>6, StartedImport
<1>9. ASSUME NEW w \in Vaults, file = feed[w] PROVE IInv'
  <2>1. OwnFeed(w) /\ WholeFeeds(w) /\ Contained(w)
    BY DEF Consistent
  <2>2. Origin(v)'
    <3>1. \A f \in ToSet(file) : f \in Exported /\ f.id \in {w} \X (1..stored)
      BY <1>9, <2>1 DEF OwnFeed, OwnIds
    <3>2. \A f \in ToSet(file) : f \in Exported /\ f.id[2] <= stored
      <4> TAKE f \in ToSet(file)
      <4>1. f.id[2] \in 1..stored
        BY <3>1
      <4>2. f.id[2] <= stored
        BY <4>1, StoredIsNumber
      <4> QED BY <3>1, <4>2
    <3> QED BY <1>1, <1>4, <3>2 DEF Origin
  <2>3. Whole(v, file)
    <3>1. CASE w = v
      BY <1>9, <2>1, <3>1 DEF WholeFeeds
    <3>2. CASE w # v
      <4>1. \A f \in ToSet(file) : f.id \in {w} \X (1..stored)
        BY <1>9, <2>1 DEF OwnFeed, OwnIds
      <4>2. \A e \in entries[v] : e.source = "local" => e.id \in {v} \X (1..stored)
        BY LocalIds DEF OwnIds
      <4>3. ~ \E f \in ToSet(file), e \in entries[v] : e.source = "local" /\ e.id = f.id
        BY <3>2, <4>1, <4>2
      <4> QED BY <4>3 DEF Whole
    <3> QED BY <3>1, <3>2
  <2>4. \A S \in SUBSET Texts : Closed(S) => \A f \in ToSet(file) : f.text \in S
    BY <1>9, <2>1 DEF Contained, Within
  <2> QED BY <2>2, <2>3, <2>4, <1>1, <1>3, <1>4, <1>6, StartedImport
<1> QED BY <1>7, <1>8, <1>9
(* An import with something left to do.                                    *)
LEMMA NextEntry ==
    ASSUME IInv, NEW v \in Vaults, import[v].todo # <<>>
    PROVE  LET f == Head(import[v].todo) IN
           /\ import[v].at = "adding" /\ f \in FeedEntries /\ f \in ToSet(import[v].file)
           /\ Tail(import[v].todo) \in Seq(FeedEntries)
           /\ ToSet(import[v].todo) = {f} \cup ToSet(Tail(import[v].todo))
<1>1. import[v].todo \in Seq(FeedEntries) /\ import[v].at \in {"idle", "adding"}
  BY TypesOf DEF IInv
<1>2. Remains(v)
  BY DEF IInv, Consistent
<1> QED BY <1>1, <1>2, HeadAndTail DEF Remains

LEMMA ImportSkipKeeps ==
    ASSUME IInv, NEW v \in Vaults, ImportSkip(v)
    PROVE  IInv'
<1> USE DEF IInv
<1> DEFINE f0 == Head(import[v].todo)
<1>1. UNCHANGED <<entries, open, scan, feed, stored, dismissed>>
  BY DEF ImportSkip
<1>2. /\ import' = [import EXCEPT ![v].todo = Tail(import[v].todo)]
      /\ import[v].todo # <<>> /\ f0.hash \in import[v].seen
  BY DEF ImportSkip
<1>3. import[v] \in Imports
  BY DEF VaultTypeOK, Imports
<1>4. /\ import'[v] = [import[v] EXCEPT !.todo = Tail(import[v].todo)]
      /\ \A w \in Vaults \ {v} : import'[w] = import[w]
  BY <1>2 DEF VaultTypeOK
<1>5. /\ import'[v].at = import[v].at /\ import'[v].file = import[v].file
      /\ import'[v].todo = Tail(import[v].todo) /\ import'[v].seen = import[v].seen
      /\ import'[v].cleared = import[v].cleared
  BY <1>3, <1>4 DEF Imports
<1>6. /\ import[v].at = "adding" /\ f0 \in ToSet(import[v].file)
      /\ ToSet(import[v].todo) = {f0} \cup ToSet(import'[v].todo)
      /\ import'[v].todo \in Seq(FeedEntries)
  BY <1>2, <1>5, NextEntry
<1>7. VaultTypeOK'
  <2>1. import'[v] \in Imports
    BY <1>3, <1>4, <1>5, <1>6 DEF Imports
  <2>2. import' \in [Vaults -> Imports]
    BY <1>2, <1>4, <2>1 DEF VaultTypeOK, Imports
  <2> QED BY <1>1, <2>2 DEF VaultTypeOK, Imports
<1>8. Consistent(v)'
  <2>1. Consistent(v)
    OBVIOUS
  <2>2. /\ IsFiniteSet(entries[v])' /\ Distinct(v)' /\ Traced(v)' /\ OwnFeed(v)'
        /\ Origin(v)' /\ SeenCovers(v)' /\ WholeFeeds(v)' /\ Contained(v)'
    BY <1>1, <1>5, <2>1
       DEF Consistent, Distinct, Traced, OwnIds, OwnFeed, Origin, SeenCovers, WholeFeeds,
           Whole, Contained, Within, Closed, Sources, VariantsOf
  <2>3. Remains(v)'
    BY <1>5, <1>6, <2>1 DEF Consistent, Remains
  <2>4. Progress(v)'
    <3> SUFFICES ASSUME ~ import[v].cleared PROVE Progress(v)'
      BY <1>5 DEF Progress
    <3>1. Progress(v)
      BY <2>1 DEF Consistent
    <3>2. Present(v, f0)
      BY <1>2, <1>6, <3>1 DEF Progress, Present
    <3> QED BY <1>1, <1>5, <1>6, <3>1, <3>2 DEF Progress, Present, Held
  <2> QED BY <2>2, <2>3, <2>4 DEF Consistent
<1> QED BY <1>1, <1>4, <1>7, <1>8, Elsewhere

(* add() under an id that is taken changes nothing; what has the id then   *)
(* has the hash too, or the whole file is about what the vault holds.      *)
LEMMA TakenId ==
    ASSUME IInv, NEW v \in Vaults, NEW f \in ToSet(import[v].file), f \in FeedEntries,
           NEW e \in entries[v], e.id = f.id
    PROVE  Held(v, f.hash) \/ \A x \in ToSet(import[v].file) : Present(v, x)
<1>1. Consistent(v) /\ e.source \in {"local", "feed"}
  BY TypesOf DEF IInv, Entries
<1>2. CASE e.source = "local"
  <2>1. Whole(v, import[v].file)
    BY <1>1 DEF Consistent, WholeFeeds
  <2> QED BY <1>2, <2>1 DEF Whole, Present
<1>3. CASE e.source = "feed"
  <2> DEFINE r == [id |-> e.id, text |-> e.text, hash |-> e.hash]
  <2>1. e.keys = ImportedKeys /\ r \in FeedEntries
    BY <1>1, <1>3 DEF Consistent, Traced
  <2>2. r.id = f.id /\ r.hash = e.hash
    OBVIOUS
  <2>3. r.hash = f.hash
    <3> HIDE DEF r
    <3>1. CASE f \in PublishedEntries
      <4>1. r \notin Exported
        BY <2>2, <3>1, IdAssumption, ExportedIds
      <4>2. r \in PublishedEntries
        BY <2>1, <4>1 DEF FeedEntries
      <4> QED BY <2>2, <3>1, <4>2, IdAssumption
    <3>2. CASE f \in Exported
      <4>1. r \notin PublishedEntries
        BY <2>2, <3>2, IdAssumption, ExportedIds
      <4>2. r \in Exported
        BY <2>1, <4>1 DEF FeedEntries
      <4> QED BY <3>2, <4>2, ExportedIds
    <3> QED BY <3>1, <3>2 DEF FeedEntries
  <2>4. "pattern_hash" \in e.keys /\ e.hash = f.hash
    BY <2>1, <2>2, <2>3 DEF ImportedKeys
  <2> QED BY <2>4 DEF Held
<1> QED BY <1>1, <1>2, <1>3

LEMMA ImportAddKeeps ==
    ASSUME IInv, NEW v \in Vaults, ImportAdd(v)
    PROVE  IInv'
<1> USE DEF IInv
<1>0. PICK f0 : f0 = Head(import[v].todo)
  OBVIOUS
<1> DEFINE e0 == ImportedEntry(f0)
           i0 == [import[v] EXCEPT !.todo = Tail(import[v].todo),
                                   !.seen = Seen(import[v].seen, f0)]
<1>1. UNCHANGED <<open, scan, feed, stored, dismissed>>
  BY DEF ImportAdd
<1>2. /\ import[v].todo # <<>> /\ f0.hash \notin import[v].seen
      /\ entries' = [entries EXCEPT ![v] = Added(entries[v], e0)]
  BY <1>0 DEF ImportAdd
<1>3. import[v] \in Imports
  BY DEF VaultTypeOK, Imports
<1>4. import'[v] = i0 /\ \A w \in Vaults \ {v} : import'[w] = import[w]
  BY <1>0 DEF ImportAdd, VaultTypeOK
<1>5. /\ import'[v].at = import[v].at /\ import'[v].file = import[v].file
      /\ import'[v].todo = Tail(import[v].todo)
      /\ import'[v].seen = import[v].seen \cup {f0.hash}
      /\ import'[v].cleared = import[v].cleared
  BY <1>3, <1>4 DEF Imports, Seen
<1>6. /\ import[v].at = "adding" /\ f0 \in ToSet(import[v].file) /\ f0 \in FeedEntries
      /\ ToSet(import[v].todo) = {f0} \cup ToSet(import'[v].todo)
      /\ import'[v].todo \in Seq(FeedEntries)
  BY <1>0, <1>2, <1>5, NextEntry
<1>7. /\ e0.keys = ImportedKeys /\ e0.source = "feed" /\ e0.id = f0.id
      /\ e0.text = f0.text /\ e0.hash = f0.hash /\ "pattern_hash" \in e0.keys
      /\ [id |-> e0.id, text |-> e0.text, hash |-> e0.hash] = f0
  BY <1>6, FeedRecords DEF ImportedEntry, ImportedKeys
<1>8. e0 \in Entries
  BY <1>6, ImportedTypes
<1> HIDE DEF e0
<1>9. /\ entries'[v] = Added(entries[v], e0)
      /\ \A w \in Vaults \ {v} : entries'[w] = entries[w]
  BY <1>2 DEF VaultTypeOK
<1>10. VaultTypeOK'
  <2>1. import'[v] \in Imports
    <3>1. f0.hash \in Texts \cup {""}
      BY <1>6, FeedRecords
    <3>2. Seen(import[v].seen, f0) \in SUBSET (Texts \cup {""})
      BY <1>3, <3>1 DEF Imports, Seen
    <3>3. Tail(import[v].todo) \in Seq(FeedEntries)
      BY <1>5, <1>6
    <3> QED BY <1>3, <1>4, <3>2, <3>3 DEF Imports
  <2>2. import' \in [Vaults -> Imports]
    BY <1>0, <1>4, <2>1 DEF ImportAdd, VaultTypeOK, Imports
  <2>3. Added(entries[v], e0) \in SUBSET Entries
    <3>1. entries[v] \in SUBSET Entries
      BY DEF VaultTypeOK
    <3> QED BY <1>8, <3>1 DEF Added
  <2>4. entries' \in [Vaults -> SUBSET Entries]
    BY <1>2, <2>3 DEF VaultTypeOK
  <2> QED BY <1>1, <2>2, <2>4 DEF VaultTypeOK, Imports
<1>11. /\ entries[v] \subseteq entries'[v] /\ entries'[v] \subseteq entries[v] \cup {e0}
       /\ e0 \in entries'[v] \/ \E e \in entries[v] : e.id = f0.id
  BY <1>7, <1>9 DEF Added
<1>12. Consistent(v)'
  <2>1. Consistent(v)
    OBVIOUS
  <2>2. IsFiniteSet(entries[v])'
    <3>1. IsFiniteSet(entries[v] \cup {e0})
      BY <2>1, FS_AddElement DEF Consistent
    <3> QED BY <1>11, <3>1, FS_Subset
  <2>3. Distinct(v)'
    <3>1. \A e \in entries[v] : "pattern_hash" \in e.keys => e.hash # e0.hash
      BY <1>2, <1>6, <1>7, <2>1 DEF Consistent, SeenCovers
    <3> QED BY <1>11, <2>1, <3>1 DEF Consistent, Distinct
  <2>4. Traced(v)'
    BY <1>1, <1>6, <1>7, <1>11, <2>1 DEF Consistent, Traced, OwnIds
  <2>5. OwnFeed(v)' /\ Origin(v)'
    BY <1>1, <1>5, <2>1 DEF Consistent, OwnFeed, OwnIds, Origin
  <2>6. Remains(v)'
    BY <1>5, <1>6, <2>1 DEF Consistent, Remains
  <2>7. SeenCovers(v)'
    BY <1>5, <1>6, <1>7, <1>11, <2>1 DEF Consistent, SeenCovers
  <2>8. WholeFeeds(v)'
    <3>1. \A file : Whole(v, file) => Whole(v, file)'
      BY <1>7, <1>11 DEF Whole
    <3> QED BY <1>1, <1>5, <2>1, <3>1 DEF Consistent, WholeFeeds, Whole
  <2>9. Progress(v)'
    <3> SUFFICES ASSUME ~ import[v].cleared PROVE Progress(v)'
      BY <1>5 DEF Progress
    <3>1. Progress(v)
      BY <2>1 DEF Consistent
    <3>2. \A h : Held(v, h) => Held(v, h)'
      BY <1>11 DEF Held
    <3>3. \A f : Present(v, f) => Present(v, f)'
      BY <1>11, <3>2 DEF Present
    <3>4. Held(v, f0.hash)' \/ \A x \in ToSet(import[v].file) : Present(v, x)'
      <4>1. CASE e0 \in entries'[v]
        BY <1>7, <4>1 DEF Held
      <4>2. CASE \E e \in entries[v] : e.id = f0.id
        BY <1>6, <3>2, <3>3, <4>2, TakenId
      <4> QED BY <1>11, <4>1, <4>2
    <3>5. Present(v, f0)'
      BY <1>6, <3>4 DEF Present
    <3>6. \A f \in ToSet(import[v].file) : f \in ToSet(import'[v].todo) \/ Present(v, f)'
      BY <1>6, <3>1, <3>3, <3>5 DEF Progress
    <3>7. \A h \in import'[v].seen :
            Held(v, h)' \/ \A f \in ToSet(import[v].file) : f.hash = h => Present(v, f)'
      BY <1>5, <1>6, <3>1, <3>2, <3>3, <3>4 DEF Progress
    <3> QED BY <1>5, <3>6, <3>7 DEF Progress
  <2>10. Contained(v)'
    <3> SUFFICES ASSUME NEW S \in SUBSET Texts, Closed(S) PROVE Within(S, v)'
      BY DEF Contained, Closed, Sources, VariantsOf
    <3>1. Within(S, v)
      BY <2>1 DEF Consistent, Contained
    <3>2. e0.text \in S
      BY <1>6, <1>7, <3>1 DEF Within
    <3> QED BY <1>1, <1>5, <1>11, <3>1, <3>2 DEF Within
  <2> QED BY <2>2, <2>3, <2>4, <2>5, <2>6, <2>7, <2>8, <2>9, <2>10 DEF Consistent
<1> QED BY <1>1, <1>4, <1>9, <1>10, <1>12, Elsewhere
-----------------------------------------------------------------------------
LEMMA InitHolds == VaultInit => IInv
<1> SUFFICES ASSUME VaultInit PROVE IInv
  OBVIOUS
<1>1. /\ stored = 0
      /\ \A v \in Vaults : entries[v] = {} /\ feed[v] = <<>> /\ scan[v] = NoScan
                          /\ import[v] = NoImport
  BY DEF VaultInit
<1>2. VaultTypeOK
  <2>1. entries \in [Vaults -> SUBSET Entries] /\ open \in [Vaults -> BOOLEAN]
    BY DEF VaultInit
  <2>2. scan \in [Vaults -> [text : Texts \cup {NoText},
                            verdict : {"none", "clean", "low", "high"}]]
    BY DEF VaultInit, NoScan
  <2>3. import \in [Vaults -> Imports]
    BY NoImportTypes DEF VaultInit
  <2>4. feed \in [Vaults -> Seq(FeedEntries)] /\ dismissed \in [Vaults -> SUBSET Texts]
    BY DEF VaultInit
  <2>5. stored \in 0..MaxStored
    <3>1. MaxStored \in Nat
      BY VaultAssumption
    <3> QED BY <1>1, <3>1
  <2> QED BY <2>1, <2>2, <2>3, <2>4, <2>5 DEF VaultTypeOK, Imports
<1>3. ASSUME NEW v \in Vaults PROVE Consistent(v)
  <2>1. IsFiniteSet(entries[v]) /\ Distinct(v) /\ Traced(v)
    BY <1>1, FS_EmptySet DEF Distinct, Traced
  <2>2. ToSet(feed[v]) = {} /\ ToSet(import[v].file) = {}
    <3>1. ToSet(<<>>) = {}
      BY DEF ToSet
    <3> QED BY <1>1, <3>1, NoImportTypes
  <2>3. OwnFeed(v) /\ Origin(v) /\ WholeFeeds(v)
    BY <2>2 DEF OwnFeed, Origin, WholeFeeds, Whole
  <2>4. Remains(v) /\ SeenCovers(v) /\ Progress(v)
    BY <1>1 DEF NoImport, Remains, SeenCovers, Progress, ToSet
  <2>5. Contained(v)
    BY <1>1, <2>2 DEF Contained, Within, NoScan
  <2> QED BY <2>1, <2>3, <2>4, <2>5 DEF Consistent
<1> QED BY <1>2, <1>3 DEF IInv

LEMMA StepHolds == IInv /\ [VaultNext]_vaultVars => IInv'
<1> SUFFICES ASSUME IInv, [VaultNext]_vaultVars PROVE IInv'
  OBVIOUS
<1>1. CASE UNCHANGED vaultVars
  <2>1. VaultTypeOK'
    BY <1>1 DEF IInv, VaultTypeOK, vaultVars
  <2>2. UNCHANGED <<entries, scan, import, feed, stored>>
    BY <1>1 DEF vaultVars
  <2>3. \A v \in Vaults : Consistent(v)'
    BY <2>2, Untouched DEF IInv
  <2> QED BY <2>1, <2>3 DEF IInv
<1>2. ASSUME NEW v \in Vaults,
             \/ \E t \in Texts : Detect(v, t) \/ FalsePositive(v, t)
             \/ Store(v) \/ Finish(v)
             \/ ClearDelete(v) \/ ClearRecreate(v)
             \/ Export(v)
             \/ \E file \in Published \cup {feed[w] : w \in Vaults} : ImportStart(v, file)
             \/ ImportSkip(v) \/ ImportAdd(v) \/ ImportFail(v) \/ ImportDone(v)
      PROVE  IInv'
  BY <1>2, DetectKeeps, FalsePositiveKeeps, StoreKeeps, FinishKeeps, ClearDeleteKeeps,
     ClearRecreateKeeps, ExportKeeps, ImportStartKeeps, ImportSkipKeeps, ImportAddKeeps,
     ImportFailKeeps, ImportDoneKeeps
<1> QED BY <1>1, <1>2 DEF VaultNext

(* The inductive invariant holds in every reachable state.                 *)
LEMMA Invariance == VaultSpec => []IInv
BY InitHolds, StepHolds, PTL DEF VaultSpec

(* Every variable of the vaults keeps its type: what scans store and feeds *)
(* bring in are entries (AttackVault.store, import_threats).               *)
THEOREM TypeCorrect == VaultSpec => []VaultTypeOK
<1>1. IInv => VaultTypeOK
  BY DEF IInv
<1> QED BY <1>1, Invariance, PTL

(* No two entries of a vault share a pattern hash, however imports, failed *)
(* imports and clear() interleave: import_threats reads the hashes it      *)
(* knows once, and nothing else writes one.                                *)
THEOREM HashesUnique == VaultSpec => []UniqueHashes
<1>1. IInv => UniqueHashes
  BY DEF IInv, Consistent, Distinct, UniqueHashes
<1> QED BY <1>1, Invariance, PTL

(* export_threats writes nothing that another installation found.          *)
THEOREM OwnDetectionsExported == VaultSpec => []ExportsOwnDetections
<1>1. IInv => ExportsOwnDetections
  <2> SUFFICES ASSUME IInv, NEW v \in Vaults, NEW f \in ToSet(feed[v])
               PROVE  f.id \in {v} \X (1..MaxStored)
    BY DEF ExportsOwnDetections
  <2>1. f.id \in {v} \X (1..stored)
    BY DEF IInv, Consistent, OwnFeed, OwnIds
  <2>2. 1..stored \subseteq 1..MaxStored
    BY StoredIsNumber DEF IInv
  <2> QED BY <2>1, <2>2
<1> QED BY <1>1, Invariance, PTL

(* However often the vaults flag what they hold and pass it on, they hold  *)
(* nothing but variants of variants of what the rules detect or a          *)
(* community feed published (engine.py stores what d021 flagged).          *)
THEOREM ContaminationStaysBounded == VaultSpec => []ContaminationBounded
<1>1. IInv => ContaminationBounded
  <2> SUFFICES ASSUME IInv, NEW v \in Vaults, NEW e \in entries[v]
               PROVE  e.text \in Reachable
    BY DEF ContaminationBounded
  <2>1. e.text \in Texts
    BY TypesOf DEF IInv, Entries
  <2>2. ASSUME NEW S \in SUBSET Texts, Sources \cup VariantsOf(S) \subseteq S
        PROVE  e.text \in S
    BY <2>2 DEF IInv, Consistent, Contained, Closed, Within
  <2> QED BY <2>1, <2>2 DEF Reachable
<1> QED BY <1>1, Invariance, PTL

(* An import that returns has imported, whatever scans, feedback and other *)
(* imports did meanwhile: import_threats skips a hash only when the vault  *)
(* holds it, and add() passes over an id only when the vault holds that.   *)
THEOREM ImportsComplete == VaultSpec => ImportComplete
<1> DEFINE Imported == \A v \in Vaults : (ImportDone(v) /\ ~ import[v].cleared) =>
          \A f \in ToSet(import[v].file) : \E e \in entries[v] :
              e.id = f.id \/ ("pattern_hash" \in e.keys /\ e.hash = f.hash)
<1>1. IInv => Imported
  <2> SUFFICES ASSUME IInv, NEW v \in Vaults, ImportDone(v), ~ import[v].cleared,
                      NEW f \in ToSet(import[v].file)
               PROVE  \E e \in entries[v] :
                         e.id = f.id \/ ("pattern_hash" \in e.keys /\ e.hash = f.hash)
    OBVIOUS
  <2>1. import[v].at = "adding" /\ ToSet(import[v].todo) = {}
    BY DEF ImportDone, ToSet
  <2>2. Progress(v)
    BY DEF IInv, Consistent
  <2>3. Present(v, f)
    BY <2>1, <2>2 DEF Progress
  <2> QED BY <2>3 DEF Present, Held
<1>2. IInv /\ [VaultNext]_vaultVars => [Imported]_vaultVars
  BY <1>1
<1>3. VaultSpec => [][Imported]_vaultVars
  BY <1>2, Invariance, PTL DEF VaultSpec
<1> QED BY <1>3 DEF ImportComplete
=============================================================================
