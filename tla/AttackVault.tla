----------------------------- MODULE AttackVault -----------------------------
(***************************************************************************)
(* The attack vaults of several installations and the threat feeds they    *)
(* exchange: vault/attack_vault.py, vault/threat_feed.py, the vault        *)
(* detector d021, and what engine.py does with a vault on scan(),          *)
(* feedback(), import_threats() and export_threats().                      *)
(*                                                                         *)
(* Nothing in the code locks a vault, so a scan, an import and a clear()   *)
(* of one vault interleave between their calls to the collection; each     *)
(* such call is one action.  One scan and one import run at a time.        *)
(* Installations meet in the feed files alone, which are written and read  *)
(* whole, so that it does not matter how far one has come with a call when *)
(* another makes its own: OneAtWork leaves those orders out.               *)
(*                                                                         *)
(* A text stands for its hash and its embedding: texts are Similar when    *)
(* their cosine similarity reaches similarity_threshold.  Of the detectors *)
(* other than d021 only their verdict on a text is kept.                   *)
(***************************************************************************)
EXTENDS Integers, Sequences, FiniteSets, SequencesExt

CONSTANTS
    Vaults,       \* the installations
    Texts,
    Strong,       \* texts the rules detect
    Weak,         \* texts they detect with a risk below min_confidence_to_store
    Similar,      \* pairs of texts d021 holds for variants of each other
    Published,    \* the community feeds: sequences of feed entries
    NoText,
    MaxStored,    \* bound on the entries the scans store, in all
    MaxDismissed, \* bound on the texts marked as false positives, in all
    OneAtWork     \* bound: while one installation is at work the others wait

(* What stands in an entry's metadata, by who wrote it: the engine's       *)
(* vault.store call, or import_threats.                                    *)
StoredKeys == {"detector_id", "severity", "confidence", "source", "timestamp"}
ImportedKeys == {"pattern_hash", "detector_id", "severity", "confidence",
                 "first_seen", "report_count", "tags", "source"}

(* The entries of the community feeds, and those an installation writes    *)
(* into its own: export_threats knows no pattern_hash of them.             *)
PublishedEntries == UNION {ToSet(f) : f \in Published}
Exported == [id : Vaults \X (1..MaxStored), text : Texts, hash : {""}]
FeedEntries == PublishedEntries \cup Exported

ASSUME VaultAssumption ==
    /\ NoText \notin Texts
    /\ Strong \subseteq Texts /\ Weak \subseteq Texts \ Strong
    /\ Similar \subseteq Texts \X Texts
    /\ \A t \in Texts : <<t, t>> \in Similar
    /\ \A f \in Published : f \in Seq(PublishedEntries)
    /\ \A e \in PublishedEntries : /\ e = [id |-> e.id, text |-> e.text, hash |-> e.hash]
                                   /\ e.text \in Texts /\ e.hash = e.text
    /\ MaxStored \in Nat /\ MaxDismissed \in Nat
    /\ OneAtWork \in BOOLEAN

(* An id is the UUID of one stored text (AttackVault.store), whoever       *)
(* publishes it: it names one hash, and is no other installation's.        *)
ASSUME IdAssumption ==
    \A e \in PublishedEntries :
        /\ e.id \notin Vaults \X (1..MaxStored)
        /\ \A x \in PublishedEntries : e.id = x.id => e.hash = x.hash

VARIABLES
    entries,      \* the collection of each vault
    open,         \* whether the collection exists: clear() deletes it first
    scan,         \* the scan under way: the text, and what was found
    import,       \* the import under way
    feed,         \* the feed file each installation last exported
    stored,       \* number of entries stored by scans; their ids
    dismissed     \* the texts marked as false positives since they were stored

vaultVars == <<entries, open, scan, import, feed, stored, dismissed>>

NoScan == [text |-> NoText, verdict |-> "none"]
NoImport == [at |-> "idle", file |-> <<>>, todo |-> <<>>, seen |-> {}, cleared |-> FALSE]

VaultInit ==
    /\ entries = [v \in Vaults |-> {}]
    /\ open = [v \in Vaults |-> TRUE]
    /\ scan = [v \in Vaults |-> NoScan]
    /\ import = [v \in Vaults |-> NoImport]
    /\ feed = [v \in Vaults |-> <<>>]
    /\ stored = 0
    /\ dismissed = [v \in Vaults |-> {}]

-----------------------------------------------------------------------------
(* The collection: add() leaves an entry whose id exists as it is.         *)
Added(es, e) == IF \E x \in es : x.id = e.id THEN es ELSE es \cup {e}

\* A mutant: the detector takes the nearest entry for a match, however far.
NearestMatches(es, t) == es # {}

Matches(es, t) == \E e \in es : <<t, e.text>> \in Similar

(***************************************************************************)
(* scan(): the detectors run.  The similarity of a match is a confidence   *)
(* high enough to be stored.  A query of a vault that is being cleared     *)
(* raises, and the scan goes on without d021.                              *)
(***************************************************************************)
Verdict(v, t) ==
    IF t \in Strong \/ (open[v] /\ Matches(entries[v], t)) THEN "high"
    ELSE IF t \in Weak THEN "low" ELSE "clean"

Detect(v, t) ==
    /\ scan[v] = NoScan
    /\ scan' = [scan EXCEPT ![v] = [text |-> t, verdict |-> Verdict(v, t)]]
    /\ UNCHANGED <<entries, open, import, feed, stored, dismissed>>

\* A mutant: every scan is remembered, detected or not.
AnyVerdict(v) == scan[v].verdict # "none"

WorthStoring(v) == scan[v].verdict = "high"

\* A mutant: the id is that of the entry stored before.
StaleId(v, t) == [id |-> <<v, stored>>, text |-> t, keys |-> StoredKeys,
                  hash |-> "", source |-> "local"]

LocalEntry(v, t) == [id |-> <<v, stored + 1>>, text |-> t, keys |-> StoredKeys,
                     hash |-> "", source |-> "local"]

(* _postprocess_report: a store that fails is logged, or ends the scan.    *)
Store(v) ==
    /\ WorthStoring(v)
    /\ \/ /\ open[v] /\ stored < MaxStored
          /\ entries' = [entries EXCEPT ![v] = Added(@, LocalEntry(v, scan[v].text))]
          /\ stored' = stored + 1
          /\ dismissed' = [dismissed EXCEPT ![v] = @ \ {scan[v].text}]
       \/ UNCHANGED <<entries, stored, dismissed>>
    /\ scan' = [scan EXCEPT ![v] = NoScan]
    /\ UNCHANGED <<open, import, feed>>

Finish(v) ==
    /\ scan[v] # NoScan /\ ~ WorthStoring(v)
    /\ scan' = [scan EXCEPT ![v] = NoScan]
    /\ UNCHANGED <<entries, open, import, feed, stored, dismissed>>

(***************************************************************************)
(* feedback(is_correct=False) on a scan of t that stored an entry: the     *)
(* entries whose metadata has the hash of t as "attack_hash" are removed.  *)
(***************************************************************************)
CleanedUp(es, t) == {e \in es : "attack_hash" \in e.keys /\ e.text = t}

FalsePositive(v, t) ==
    /\ open[v] /\ \E e \in entries[v] : e.source = "local" /\ e.text = t
    /\ Cardinality({p \in Vaults \X Texts : p[2] \in dismissed[p[1]]}) < MaxDismissed
    /\ entries' = [entries EXCEPT ![v] = @ \ CleanedUp(@, t)]
    /\ dismissed' = [dismissed EXCEPT ![v] = @ \cup {t}]
    /\ UNCHANGED <<open, scan, import, feed, stored>>

(* clear() deletes the collection, then creates an empty one.              *)
ClearDelete(v) ==
    /\ open[v]
    /\ open' = [open EXCEPT ![v] = FALSE]
    /\ entries' = [entries EXCEPT ![v] = {}]
    /\ import' = [import EXCEPT ![v].cleared = import[v].at = "adding"]
    /\ UNCHANGED <<scan, feed, stored, dismissed>>

ClearRecreate(v) ==
    /\ ~ open[v]
    /\ open' = [open EXCEPT ![v] = TRUE]
    /\ UNCHANGED <<entries, scan, import, feed, stored, dismissed>>

-----------------------------------------------------------------------------
PatternHash(e) == IF "pattern_hash" \in e.keys THEN e.hash ELSE ""

\* A mutant: export_threats without its filter on the source.
ExportedAll(v) == entries[v]

ExportedEntries(v) == {e \in entries[v] : e.source = "local"}

(* export_threats(since): with a date, first_seen is compared with it, and *)
(* an entry without one is too old.                                        *)
Export(v) ==
    /\ open[v]
    /\ \E since \in BOOLEAN :
          LET es == {e \in ExportedEntries(v) : since => "first_seen" \in e.keys}
          IN  feed' = [feed EXCEPT ![v] =
                  SetToSeq({[id |-> e.id, text |-> e.text, hash |-> PatternHash(e)] : e \in es})]
    /\ UNCHANGED <<entries, open, scan, import, stored, dismissed>>

(* import_threats(file) reads the pattern hashes of the collection once.   *)
ImportStart(v, file) ==
    /\ import[v].at = "idle" /\ open[v]
    /\ import' = [import EXCEPT ![v] =
            [at |-> "adding", file |-> file, todo |-> file, cleared |-> FALSE,
             seen |-> {e.hash : e \in {x \in entries[v] : "pattern_hash" \in x.keys}}]]
    /\ UNCHANGED <<entries, open, scan, feed, stored, dismissed>>

ImportedEntry(f) == [id |-> f.id, text |-> f.text, keys |-> ImportedKeys,
                     hash |-> f.hash, source |-> "feed"]

ImportSkip(v) ==
    /\ import[v].todo # <<>> /\ Head(import[v].todo).hash \in import[v].seen
    /\ import' = [import EXCEPT ![v].todo = Tail(@)]
    /\ UNCHANGED <<entries, open, scan, feed, stored, dismissed>>

\* A mutant: the set of known hashes is not kept up to date.
SeenAtStart(seen, f) == seen

Seen(seen, f) == seen \cup {f.hash}

ImportAdd(v) ==
    /\ import[v].todo # <<>> /\ open[v]
    /\ LET f == Head(import[v].todo)
       IN  /\ f.hash \notin import[v].seen
           /\ entries' = [entries EXCEPT ![v] = Added(@, ImportedEntry(f))]
           /\ import' = [import EXCEPT ![v].todo = Tail(@), ![v].seen = Seen(@, f)]
    /\ UNCHANGED <<open, scan, feed, stored, dismissed>>

\* A mutant: an entry that cannot be added is passed over.
PassedOver(v) == [import[v] EXCEPT !.todo = Tail(@)]

Aborted(v) == NoImport

(* add() raises, for any reason: the import fails with what it has added.  *)
ImportFail(v) ==
    /\ import[v].todo # <<>> /\ Head(import[v].todo).hash \notin import[v].seen
    /\ import' = [import EXCEPT ![v] = Aborted(v)]
    /\ UNCHANGED <<entries, open, scan, feed, stored, dismissed>>

ImportDone(v) ==
    /\ import[v].at = "adding" /\ import[v].todo = <<>>
    /\ import' = [import EXCEPT ![v] = NoImport]
    /\ UNCHANGED <<entries, open, scan, feed, stored, dismissed>>

AtRest(v) == scan[v] = NoScan /\ import[v] = NoImport /\ open[v]

VaultNext ==
    \E v \in Vaults :
        /\ OneAtWork => \A w \in Vaults \ {v} : AtRest(w)
        /\ \/ \E t \in Texts : Detect(v, t) \/ FalsePositive(v, t)
           \/ Store(v) \/ Finish(v)
           \/ ClearDelete(v) \/ ClearRecreate(v)
           \/ Export(v)
           \/ \E file \in Published \cup {feed[w] : w \in Vaults} : ImportStart(v, file)
           \/ ImportSkip(v) \/ ImportAdd(v) \/ ImportFail(v) \/ ImportDone(v)

VaultSpec == VaultInit /\ [][VaultNext]_vaultVars

-----------------------------------------------------------------------------
Entries == [id : {e.id : e \in FeedEntries}, text : Texts, hash : Texts \cup {""},
            keys : {StoredKeys, ImportedKeys}, source : {"local", "feed"}]

(* The variables have their types.                                         *)
VaultTypeOK ==
    /\ entries \in [Vaults -> SUBSET Entries]
    /\ open \in [Vaults -> BOOLEAN]
    /\ scan \in [Vaults -> [text : Texts \cup {NoText},
                            verdict : {"none", "clean", "low", "high"}]]
    /\ import \in [Vaults -> [at : {"idle", "adding"}, file : Seq(FeedEntries),
                              todo : Seq(FeedEntries), seen : SUBSET (Texts \cup {""}),
                              cleared : BOOLEAN]]
    /\ feed \in [Vaults -> Seq(FeedEntries)]
    /\ stored \in 0..MaxStored
    /\ dismissed \in [Vaults -> SUBSET Texts]

(***************************************************************************)
(* "Entries with a pattern_hash that already exists in the local vault are *)
(* automatically skipped": whatever was imported before, failed half-way   *)
(* or was cleared meanwhile, no two entries of a vault share one.          *)
(***************************************************************************)
UniqueHashes ==
    \A v \in Vaults : \A e, x \in entries[v] :
        ("pattern_hash" \in e.keys /\ "pattern_hash" \in x.keys /\ e.hash = x.hash) => e = x

(***************************************************************************)
(* An import that returns has imported: every hash of the file is in the   *)
(* vault, or its id already was, unless the vault was cleared meanwhile.   *)
(* An import that failed half-way can be repeated.                         *)
(***************************************************************************)
ImportComplete ==
    [][ \A v \in Vaults : (ImportDone(v) /\ ~ import[v].cleared) =>
          \A f \in ToSet(import[v].file) : \E e \in entries[v] :
              e.id = f.id \/ ("pattern_hash" \in e.keys /\ e.hash = f.hash) ]_vaultVars

(***************************************************************************)
(* A feed vouches for what its author saw: an installation only exports    *)
(* entries its own scans stored, never what it got from another feed.      *)
(***************************************************************************)
ExportsOwnDetections ==
    \A v \in Vaults : \A f \in ToSet(feed[v]) : f.id \in {v} \X (1..MaxStored)

(***************************************************************************)
(* The vaults feed on themselves, and on each other, through the feeds.    *)
(* A stored variant of a stored variant may be far from anything the rules *)
(* detect, and is matched in its turn, here and wherever the feed is       *)
(* imported.  What they flag stays bounded all the same: every stored text *)
(* can be reached from a text the rules detect, or that a community feed   *)
(* published, along a chain of variants.                                   *)
(***************************************************************************)
VariantsOf(S) == {t \in Texts : \E s \in S : <<t, s>> \in Similar}

Sources == Strong \cup {e.text : e \in PublishedEntries}

(* The least set that holds the sources and the variants of its members.   *)
Reachable ==
    {t \in Texts : \A S \in SUBSET Texts : Sources \cup VariantsOf(S) \subseteq S => t \in S}

ContaminationBounded ==
    \A v \in Vaults : \A e \in entries[v] : e.text \in Reachable

(***************************************************************************)
(* "FALSE POSITIVE: vault entry removed" (docs/self-learning.md): after    *)
(* the feedback, and until a scan stores it again, the vault holds no      *)
(* local entry of the text.  The engine looks for metadata that its own    *)
(* store() call never writes, and removes nothing.                         *)
(***************************************************************************)
FalsePositiveForgotten ==
    \A v \in Vaults : \A e \in entries[v] : e.source = "local" => e.text \notin dismissed[v]
=============================================================================
