----------------------------- MODULE Signatures -----------------------------
(***************************************************************************)
(* The federated signature feed: SignaturesClient.fetch() downloads a feed *)
(* and its detached signature, verifies one against the other, keeps the   *)
(* verified bytes in a cache file, and apply_to_engine() loads them into   *)
(* the d030 detector of an engine.                                         *)
(*                                                                         *)
(* The calls are made by processes that share the cache file, which is the *)
(* default one unless a caller names another.  A document is atomic data;  *)
(* a signature says which key made it and of which document.  The server   *)
(* replaces the feed and the signature one after the other, and serves     *)
(* anything.  The file system is the one of POSIX: a rename moves an inode *)
(* from the temporary name to the cache name, and a process that holds the *)
(* inode open goes on writing into it.  An inode is called by the name it  *)
(* has now.                                                                *)
(***************************************************************************)
EXTENDS Integers, Sequences

CONSTANTS
    Clients,    \* processes; each holds a client and an engine
    KeyOf,      \* KeyOf[c]: the public key its calls verify against
    Docs,       \* the documents a server may serve as the feed
    Usable,     \* those that are JSON with a list of signatures
    Size,       \* Size[d]: the length of the document in bytes
    Signed,     \* the signatures there are, [key, of]; one that does not parse
                \* is refused like one that is of something else
    MaxRules    \* bound, per client: loads into its engine between two reloads

Blank == "empty"     \* a file that was opened and not yet written
Torn == "torn"       \* the bytes of two documents
None == "none"

ASSUME SignaturesAssumption ==
    /\ Usable \subseteq Docs /\ Docs \cap {Blank, Torn, None} = {}
    /\ Size \in [Docs -> Nat]
    /\ Signed \subseteq [key : {s.key : s \in Signed}, of : Docs]
    /\ MaxRules \in [Clients -> Nat]

VARIABLES
    server,     \* the feed and the signature as served now
    call,       \* per client: the call in progress
    tmp, cache, \* what is in the temporary file and in the cache file
    handle,     \* per client: the file it has open, by its present name
    rules,      \* per client: the documents whose rules its d030 holds
    overlapped  \* history: two writers were at work on the temporary file

feedVars == <<server, call, tmp, cache, handle, rules, overlapped>>
disk == <<tmp, cache, handle, overlapped>>

NoCall == [pc |-> "idle"]

FeedInit ==
    /\ server \in [feed : Docs, sig : Signed]
    /\ call = [c \in Clients |-> NoCall]
    /\ tmp = None /\ cache = None
    /\ handle = [c \in Clients |-> None]
    /\ rules = [c \in Clients |-> <<>>]
    /\ overlapped = FALSE

-----------------------------------------------------------------------------
(* The publisher, or whatever answers in its place.                        *)
ReplaceFeed == \E d \in Docs :
    /\ server' = [server EXCEPT !.feed = d]
    /\ UNCHANGED <<call, rules, disk>>

ReplaceSignature == \E s \in Signed :
    /\ server' = [server EXCEPT !.sig = s]
    /\ UNCHANGED <<call, rules, disk>>

-----------------------------------------------------------------------------
(* _read_cache(): the document in the cache file, never checked again.     *)
Cached == IF cache \in Usable THEN cache ELSE None

(* The call returns an update with document d, or one without success.    *)
(* apply_to_engine() then raises, and otherwise appends the rules of the   *)
(* document to those of d030.  Only its own thread touches either.         *)
Return(c, d) ==
    /\ call' = [call EXCEPT ![c] = NoCall]
    /\ rules' = IF call[c].op = "apply" /\ d # None
                THEN [rules EXCEPT ![c] = Append(@, d)] ELSE rules

(* fetch() goes to the network when the interval since the last attempt is *)
(* over, which may be at any time; before that it reads the cache and has  *)
(* no effect.  apply_to_engine() forces it.                                *)
Begin(c, op) ==
    /\ call[c] = NoCall
    /\ op = "apply" => Len(rules[c]) < MaxRules[c]
    /\ call' = [call EXCEPT ![c] = [pc |-> "feed", op |-> op]]
    /\ UNCHANGED <<server, rules, disk>>

GetFeed(c) ==
    /\ call[c].pc = "feed"
    /\ call' = [call EXCEPT ![c] = [pc |-> "sig", op |-> @.op, data |-> server.feed]]
    /\ UNCHANGED <<server, rules, disk>>

GetSignature(c) ==
    /\ call[c].pc = "sig"
    /\ call' = [call EXCEPT ![c] = [pc |-> "verify", op |-> @.op, data |-> @.data,
                                    sig |-> server.sig]]
    /\ UNCHANGED <<server, rules, disk>>

(* Either download fails or times out: the cache answers.                  *)
Unreachable(c) ==
    /\ call[c].pc \in {"feed", "sig"}
    /\ Return(c, Cached)
    /\ UNCHANGED <<server, disk>>

(* Mutant: only the key id is compared.                                    *)
KeyIdOnly(data, sig, key) == sig.key = key

(* verify_minisign(): key id, signature of the data, global signature.     *)
Verifies(data, sig, key) == sig.key = key /\ sig.of = data

(* Mutant: the download is kept before it is verified.                     *)
RefuseTooLate(c) ==
    /\ call[c].pc = "verify" /\ ~ Verifies(call[c].data, call[c].sig, KeyOf[c])
    /\ cache' = call[c].data
    /\ Return(c, None)
    /\ UNCHANGED <<server, tmp, handle, overlapped>>

Refuse(c) ==
    /\ call[c].pc = "verify" /\ ~ Verifies(call[c].data, call[c].sig, KeyOf[c])
    /\ Return(c, Cached)
    /\ UNCHANGED <<server, disk>>

Accept(c) ==
    LET data == call[c].data IN
    /\ call[c].pc = "verify" /\ Verifies(data, call[c].sig, KeyOf[c])
    /\ IF data \in Usable
       THEN /\ call' = [call EXCEPT ![c] = [pc |-> "open", op |-> @.op, data |-> data]]
            /\ UNCHANGED rules
       ELSE Return(c, None)
    /\ UNCHANGED <<server, disk>>

-----------------------------------------------------------------------------
(* _write_cache(): open and truncate the temporary file, write the bytes,  *)
(* rename it.  An OSError is logged and the call goes on.                  *)
Writing(c) == call[c] # NoCall /\ call[c].pc \in {"fill", "swap"}

(* Mutant: the cache file itself is opened for writing.                    *)
OpenInPlace(c) ==
    /\ call[c].pc = "open"
    /\ cache' = Blank
    /\ handle' = [handle EXCEPT ![c] = "cache"]
    /\ call' = [call EXCEPT ![c].pc = "fill"]
    /\ UNCHANGED <<server, rules, tmp, overlapped>>

Open(c) ==
    /\ call[c].pc = "open"
    /\ tmp' = Blank
    /\ handle' = [handle EXCEPT ![c] = "tmp"]
    /\ overlapped' = (overlapped \/ \E b \in Clients \ {c} : Writing(b))
    /\ call' = [call EXCEPT ![c].pc = "fill"]
    /\ UNCHANGED <<server, rules, cache>>

(* Bytes written from the start over what is there.                        *)
Overlaid(old, new) ==
    IF old = Blank \/ (old \in Docs /\ Size[old] <= Size[new]) THEN new ELSE Torn

Fill(c) ==
    /\ call[c].pc = "fill"
    /\ IF handle[c] = "tmp" THEN tmp' = Overlaid(tmp, call[c].data) ELSE UNCHANGED tmp
    /\ IF handle[c] = "cache" THEN cache' = Overlaid(cache, call[c].data) ELSE UNCHANGED cache
    /\ handle' = [handle EXCEPT ![c] = None]
    /\ call' = [call EXCEPT ![c].pc = "swap"]
    /\ UNCHANGED <<server, rules, overlapped>>

(* The rename fails when another writer has renamed the file already.      *)
(* Whoever has the file open has the cache open from now on; the old cache *)
(* has no name any more.                                                   *)
Swap(c) ==
    /\ call[c].pc = "swap"
    /\ IF tmp = None THEN UNCHANGED <<cache, handle>>
       ELSE /\ cache' = tmp
            /\ handle' = [b \in Clients |-> CASE handle[b] = "tmp" -> "cache"
                                              [] handle[b] = "cache" -> "lost"
                                              [] OTHER -> handle[b]]
    /\ tmp' = None
    /\ Return(c, call[c].data)
    /\ UNCHANGED <<server, overlapped>>

(* No space, no permission: the cache is not written.                      *)
CannotWrite(c) ==
    /\ call[c].pc \in {"open", "fill", "swap"}
    /\ handle' = [handle EXCEPT ![c] = None]
    /\ Return(c, call[c].data)
    /\ UNCHANGED <<server, tmp, cache, overlapped>>

-----------------------------------------------------------------------------
(* d030.setup() starts again from the rules_dir.                           *)
Reload(c) ==
    /\ call[c] = NoCall /\ rules[c] # <<>>
    /\ rules' = [rules EXCEPT ![c] = <<>>]
    /\ UNCHANGED <<server, call, disk>>

(* The process dies and is started again.                                  *)
Crash(c) ==
    /\ call[c] # NoCall
    /\ call' = [call EXCEPT ![c] = NoCall]
    /\ handle' = [handle EXCEPT ![c] = None]
    /\ rules' = [rules EXCEPT ![c] = <<>>]
    /\ UNCHANGED <<server, tmp, cache, overlapped>>

FeedNext ==
    \/ ReplaceFeed \/ ReplaceSignature
    \/ \E c \in Clients :
          \/ \E op \in {"fetch", "apply"} : Begin(c, op)
          \/ GetFeed(c) \/ GetSignature(c) \/ Unreachable(c) \/ Refuse(c) \/ Accept(c)
          \/ Open(c) \/ Fill(c) \/ Swap(c) \/ CannotWrite(c)
          \/ Reload(c) \/ Crash(c)

FeedSpec == FeedInit /\ [][FeedNext]_feedVars

-----------------------------------------------------------------------------
(* What the cache answers, and every rule an engine holds, is from a       *)
(* document that was signed for one of the clients that share the cache,   *)
(* although the feed and its signature are downloaded one after the other, *)
(* are replaced in between, and writers share the file (client.fetch,      *)
(* apply_to_engine).  It need not be the client that holds it: what is     *)
(* read from the cache is not verified again, against whatever key.        *)
Genuine(d) == \E c \in Clients : [key |-> KeyOf[c], of |-> d] \in Signed

OnlyVerified ==
    /\ Cached # None => Genuine(Cached)
    /\ \A c \in Clients : \A n \in DOMAIN rules[c] : Genuine(rules[c][n])

(* As long as no two writers meet, the cache file is whole at every        *)
(* instant, whatever step a process dies at or an error occurs             *)
(* (client._write_cache: temporary file, then rename).                     *)
CacheWhole == overlapped \/ cache \in Usable \cup {None}

(* "On verification failure the cache is NOT updated" (client.py:205): a   *)
(* call that refused its download has ended with the files as they were.   *)
(* All that its engine may have loaded is what the cache held before, and  *)
(* that is not nothing: fetch() answers a refusal from the cache.          *)
Judging(c) == call[c] # NoCall /\ call[c].pc = "verify"
Refusing(c) == Judging(c) /\ ~ Verifies(call[c].data, call[c].sig, KeyOf[c])

RefusalHarmless ==
    [][\A c \in Clients : Refusing(c) /\ call'[c] # call[c]
          => /\ call'[c] = NoCall /\ UNCHANGED <<cache, tmp>>
             /\ \/ rules'[c] \in {rules[c], <<>>}
                \/ Cached # None /\ rules'[c] = Append(rules[c], Cached)]_feedVars

(* apply_to_engine.py:10, "If verification fails, SignatureVerification-   *)
(* Error is raised and the engine's state is left untouched."              *)
RefusalLeavesEngine == [][\A c \in Clients : Refuse(c) => UNCHANGED rules]_feedVars
=============================================================================
