-------------------------- MODULE Signatures_proofs --------------------------
(***************************************************************************)
(* What an engine loads and what the cache answers was signed for one of   *)
(* the clients, and the cache file is whole as long as writers do not      *)
(* meet, for every set of processes, keys, documents and signatures.       *)
(***************************************************************************)
EXTENDS Signatures, TLAPS

Ops == {"fetch", "apply"}
Good == {d \in Usable : Genuine(d)}

(* A call by the stage it has come to; from "open" on its data have been   *)
(* verified and read.                                                      *)
Calls ==
    {NoCall} \cup [pc : {"feed"}, op : Ops] \cup [pc : {"sig"}, op : Ops, data : Docs]
    \cup [pc : {"verify"}, op : Ops, data : Docs, sig : Signed]
    \cup [pc : {"open", "fill", "swap"}, op : Ops, data : Good]

Contents == Good \cup {Blank, Torn, None}

(* A file holds verified documents only, or none that anybody can read.    *)
TypeInv ==
    /\ server \in [feed : Docs, sig : Signed]
    /\ call \in [Clients -> Calls]
    /\ tmp \in Contents /\ cache \in Contents
    /\ handle \in [Clients -> {"tmp", "cache", "lost", None}]
    /\ rules \in [Clients -> Seq(Good)]
    /\ overlapped \in BOOLEAN

(* As long as writers have not met there is one at most, which has its own *)
(* file under its temporary name, empty until it is filled and whole from  *)
(* then on.                                                                *)
AtWork(c) == call[c].pc \in {"fill", "swap"}

OneWriter == \A b, c \in Clients : AtWork(b) /\ AtWork(c) => b = c
FileReady ==
    \A c \in Clients : /\ call[c].pc = "fill" => handle[c] = "tmp" /\ tmp = Blank
                       /\ call[c].pc = "swap" => tmp = call[c].data
HandleInUse == \A c \in Clients : handle[c] # None => call[c].pc = "fill"

Apart == OneWriter /\ FileReady /\ HandleInUse /\ cache \in Good \cup {None}

IInv == TypeInv /\ (overlapped \/ Apart)
-----------------------------------------------------------------------------
LEMMA InitInvariant == FeedInit => IInv
<1> SUFFICES ASSUME FeedInit PROVE IInv
  OBVIOUS
<1>1. TypeInv
  <2>1. call \in [Clients -> Calls] /\ rules \in [Clients -> Seq(Good)]
    BY DEF FeedInit, Calls
  <2> QED BY <2>1 DEF FeedInit, TypeInv, Contents
<1>2. Apart
  BY DEF FeedInit, Apart, OneWriter, FileReady, HandleInUse, AtWork, NoCall
<1> QED BY <1>1, <1>2 DEF IInv

(* What the cache answers is a good document or none.                      *)
LEMMA CachedIsGood == ASSUME TypeInv PROVE Cached \in Good \cup {None}
BY SignaturesAssumption DEF TypeInv, Cached, Contents, Good

(* Good documents stay good: nothing that makes them so is a variable.     *)
LEMMA Distinct == /\ Good \subseteq Docs /\ Blank \notin Docs /\ Torn \notin Docs /\ None \notin Docs
                  /\ Blank # None /\ Torn # None /\ Good \subseteq Usable
                  /\ \A d \in Good : Size[d] \in Nat
BY SignaturesAssumption DEF Good, Blank, Torn, None

(* Returning takes a call to its end, and what it appends is good.         *)
LEMMA ReturnTypes ==
    ASSUME TypeInv, NEW c \in Clients, NEW d \in Good \cup {None}, Return(c, d)
    PROVE  /\ call' \in [Clients -> Calls] /\ call'[c] = NoCall
           /\ \A b \in Clients \ {c} : call'[b] = call[b]
           /\ rules' \in [Clients -> Seq(Good)]
<1>1. call' \in [Clients -> Calls] /\ call'[c] = NoCall /\ \A b \in Clients \ {c} : call'[b] = call[b]
  BY DEF TypeInv, Return, Calls
<1>2. CASE rules' = rules
  BY <1>1, <1>2 DEF TypeInv
<1>3. CASE d # None /\ rules' = [rules EXCEPT ![c] = Append(@, d)]
  <2>1. d \in Good
    BY <1>3
  <2>2. Append(rules[c], d) \in Seq(Good)
    BY <2>1 DEF TypeInv
  <2> QED BY <1>1, <1>3, <2>2 DEF TypeInv
<1> QED BY <1>1, <1>2, <1>3 DEF Return

(* Calls that are not at work on the file may change as they like.         *)
LEMMA ApartKept ==
    ASSUME Apart, TypeInv, UNCHANGED disk, NEW c \in Clients, call' \in [Clients -> Calls],
           call[c].pc \notin {"fill", "swap"},
           call'[c].pc \notin {"fill", "swap"},
           \A b \in Clients \ {c} : call'[b] = call[b]
    PROVE  Apart'
<1>1. OneWriter'
  BY DEF Apart, OneWriter, AtWork
<1>2. FileReady'
  BY DEF Apart, FileReady, disk
<1>3. HandleInUse'
  BY DEF Apart, HandleInUse, disk
<1> QED BY <1>1, <1>2, <1>3 DEF Apart, disk

LEMMA Members ==
    /\ NoCall \in Calls
    /\ \A op \in Ops : [pc |-> "feed", op |-> op] \in Calls
    /\ \A op \in Ops, d \in Docs : [pc |-> "sig", op |-> op, data |-> d] \in Calls
    /\ \A op \in Ops, d \in Docs, s \in Signed :
          [pc |-> "verify", op |-> op, data |-> d, sig |-> s] \in Calls
    /\ \A op \in Ops, d \in Good, p \in {"open", "fill", "swap"} :
          [pc |-> p, op |-> op, data |-> d] \in Calls
BY DEF Calls

LEMMA Stages ==
    ASSUME NEW x \in Calls
    PROVE  /\ x # NoCall => x.op \in Ops
           /\ x.pc \in {"idle", "feed", "sig", "verify", "open", "fill", "swap"}
           /\ x = NoCall <=> x.pc = "idle"
           /\ x.pc = "sig" => x.data \in Docs
           /\ x.pc = "verify" => x.data \in Docs /\ x.sig \in Signed
           /\ x.pc \in {"open", "fill", "swap"} =>
                /\ x.data \in Good
                /\ x = [pc |-> x.pc, op |-> x.op, data |-> x.data]
BY DEF Calls, NoCall

-----------------------------------------------------------------------------
(* A call that moves on and leaves the files alone.                        *)
LEMMA CallStep ==
    ASSUME IInv, NEW c \in Clients, NEW x \in Calls, x.pc \notin {"fill", "swap"},
           call[c].pc \notin {"fill", "swap"},
           call' = [call EXCEPT ![c] = x], UNCHANGED <<server, rules, disk>>
    PROVE  IInv'
<1>1. call' \in [Clients -> Calls] /\ call'[c] = x /\ \A b \in Clients \ {c} : call'[b] = call[b]
  BY DEF IInv, TypeInv
<1>2. TypeInv'
  BY <1>1 DEF IInv, TypeInv, disk
<1>3. Apart => Apart'
  BY <1>1, ApartKept DEF IInv
<1> QED BY <1>2, <1>3 DEF IInv, disk

(* A call that ends before it has touched the files.                       *)
LEMMA ReturnStep ==
    ASSUME IInv, NEW c \in Clients, NEW d \in Good \cup {None}, Return(c, d),
           call[c].pc \notin {"fill", "swap"}, UNCHANGED <<server, disk>>
    PROVE  IInv'
<1>1. /\ call' \in [Clients -> Calls] /\ call'[c] = NoCall
      /\ \A b \in Clients \ {c} : call'[b] = call[b]
      /\ rules' \in [Clients -> Seq(Good)]
  BY ReturnTypes DEF IInv
<1>2. TypeInv'
  BY <1>1 DEF IInv, TypeInv, disk
<1>3. Apart => Apart'
  BY <1>1, ApartKept DEF IInv, NoCall
<1> QED BY <1>2, <1>3 DEF IInv, disk

LEMMA DownloadSteps ==
    ASSUME IInv, NEW c \in Clients,
           \/ \E op \in Ops : Begin(c, op)
           \/ GetFeed(c) \/ GetSignature(c)
    PROVE  IInv'
<1>1. call[c] \in Calls /\ server.feed \in Docs /\ server.sig \in Signed
  BY DEF IInv, TypeInv
<1>2. ASSUME NEW op \in Ops, Begin(c, op) PROVE IInv'
  <2>1. call[c].pc = "idle"
    BY <1>2 DEF Begin, NoCall
  <2>2. [pc |-> "feed", op |-> op] \in Calls
    BY Members
  <2> QED BY <1>2, <2>1, <2>2, CallStep DEF Begin
<1>3. CASE GetFeed(c)
  <2>1. [pc |-> "sig", op |-> call[c].op, data |-> server.feed] \in Calls
    BY <1>1, <1>3, Members, Stages DEF GetFeed, NoCall
  <2> QED BY <1>3, <2>1, CallStep DEF GetFeed
<1>4. CASE GetSignature(c)
  <2>1. [pc |-> "verify", op |-> call[c].op, data |-> call[c].data, sig |-> server.sig] \in Calls
    BY <1>1, <1>4, Members, Stages DEF GetSignature, NoCall
  <2> QED BY <1>4, <2>1, CallStep DEF GetSignature
<1> QED BY <1>2, <1>3, <1>4

LEMMA FallbackSteps ==
    ASSUME IInv, NEW c \in Clients, Unreachable(c) \/ Refuse(c)
    PROVE  IInv'
<1>1. Cached \in Good \cup {None}
  BY CachedIsGood DEF IInv
<1>2. call[c].pc \notin {"fill", "swap"} /\ Return(c, Cached) /\ UNCHANGED <<server, disk>>
  BY DEF Unreachable, Refuse
<1> QED BY <1>1, <1>2, ReturnStep

(* What has been verified against the key of a client is good, if it can   *)
(* be read.                                                                *)
LEMMA AcceptStep == ASSUME IInv, NEW c \in Clients, Accept(c) PROVE IInv'
<1> DEFINE data == call[c].data
<1>1. /\ call[c] \in Calls /\ call[c].pc = "verify" /\ call[c].op \in Ops
      /\ data \in Docs /\ call[c].sig \in Signed
  BY Stages DEF IInv, TypeInv, Accept, NoCall
<1>2. Verifies(data, call[c].sig, KeyOf[c])
  BY DEF Accept
<1>3. CASE data \in Usable
  <2>1. call[c].sig = [key |-> KeyOf[c], of |-> data]
    BY <1>1, <1>2, SignaturesAssumption DEF Verifies
  <2>2. Genuine(data)
    BY <1>1, <2>1 DEF Genuine
  <2>3. data \in Good
    BY <1>3, <2>2 DEF Good
  <2>4. [pc |-> "open", op |-> call[c].op, data |-> data] \in Calls
    BY <1>1, <2>3, Members
  <2> QED BY <1>1, <1>3, <2>4, CallStep DEF Accept
<1>4. CASE data \notin Usable
  BY <1>1, <1>4, ReturnStep DEF Accept
<1> QED BY <1>3, <1>4

-----------------------------------------------------------------------------
(* A writer that opens the file is the only one, or writers have met.      *)
LEMMA OpenStep == ASSUME IInv, NEW c \in Clients, Open(c) PROVE IInv'
<1>1. /\ call[c] \in Calls /\ call[c].pc = "open" /\ call[c].op \in Ops /\ call[c].data \in Good
      /\ call[c] = [pc |-> "open", op |-> call[c].op, data |-> call[c].data]
  BY Stages DEF IInv, TypeInv, Open, NoCall
<1>2. /\ call'[c] = [pc |-> "fill", op |-> call[c].op, data |-> call[c].data]
      /\ \A b \in Clients \ {c} : call'[b] = call[b]
  BY <1>1 DEF IInv, TypeInv, Open
<1>3. call' \in [Clients -> Calls]
  <2>1. call'[c] \in Calls
    BY <1>1, <1>2, Members
  <2> QED BY <1>2, <2>1 DEF IInv, TypeInv, Open
<1>4. TypeInv'
  BY <1>3 DEF IInv, TypeInv, Open, Contents
<1>5. ASSUME ~ overlapped' PROVE Apart'
  <2>1. Apart /\ \A b \in Clients \ {c} : ~ AtWork(b)
    BY <1>5, Stages DEF IInv, TypeInv, Open, Writing, AtWork
  <2>2. OneWriter'
    BY <1>2, <2>1 DEF OneWriter, AtWork
  <2>3. FileReady'
    BY <1>2, <2>1 DEF FileReady, AtWork, Open, IInv, TypeInv
  <2>4. HandleInUse'
    BY <1>2, <2>1 DEF HandleInUse, Apart, AtWork, Open, IInv, TypeInv
  <2> QED BY <2>1, <2>2, <2>3, <2>4 DEF Apart, Open
<1> QED BY <1>4, <1>5 DEF IInv

LEMMA OverlaidIsContent ==
    ASSUME NEW old \in Contents, NEW new \in Good
    PROVE  Overlaid(old, new) \in Contents /\ Overlaid(Blank, new) = new
BY DEF Overlaid, Contents

LEMMA FillStep == ASSUME IInv, NEW c \in Clients, Fill(c) PROVE IInv'
<1>1. /\ call[c] \in Calls /\ call[c].pc = "fill" /\ call[c].op \in Ops /\ call[c].data \in Good
      /\ call[c] = [pc |-> "fill", op |-> call[c].op, data |-> call[c].data]
  BY Stages DEF IInv, TypeInv, Fill, NoCall
<1>2. /\ call'[c] = [pc |-> "swap", op |-> call[c].op, data |-> call[c].data]
      /\ \A b \in Clients \ {c} : call'[b] = call[b]
  BY <1>1 DEF IInv, TypeInv, Fill
<1>3. call' \in [Clients -> Calls]
  <2>1. call'[c] \in Calls
    BY <1>1, <1>2, Members
  <2> QED BY <1>2, <2>1 DEF IInv, TypeInv, Fill
<1>4. tmp' \in Contents /\ cache' \in Contents
  BY <1>1, OverlaidIsContent DEF IInv, TypeInv, Fill
<1>5. TypeInv'
  BY <1>3, <1>4 DEF IInv, TypeInv, Fill
<1>6. ASSUME Apart PROVE Apart'
  <2>1. handle[c] = "tmp" /\ tmp = Blank /\ \A b \in Clients \ {c} : ~ AtWork(b)
    BY <1>1, <1>6 DEF Apart, OneWriter, FileReady, AtWork
  <2>2. tmp' = call[c].data /\ cache' = cache
    BY <1>1, <2>1, OverlaidIsContent DEF Fill, Contents
  <2>3. OneWriter'
    BY <1>2, <2>1 DEF OneWriter, AtWork
  <2>4. FileReady'
    BY <1>2, <2>1, <2>2 DEF FileReady, AtWork
  <2>5. HandleInUse'
    BY <1>2, <1>6, <2>1 DEF HandleInUse, Apart, AtWork, Fill, IInv, TypeInv
  <2> QED BY <1>6, <2>2, <2>3, <2>4, <2>5 DEF Apart
<1> QED BY <1>5, <1>6 DEF IInv, Fill

LEMMA SwapStep == ASSUME IInv, NEW c \in Clients, Swap(c) PROVE IInv'
<1>1. /\ call[c] \in Calls /\ call[c].pc = "swap" /\ call[c].data \in Good
  BY Stages DEF IInv, TypeInv, Swap
<1>2. /\ call' \in [Clients -> Calls] /\ call'[c] = NoCall
      /\ \A b \in Clients \ {c} : call'[b] = call[b]
      /\ rules' \in [Clients -> Seq(Good)]
  BY <1>1, ReturnTypes DEF IInv, Swap
<1>3. handle' \in [Clients -> {"tmp", "cache", "lost", None}]
  BY DEF IInv, TypeInv, Swap
<1>4. TypeInv'
  BY <1>2, <1>3 DEF IInv, TypeInv, Swap, Contents
<1>5. ASSUME Apart PROVE Apart'
  <2>1. tmp = call[c].data /\ \A b \in Clients \ {c} : ~ AtWork(b)
    BY <1>1, <1>5 DEF Apart, OneWriter, FileReady, AtWork
  <2>2. \A b \in Clients : handle[b] = None
    BY <1>1, <1>5, <2>1 DEF Apart, HandleInUse, AtWork
  <2>3. cache' = call[c].data /\ \A b \in Clients : handle'[b] = None
    BY <1>1, <2>1, <2>2, Distinct DEF Swap, None
  <2>4. \A b \in Clients : call'[b].pc \notin {"fill", "swap"}
    BY <1>2, <2>1 DEF AtWork, NoCall
  <2>5. OneWriter' /\ FileReady' /\ HandleInUse'
    BY <2>3, <2>4 DEF OneWriter, FileReady, HandleInUse, AtWork
  <2> QED BY <1>1, <2>3, <2>5 DEF Apart
<1> QED BY <1>4, <1>5 DEF IInv, Swap

(* A writer that gives up or dies leaves a file behind that nobody reads.  *)
LEMMA LeavingFiles ==
    ASSUME IInv, NEW c \in Clients, call' \in [Clients -> Calls], call'[c] = NoCall,
           \A b \in Clients \ {c} : call'[b] = call[b],
           rules' \in [Clients -> Seq(Good)],
           handle' = [handle EXCEPT ![c] = None], UNCHANGED <<server, tmp, cache, overlapped>>
    PROVE  IInv'
<1>1. TypeInv'
  BY DEF IInv, TypeInv
<1>2. ASSUME Apart PROVE Apart'
  <2>1. OneWriter'
    <3>1. \A b \in Clients : call'[b].pc \in {"fill", "swap"} => call'[b] = call[b]
      BY DEF NoCall
    <3> QED BY <1>2, <3>1 DEF Apart, OneWriter, AtWork
  <2>2. FileReady'
    BY <1>2 DEF Apart, FileReady, NoCall, IInv, TypeInv
  <2>3. HandleInUse'
    BY <1>2 DEF Apart, HandleInUse, NoCall, IInv, TypeInv
  <2> QED BY <1>2, <2>1, <2>2, <2>3 DEF Apart
<1> QED BY <1>1, <1>2 DEF IInv

LEMMA CannotWriteStep == ASSUME IInv, NEW c \in Clients, CannotWrite(c) PROVE IInv'
<1>1. call[c].data \in Good
  BY Stages DEF IInv, TypeInv, CannotWrite
<1> QED BY <1>1, ReturnTypes, LeavingFiles DEF IInv, CannotWrite

LEMMA CrashStep == ASSUME IInv, NEW c \in Clients, Crash(c) PROVE IInv'
<1>1. /\ call' \in [Clients -> Calls] /\ call'[c] = NoCall
      /\ \A b \in Clients \ {c} : call'[b] = call[b]
      /\ rules' \in [Clients -> Seq(Good)]
  BY Members DEF IInv, TypeInv, Crash
<1> QED BY <1>1, LeavingFiles DEF Crash

LEMMA ReloadStep == ASSUME IInv, NEW c \in Clients, Reload(c) PROVE IInv'
<1>1. rules' \in [Clients -> Seq(Good)]
  BY DEF IInv, TypeInv, Reload
<1> QED BY <1>1 DEF IInv, TypeInv, Reload, disk, Apart, OneWriter, FileReady, HandleInUse, AtWork

LEMMA ReplaceSteps == ASSUME IInv, ReplaceFeed \/ ReplaceSignature PROVE IInv'
BY DEF IInv, TypeInv, ReplaceFeed, ReplaceSignature, disk, Apart, OneWriter, FileReady,
       HandleInUse, AtWork

LEMMA NextInvariant == IInv /\ [FeedNext]_feedVars => IInv'
<1> SUFFICES ASSUME IInv, [FeedNext]_feedVars PROVE IInv'
  OBVIOUS
<1>1. CASE ReplaceFeed \/ ReplaceSignature
  BY <1>1, ReplaceSteps
<1>2. ASSUME NEW c \in Clients, NEW op \in Ops, Begin(c, op) PROVE IInv'
  BY <1>2, DownloadSteps
<1>3. ASSUME NEW c \in Clients,
             GetFeed(c) \/ GetSignature(c) \/ Unreachable(c) \/ Refuse(c) \/ Accept(c)
      PROVE  IInv'
  BY <1>3, DownloadSteps, FallbackSteps, AcceptStep
<1>4. ASSUME NEW c \in Clients, Open(c) \/ Fill(c) \/ Swap(c) \/ CannotWrite(c)
      PROVE  IInv'
  BY <1>4, OpenStep, FillStep, SwapStep, CannotWriteStep
<1>5. ASSUME NEW c \in Clients, Reload(c) \/ Crash(c) PROVE IInv'
  BY <1>5, ReloadStep, CrashStep
<1>6. CASE UNCHANGED feedVars
  BY <1>6 DEF feedVars, IInv, TypeInv, Apart, OneWriter, FileReady, HandleInUse, AtWork
<1> QED BY <1>1, <1>2, <1>3, <1>4, <1>5, <1>6 DEF FeedNext, Ops

LEMMA Invariance == FeedSpec => []IInv
BY InitInvariant, NextInvariant, PTL DEF FeedSpec
-----------------------------------------------------------------------------
(* No interleaving of calls, replacements and crashes installs a document  *)
(* that was not signed for one of the clients, nor lets the cache answer   *)
(* with one (client.fetch, apply_to_engine).                               *)
THEOREM InstalledIsVerified == FeedSpec => []OnlyVerified
<1>1. IInv => OnlyVerified
  <2> SUFFICES ASSUME IInv PROVE OnlyVerified
    OBVIOUS
  <2>1. Cached # None => Genuine(Cached)
    BY CachedIsGood DEF IInv, Good
  <2>2. ASSUME NEW c \in Clients, NEW n \in DOMAIN rules[c] PROVE Genuine(rules[c][n])
    <3>1. rules[c][n] \in Good
      BY DEF IInv, TypeInv
    <3> QED BY <3>1 DEF Good
  <2> QED BY <2>1, <2>2 DEF OnlyVerified
<1> QED BY <1>1, Invariance, PTL

(* The cache file is whole at every instant at which writers have not met, *)
(* whatever step a process dies at (client._write_cache).                  *)
THEOREM CacheIsWhole == FeedSpec => []CacheWhole
<1>1. IInv => CacheWhole
  BY Distinct DEF IInv, Apart, CacheWhole
<1> QED BY <1>1, Invariance, PTL

(* A call that refuses what it downloaded ends with both files as they     *)
(* were, and its engine holds nothing new but what the cache held          *)
(* (client.fetch, apply_to_engine).                                        *)
THEOREM RefusingIsHarmless == FeedSpec => RefusalHarmless
<1>1. ASSUME IInv, [FeedNext]_feedVars, NEW c \in Clients, Refusing(c), call'[c] # call[c]
      PROVE  /\ call'[c] = NoCall /\ UNCHANGED <<cache, tmp>>
             /\ \/ rules'[c] \in {rules[c], <<>>}
                \/ Cached # None /\ rules'[c] = Append(rules[c], Cached)
  <2>1. call \in [Clients -> Calls] /\ call[c].pc = "verify" /\ call[c] # NoCall
    BY <1>1 DEF IInv, TypeInv, Refusing, Judging
  <2>2. ~ Accept(c)
    BY <1>1 DEF Accept, Refusing
  <2>3. ASSUME NEW b \in Clients, b # c PROVE
          /\ \A op \in Ops : ~ Begin(b, op)
          /\ ~ GetFeed(b) /\ ~ GetSignature(b) /\ ~ Unreachable(b) /\ ~ Refuse(b) /\ ~ Accept(b)
          /\ ~ Open(b) /\ ~ Fill(b) /\ ~ Swap(b) /\ ~ CannotWrite(b) /\ ~ Crash(b)
    BY <1>1, <2>1, <2>3 DEF Begin, GetFeed, GetSignature, Unreachable, Refuse, Accept, Open,
       Fill, Swap, CannotWrite, Crash, Return
  <2>4. CASE Refuse(c)
    <3>1. rules \in [Clients -> Seq(Good)]
      BY <1>1 DEF IInv, TypeInv
    <3> QED BY <2>1, <2>4, <3>1 DEF Refuse, Return, disk
  <2>5. CASE Crash(c)
    <3>1. rules \in [Clients -> Seq(Good)]
      BY <1>1 DEF IInv, TypeInv
    <3> QED BY <2>1, <2>5, <3>1 DEF Crash
  <2>6. Refuse(c) \/ Crash(c)
    <3>1. ~ (ReplaceFeed \/ ReplaceSignature \/ UNCHANGED feedVars \/ \E b \in Clients : Reload(b))
      BY <1>1 DEF ReplaceFeed, ReplaceSignature, feedVars, Reload
    <3>2. /\ \A op \in Ops : ~ Begin(c, op)
          /\ ~ GetFeed(c) /\ ~ GetSignature(c) /\ ~ Unreachable(c)
          /\ ~ Open(c) /\ ~ Fill(c) /\ ~ Swap(c) /\ ~ CannotWrite(c)
      BY <2>1 DEF Begin, GetFeed, GetSignature, Unreachable, Open, Fill, Swap, CannotWrite
    <3> QED BY <1>1, <2>2, <2>3, <3>1, <3>2 DEF FeedNext, Ops
  <2> QED BY <2>4, <2>5, <2>6
<1>2. IInv /\ [FeedNext]_feedVars => [\A c \in Clients : Refusing(c) /\ call'[c] # call[c]
          => /\ call'[c] = NoCall /\ UNCHANGED <<cache, tmp>>
             /\ \/ rules'[c] \in {rules[c], <<>>}
                \/ Cached # None /\ rules'[c] = Append(rules[c], Cached)]_feedVars
  BY <1>1
<1> QED BY <1>2, Invariance, PTL DEF FeedSpec, RefusalHarmless
=============================================================================
