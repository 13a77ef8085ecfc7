---------------------------- MODULE MCSignatures ----------------------------
(* Two processes with keys of their own and one cache file; a document of  *)
(* each key, a signed one that is no feed, and one that nobody signed.     *)
EXTENDS Signatures, TLC

CONSTANTS c1, c2, k1, k2

MCClients == {c1, c2}
MCKeyOf == (c1 :> k1) @@ (c2 :> k2)
MCDocs == {"feed1", "feed2", "notice", "forged"}
MCUsable == MCDocs \ {"notice"}
MCSize == [d \in MCDocs |-> IF d = "feed1" THEN 2 ELSE 1]
MCSigned == {[key |-> k1, of |-> "feed1"], [key |-> k2, of |-> "feed2"],
             [key |-> k1, of |-> "notice"]}
\* Only the first process has an engine.
OneEngine == (c1 :> 1) @@ (c2 :> 0)
=============================================================================
