---------------------------- MODULE MCAttackVault ----------------------------
(* Two interchangeable installations.  The rules detect one attack and,    *)
(* weakly, another text.  A paraphrase is similar to the attack, and an    *)
(* echo to the paraphrase only: it is flagged where the paraphrase has     *)
(* been stored.  One community feed lists the attack twice.                *)
EXTENDS AttackVault, TLC

MCStrong == {"attack"}
MCWeak == {"weak"}
MCTexts == {"attack", "paraphrase", "echo", "weak"}
MCNear == {<<"attack", "paraphrase">>, <<"paraphrase", "echo">>}
MCSimilar == {<<t, t>> : t \in MCTexts} \cup MCNear \cup {<<p[2], p[1]>> : p \in MCNear}
MCPublished == {<< [id |-> <<"feed", 1>>, text |-> "attack", hash |-> "attack"],
                   [id |-> <<"feed", 2>>, text |-> "attack", hash |-> "attack"] >>}

VaultSymmetry == Permutations(Vaults)
=============================================================================
