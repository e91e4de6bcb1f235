------------------------------- MODULE MCRules -------------------------------
(* The rules page and its server on a small instance. *)
EXTENDS Rules, TLC

CONSTANTS t1, t2

TwoTabs == {t1, t2}

MCDoes == t1 :> {"pick", "limits"} @@ t2 :> {"discard", "restore"}

\* Every browser does everything: what the claims of MCRulesClaims.cfg meet.
MCDoesAll == [t \in Tabs |-> Habits]

Symmetry == Permutations(Macs)
=============================================================================
