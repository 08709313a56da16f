---------------------------- MODULE MCOwnedEntries ----------------------------
(* TLC instance of OwnedEntries.                                           *)
EXTENDS OwnedEntries, TLC

CONSTANTS s1, k1, k2, w1, w2, v1

MCSessionOf == [k \in Keys |-> s1]
MCLimits    == {[all |-> 1, session |-> 2], [all |-> 2, session |-> 1],
                [all |-> 2, session |-> 2]}
MCSymmetry  == Permutations(Writers) \cup Permutations(Keys)
===============================================================================
