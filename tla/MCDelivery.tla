----------------------------- MODULE MCDelivery -----------------------------
(* TLC instance of Delivery.                                               *)
EXTENDS Delivery, TLC

Symmetry == Permutations(Callers) \cup Permutations(Sessions)
=============================================================================
