------------------------------ MODULE MCExpiry ------------------------------
(* TLC instance of Expiry.                                                 *)
EXTENDS Expiry

CONSTANTS k1, k2, c1, c2

MCUses == [c \in Callers |-> IF c = c1 THEN Keys \ {k2} ELSE Keys]
MCAll  == [c \in Callers |-> Keys]
============================================================================
