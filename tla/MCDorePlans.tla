----------------------------- MODULE MCDorePlans -----------------------------
(* Instances of DorePlans for TLC: two contracts of one symbol and direction
   and one of another, so that plans block, crowd out and retire each other. *)
EXTENDS DorePlans, TLC

CONSTANTS a1, a2, b1

MCPairOnly == {a1, a2}
MCTwo == {a1, b1}
MCPair == [c \in Contracts |-> IF c = b1 THEN "B|CE" ELSE "A|CE"]
MCExpiry == [c \in Contracts |-> IF c = a1 THEN 0 ELSE 9]
MCZone == {1}
MCConfidences == {1, 2}
=============================================================================
