--------------------------- MODULE MCApiIdempotency ---------------------------
(* An instance of ApiIdempotency for TLC: three requests share a key, one  *)
(* of them with another payload; a fourth has a key of its own.  No        *)
(* symmetry, which TLC does not support for the liveness property.         *)
EXTENDS ApiIdempotency

CONSTANTS r1, r2, r3, r4, k1, k2

MCRequests == {r1, r2, r3, r4}
MCKeys == {k1, k2}
MCKeyOf == [r \in MCRequests |-> IF r = r4 THEN k2 ELSE k1]
MCPayloadOf == [r \in MCRequests |-> IF r = r3 THEN "other" ELSE "body"]
===============================================================================
