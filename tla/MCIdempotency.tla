---------------------------- MODULE MCIdempotency ---------------------------
(* Instances of Idempotency for TLC.                                        *)
EXTENDS Idempotency, TLC

CONSTANTS k1, k2, r1, r2, r3

MCKeys    == {k1, k2}
MCTwoReqs == {r1, r2}
=============================================================================
