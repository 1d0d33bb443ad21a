--------------------------- MODULE MCAuctionActor ---------------------------
(* Instances of AuctionActor for TLC.                                       *)
EXTENDS AuctionActor, TLC

CONSTANTS seller, ann, bob, t1, t2, r1, r2

MCUsers     == {seller, ann, bob}
MCTxs       == {t1, t2}
MCTwoReqs   == {r1, r2}
=============================================================================
