--------------------------- MODULE MCAuctionStore ---------------------------
(* Instances of AuctionStore for TLC.                                       *)
EXTENDS AuctionStore, TLC

CONSTANTS seller, ann, bob, t1, t2

MCUsers == {seller, ann, bob}
MCTxs   == {t1, t2}
Symm    == Permutations({ann, bob}) \cup Permutations(MCTxs)
=============================================================================
