-------------------------- MODULE MCAuctionImages --------------------------
(* An instance of AuctionImages for TLC: an auction with up to three images,  *)
(* two files to add, a limit of three.                                       *)
EXTENDS AuctionImages

CONSTANTS o1, o2, o3, f1, f2, f3

MCOld == <<o1, o2, o3>>
MCNew == {f1, f2, f3}
MCOdd == {f3}
=============================================================================
