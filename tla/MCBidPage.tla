----------------------------- MODULE MCBidPage -----------------------------
(* An instance of BidPage for TLC.  The deadlock check is off: the clock,   *)
(* the bids and the prices are bounded, and a closed page does nothing.     *)
EXTENDS BidPage
=============================================================================
