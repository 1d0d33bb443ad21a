--------------------------- MODULE AuctionLedger ----------------------------
(* What one auction promises to sellers and bidders, with no row locks,     *)
(* transactions, snapshots or clock: terms that are fixed once it opens, a  *)
(* list of bids that only grows and only upwards, and one final result.     *)
(*                                                                          *)
(* `overtime` counts the extensions the auction can still earn.  While it   *)
(* is positive the result names the last bidder; once it is spent, a bid    *)
(* that arrives while the auction closes stays on record but may miss the   *)
(* result, which then names the bidder of an earlier entry, or nobody.      *)
EXTENDS Integers, Sequences

CONSTANTS Users, Owner, NoUser, Prices, MaxExt

VARIABLES phase, terms, ledger, overtime, winner

vars == <<phase, terms, ledger, overtime, winner>>

Terms == [price : Nat, inc : Nat]

Init ==
    /\ phase = "PENDING"
    /\ terms \in Terms
    /\ ledger = <<>>
    /\ overtime = MaxExt
    /\ winner = NoUser

Amend ==
    /\ phase = "PENDING"
    /\ terms' \in Terms
    /\ UNCHANGED <<phase, ledger, overtime, winner>>

Withdraw ==
    /\ phase = "PENDING"
    /\ phase' = "GONE"
    /\ terms' \in Terms
    /\ UNCHANGED <<ledger, overtime, winner>>

Open ==
    /\ phase = "PENDING"
    /\ phase' = "ACTIVE"
    /\ UNCHANGED <<terms, ledger, overtime, winner>>

Asked ==
    terms.inc + (IF ledger = <<>> THEN terms.price ELSE ledger[Len(ledger)].price)

Bid(u, p) ==
    /\ phase = "ACTIVE"
    /\ u # Owner
    /\ p >= Asked
    /\ ledger' = Append(ledger, [user |-> u, price |-> p])
    /\ \/ overtime' = overtime
       \/ overtime > 0 /\ overtime' = overtime - 1
    /\ UNCHANGED <<phase, terms, winner>>

BidderOf(n) == IF n = 0 THEN NoUser ELSE ledger[n].user

Close ==
    /\ phase = "ACTIVE"
    /\ phase' = "ENDED"
    /\ \E n \in 0 .. Len(ledger) :
          /\ overtime > 0 => n = Len(ledger)
          /\ winner' = BidderOf(n)
    /\ UNCHANGED <<terms, ledger, overtime>>

Next ==
    \/ Amend \/ Withdraw \/ Open \/ Close
    \/ \E u \in Users, p \in Prices : Bid(u, p)

Spec == Init /\ [][Next]_vars
=============================================================================
