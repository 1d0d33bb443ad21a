---------------------------- MODULE MCAuctionLists ----------------------------
EXTENDS AuctionLists
CONSTANTS a1, a2, a3

MCKey ==
    [newest    |-> (a1 :> 1 @@ a2 :> 2 @@ a3 :> 3),
     ending    |-> (a1 :> 5 @@ a2 :> 4 @@ a3 :> 1),
     relevance |-> (a1 :> 2 @@ a2 :> 7 @@ a3 :> 1)]

\* Keep against the library's filter, for every list of up to four auctions.
ASSUME KeepIsSelectSeq ==
    \A list \in BoundedSeq(Auctions, 4), wanted \in SUBSET Auctions :
        Keep(list, wanted) = SelectSeq(list, LAMBDA a : a \in wanted)
=============================================================================
