----------------------------- MODULE MCSession -----------------------------
(* An instance of Session for TLC: two requests, of one tab or of two. *)
EXTENDS Session

CONSTANTS t1, t2, r1, r2

MCTabs  == {t1, t2}
MCReqs  == {r1, r2}
MCFormTabs == {t2}
MCPlacements == {[r \in MCReqs |-> t1], [r \in MCReqs |-> IF r = r1 THEN t1 ELSE t2]}
=============================================================================
