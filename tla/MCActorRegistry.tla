-------------------------- MODULE MCActorRegistry ---------------------------
(* Instances of ActorRegistry for TLC.                                      *)
EXTENDS ActorRegistry, TLC

CONSTANTS h1, h2, h3, a1, a2, a3

MCHandlers   == {h1, h2}
MCTwoActors  == {a1, a2}
MCOneActor   == {a1}
Symm         == Permutations(MCHandlers) \cup Permutations(MCTwoActors)
=============================================================================
