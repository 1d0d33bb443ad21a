----------------------------- MODULE MCClientHub -----------------------------
(* One actor's hub for TLC.                                                 *)
EXTENDS ClientHub

CONSTANT c1

OneClient == {c1}
=============================================================================
