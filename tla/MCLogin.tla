------------------------------ MODULE MCLogin ------------------------------
(* A small instance of Login: two request handlers.                         *)
EXTENDS Login, TLC

CONSTANTS h1, h2

Handlers == Permutations({h1, h2})
=============================================================================
