---------------------------- MODULE MCKeyCache ------------------------------
(* A small instance of KeyCache: a key that is published at the start and  *)
(* one that the issuer publishes later.                                    *)
EXTENDS KeyCache, TLC

CONSTANTS old, new

Sym == Permutations(Requests)

=============================================================================
