---------------------------- MODULE MCEmbedding ----------------------------
(* A small instance of Embedding: two models, two dimensions. *)
EXTENDS Embedding, TLC

CONSTANTS d1, d2, m1, m2

Alike == Permutations({d1, d2}) \cup Permutations({m1, m2})
=============================================================================
