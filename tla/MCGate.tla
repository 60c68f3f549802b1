------------------------------- MODULE MCGate -------------------------------
(* A small instance of Gate. *)
EXTENDS Gate, TLC

CONSTANTS c1, c2, o1, o2

Plain ==
  [reads |-> FALSE, spends |-> FALSE, secret |-> FALSE, irreversible |-> "never",
   to |-> "nobody"]

\* A tool that only reads, and one that writes to somebody or, by mistake, to nobody.
Shapes ==
  {[Plain EXCEPT !.reads = TRUE], [Plain EXCEPT !.irreversible = "stranger"],
   [Plain EXCEPT !.irreversible = "stranger", !.to = "known"]}

Alike == Permutations({c1, c2}) \cup Permutations({o1, o2})
=============================================================================
