----------------------------- MODULE MCMpmcQueue -----------------------------
(* Model-checking instances of MpmcQueue: see the MpmcQueue*.cfg files. *)
EXTENDS MpmcQueue, TLC

\* Producers, consumers and items are interchangeable (safety runs only).
Symmetry ==
  Permutations(Producers) \cup Permutations(Consumers) \cup Permutations(Items)
=============================================================================
