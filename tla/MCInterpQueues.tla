---------------------------- MODULE MCInterpQueues ----------------------------
(* InterpQueues for TLC: evals and messages are interchangeable, so safety is *)
(* checked up to their permutation.                                          *)
EXTENDS InterpQueues, TLC

Symmetry == Permutations(Syncs) \cup Permutations(Msgs)

=============================================================================
