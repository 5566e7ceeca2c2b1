----------------------------- MODULE MCInterpLife -----------------------------
(* InterpLife for TLC: the records of aliases are interchangeable.           *)
EXTENDS InterpLife, TLC

Symmetry == Permutations(Recs)

=============================================================================
