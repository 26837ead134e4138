--------------------------- MODULE MCHumanReview ---------------------------
(* Model-checking instance of HumanReview: symmetry of the reviews of each *)
(* kind and of the handlers of the API process.                            *)
EXTENDS HumanReview, TLC

Symmetry ==
  Permutations(Originals) \cup Permutations(Reviews \ Originals) \cup Permutations(Operators)

=============================================================================
