-------------------------- MODULE MCStripeBilling ---------------------------
(* StripeBilling with interchangeable handlers.                            *)
EXTENDS StripeBilling, TLC

Symmetry == Permutations(Handlers)

=============================================================================
