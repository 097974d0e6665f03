--------------------------- MODULE MCHealthControl ---------------------------
EXTENDS HealthControl, TLC

Symmetry == Permutations(Call) \cup Permutations(Candidate)
=============================================================================
