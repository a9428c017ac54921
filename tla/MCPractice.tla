----------------------------- MODULE MCPractice -----------------------------
\* Practice over three days, with midnight of UTC and of a zone ahead of it.
EXTENDS Practice, TLC

MCZones == {0, 10}
MCHours == {30, 39, 49}

Symmetry == Permutations(Requests)
=============================================================================
