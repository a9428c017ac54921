---------------------------- MODULE MCActivity -----------------------------
\* Activity around the boundaries that matter: the two extreme zones and UTC
\* cut their days at 12h, 10h and 0h UTC, and the clock stops on both sides of
\* each for three days running, or jumps over any of them.
EXTENDS Activity, TLC

MCZones == {-12, 0, 14}
MCHours == {24, 33, 34, 36, 47, 48, 58, 60, 72, 96}

Symmetry == Permutations(Requests)
=============================================================================
