----------------------------- MODULE MCProfile -----------------------------
\* Two devices, a birthday that is today, tomorrow or long before 1900, and a
\* zone that a version may not know.
EXTENDS Profile, TLC

MCDays == {10, 11}
MCBirthdays == {1, 10, 11}
MCMinBirthDay == 5

Symmetry == Permutations(Requests)
=============================================================================
