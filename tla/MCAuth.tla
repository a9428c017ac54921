------------------------------ MODULE MCAuth -------------------------------
\* Auth on a small instance: the requests, emails and passwords are model
\* values, interchangeable with one another.
EXTENDS Auth, TLC

Symmetry == Permutations(Requests) \cup Permutations(Emails) \cup Permutations(Passwords)
=============================================================================
