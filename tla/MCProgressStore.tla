-------------------------- MODULE MCProgressStore --------------------------
\* ProgressStore on a small instance.  The requests are interchangeable, but a
\* symmetry would hide cycles from the liveness property; the users are not,
\* since gaps are a matter of their order.
EXTENDS ProgressStore
=============================================================================
