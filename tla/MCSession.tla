----------------------------- MODULE MCSession -----------------------------
(* Instances of Session for TLC. *)
EXTENDS Session, TLC

CONSTANTS a1, a2, r1

Configuration(secret, issuer, gate) ==
  [secret |-> secret, issuer |-> issuer, ttl |-> 3, gate |-> gate]

\* The gate switched, the secret rotated, the issuer renamed.
MCConfigs == { Configuration("s1", "i1", FALSE), Configuration("s1", "i1", TRUE),
               Configuration("s2", "i1", TRUE), Configuration("s1", "i2", FALSE) }

Symmetry == Permutations({a1, a2})
=============================================================================
