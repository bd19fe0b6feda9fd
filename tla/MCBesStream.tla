----------------------------- MODULE MCBesStream -----------------------------
EXTENDS BesStream

CONSTANTS s1, s2
=============================================================================
