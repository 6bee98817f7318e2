----------------------------- MODULE MCEpoching -----------------------------
EXTENDS Epoching
=============================================================================
