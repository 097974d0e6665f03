----------------------------- MODULE MCHealthApi -----------------------------
EXTENDS HealthApi, TLC
=============================================================================
