----------------------------- MODULE MCSessionOps -----------------------------
EXTENDS SessionOps
=============================================================================
