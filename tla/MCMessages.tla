----------------------------- MODULE MCMessages -----------------------------
EXTENDS Messages
=============================================================================
