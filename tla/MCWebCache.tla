----------------------------- MODULE MCWebCache -----------------------------
EXTENDS WebCache
=============================================================================
