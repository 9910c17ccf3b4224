----------------------------- MODULE MCTinySync -----------------------------
EXTENDS TinySync, MCSamples
=============================================================================
