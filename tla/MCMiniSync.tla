----------------------------- MODULE MCMiniSync -----------------------------
EXTENDS MiniSync, MCSamples
=============================================================================
