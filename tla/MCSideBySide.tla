---------------------------- MODULE MCSideBySide ----------------------------
EXTENDS SideBySide, MCSamples
=============================================================================
