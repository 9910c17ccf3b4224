------------------------------ MODULE MCSystem ------------------------------
EXTENDS System

\* What other programs send that is no part of a round, so that calls are to be
\* in order whatever comes in.
MCForeign == {Malformed, GoodBye, Handshake, HandshakeReply("success"),
              HandshakeReply("version_mismatch")}
=============================================================================
