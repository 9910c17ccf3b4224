------------------------------ MODULE MCSession ------------------------------
EXTENDS Session

\* What a SyncNode and a ReferenceNode send, and nonsense.  The times of the reply
\* are those of a reference that started earlier.
MCForeign == {Malformed, GoodBye, Handshake, HandshakeReply("success"),
              HandshakeReply("version_mismatch"), Beacon(0), BeaconReply(0, 4, 5)}
=============================================================================
