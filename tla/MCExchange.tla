----------------------------- MODULE MCExchange -----------------------------
EXTENDS Exchange

MCQueueLimit == [node \in Nodes |-> IF node = "ref" THEN 2 ELSE 1]

\* What another SyncNode or ReferenceNode sends, and nonsense.  A refusal would
\* only end the SyncNode.
MCForeign == {Malformed, GoodBye, Handshake, HandshakeReply("success"),
              BeaconReply(0)}
=============================================================================
