--------------------------- MODULE MCBrokerSession ---------------------------
EXTENDS BrokerSession

CONSTANTS p1, p2

MCPublishers == {p1, p2}

=============================================================================
