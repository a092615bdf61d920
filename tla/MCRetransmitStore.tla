------------------------- MODULE MCRetransmitStore -------------------------
EXTENDS RetransmitStore
=============================================================================
