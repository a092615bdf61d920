--------------------------- MODULE MCReceiveRing ---------------------------
\* A ring of three buffers and a caller that takes up to four: the receiver
\* process takes 64 (tickerplant_rx.cpp:274) from a ring of 32.
EXTENDS ReceiveRing
=============================================================================
