--------------------------- MODULE MCBlockingQueue ---------------------------
EXTENDS BlockingQueue, TLC

CONSTANTS p1, p2, c1, c2

MCProducers == {p1, p2}
MCConsumers == {c1, c2}
=============================================================================
