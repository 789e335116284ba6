--------------------------- MODULE MCBlockingReads ---------------------------
EXTENDS BlockingReads
CONSTANTS r1, w1
=============================================================================
