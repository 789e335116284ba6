--------------------------- MODULE MCTransactions ----------------------------
EXTENDS Transactions
CONSTANTS a, b, x, y
=============================================================================
