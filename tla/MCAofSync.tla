------------------------------ MODULE MCAofSync ------------------------------
EXTENDS AofSync
=============================================================================
