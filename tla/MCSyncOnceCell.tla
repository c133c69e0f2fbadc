--------------------------- MODULE MCSyncOnceCell ---------------------------
EXTENDS SyncOnceCell, TLC

CONSTANTS t1, t2, v1, v2, v3

=============================================================================
