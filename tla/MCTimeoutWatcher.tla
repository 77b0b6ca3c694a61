-------------------------- MODULE MCTimeoutWatcher --------------------------
EXTENDS TimeoutWatcher

CONSTANTS p1
=============================================================================
