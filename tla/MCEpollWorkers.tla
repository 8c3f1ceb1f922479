---------------------------- MODULE MCEpollWorkers ----------------------------
EXTENDS EpollWorkers
=============================================================================
