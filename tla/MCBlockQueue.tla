---------------------------- MODULE MCBlockQueue ----------------------------
EXTENDS BlockQueue
=============================================================================
