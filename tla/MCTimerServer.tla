---------------------------- MODULE MCTimerServer ----------------------------
EXTENDS TimerServer
=============================================================================
