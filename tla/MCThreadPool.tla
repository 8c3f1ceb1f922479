----------------------------- MODULE MCThreadPool -----------------------------
EXTENDS ThreadPool
=============================================================================
