--------------------------- MODULE MCConnectionPool ---------------------------
EXTENDS ConnectionPool
=============================================================================
