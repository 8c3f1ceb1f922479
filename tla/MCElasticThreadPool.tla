------------------------- MODULE MCElasticThreadPool -------------------------
EXTENDS ElasticThreadPool
=============================================================================
