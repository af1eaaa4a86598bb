---------------------------- MODULE MCConnectionPool ----------------------------
EXTENDS ConnectionPool
=================================================================================
