--------------------------- MODULE MCServerLifecycle ---------------------------
EXTENDS ServerLifecycle
================================================================================
