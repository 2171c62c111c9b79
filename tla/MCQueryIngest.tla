--------------------------- MODULE MCQueryIngest ---------------------------
EXTENDS QueryIngest
=============================================================================
