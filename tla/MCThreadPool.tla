---------------------------- MODULE MCThreadPool ----------------------------
EXTENDS ThreadPool

CONSTANTS k1, k2

\* k1 has a lower priority than k2.
MCPrio(k) == IF k = k1 THEN 0 ELSE 1

=============================================================================
