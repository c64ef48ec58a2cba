---------------------------- MODULE MCNbdService ----------------------------
EXTENDS NbdService

CONSTANTS w1, w2, r1, r2

\* Two bytes.  w1 and r1 cover both; w2 and r2 only the second.
MCOffset(r) == IF r \in {w1, r1} THEN 0 ELSE 1
MCLength(r) == IF r \in {w1, r1} THEN 2 ELSE 1

=============================================================================
