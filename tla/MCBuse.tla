-------------------------------- MODULE MCBuse --------------------------------
EXTENDS Buse

CONSTANTS w1, r1, f1

\* Two bytes, which w1 and r1 cover; r1 may fail; f1 is a FLUSH.
MCType(r) == IF r = w1 THEN "write" ELSE IF r = f1 THEN "flush" ELSE "read"
MCOffset(r) == 0
MCLength(r) == IF r = f1 THEN 0 ELSE 2
=============================================================================
