---------------------------- MODULE MCBlockDevice ----------------------------
EXTENDS BlockDevice, TLC

CONSTANTS w1, w2, w3, r1

\* Bytes 1 and 2: w1 covers both, the others overlap it and each other.
MCSpan(r) == (w1 :> {1, 2} @@ w2 :> {1, 2} @@ w3 :> {2}
              @@ r1 :> {1, 2})[r]

=============================================================================
