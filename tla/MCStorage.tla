------------------------------ MODULE MCStorage -----------------------------
EXTENDS Storage, TLC

CONSTANTS t1, t2
MCTransfers == {t1, t2}

\* Nothing tells one transfer from another but its name.
MCSymmetry == Permutations(MCTransfers)
=============================================================================
