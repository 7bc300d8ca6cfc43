----------------------------- MODULE MCTimeKeeper -----------------------------
EXTENDS TimeKeeper

\* A clock that runs well, one beyond the threshold, and one without battery.
Starts == {0, 4, -4, LOST}
===============================================================================
