-------------------------- MODULE MCDisplayLevels ---------------------------
EXTENDS DisplayLevels

\* A period within the day, one through midnight and one without length.
MCPeriods == {<<1, 3>>, <<3, 1>>, <<1, 1>>}
=============================================================================
