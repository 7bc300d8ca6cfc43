--------------------------- MODULE MCConfigStore ---------------------------
EXTENDS ConfigStore

\* Two fields, of which an earlier layout had the first.
BothFields == {"digits", "wake"}
FirstField == {"digits"}
BoardStart == [digits |-> 0, wake |-> 0]
HeaderDefaults == [digits |-> 1, wake |-> 0]
=============================================================================
