---------------------------- MODULE MCHomeControl ----------------------------
EXTENDS HomeControl

\* Each level and the outside value set, a text taken back.
Sets == {[topic |-> "digits", value |-> 1], [topic |-> "panels", value |-> 1],
         [topic |-> "text", value |-> 0], [topic |-> "ext", value |-> 1]}

\* Levels that neither the start of the board nor the sets above give.
Posts == {[op |-> "bright", arg |-> <<1, 0>>]}
==============================================================================
