--------------------------- MODULE AtomicSettings ---------------------------
(***************************************************************************)
(* What the store of the settings promises: a loss of power leaves either  *)
(* the settings from before a save or those of the save, whole.  ConfigStore*)
(* implements this module with two records in the flash.                   *)
(*                                                                         *)
(* The promise has one exception: a board that runs without what it stored,*)
(* and yet has a flash to save to, may lose what was stored.  It keeps it  *)
(* again from its next start on.                                           *)
(***************************************************************************)
CONSTANTS Values,    \* every value of the settings
          Factory    \* what the board runs with before it reads its store

VARIABLES stored,    \* what a start of the board gives
          shown,     \* what the board runs with
          on,        \* the board runs
          unread     \* it runs without a look at what is stored

avars == <<stored, shown, on, unread>>

AInit == stored \in Values /\ shown = Factory /\ on = FALSE /\ unread = FALSE

Change == on /\ shown' \in Values /\ UNCHANGED <<stored, on, unread>>

\* The whole of the settings replaces the whole of what was stored.
Commit == on /\ stored' = shown /\ UNCHANGED <<shown, on, unread>>

Spoil == on /\ unread /\ stored' \in Values /\ UNCHANGED <<shown, on, unread>>

\* Power may go at the moment a commit takes effect.
PowerOff == /\ on /\ on' = FALSE /\ shown' = Factory /\ unread' = FALSE
            /\ stored' \in {stored, shown} \/ (unread /\ stored' \in Values)

\* A board with no usable flash starts without its store.
PowerOn == /\ ~on /\ on' = TRUE
           /\ \/ shown' \in {stored, Factory} /\ unread' = FALSE
              \/ shown' = Factory /\ unread' = TRUE
           /\ UNCHANGED stored

ANext == Change \/ Commit \/ Spoil \/ PowerOff \/ PowerOn

ASpec == AInit /\ [][ANext]_avars
=============================================================================
