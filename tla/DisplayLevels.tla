--------------------------- MODULE DisplayLevels ---------------------------
(***************************************************************************)
(* The brightness of the digits and of the panels, and the period of the   *)
(* day in which both are dark (stm32_display.c).  Requests change the      *)
(* levels, the period, the clock and the offset of the local time at any   *)
(* point of the scanner, which enters and leaves the period and writes the *)
(* digits once in a second.                                                *)
(***************************************************************************)
EXTENDS Integers

CONSTANTS DAY,         \* the minutes of a day
          Levels,      \* the levels of a request; 0 is dark
          Periods,     \* bound: the periods that are asked for, <<sleep, wake>>
          Offsets,     \* bound: the offsets of the local time
          MaxRequests  \* bound: the requests

Off == <<>>

ASSUME LevelsAssumption ==
    /\ DAY \in Nat \ {0}
    /\ 0 \in Levels /\ Levels \subseteq Nat
    /\ Periods \subseteq (0 .. DAY - 1) \X (0 .. DAY - 1)
    /\ Offsets \subseteq Int /\ 0 \in Offsets
    /\ MaxRequests \in Nat

VARIABLES
    bright, period, offset, \* the settings: g_bright_*, g_sleepmin and g_wakemin, g_utcoffset
    clock,                  \* the minute of the clock of the system
    asleep,                 \* g_asleep
    digits, panels,         \* the levels in the drivers, 0 when they are off
    lock,                   \* g_fblock
    srv,                    \* the server: "idle", or it waits for the lock
    pc, arg, at,            \* the scanner: its place, the levels it read, its minute
    count, late             \* history: requests; the levels of a request were overwritten

settings   == <<bright, period, offset>>
scanVars   == <<pc, arg, at>>
vars == <<settings, clock, asleep, digits, panels, lock, srv, scanVars, count, late>>

Minutes == 0 .. DAY - 1

TypeOK ==
    /\ bright \in Levels /\ period \in Periods \cup {Off}
    /\ offset \in Offsets /\ clock \in Minutes
    /\ asleep \in BOOLEAN /\ digits \in Levels /\ panels \in Levels
    /\ lock \in {"none", "scan"}
    /\ srv \in {"idle", "panels"}
    /\ pc \in {"wait", "draw", "look", "edge", "digits", "panels", "flush", "store"}
    /\ arg \in Levels /\ at \in Minutes
    /\ count \in 0 .. MaxRequests /\ late \in BOOLEAN

\* hazk03_display_setconfig has put the settings of the store on the display.
Init ==
    /\ bright \in Levels /\ period \in Periods \cup {Off} /\ offset \in Offsets
    /\ clock \in Minutes
    /\ asleep = FALSE /\ digits = bright /\ panels = bright
    /\ lock = "none" /\ srv = "idle"
    /\ pc = "wait" /\ arg = 0 /\ at = 0
    /\ count = 0 /\ late = FALSE

-----------------------------------------------------------------------------
EndIsDark(minute, sleepmin, wakemin) ==
    IF sleepmin < wakemin THEN minute >= sleepmin /\ minute <= wakemin
    ELSE sleepmin # wakemin /\ (minute >= sleepmin \/ minute <= wakemin)

\* display_in_sleep for a period; one that starts after it ends goes through
\* midnight, and one that ends where it starts is no period.
InPeriod(minute, sleepmin, wakemin) ==
    IF sleepmin < wakemin THEN minute >= sleepmin /\ minute < wakemin
    ELSE sleepmin # wakemin /\ (minute >= sleepmin \/ minute < wakemin)

InSleep(minute) == period # Off /\ InPeriod(minute, period[1], period[2])

\* The minute of the local day: gmtime_r of the clock and the offset.
Local == (clock + offset) % DAY

-----------------------------------------------------------------------------
(* The requests.  The server has the higher priority: while it has one in  *)
(* work, the scanner runs as long as it holds the lock.                    *)

Request == srv = "idle" /\ count < MaxRequests /\ count' = count + 1

\* The scanner has read levels that it has yet to store.
HoldsOld == pc \in {"digits", "panels", "store"}

\* hazk03_display_brightness: the levels of the settings alone in the sleep period.
SetBrightness(b) ==
    /\ Request
    /\ bright' = b
    /\ IF asleep THEN UNCHANGED <<digits, srv, late>>
       ELSE digits' = b /\ srv' = "panels" /\ late' = HoldsOld
    /\ UNCHANGED <<period, offset, clock, asleep, panels, lock, scanVars>>

ServerPanels ==
    /\ srv = "panels" /\ lock = "none"
    /\ panels' = bright /\ srv' = "idle"
    /\ UNCHANGED <<settings, clock, asleep, digits, lock, scanVars, count, late>>

SetSleep(p) ==
    /\ Request
    /\ period' = p
    /\ UNCHANGED <<bright, offset, clock, asleep, digits, panels, lock, srv, scanVars, late>>

\* The offset stays when the clock refuses the time.
SetTime(c, o) ==
    /\ Request
    /\ offset' = o
    /\ clock' \in {c, clock}
    /\ UNCHANGED <<bright, period, asleep, digits, panels, lock, srv, scanVars, late>>

NextMinute ==
    /\ clock' = (clock + 1) % DAY
    /\ UNCHANGED <<settings, asleep, digits, panels, lock, srv, scanVars, count, late>>

-----------------------------------------------------------------------------
(* The scanner.                                                            *)

From(place) == pc = place /\ (srv = "idle" \/ lock = "scan")
ScanOnly == UNCHANGED <<settings, clock, srv, count>>

\* A round without a new second draws at most an animation.
Draw ==
    /\ From("wait") /\ lock' = "scan" /\ pc' = "draw"
    /\ UNCHANGED <<asleep, digits, panels, arg, at, late>> /\ ScanOnly

EndDraw ==
    /\ From("draw") /\ lock' = "none" /\ pc' = "wait"
    /\ UNCHANGED <<asleep, digits, panels, arg, at, late>> /\ ScanOnly

\* A new second: the time is read once.
Second ==
    /\ From("wait") /\ at' = Local /\ pc' = "look"
    /\ UNCHANGED <<asleep, digits, panels, lock, arg, late>> /\ ScanOnly

LooksAhead ==
    /\ From("look")
    /\ pc' = IF InSleep(at) = asleep THEN "flush" ELSE "edge"
    /\ UNCHANGED <<asleep, digits, panels, lock, arg, at, late>> /\ ScanOnly

\* display_update_sleep: the state changes before the levels.
Look ==
    /\ From("look")
    /\ asleep' = InSleep(at)
    /\ pc' = IF InSleep(at) = asleep THEN "flush" ELSE "edge"
    /\ UNCHANGED <<digits, panels, lock, arg, at, late>> /\ ScanOnly

EdgeOfDriver ==
    /\ From("edge") /\ pc' = "digits"
    /\ arg' = IF asleep THEN 0 ELSE digits
    /\ late' = FALSE
    /\ UNCHANGED <<asleep, digits, panels, lock, at>> /\ ScanOnly

EdgeLights ==
    /\ From("edge") /\ pc' = "digits"
    /\ arg' = bright
    /\ late' = FALSE
    /\ UNCHANGED <<asleep, digits, panels, lock, at>> /\ ScanOnly

\* The levels become arguments of display_apply_brightness.
Edge ==
    /\ From("edge") /\ pc' = "digits"
    /\ arg' = IF asleep THEN 0 ELSE bright
    /\ late' = FALSE
    /\ UNCHANGED <<asleep, digits, panels, lock, at>> /\ ScanOnly

ApplyDigits ==
    /\ From("digits") /\ pc' = "panels"
    /\ digits' = arg
    /\ UNCHANGED <<asleep, panels, lock, arg, at, late>> /\ ScanOnly

ApplyPanels ==
    /\ From("panels") /\ lock = "none" /\ pc' = "flush"
    /\ panels' = arg
    /\ UNCHANGED <<asleep, digits, lock, arg, at, late>> /\ ScanOnly

\* tm1629a_flush ends with the level that the driver had when it was read.
Flush ==
    /\ From("flush") /\ pc' = "store"
    /\ arg' = digits
    /\ UNCHANGED <<asleep, digits, panels, lock, at, late>> /\ ScanOnly

Store ==
    /\ From("store") /\ pc' = "wait"
    /\ digits' = arg
    /\ arg' = 0 /\ at' = 0
    /\ UNCHANGED <<asleep, panels, lock, late>> /\ ScanOnly

Scanner == Draw \/ EndDraw \/ Second \/ Look \/ Edge \/ ApplyDigits \/ ApplyPanels
           \/ Flush \/ Store

Next ==
    \/ Scanner \/ ServerPanels \/ NextMinute
    \/ \E b \in Levels : SetBrightness(b)
    \/ \E p \in Periods \cup {Off} : SetSleep(p)
    \/ \E c \in Minutes, o \in Offsets : SetTime(c, o)

Spec == Init /\ [][Next]_vars

\* The server runs, and so does the scanner; a second is over again and again.
FairSpec == Spec /\ WF_vars(ServerPanels) /\ WF_vars(Scanner) /\ SF_vars(Second)

-----------------------------------------------------------------------------
Changes == pc \in {"edge", "digits", "panels"}
AtRest  == srv = "idle" /\ ~Changes

\* The display is dark in the sleep period, also after a request for a level,
\* an end of the period and a new period in any order (display_update_sleep,
\* hazk03_display_brightness).
AsleepIsDark == AtRest /\ asleep => digits = 0 /\ panels = 0

\* No step lights a display that sleeps, not even for a moment.
StaysDark == [][asleep /\ asleep' => digits' <= digits /\ panels' <= panels]_vars

\* Awake, the display has the levels of the last request, those sent in the
\* sleep period included, unless the request came when the scanner had read
\* older levels that it had yet to store (display_apply_brightness,
\* tm1629a_flush).
AwakeIsBright == AtRest /\ ~asleep /\ ~late => digits = bright /\ panels = bright

\* What makes the last three inductive: the lock belongs to a drawing of the
\* scanner; the server waits only on an awake display; and on its way from an
\* edge to the next second the scanner carries no level but dark into the
\* period, and none but that of the settings out of it.
Darkens ==
    asleep =>
        /\ srv = "idle"
        /\ pc \in {"digits", "panels", "store"} => arg = 0
        /\ pc = "panels" => digits = 0
        /\ ~Changes => digits = 0 /\ panels = 0

Brightens ==
    ~asleep /\ ~late =>
        /\ HoldsOld => arg = bright
        /\ pc = "panels" => digits = bright
        /\ ~Changes => digits = bright
        /\ ~Changes /\ srv = "idle" => panels = bright

IInv == TypeOK /\ (lock = "scan" <=> pc = "draw") /\ Darkens /\ Brightens

\* The period is an arc of the day: from its first minute up to the one before
\* its last, also through midnight, and none or equal ends never sleep
\* (display_in_sleep).
SleepIsArc ==
    \A m \in Minutes :
        InSleep(m) <=> /\ period # Off
                       /\ (m - period[1]) % DAY < (period[2] - period[1]) % DAY

\* The display enters and leaves the period, whether the minute came by itself,
\* by a new clock or offset, or with a new period.
PeriodIsFollowed == InSleep(Local) # asleep ~> InSleep(Local) = asleep
=============================================================================
