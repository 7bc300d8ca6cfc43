---------------------------- MODULE ConfigStore ----------------------------
(***************************************************************************)
(* The settings of the board and their store: two records in the flash,    *)
(* one in each erase sector (stm32_flash.c), the settings the display runs *)
(* with (stm32_display.c) and the requests that change them (stm32_ipc.c). *)
(*                                                                         *)
(* One task loads and saves, thus the only other actor is the power, which *)
(* goes between any two steps and in the middle of an erase or a write.    *)
(* A record is there or it is not: the magic, the length and the check     *)
(* value are what tells the two apart.  A field is what one request sets:  *)
(* the offset, both levels, the correction, or both ends of the sleep.     *)
(***************************************************************************)
EXTENDS Integers

CONSTANTS Fields,          \* the fields of hazk03_config_s
          OldFields,       \* those an earlier layout of the record had
          Levels,          \* the values of a field
          Factory,         \* the initial values of the variables of the display
          Defaults,        \* HAZK03_CONFIG_DEFAULTS
          MaxSeq           \* bound: the sequence number of the last save

Slots  == 0 .. 1
Values == [Fields -> Levels]

ASSUME ConfigAssumption ==
    /\ OldFields \subseteq Fields
    /\ Factory \in Values /\ Defaults \in Values
    /\ MaxSeq \in Nat /\ MaxSeq >= 2

VARIABLES
    flash,     \* the record in each slot
    mtd,       \* g_config_mtd is set
    slot,      \* g_config_slot
    seq,       \* g_config_seq
    cur,       \* g_config_cur
    valid,     \* g_config_valid
    setting,   \* the settings the display runs with
    save_err,  \* g_save_err is set
    pc,        \* where the board is: off, idle, or in one request
    warned,    \* history: the edge MCU was told that the flash failed
    blind      \* history: this start has the flash, and did not read its records

ram  == <<mtd, slot, seq, cur, valid>>
vars == <<flash, ram, setting, save_err, pc, warned, blind>>

-----------------------------------------------------------------------------
\* An earlier layout is the first bytes of this one.
NoRecord == [seq |-> 0, val |-> <<>>]
Records  == [seq : 1 .. MaxSeq, val : Values \cup [OldFields -> Levels]]

TypeOK ==
    /\ flash \in [Slots -> Records \cup {NoRecord}]
    /\ mtd \in BOOLEAN
    /\ slot \in -1 .. 1
    /\ seq \in 0 .. MaxSeq
    /\ cur \in Values
    /\ valid \in BOOLEAN
    /\ setting \in Values
    /\ save_err \in BOOLEAN
    /\ pc \in {"off", "idle", "erase", "write", "answer"}
    /\ warned \in BOOLEAN /\ blind \in BOOLEAN

Holds(fl, s) == fl[s] # NoRecord

\* config_read_slot: what a record lacks keeps its default.
Whole(val) == [f \in Fields |-> IF f \in DOMAIN val THEN val[f] ELSE Defaults[f]]

\* Statics of a board that starts.
Unread == /\ slot' = -1 /\ seq' = 0 /\ valid' = FALSE
          /\ cur' = Factory /\ setting' = Factory /\ save_err' = FALSE

\* A board may leave the bench with an empty flash or with the records of an
\* earlier firmware.
Init ==
    /\ flash \in [Slots -> {NoRecord} \cup [seq : 1 .. 2, val : [OldFields -> Levels]]]
    /\ mtd = FALSE
    /\ slot = -1 /\ seq = 0 /\ valid = FALSE /\ cur = Factory
    /\ setting = Factory /\ save_err = FALSE
    /\ pc = "off" /\ warned = FALSE /\ blind = FALSE

-----------------------------------------------------------------------------
(* hazk03_config_load, and the bring-up that calls it.                     *)

TakesOlder(found, s) ==
    IF Holds(flash, s) /\ (found = -1 \/ flash[s].seq < flash[found].seq) THEN s ELSE found

\* One turn of the loop over the records.
Take(found, s) ==
    IF Holds(flash, s) /\ (found = -1 \/ flash[s].seq > flash[found].seq) THEN s ELSE found

Load == LET found == Take(Take(-1, 0), 1) IN
        IF found = -1
        THEN Unread
        ELSE /\ slot' = found /\ seq' = flash[found].seq
             /\ cur' = Whole(flash[found].val) /\ valid' = TRUE
             /\ setting' = cur' /\ save_err' = FALSE

BootOK ==
    /\ pc = "off"
    /\ pc' = "idle" /\ mtd' = TRUE
    /\ Load
    /\ warned' = FALSE /\ blind' = FALSE
    /\ UNCHANGED flash

\* hazk03_flash_initialize fails before it sets g_config_mtd, or after it did,
\* when the assets come up.  The boot note tells the edge MCU, and nothing is
\* loaded either way; with g_config_mtd set a save goes to the flash all the same.
BootFails ==
    /\ pc = "off"
    /\ pc' = "idle" /\ mtd' \in BOOLEAN
    /\ Unread
    /\ warned' = TRUE /\ blind' = mtd'
    /\ UNCHANGED flash

-----------------------------------------------------------------------------
(* A request that changes a setting: the setter of the display, then       *)
(* display_persist, which calls hazk03_config_save.                        *)

SameAsStored(v) == valid /\ cur = v

\* Each branch of the beginning of hazk03_config_save.
Set(f, level) ==
    /\ pc = "idle"
    /\ seq < MaxSeq
    /\ setting' = [setting EXCEPT ![f] = level]
    /\ \/ ~mtd /\ save_err' = TRUE /\ pc' = "answer"
       \/ mtd /\ SameAsStored(setting') /\ pc' = "answer" /\ UNCHANGED save_err
       \/ mtd /\ ~SameAsStored(setting') /\ pc' = "erase" /\ UNCHANGED save_err
    /\ UNCHANGED <<flash, ram, warned, blind>>

Target == IF slot = 0 THEN 1 ELSE 0

NextSeq == seq + 1

\* The driver may fail before the erase or after it.
Erase ==
    /\ pc = "erase"
    /\ \/ flash' = [flash EXCEPT ![Target] = NoRecord]
          /\ pc' = "write" /\ UNCHANGED save_err
       \/ flash' \in {flash, [flash EXCEPT ![Target] = NoRecord]}
          /\ pc' = "answer" /\ save_err' = TRUE
    /\ UNCHANGED <<ram, setting, warned, blind>>

Write ==
    /\ pc = "write"
    /\ flash' = [flash EXCEPT ![Target] = [seq |-> NextSeq, val |-> setting]]
    /\ slot' = Target /\ seq' = NextSeq /\ cur' = setting /\ valid' = TRUE
    /\ pc' = "answer"
    /\ UNCHANGED <<mtd, setting, save_err, warned, blind>>

FailsSilently ==
    /\ pc = "write"
    /\ pc' = "answer"
    /\ UNCHANGED <<flash, ram, setting, save_err, warned, blind>>

\* A write that fails leaves bytes that are no record.
WriteFails ==
    /\ pc = "write"
    /\ save_err' = TRUE /\ pc' = "answer"
    /\ UNCHANGED <<flash, ram, setting, warned, blind>>

\* The ACK says nothing of the save; ipc_report_saveerr sends a line of its own.
Answer ==
    /\ pc = "answer"
    /\ warned' = save_err
    /\ save_err' = FALSE /\ pc' = "idle"
    /\ UNCHANGED <<flash, ram, setting, blind>>

-----------------------------------------------------------------------------
\* What the flash may hold when the power goes.
Interrupted ==
    {flash} \cup (IF pc = "erase" THEN {[flash EXCEPT ![Target] = NoRecord]} ELSE {})
            \cup (IF pc = "write" THEN {[flash EXCEPT ![Target] =
                                            [seq |-> NextSeq, val |-> setting]]} ELSE {})

PowerLoss ==
    /\ pc # "off"
    /\ pc' = "off" /\ flash' \in Interrupted
    /\ mtd' = FALSE /\ Unread /\ warned' = FALSE /\ blind' = FALSE

Next == \/ BootOK \/ BootFails
        \/ \E f \in Fields, level \in Levels : Set(f, level)
        \/ Erase \/ Write \/ WriteFails \/ Answer
        \/ PowerLoss

Spec == Init /\ [][Next]_vars

-----------------------------------------------------------------------------
(* What a start of the board would give, told from the flash alone.  Two   *)
(* records have one number when a blind start wrote the second.            *)

Newest(fl, s) ==
    /\ Holds(fl, s)
    /\ \A t \in Slots \ {s} : fl[t].seq < fl[s].seq \/ (fl[t].seq = fl[s].seq /\ s < t)

HasRecord(fl) == \E s \in Slots : Holds(fl, s)

RecallOf(fl) == IF HasRecord(fl)
                THEN Whole(fl[CHOOSE s \in Slots : Newest(fl, s)].val)
                ELSE Factory

Recall == RecallOf(flash)

\* The edge MCU has an ACK and no word of a failure: the change outlives the
\* next loss of power (hazk03_config_save and its shortcut for equal values,
\* display_persist, ipc_report_saveerr).  Of a blind start the boot note told it.
AckedIsStored == pc = "idle" => warned \/ blind \/ setting = Recall

\* README.md:126-128.  No step of a save, and no loss of power in one, changes
\* what a start gives into anything but the settings of that save: never an
\* older record, never the factory values.  A save of a blind start may, in its
\* erase or its write; nothing else of that start does, and none that follows.
SaveIsAtomic ==
    [][Recall' # Recall => \/ pc = "write" /\ Recall' = setting
                           \/ pc \in {"erase", "write"} /\ blind]_vars

\* README.md:126-128 as it is written, without the exception.
NeverAnOlderRecord == [][Recall' # Recall => pc = "write" /\ Recall' = setting]_vars

\* The flash takes no erase cycle for values it holds (hazk03_config_save):
\* the values the task remembers are those of the newest record, unless it
\* never read one.
NoNeedlessErase == pc = "erase" => blind \/ ~(HasRecord(flash) /\ setting = Recall)

\* docs/ipc-protocol.md:272: the settings a reply to GET_SETTINGS carries are
\* those of the store.  A save that failed leaves the two apart.
SettingsAreStored == pc = "idle" /\ mtd /\ ~blind /\ HasRecord(flash) => setting = Recall

-----------------------------------------------------------------------------
(* The inductive invariant: what the task remembers is the newest record,  *)
(* if it read the records when it started.                                 *)

\* The record the task writes next is never the newest one.
Remembered ==
    pc # "off" /\ mtd /\ ~blind =>
        /\ valid <=> HasRecord(flash)
        /\ valid => slot \in Slots /\ Newest(flash, slot) /\ flash[slot].seq = seq
                    /\ cur = Whole(flash[slot].val)
        /\ ~valid => slot = -1 /\ seq = 0

InSave == /\ pc \in {"erase", "write"} => mtd /\ ~(valid /\ cur = setting) /\ seq < MaxSeq
                                          /\ ~save_err
          /\ pc = "write" => ~Holds(flash, Target)

Told == /\ pc = "answer" => save_err \/ blind \/ setting = Recall
        /\ pc = "idle" => ~save_err

IInv == TypeOK /\ Remembered /\ InSave /\ Told /\ AckedIsStored

-----------------------------------------------------------------------------
Atomic == INSTANCE AtomicSettings
              WITH stored <- Recall, shown <- setting, on <- (pc # "off"), unread <- blind

AtomicSpec == Atomic!ASpec
=============================================================================
