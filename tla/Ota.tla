--------------------------------- MODULE Ota --------------------------------
(***************************************************************************)
(* The update of the board by the wapp tg-ota: it asks for the version of  *)
(* the firmware, takes raw mode from the broker, starts the board in the   *)
(* bootloader of its ROM with the pins BOOT0 and NRST, erases the flash    *)
(* and writes the image, gives the board and the line back and asks again. *)
(*                                                                         *)
(* A byte of the image is its place in it; an old or an empty byte is 0.   *)
(* The broker (BrokerLink) is here as far as one peer sees it.             *)
(***************************************************************************)
EXTENDS Integers, Sequences

CONSTANTS LEN,         \* the bytes of the image
          CHUNK, WORD, \* the bytes of one write, and those of one word
          SYNC_TRIES, ASK_TRIES, \* the second stands for a time of 20 s
          MaxRuns,     \* bound: the runs of the wapp, one for each deployment
          MaxResets,   \* bound: resets of the board by itself
          MayStop      \* a run may be cut off

Padded(n) == ((n + WORD - 1) \div WORD) * WORD

ASSUME OtaAssumption ==
    /\ WORD \in Nat \ {0} /\ CHUNK \in Nat \ {0} /\ CHUNK % WORD = 0
    /\ LEN \in Nat \ {0} /\ SYNC_TRIES \in Nat \ {0} /\ ASK_TRIES \in Nat \ {0}
    /\ MaxRuns \in Nat /\ MaxResets \in Nat /\ MayStop \in BOOLEAN

VARIABLES
    pc,              \* the place of the wapp
    rc,              \* its exit code
    left,            \* attempts left for the sync byte
    off, addr, part, \* what is read of the image, g_addr, the bytes being written
    boot0, nrst,     \* the pins
    mode,            \* what the board runs: "app", "rom", or "held" in reset
    rom, at,         \* the bootloader: the message it waits for; its address
    flash,           \* the flash, byte by byte; OLD firmware or not
    old,
    versioned,       \* the package has /firmware.version: want[0] of main
    req, ans,        \* the pipe to the broker; its answer, if the wapp waits for it
    raw,             \* the wapp holds the line
    line,            \* what the bootloader sent and the wapp has yet to read
    runs, resets,
    cut, faults      \* history: a run was cut off; pins or broker failed

wappVars  == <<pc, rc, left, off, addr, part>>
pins      == <<boot0, nrst>>
boardVars == <<mode, rom, at, flash, old>>
vars == <<wappVars, pins, boardVars, versioned, req, ans, raw, line, runs, resets, cut, faults>>

SIZE == Padded(LEN)
Messages == {"state", "enter", "leave", "recheck", "sync", "get", "erase", "all", "write", "addr", "data"}
Answers  == {"none", "ack", "busy", "refused", "old", "new"}
Waits    == {"version?", "enter?", "sync?", "get?", "id?", "idend?", "erase?", "all?", "write?",
             "addr?", "data?", "leave?", "recheck?"}

TypeOK ==
    /\ pc \in Waits \cup {"off", "version", "enter", "boot0", "nrst0", "nrst1", "sync", "get", "erase", "all",
                          "read", "write", "addr", "data", "run0", "run1", "run2",
                          "leave", "recheck", "exit"}
    /\ rc \in 0 .. 1 /\ left \in 0 .. SYNC_TRIES + ASK_TRIES
    /\ off \in 0 .. LEN /\ addr \in 0 .. SIZE /\ part \in Seq(0 .. LEN) /\ Len(part) <= CHUNK
    /\ boot0 \in 0 .. 1 /\ nrst \in 0 .. 1
    /\ mode \in {"app", "rom", "held"}
    /\ rom \in {"sync", "command", "all", "addr", "data"} /\ at \in 0 .. SIZE
    /\ flash \in [1 .. SIZE -> 0 .. LEN] /\ old \in BOOLEAN
    /\ versioned \in BOOLEAN /\ ans \in Answers /\ raw \in BOOLEAN
    /\ runs \in 0 .. MaxRuns /\ resets \in 0 .. MaxResets
    /\ cut \in BOOLEAN /\ faults \subseteq {"pin", "line"}

Image == [i \in 1 .. SIZE |-> IF i <= LEN THEN i ELSE 0]
Blank == [i \in 1 .. SIZE |-> 0]

\* The board runs an older firmware or that of the image.
Init ==
    /\ pc = "off" /\ rc = 0 /\ left = 0 /\ off = 0 /\ addr = 0 /\ part = <<>>
    /\ boot0 = 0 /\ nrst = 1
    /\ mode = "app" /\ rom = "sync" /\ at = 0
    /\ old \in BOOLEAN /\ flash = IF old THEN Blank ELSE Image
    /\ versioned \in BOOLEAN
    /\ req = <<>> /\ ans = "none" /\ raw = FALSE /\ line = <<>>
    /\ runs = 0 /\ resets = 0 /\ cut = FALSE /\ faults = {}

-----------------------------------------------------------------------------
(* The board.  NRST holds it; when NRST rises BOOT0 says what runs.        *)

BoardAt(b, n) ==
    /\ mode' = IF n = 0 THEN "held" ELSE IF b = 1 THEN "rom" ELSE "app"
    /\ rom' = "sync" /\ at' = 0
    /\ line' = <<>>
    /\ UNCHANGED <<flash, old>>

Reset ==
    /\ resets < MaxResets /\ resets' = resets + 1
    /\ BoardAt(boot0, nrst)
    /\ UNCHANGED <<wappVars, pins, versioned, req, ans, raw, runs, cut, faults>>

\* The version in the state: a firmware that is not whole does not answer.
Version == IF mode # "app" THEN "refused"
           ELSE IF old THEN "old" ELSE IF flash = Image THEN "new" ELSE "refused"

Says(bytes) == line' \in {line, line \o bytes}

\* AN3155 in the ROM: each message leads to the next or to the next command.
Rom(m) ==
    CASE rom = "sync" /\ m.kind = "sync" ->
           rom' = "command" /\ Says(<<"ack">>) /\ UNCHANGED <<at, flash, old>>
      [] rom = "command" /\ m.kind = "sync" ->
           Says(<<"nack">>) /\ UNCHANGED <<rom, at, flash, old>>
      [] rom = "command" /\ m.kind = "get" ->
           Says(<<"ack", "id", "ack">>) /\ UNCHANGED <<rom, at, flash, old>>
      [] rom = "command" /\ m.kind \in {"erase", "write"} ->
           /\ rom' = IF m.kind = "erase" THEN "all" ELSE "addr"
           /\ Says(<<"ack">>) /\ UNCHANGED <<at, flash, old>>
      [] rom = "all" /\ m.kind = "all" ->
           /\ rom' = "command"
           /\ \/ flash' = Blank /\ old' = FALSE /\ Says(<<"ack">>)
              \/ UNCHANGED <<flash, old>> /\ Says(<<"nack">>)
           /\ UNCHANGED at
      [] rom = "addr" /\ m.kind = "addr" ->
           rom' = "data" /\ at' = m.at /\ Says(<<"ack">>) /\ UNCHANGED <<flash, old>>
      [] rom = "data" /\ m.kind = "data" ->
           /\ rom' = "command"
           /\ \/ /\ flash' = [i \in 1 .. SIZE |-> IF i > at /\ i <= at + Len(m.bytes)
                                                  THEN m.bytes[i - at] ELSE flash[i]]
                 /\ Says(<<"ack">>)
              \/ UNCHANGED flash /\ Says(<<"nack">>)
           /\ UNCHANGED <<at, old>>
      [] OTHER -> UNCHANGED <<rom, at, flash, old, line>>

-----------------------------------------------------------------------------
(* The broker: the requests of one peer.                                   *)

\* on_frame drops the reply of a request the wapp has given up: what it waits
\* for is the answer to the last request it wrote.
Answer(place, a) == ans' = IF pc = place /\ Tail(req) = <<>> THEN a ELSE ans

Broker ==
    /\ req # <<>>
    /\ req' = Tail(req)
    /\ LET m == Head(req) IN
       \/ /\ m.kind \in {"state", "recheck"}
          /\ \E a \in (IF raw THEN {"busy"} ELSE {"busy", "refused", Version}) :
               Answer(IF m.kind = "state" THEN "version?" ELSE "recheck?", a)
          /\ UNCHANGED <<raw, line, boardVars, faults>>
       \/ /\ m.kind = "enter"
          /\ \/ raw' = TRUE /\ Answer("enter?", "ack")
             \/ UNCHANGED raw /\ \E a \in {"busy", "refused"} : Answer("enter?", a)
          /\ UNCHANGED <<line, boardVars, faults>>
       \/ /\ m.kind = "leave"
          /\ \/ raw' = FALSE /\ Answer("leave?", "ack") /\ UNCHANGED faults
             \/ UNCHANGED raw /\ Answer("leave?", "refused") /\ faults' = faults \cup {"line"}
          /\ UNCHANGED <<line, boardVars>>
       \/ /\ m.kind \notin {"state", "recheck", "enter", "leave"}
          /\ \/ raw /\ mode = "rom" /\ Rom(m) /\ UNCHANGED mode
             \/ UNCHANGED <<line, boardVars>>   \* refused, lost, or not for a firmware
          /\ UNCHANGED <<raw, ans, faults>>
    /\ UNCHANGED <<wappVars, pins, versioned, runs, resets, cut>>

-----------------------------------------------------------------------------
(* The wapp.  Each place that ends in "?" waits for an answer or a byte.   *)

Rest == UNCHANGED <<boardVars, versioned, raw, runs, resets, cut>>

Put(kind, bytes) == req' = Append(req, [kind |-> kind, at |-> addr, bytes |-> bytes])

\* request(): the answer is that of this request alone.
Ask(place, kind, next) ==
    /\ pc = place /\ pc' = next
    /\ Put(kind, <<>>) /\ ans' = "none"
    /\ UNCHANGED <<rc, left, off, addr, part, pins, line, faults>> /\ Rest

\* The answer a took the wapp from a place to the next, with a code.
Told(place, a, next, code) ==
    /\ pc = place /\ ans = a /\ pc' = next /\ rc' = code
    /\ UNCHANGED <<left, off, addr, part, pins, req, ans, line, faults>> /\ Rest

Untold(place, next, code) ==
    /\ pc = place /\ pc' = next /\ rc' = code
    /\ UNCHANGED <<left, off, addr, part, pins, req, ans, line, faults>> /\ Rest

\* ask_until: a busy broker is asked again until the time is over.
Again(place, asks, next, code) ==
    /\ pc = place /\ ans = "busy"
    /\ left' = IF left > 0 THEN left - 1 ELSE 0
    /\ pc' = IF left > 0 THEN asks ELSE next
    /\ rc' = IF left > 0 THEN rc ELSE code
    /\ UNCHANGED <<off, addr, part, pins, req, ans, line, faults>> /\ Rest

WritesAlways ==
    \/ Ask("version", "state", "version?") \/ Again("version?", "version", "exit", 0)
    \/ Told("version?", "old", "enter", 1) \/ Told("version?", "new", "enter", 1)
    \/ Told("version?", "refused", "exit", 0) \/ Untold("version?", "exit", 0)

\* A board that runs the image, or that gives no version, is not written.  An
\* image without a version is like none that runs.
AskVersion ==
    \/ Ask("version", "state", "version?") \/ Again("version?", "version", "exit", 0)
    \/ Told("version?", "old", "enter", 1)
    \/ versioned /\ Told("version?", "new", "exit", 0)
    \/ ~versioned /\ Told("version?", "new", "enter", 1)
    \/ Told("version?", "refused", "exit", 0) \/ Untold("version?", "exit", 0)

\* raw_enter
TakeLine ==
    \/ Ask("enter", "enter", "enter?") \/ Again("enter?", "enter", "leave", 1)
    \/ /\ pc = "enter?" /\ ans = "ack" /\ pc' = "boot0" /\ line' = <<>>
       /\ UNCHANGED <<rc, left, off, addr, part, pins, req, ans, faults>> /\ Rest
    \/ Told("enter?", "refused", "leave", 1) \/ Untold("enter?", "leave", 1)

\* pin_write in reset_target: both levels after the write, or a failure.
Pin(place, b, n, next, failed) ==
    /\ pc = place
    /\ \/ /\ pc' = next /\ boot0' = b /\ nrst' = n
          /\ IF n = nrst THEN UNCHANGED <<boardVars, line>> ELSE BoardAt(b, n)
          /\ UNCHANGED <<rc, faults>>
       \/ /\ pc' = failed /\ rc' = 1 /\ faults' = faults \cup {"pin"}
          /\ UNCHANGED <<pins, boardVars, line>>
    /\ left' = SYNC_TRIES
    /\ UNCHANGED <<off, addr, part, versioned, req, ans, raw, runs, resets, cut>>

StartBootloader == \/ Pin("boot0", 1, nrst, "nrst0", "run0")
                   \/ Pin("nrst0", boot0, 0, "nrst1", "run0")
                   \/ Pin("nrst1", boot0, 1, "sync", "run0")

StartFirmware == \/ Pin("run0", 0, nrst, "run1", "leave")
                 \/ Pin("run1", boot0, 0, "run2", "leave")
                 \/ Pin("run2", boot0, 1, "leave", "leave")

KeepsBoot(place) == pc = place /\ pc' = "leave"
Restores(place)  == pc = place /\ pc' = "run0"

\* A step of write_image fails: flash() starts the firmware all the same.
Fail(place) ==
    /\ Restores(place)
    /\ UNCHANGED <<rc, left, off, addr, part, pins, req, ans, line, faults>> /\ Rest

Send(place, kind, bytes, next) ==
    /\ pc = place /\ pc' = next
    /\ Put(kind, bytes)
    /\ line' = IF kind = "sync" THEN <<>> ELSE line
    /\ UNCHANGED <<rc, left, off, addr, part, pins, ans, faults>> /\ Rest

\* wait_byte and line_byte: one byte of the line, and what it leads to.
Byte(place, byte, next) ==
    /\ pc = place /\ line # <<>> /\ Head(line) = byte
    /\ line' = Tail(line) /\ pc' = next
    /\ UNCHANGED <<rc, left, off, addr, part, pins, req, ans, faults>> /\ Rest

WaitAck(place, next) == \/ Byte(place, "ack", next) \/ Byte(place, "nack", "run0")
                        \/ Byte(place, "id", place) \/ Fail(place)

SyncsOn(n)  == n
CountsDown(n) == n - 1

Sync == \/ Send("sync", "sync", <<>>, "sync?")
        \/ Byte("sync?", "ack", "get") \/ Byte("sync?", "nack", "get") \/ Byte("sync?", "id", "sync?")
        \/ /\ pc = "sync?"
           /\ left' = CountsDown(left) /\ pc' = IF left' > 0 THEN "sync" ELSE "run0"
           /\ UNCHANGED <<rc, off, addr, part, pins, req, ans, line, faults>> /\ Rest

GetId == \/ Send("get", "get", <<>>, "get?") \/ WaitAck("get?", "id?")
         \/ Byte("id?", "id", "idend?") \/ Fail("id?") \/ WaitAck("idend?", "erase")

Erase == \/ Send("erase", "erase", <<>>, "erase?") \/ WaitAck("erase?", "all")
         \/ Send("all", "all", <<>>, "all?") \/ WaitAck("all?", "read")

\* What a read of the image gives: a chunk or the rest, or fewer whole words.
Reads == {k \in 1 .. CHUNK : k <= LEN - off /\ (k = LEN - off \/ k % WORD = 0)}

FillPart(k) == [i \in 1 .. Padded(k) |-> IF i <= k THEN off + i ELSE 0]

ReadImage ==
    \/ /\ pc = "read" /\ off < LEN
       /\ \E k \in Reads : off' = off + k /\ part' = FillPart(k)
       /\ pc' = "write"
       /\ UNCHANGED <<rc, left, addr, pins, req, ans, line, faults>> /\ Rest
    \/ off < LEN /\ Fail("read")
    \/ /\ pc = "read" /\ off >= LEN
       /\ pc' = "run0" /\ rc' = 0
       /\ UNCHANGED <<left, off, addr, part, pins, req, ans, line, faults>> /\ Rest

EitherByte == Head(line) \in {"ack", "nack"}
Accepted   == Head(line) = "ack"

Write ==
    \/ Send("write", "write", <<>>, "write?") \/ WaitAck("write?", "addr")
    \/ Send("addr", "addr", <<>>, "addr?")    \/ WaitAck("addr?", "data")
    \/ Send("data", "data", part, "data?")
    \/ /\ pc = "data?" /\ line # <<>> /\ Accepted /\ line' = Tail(line)
       /\ pc' = "read" /\ addr' = addr + Len(part) /\ part' = <<>>
       /\ UNCHANGED <<rc, left, off, pins, req, ans, faults>> /\ Rest
    \/ Byte("data?", "nack", "run0") \/ Byte("data?", "id", "data?") \/ Fail("data?")

LeavesOnSuccess ==
    \/ rc = 0 /\ Ask("leave", "leave", "leave?")
    \/ rc = 1 /\ Untold("leave", "exit", 1)
    \/ \E a \in {"ack", "refused"} : Told("leave?", a, IF rc = 0 THEN "recheck" ELSE "exit", rc)
    \/ Untold("leave?", IF rc = 0 THEN "recheck" ELSE "exit", rc)

\* raw_leave: whatever the broker says, the run goes on.
GiveLineBack ==
    \/ Ask("leave", "leave", "leave?")
    \/ \E a \in {"ack", "refused"} : Told("leave?", a, IF rc = 0 THEN "recheck" ELSE "exit", rc)
    \/ Untold("leave?", IF rc = 0 THEN "recheck" ELSE "exit", rc)

\* The version after the update decides the code only when it can be read, and
\* when the image has one.
Recheck ==
    \/ Ask("recheck", "recheck", "recheck?") \/ Again("recheck?", "recheck", "exit", 0)
    \/ \E a \in {"new", "old"} :
         Told("recheck?", a, "exit", IF versioned /\ a = "old" THEN 1 ELSE 0)
    \/ Told("recheck?", "refused", "exit", 0) \/ Untold("recheck?", "exit", 0)

Wapp == AskVersion \/ TakeLine \/ StartBootloader \/ Sync \/ GetId \/ Erase \/ ReadImage \/ Write
        \/ StartFirmware \/ GiveLineBack \/ Recheck

\* A new run opens the grant of the pins, which sets BOOT0 low and NRST high.
Start ==
    /\ pc \in {"off", "exit"} /\ runs < MaxRuns /\ runs' = runs + 1
    /\ pc' = "version" /\ rc' = 0 /\ left' = ASK_TRIES
    /\ off' = 0 /\ addr' = 0 /\ part' = <<>>
    /\ boot0' = 0 /\ nrst' = 1
    /\ IF nrst = 1 THEN UNCHANGED <<boardVars, line>> ELSE BoardAt(0, 1)
    /\ UNCHANGED <<versioned, req, ans, raw, resets, cut, faults>>

Stop ==
    /\ MayStop /\ pc \notin {"off", "exit"}
    /\ pc' = "off" /\ cut' = TRUE
    /\ line' = <<>> /\ ans' = "none"
    /\ UNCHANGED <<rc, left, off, addr, part, pins, boardVars, versioned, req, raw, runs, resets,
                   faults>>

Next == Wapp \/ Broker \/ Reset \/ Start \/ Stop

Spec == Init /\ [][Next]_vars

\* Every wait of the wapp has an end, and the broker reads its pipes.
FairSpec == Spec /\ WF_vars(Wapp) /\ WF_vars(Broker)

-----------------------------------------------------------------------------
\* A run that wrote and ends with success has put the whole image into the
\* flash, although an answer may be late, lost or that of an earlier message,
\* and a read of the image may be short by whole words (write_image, an_write).
SuccessIsWhole == pc = "exit" /\ rc = 0 /\ addr > 0 => flash = Image

\* A run that ends by itself leaves the board out of the bootloader and out of
\* reset, wherever it failed, unless a pin did not move (flash: "leave the
\* target running its own firmware either way").
FirmwareRuns == pc = "exit" /\ ~cut /\ "pin" \notin faults => mode = "app" /\ boot0 = 0

\* The wapp, the pins, the board and the line keep their types, and a run that
\* ends leaves the board with its firmware.
Inv == TypeOK /\ FirmwareRuns

\* A flash that holds the image stays as it is: no later run writes it again,
\* also when the run that wrote it saw a failure or was cut off (main).  The
\* image must have a version: one without is written at every start (ota.c:769).
ImageStays == [][versioned /\ flash = Image => flash' = Image]_vars

\* Every run ends.
RunEnds == pc = "version" ~> pc \in {"exit", "off"}

\* The other peers get the line back, unless the run is cut off or the broker
\* cannot set the line (raw_leave).
LineComesBack == raw ~> (~raw \/ cut \/ "line" \in faults)
=============================================================================
