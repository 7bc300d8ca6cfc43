----------------------------- MODULE TimeKeeper -----------------------------
(***************************************************************************)
(* The wapp tg-time, which keeps the clock of the engine and the DS3231 of *)
(* the board together and sends the offset of the local time.  Each step   *)
(* reads the engine clock, asks the board for its state, decides, and then *)
(* writes one of the two.  Between the readings and the write the control  *)
(* plane may set the engine clock, the board may reset, and an ask may     *)
(* take long: its request is then carried out later than it was meant.     *)
(*                                                                         *)
(* A clock is its error against the true time in seconds.  LOST is the     *)
(* error of a DS3231 without battery, which no source takes for plausible. *)
(* The names of the specification begin with Time: DayProofs takes this    *)
(* module together with DisplayLevels.                                     *)
(***************************************************************************)
EXTENDS Integers, Sequences

CONSTANTS WRAP,       \* the counter of frames, a u16 in the code
          THRESHOLD,  \* seconds the two clocks may differ, TG_TIME_THRESHOLD_S
          SLOW,       \* seconds a slow ask takes, at most WAIT_MS
          Offset,     \* the offset of the config, 0 is what a new board has
          StartErrs,  \* errors of the DS3231 at the start
          MaxSlow,    \* slow asks
          MaxResets,  \* resets of the board
          MaxStarts   \* restarts of the engine and of the wapp with it

LOST == 1000

ASSUME TimeAssumption ==
    /\ WRAP \in Nat /\ WRAP > 2 /\ THRESHOLD \in Nat
    /\ SLOW \in Nat /\ SLOW > THRESHOLD
    /\ Offset \in Int \ {0} /\ StartErrs \subseteq (-60 .. 60) \cup {LOST}
    /\ {MaxSlow, MaxResets, MaxStarts} \subseteq Nat

VARIABLES engine,    \* the clock of the engine: who set it last, and its error
          board,     \* the DS3231, the offset in RAM and in flash, the counter
          keeper,    \* tg-time: its step, what it has read, what it remembers
          line,      \* requests on their way to the board
          left,      \* what is left of each bound
          unread,    \* the board was reset since the last reading
          missed     \* a reading did not tell a reset

timeVars == <<engine, board, keeper, line, left, unread, missed>>

NoRequest == [op |-> "none", err |-> 0]
Fresh == [pc |-> "idle", source |-> "none", err |-> 0, known |-> FALSE, stm |-> 0,
          waits |-> NoRequest, pending |-> TRUE, have |-> FALSE, last |-> 0]

TimeTypeOK ==
    /\ engine.source \in {"none", "rtc", "sntp"} /\ engine.err \in Int
    /\ board.err \in Int /\ board.frames \in 0 .. WRAP - 1
    /\ {board.offset, board.saved} \subseteq {0, Offset}
    /\ keeper.pc \in {"idle", "state", "decide", "push"}
    /\ keeper.source \in {"none", "rtc", "sntp"} /\ keeper.last \in 0 .. WRAP - 1
    /\ {keeper.known, keeper.pending, keeper.have, unread, missed} \subseteq BOOLEAN
    /\ (keeper.pc \in {"state", "push"}) <=> (keeper.waits # NoRequest)
    /\ Len(line) <= 1 + MaxSlow + MaxStarts

TimeInit ==
    /\ engine = [source |-> "none", err |-> 0]
    /\ board \in [err : StartErrs, offset : {0}, saved : {0}, frames : {0}]
    /\ keeper = Fresh /\ line = <<>> /\ unread = FALSE /\ missed = FALSE
    /\ left = [slow |-> MaxSlow, resets |-> MaxResets, starts |-> MaxStarts]

Spend(what) == left[what] > 0 /\ left' = [left EXCEPT ![what] = @ - 1]

\* One more frame that the board accepted.
Counted(n) == (n + 1) % WRAP

-----------------------------------------------------------------------------
(* The step of tg-time.                                                     *)

Send(op, err) == line' = Append(line, [op |-> op, err |-> err])

\* read_engine, then GET_STATE.
ReadEngine ==
    /\ keeper.pc = "idle"
    /\ Send("state", 0)
    /\ keeper' = [keeper EXCEPT !.pc = "state", !.source = engine.source,
                     !.err = engine.err, !.waits = [op |-> "state", err |-> 0]]
    /\ UNCHANGED <<engine, board, left, unread, missed>>

OnlyFirst(have, last, now) == ~have

\* tg_time_stm_reset: a first reading and a counter that fell are a reset.
IsReset(have, last, now) == ~have \/ now < last

StaysUnknown(k, frames, err, d) ==
    [k EXCEPT !.pc = "decide", !.waits = NoRequest, !.err = @ - d,
              !.pending = @ \/ IsReset(k.have, k.last, frames),
              !.have = TRUE, !.last = frames]

\* The state of the board arrives, d seconds after the engine clock was read.
GotState(k, frames, err, d) ==
    [k EXCEPT !.pc = "decide", !.waits = NoRequest, !.known = TRUE,
              !.stm = IF err = LOST THEN LOST ELSE err + d, !.err = @ - d,
              !.pending = @ \/ IsReset(k.have, k.last, frames),
              !.have = TRUE, !.last = frames]

\* No reply in WAIT_MS: the step goes on without the state, or the push failed.
GiveUp ==
    /\ keeper.waits # NoRequest /\ Spend("slow")
    /\ keeper' = IF keeper.pc = "push"
                 THEN [keeper EXCEPT !.pc = "idle", !.waits = NoRequest]
                 ELSE [keeper EXCEPT !.pc = "decide", !.waits = NoRequest,
                                     !.known = FALSE, !.err = @ - SLOW]
    /\ line' = [i \in DOMAIN line |-> IF line[i].op = "time"
                   THEN [op |-> "time", err |-> line[i].err - SLOW] ELSE line[i]]
    /\ UNCHANGED <<engine, board, unread, missed>>

Plausible(known, err) == known /\ err # LOST
Distance(a, b) == IF a > b THEN a - b ELSE b - a

OneSided(k) == k.err - k.stm > THRESHOLD

\* The engine reading was taken before the ask: its error then was err + d, and
\* the difference the policy sees is the one between the two readings.
Differs(k) == Distance(k.err, k.stm) > THRESHOLD

RtcWritesNeither(k) ==
    CASE k.source = "none" ->
            IF Plausible(k.known, k.stm) THEN "write engine" ELSE "none"
      [] k.source = "rtc" -> "none"
      [] OTHER -> IF k.pending \/ ~Plausible(k.known, k.stm) \/ Differs(k)
                  THEN "push" ELSE "none"

\* tg_time_decide.
Decision(k) ==
    CASE k.source = "none" ->
            IF Plausible(k.known, k.stm) THEN "write engine" ELSE "none"
      [] k.source = "rtc" -> IF k.pending THEN "push" ELSE "none"
      [] OTHER -> IF k.pending \/ ~Plausible(k.known, k.stm) \/ Differs(k)
                  THEN "push" ELSE "none"

\* write_engine: the time of the board, with the source rtc.
WriteEngine ==
    /\ keeper.pc = "decide" /\ Decision(keeper) = "write engine"
    /\ engine' = [source |-> "rtc", err |-> keeper.stm]
    /\ keeper' = [keeper EXCEPT !.pc = "idle"]
    /\ UNCHANGED <<board, line, left, unread, missed>>

\* push_stm: the time that the engine had when it was read.
Push ==
    /\ keeper.pc = "decide" /\ Decision(keeper) = "push"
    /\ Send("time", keeper.err)
    /\ keeper' = [keeper EXCEPT !.pc = "push",
                                !.waits = [op |-> "time", err |-> keeper.err]]
    /\ UNCHANGED <<engine, board, left, unread, missed>>

Nothing ==
    /\ keeper.pc = "decide" /\ Decision(keeper) = "none"
    /\ keeper' = [keeper EXCEPT !.pc = "idle"]
    /\ UNCHANGED <<engine, board, line, left, unread, missed>>

-----------------------------------------------------------------------------
(* The board.                                                               *)

\* What the board keeps of a request: SET_TIME sets the offset and the clock.
Takes(ask) ==
    IF ask.op = "time"
    THEN [board EXCEPT !.err = ask.err, !.offset = Offset, !.frames = Counted(@)]
    ELSE [board EXCEPT !.frames = Counted(@)]

\* What the ACK of a push changes in the wapp.
Pushed(k) == [k EXCEPT !.pc = "idle", !.waits = NoRequest, !.pending = FALSE]

\* The board carries out the next request.  The reply finds the wapp when it
\* is the last one of the line: it waits for its id and drops any other.
Take ==
    /\ line # <<>> /\ line' = Tail(line) /\ board' = Takes(Head(line))
    /\ IF keeper.waits = NoRequest \/ Len(line) > 1
       THEN UNCHANGED <<keeper, left, unread, missed>>
       ELSE IF keeper.pc = "push"
       THEN keeper' = Pushed(keeper) /\ UNCHANGED <<left, unread, missed>>
       ELSE /\ \E d \in {0, SLOW} :
                  /\ IF d = 0 THEN UNCHANGED left ELSE Spend("slow")
                  /\ keeper' = GotState(keeper, board'.frames, board.err, d)
            /\ missed' = (missed \/ (unread /\ keeper.have /\ board'.frames >= keeper.last))
            /\ unread' = FALSE
    /\ UNCHANGED engine

\* A frame of another peer.
OtherFrame ==
    /\ board' = [board EXCEPT !.frames = Counted(@)]
    /\ UNCHANGED <<engine, keeper, line, left, unread, missed>>

\* The settings reach the flash.
Save ==
    /\ board' = [board EXCEPT !.saved = board.offset]
    /\ UNCHANGED <<engine, keeper, line, left, unread, missed>>

\* A reset: the counter starts again, the offset is the one of the flash, and
\* the DS3231 keeps its time or its battery is gone.
Reset ==
    /\ Spend("resets")
    /\ \E e \in {board.err, LOST} :
          board' = [board EXCEPT !.frames = 0, !.offset = board.saved, !.err = e]
    /\ unread' = TRUE
    /\ UNCHANGED <<engine, keeper, line, missed>>

-----------------------------------------------------------------------------
(* The engine.                                                              *)

\* The control plane or SNTP sets the clock.
SetClock ==
    /\ engine' = [source |-> "sntp", err |-> 0]
    /\ UNCHANGED <<board, keeper, line, left, unread, missed>>

\* The engine restarts without a clock, and the wapp starts again.
Restart ==
    /\ Spend("starts")
    /\ engine' = [source |-> "none", err |-> 0] /\ keeper' = Fresh
    /\ unread' = FALSE
    /\ UNCHANGED <<board, line, missed>>

Step == ReadEngine \/ WriteEngine \/ Push \/ Nothing

TimeNext == Step \/ GiveUp \/ Take \/ OtherFrame \/ Save \/ Reset \/ SetClock \/ Restart

TimeSpec == TimeInit /\ [][TimeNext]_timeVars

\* The loop of the wapp runs, and the broker brings each request to the board.
TimeFairSpec == TimeSpec /\ WF_timeVars(Step) /\ WF_timeVars(Take)

-----------------------------------------------------------------------------
(* Properties.                                                              *)

\* An offset that the board does not hold is known to be due, or a reset is
\* still to be told: the ACK of a push never hides a reset that came after it.
OffsetIsDue == board.offset # Offset => keeper.pending \/ unread \/ missed

\* "The wapp sends the offset at its start and after each reset of the STM32":
\* once the resets are over and the engine has a time, the board keeps the
\* offset of the config, also when the reset came between the ACK and the save.
\* A reset whose counter had already passed the last reading is not seen.
OffsetSettles ==
    []~missed /\ <>[](engine.source # "none") => <>[](board.offset = Offset)

\* Two clocks end together: under a source of the control plane the DS3231 comes
\* to at most THRESHOLD seconds from it, whatever a slow ask did on the way.
ClocksMeet ==
    <>[](engine.source = "sntp" => Distance(engine.err, board.err) <= THRESHOLD)

\* An engine without a clock takes a plausible one from the board.
EngineGetsTime == []<>(engine.source # "none" \/ board.err = LOST)

\* "The wapp never writes the engine clock back when the control plane or a
\* person set it".  The source is read before the ask of the state.
TrustedIsKept == [][WriteEngine => engine.source # "sntp"]_timeVars
=============================================================================
