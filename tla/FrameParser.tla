---------------------------- MODULE FrameParser ----------------------------
(***************************************************************************)
(* The frames of the serial line (ipc/): a sender writes start byte,       *)
(* length, the rest of the header, payload and CRC; the line loses and     *)
(* invents bytes; the parser takes what comes in chunks of any size, finds *)
(* the frames in it and recovers after the bytes that are none.            *)
(*                                                                         *)
(* The bytes of the line are chosen at the start; the parser sees those    *)
(* that came.  Its buffer is the part from base + 1 to fed, thus a discard *)
(* moves base and a copy moves fed.  Length and CRC are one byte each; the *)
(* counters of the parser are left out.                                    *)
(***************************************************************************)
EXTENDS Integers, Sequences

CONSTANTS Bytes,        \* the values of a byte
          SOF,          \* IPC_SOF
          HEADER,       \* IPC_HEADER_LEN: start byte, length and the rest
          MAX_PAYLOAD,  \* IPC_MAX_PAYLOAD
          Crc(_),       \* ipc_crc16 of the bytes from the length on
          MaxBytes      \* bound: the bytes that come

ASSUME ParserAssumption ==
    /\ Bytes \subseteq Nat /\ SOF \in Bytes
    /\ HEADER \in Nat /\ HEADER >= 2
    /\ MAX_PAYLOAD \in Nat /\ MaxBytes \in Nat

VARIABLES line,   \* the bytes
          came,   \* how many of them the reader has
          fed,    \* how many of these the parser has copied
          base,   \* how many of these it has taken out again
          taken,  \* history: where the frames begin that the callback got
          cuts,   \* history: how many bytes had come when the line was idle
          pc      \* "idle", or at work: "copy" and "drain" a chunk, "timeout"

vars == <<line, came, fed, base, taken, cuts, pc>>

OVERHEAD  == HEADER + 1
FRAME_MAX == MAX_PAYLOAD + OVERHEAD
Lines     == [1 .. MaxBytes -> Bytes]

TypeOK ==
    /\ line \in Lines
    /\ came \in 0 .. MaxBytes /\ fed \in 0 .. came /\ base \in 0 .. fed
    /\ fed - base <= FRAME_MAX
    /\ taken \subseteq 1 .. MaxBytes /\ cuts \subseteq 0 .. came
    /\ pc \in {"idle", "copy", "drain", "timeout"}

\* ipc_parser_init
Init ==
    /\ line \in Lines
    /\ came = 0 /\ fed = 0 /\ base = 0
    /\ taken = {} /\ cuts = {} /\ pc = "idle"

-----------------------------------------------------------------------------
(* The frame.                                                              *)

NoCrcOfLength(rest, payload) ==
    <<SOF, Len(payload)>> \o rest \o payload \o <<Crc(rest \o payload)>>

Encode(rest, payload) ==
    LET body == <<Len(payload)>> \o rest \o payload
    IN  <<SOF>> \o body \o <<Crc(body)>>

\* The length of the frame that begins at p, and its last byte.
Total(p) == line[p + 1] + OVERHEAD
End(p)   == p + Total(p) - 1

HasHeader(p, n) == p + HEADER - 1 <= n
GoodLength(p)   == line[p + 1] <= MAX_PAYLOAD
GoodCrc(p)      == line[End(p)] = Crc(SubSeq(line, p + 1, End(p) - 1))

\* The first n bytes hold a whole frame from p on.
FrameBy(p, n) ==
    /\ line[p] = SOF /\ HasHeader(p, n) /\ GoodLength(p)
    /\ End(p) <= n /\ GoodCrc(p)

-----------------------------------------------------------------------------
(* ipc_drain looks at the first byte of the buffer.                        *)

First  == base + 1
Pending == base < fed                     \* ipc_parser_pending
Drains == pc \in {"drain", "timeout"}

\* A candidate that is no frame, whatever comes behind it.
Bad ==
    \/ line[First] # SOF
    \/ HasHeader(First, fed) /\ ~GoodLength(First)
    \/ HasHeader(First, fed) /\ GoodLength(First) /\ End(First) <= fed /\ ~GoodCrc(First)

\* A candidate whose end is yet to come.
Waits ==
    /\ line[First] = SOF
    /\ HasHeader(First, fed) => GoodLength(First) /\ End(First) > fed

Accept ==
    /\ Drains /\ Pending /\ FrameBy(First, fed)
    /\ taken' = taken \cup {First}
    /\ base' = End(First)
    /\ UNCHANGED <<line, came, fed, cuts, pc>>

SkipsFirst(n) == base' = base + n + 1 /\ UNCHANGED <<line, came, fed, taken, cuts, pc>>

\* ipc_discard
Discard(n) == base' = base + n /\ UNCHANGED <<line, came, fed, taken, cuts, pc>>

\* The next start byte of the buffer, or its end.
Resync ==
    \E p \in First + 1 .. fed + 1 :
        /\ p <= fed => line[p] = SOF
        /\ \A q \in First + 1 .. p - 1 : line[q] # SOF
        /\ Discard(p - First)

Full == pc = "copy" /\ fed < came /\ fed - base = FRAME_MAX

\* The line is idle: the frame that waits for its end will not get it.
GivesUp == pc = "timeout" /\ Pending /\ Waits

Recover ==
    /\ (Drains /\ Pending /\ Bad) \/ Full \/ GivesUp
    /\ Resync

Break ==
    /\ pc = "drain" /\ (Pending => Waits)
    /\ pc' = "copy"
    /\ UNCHANGED <<line, came, fed, base, taken, cuts>>

-----------------------------------------------------------------------------
(* ipc_parser_push and ipc_parser_timeout.                                 *)

\* A read of the line gives a chunk to the parser.
Receive(n) ==
    /\ pc = "idle" /\ came + n <= MaxBytes
    /\ came' = came + n /\ pc' = "copy"
    /\ UNCHANGED <<line, fed, base, taken, cuts>>

Least(m, n) == IF m < n THEN m ELSE n

Copy ==
    /\ pc = "copy" /\ fed < came /\ fed - base < FRAME_MAX
    /\ fed' = fed + Least(came - fed, FRAME_MAX - (fed - base))
    /\ pc' = "drain"
    /\ UNCHANGED <<line, came, base, taken, cuts>>

Return ==
    /\ pc = "copy" /\ fed = came
    /\ pc' = "idle"
    /\ UNCHANGED <<line, came, fed, base, taken, cuts>>

AfterHeader ==
    /\ pc = "idle" /\ Pending /\ HasHeader(First, fed)
    /\ pc' = "timeout"
    /\ UNCHANGED <<line, came, fed, base, taken, cuts>>

\* The readers call it when no byte came for 20 ms and a frame is pending.
Timeout ==
    /\ pc = "idle" /\ Pending
    /\ pc' = "timeout"
    /\ UNCHANGED <<line, came, fed, base, taken, cuts>>

EndTimeout ==
    /\ pc = "timeout" /\ ~Pending
    /\ cuts' = cuts \cup {came} /\ pc' = "idle"
    /\ UNCHANGED <<line, came, fed, base, taken>>

Parse == Accept \/ Recover \/ Break \/ Copy \/ Return \/ EndTimeout

Next == Parse \/ Timeout \/ \E n \in 1 .. MaxBytes : Receive(n)

Spec == Init /\ [][Next]_vars

\* A call of the parser runs to its end, and the poll of the reader has a limit
\* while a frame is pending.
FairSpec == Spec /\ WF_vars(Parse) /\ WF_vars(Timeout)
-----------------------------------------------------------------------------
(* What the readers rely on.                                               *)

Covered(q) == \E p \in taken : p <= q /\ q <= End(p)

\* What the callback gets are frames of the line, whole and one after the
\* other, however the chunks cut them (ipc_drain).
TakenAreFrames ==
    /\ \A p \in taken : FrameBy(p, base)
    /\ \A p, q \in taken : p < q => End(p) < q

\* The line was idle after a byte of the frame that is not its last.
Cut(q) == \E c \in cuts : q <= c /\ c < End(q)

\* No frame that came whole is thrown away, unless its start byte is a byte of
\* a frame that was taken or the line was idle in the middle of it; and none
\* waits in front of the buffer when a call returns (ipc_resync,
\* ipc_parser_timeout).
NothingSkipped ==
    /\ \A q \in 1 .. base : FrameBy(q, came) => Covered(q) \/ Cut(q)
    /\ pc = "idle" /\ Pending => ~FrameBy(First, came)

\* The buffer has room for every chunk: ipc_drain leaves a full one only with
\* a frame or a discard, and the step of ipc_parser_push for a full buffer
\* without a frame is never taken.
RoomForMore == pc \in {"idle", "copy"} => fed - base < FRAME_MAX

\* A frame of ipc_encode that begins after an idle line, or as the first one,
\* is taken as soon as its last byte is there.
Holds(c, e) == c + Len(e) <= came /\ SubSeq(line, c + 1, c + Len(e)) = e
Words(m)    == UNION {[1 .. k -> Bytes] : k \in 0 .. m}

EncodedIsTaken ==
    pc = "idle" =>
        \A c \in cuts \cup {0}, rest \in [1 .. HEADER - 2 -> Bytes], payload \in Words(MAX_PAYLOAD) :
            Holds(c, Encode(rest, payload)) => c + 1 \in taken \/ Cut(c + 1)

\* Every call of the parser returns, whatever the buffer holds.
ParserReturns == pc # "idle" ~> pc = "idle"

\* A frame that will not end does not stay in front of the others for ever:
\* docs/ipc-protocol.md, "The idle timeout is necessary".
LineRecovers == Pending ~> ~Pending

\* The invariant by which the first three are proved: a byte that was thrown
\* away begins no frame, whatever comes behind it before the line is idle.
Hopeless(q) ==
    FrameBy(q, IF pc = "timeout" THEN came ELSE MaxBytes) => Covered(q) \/ Cut(q)

IInv ==
    /\ TypeOK /\ RoomForMore /\ TakenAreFrames
    /\ \A q \in 1 .. base : Hopeless(q)
    /\ pc \in {"idle", "timeout"} => fed = came
    /\ pc \in {"idle", "copy"} /\ Pending => Waits

\* With it EncodedIsTaken is proved: what came before an idle line is out of
\* the buffer, hence no frame that was taken goes on behind it.
CutsInv == \A c \in cuts : c <= base /\ (\A p \in taken : p <= c => End(p) <= c)
=============================================================================
