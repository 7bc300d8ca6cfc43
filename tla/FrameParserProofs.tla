------------------------- MODULE FrameParserProofs -------------------------
(***************************************************************************)
(* The parser takes every frame that comes whole, and nothing else, for    *)
(* every line, every chunk, every size of a frame and every checksum.      *)
(***************************************************************************)
EXTENDS FrameParser, SequenceTheorems, TLAPS

\* How the frames of a line depend on its bytes and on what has come.
LEMMA FrameGrows ==
    ASSUME NEW p, NEW m \in Nat, NEW n \in Nat, m <= n, FrameBy(p, m),
           p \in Nat, End(p) \in Nat
    PROVE  FrameBy(p, n)
  BY ParserAssumption DEF FrameBy, HasHeader

LEMMA EndIsNat ==
    ASSUME TypeOK, NEW p \in Nat \ {0}, NEW n \in 0 .. MaxBytes, HasHeader(p, n)
    PROVE  /\ line[p] \in Nat /\ line[p + 1] \in Nat
           /\ End(p) \in Nat /\ End(p) >= p + HEADER
  <1>1. p \in 1 .. MaxBytes /\ p + 1 \in 1 .. MaxBytes
    BY ParserAssumption DEF HasHeader
  <1>2. line[p] \in Nat /\ line[p + 1] \in Nat
    BY <1>1, ParserAssumption DEF TypeOK, Lines
  <1> QED
    BY <1>2, ParserAssumption DEF End, Total, OVERHEAD

\* What a step leaves alone when it touches neither the line nor the history.
LEMMA HistoryStays ==
    ASSUME TakenAreFrames, UNCHANGED <<line, taken, base>>
    PROVE  TakenAreFrames'
  BY DEF TakenAreFrames, FrameBy, HasHeader, GoodLength, GoodCrc, End, Total

LEMMA WaitsStays ==
    ASSUME UNCHANGED <<line, base, fed>>
    PROVE  (Waits' <=> Waits) /\ (Pending' <=> Pending)
  BY DEF Waits, Pending, First, HasHeader, GoodLength, End, Total

LEMMA HopelessStays ==
    ASSUME NEW q, Hopeless(q), UNCHANGED <<line, taken, cuts>>,
           pc # "timeout", pc' # "timeout"
    PROVE  Hopeless(q)'
  BY DEF Hopeless, Covered, Cut, FrameBy, HasHeader, GoodLength, GoodCrc, End, Total

-----------------------------------------------------------------------------
LEMMA InitIInv == Init => IInv
  <1> SUFFICES ASSUME Init PROVE IInv
    OBVIOUS
  <1>1. TypeOK
    BY ParserAssumption DEF Init, TypeOK, FRAME_MAX, OVERHEAD
  <1>2. RoomForMore
    BY ParserAssumption DEF Init, RoomForMore, FRAME_MAX, OVERHEAD
  <1>3. TakenAreFrames
    BY DEF Init, TakenAreFrames
  <1>4. \A q \in 1 .. base : Hopeless(q)
    BY DEF Init
  <1> QED
    BY <1>1, <1>2, <1>3, <1>4 DEF Init, IInv, Pending

\* A chunk is read: the parser sees it with its first copy.
LEMMA ReceiveKeepsIInv ==
    ASSUME IInv, NEW n \in 1 .. MaxBytes, Receive(n)
    PROVE  IInv'
  <1>1. TypeOK'
    BY ParserAssumption DEF IInv, TypeOK, Receive
  <1>2. RoomForMore'
    BY DEF IInv, RoomForMore, Receive
  <1>3. TakenAreFrames'
    BY HistoryStays DEF IInv, Receive
  <1>4. \A q \in 1 .. base' : Hopeless(q)'
    BY HopelessStays DEF IInv, Receive
  <1>5. pc' \in {"idle", "copy"} /\ Pending' => Waits'
    BY WaitsStays DEF IInv, Receive
  <1> QED
    BY <1>1, <1>2, <1>3, <1>4, <1>5 DEF IInv, Receive

LEMMA CopyKeepsIInv == ASSUME IInv, Copy PROVE IInv'
  <1>1. TypeOK'
    BY ParserAssumption DEF IInv, TypeOK, Copy, Least, FRAME_MAX, OVERHEAD
  <1>2. RoomForMore'
    BY DEF RoomForMore, Copy
  <1>3. TakenAreFrames'
    BY HistoryStays DEF IInv, Copy
  <1>4. \A q \in 1 .. base' : Hopeless(q)'
    BY HopelessStays DEF IInv, Copy
  <1> QED
    BY <1>1, <1>2, <1>3, <1>4 DEF IInv, Copy

LEMMA ReturnKeepsIInv == ASSUME IInv, Return PROVE IInv'
  <1>1. TypeOK'
    BY DEF IInv, TypeOK, Return
  <1>2. RoomForMore'
    BY DEF IInv, RoomForMore, Return
  <1>3. TakenAreFrames'
    BY HistoryStays DEF IInv, Return
  <1>4. \A q \in 1 .. base' : Hopeless(q)'
    BY HopelessStays DEF IInv, Return
  <1>5. Pending' => Waits'
    BY WaitsStays DEF IInv, Return
  <1> QED
    BY <1>1, <1>2, <1>3, <1>4, <1>5 DEF IInv, Return

\* A buffer that drained holds less than a frame.
LEMMA WaitsLeavesRoom ==
    ASSUME TypeOK, Pending => Waits
    PROVE  fed - base < FRAME_MAX
  <1>1. CASE ~Pending
    BY <1>1, ParserAssumption DEF TypeOK, Pending, FRAME_MAX, OVERHEAD
  <1>2. CASE Pending /\ ~HasHeader(First, fed)
    BY <1>2, ParserAssumption DEF TypeOK, HasHeader, First, FRAME_MAX, OVERHEAD
  <1>3. CASE Pending /\ HasHeader(First, fed)
    <2>1. First \in Nat \ {0} /\ fed \in 0 .. MaxBytes
      BY ParserAssumption DEF TypeOK, First
    <2>2. line[First + 1] \in Nat
      BY <1>3, <2>1, EndIsNat
    <2>3. line[First + 1] <= MAX_PAYLOAD /\ End(First) > fed
      BY <1>3 DEF Waits, GoodLength
    <2> QED
      BY <2>1, <2>2, <2>3, ParserAssumption DEF TypeOK, First, End, Total, FRAME_MAX, OVERHEAD
  <1> QED
    BY <1>1, <1>2, <1>3

LEMMA BreakKeepsIInv == ASSUME IInv, Break PROVE IInv'
  <1>1. TypeOK'
    BY DEF IInv, TypeOK, Break
  <1>2. RoomForMore'
    <2>1. fed - base < FRAME_MAX
      BY WaitsLeavesRoom DEF IInv, Break
    <2> QED
      BY <2>1 DEF RoomForMore, Break, FRAME_MAX, OVERHEAD
  <1>3. TakenAreFrames'
    BY HistoryStays DEF IInv, Break
  <1>4. \A q \in 1 .. base' : Hopeless(q)'
    BY HopelessStays DEF IInv, Break
  <1>5. Pending' => Waits'
    BY WaitsStays DEF IInv, Break
  <1> QED
    BY <1>1, <1>2, <1>3, <1>4, <1>5 DEF IInv, Break

\* A frame that was taken ends in what was taken out.
LEMMA TakenEnds ==
    ASSUME IInv, NEW p \in taken
    PROVE  /\ FrameBy(p, base) /\ p \in Nat \ {0} /\ base \in 0 .. MaxBytes
           /\ End(p) \in Nat /\ End(p) >= p + HEADER /\ End(p) <= base
  <1>1. base \in 0 .. MaxBytes /\ p \in 1 .. MaxBytes
    BY ParserAssumption DEF IInv, TypeOK
  <1>2. FrameBy(p, base)
    BY DEF IInv, TakenAreFrames
  <1>3. HasHeader(p, base) /\ End(p) <= base
    BY <1>2 DEF FrameBy
  <1>4. End(p) \in Nat /\ End(p) >= p + HEADER
    BY <1>1, <1>3, EndIsNat DEF IInv
  <1> QED
    BY <1>1, <1>2, <1>3, <1>4

-----------------------------------------------------------------------------
\* The frame in front goes to the callback.
LEMMA AcceptKeepsIInv == ASSUME IInv, Accept PROVE IInv'
  <1>1. /\ First \in 1 .. MaxBytes /\ base \in Nat /\ fed \in 0 .. MaxBytes
        /\ fed \in 0 .. came /\ came \in 0 .. MaxBytes
    BY ParserAssumption DEF IInv, TypeOK, Accept, Pending, First
  <1>2. FrameBy(First, fed) /\ HasHeader(First, fed) /\ End(First) <= fed
    BY DEF Accept, FrameBy
  <1>3. End(First) \in Nat /\ End(First) >= First + HEADER
    BY <1>1, <1>2, EndIsNat DEF IInv
  <1>4. base' = End(First) /\ taken' = taken \cup {First} /\ base < base'
    BY <1>1, <1>3, ParserAssumption DEF Accept, First
  <1>5. UNCHANGED <<line, came, fed, cuts, pc>>
    BY DEF Accept
  <1>6. TypeOK'
    <2>1. base' \in 0 .. fed /\ fed - base' <= FRAME_MAX
      BY <1>1, <1>2, <1>3, <1>4, ParserAssumption DEF IInv, TypeOK, FRAME_MAX, OVERHEAD
    <2> QED
      BY <2>1, <1>1, <1>4, <1>5 DEF IInv, TypeOK, FRAME_MAX, OVERHEAD
  <1>7. RoomForMore'
    BY DEF RoomForMore, Accept, Drains
  <1>8. TakenAreFrames'
    <2>1. \A p \in taken : FrameBy(p, End(First))
      <3> SUFFICES ASSUME NEW p \in taken PROVE FrameBy(p, End(First))
        OBVIOUS
      <3>1. FrameBy(p, base) /\ p \in Nat /\ End(p) \in Nat
        BY TakenEnds
      <3> QED
        BY <3>1, <1>1, <1>3, <1>4, FrameGrows
    <2>2. FrameBy(First, End(First))
      BY <1>1, <1>2, <1>3, ParserAssumption DEF FrameBy, HasHeader
    <2>3. \A p \in taken : End(p) < First /\ p < First
      <3> SUFFICES ASSUME NEW p \in taken PROVE End(p) < First /\ p < First
        OBVIOUS
      <3>1. /\ p \in Nat /\ End(p) \in Nat
            /\ End(p) >= p + HEADER /\ End(p) <= base
        BY TakenEnds
      <3> QED
        BY <3>1, <1>1, ParserAssumption DEF First
    <2>4. \A p, q \in taken \cup {First} : p < q => End(p) < q
      <3> SUFFICES ASSUME NEW p \in taken \cup {First}, NEW q \in taken \cup {First}, p < q
                   PROVE  End(p) < q
        OBVIOUS
      <3>1. CASE q = First
        <4>1. p \in taken
          BY <3>1, <1>1
        <4> QED
          BY <4>1, <3>1, <2>3
      <3>2. CASE q \in taken
        <4>1. q < First /\ q \in Nat
          BY <3>2, <2>3 DEF IInv, TypeOK
        <4>2. p \in taken
          BY <4>1, <1>1
        <4> QED
          BY <4>2, <3>2 DEF IInv, TakenAreFrames
      <3> QED
        BY <3>1, <3>2
    <2>5. \A p \in taken' : FrameBy(p, base')
      BY <2>1, <2>2, <1>4
    <2> QED
      BY <2>4, <2>5, <1>4, <1>5
      DEF TakenAreFrames, FrameBy, HasHeader, GoodLength, GoodCrc, End, Total
  <1>9. \A q \in 1 .. base' : Hopeless(q)'
    <2> SUFFICES ASSUME NEW q \in 1 .. base' PROVE Hopeless(q)'
      OBVIOUS
    <2>1. CASE q \in 1 .. base
      <3>1. Hopeless(q)
        BY <2>1 DEF IInv
      <3> QED
        BY <3>1, <1>4, <1>5
        DEF Hopeless, Covered, Cut, FrameBy, HasHeader, GoodLength, GoodCrc, End, Total
    <2>2. CASE q \notin 1 .. base
      <3>1. First <= q /\ q <= End(First)
        BY <2>2, <1>1, <1>3, <1>4 DEF First
      <3> QED
        BY <3>1, <1>4, <1>5 DEF Hopeless, Covered, End, Total
    <2> QED
      BY <2>1, <2>2
  <1> QED
    BY <1>5, <1>6, <1>7, <1>8, <1>9 DEF IInv, Accept, Drains

\* What is thrown away begins no frame.
LEMMA RecoverKeepsIInv == ASSUME IInv, Recover PROVE IInv'
  <1>1. ~Full
    BY ParserAssumption DEF IInv, TypeOK, RoomForMore, Full, FRAME_MAX, OVERHEAD
  <1>2. Pending /\ pc \in {"drain", "timeout"} /\ (Bad \/ GivesUp)
    BY <1>1 DEF Recover, Drains, GivesUp
  <1>3. /\ First \in 1 .. MaxBytes /\ base \in Nat /\ fed \in 0 .. MaxBytes
        /\ fed \in 0 .. came /\ came \in 0 .. MaxBytes
    BY <1>2, ParserAssumption DEF IInv, TypeOK, Pending, First
  <1>4. PICK p \in First + 1 .. fed + 1 :
            /\ \A q \in First + 1 .. p - 1 : line[q] # SOF
            /\ Discard(p - First)
    BY DEF Recover, Resync
  <1>5. base' = p - 1 /\ base < base' /\ base' <= fed
    BY <1>3, <1>4 DEF Discard, First
  <1>6. UNCHANGED <<line, came, fed, taken, cuts, pc>>
    BY <1>4 DEF Discard
  <1>7. TypeOK'
    <2>1. base' \in 0 .. fed /\ fed - base' <= fed - base
      BY <1>3, <1>4, <1>5
    <2>2. fed - base' <= FRAME_MAX
      BY <1>3, <1>4, <1>5, <2>1, ParserAssumption DEF IInv, TypeOK, FRAME_MAX, OVERHEAD
    <2> QED
      BY <1>6, <2>1, <2>2 DEF IInv, TypeOK, FRAME_MAX, OVERHEAD
  <1>8. RoomForMore'
    BY <1>2, <1>6 DEF RoomForMore
  <1>9. TakenAreFrames'
    <2>1. \A r \in taken : FrameBy(r, base')
      <3> SUFFICES ASSUME NEW r \in taken PROVE FrameBy(r, base')
        OBVIOUS
      <3>1. FrameBy(r, base) /\ r \in Nat /\ End(r) \in Nat
        BY TakenEnds
      <3>2. base' \in Nat /\ base <= base'
        BY <1>3, <1>4, <1>5
      <3> QED
        BY <3>1, <3>2, <1>3, FrameGrows
    <2> QED
      BY <2>1, <1>6
      DEF IInv, TakenAreFrames, FrameBy, HasHeader, GoodLength, GoodCrc, End, Total
  <1>10. ~FrameBy(First, IF pc = "timeout" THEN came ELSE MaxBytes)
    <2>1. CASE Bad
      BY <2>1, <1>3 DEF Bad, FrameBy, HasHeader
    <2>2. CASE GivesUp
      <3>1. fed = came /\ pc = "timeout" /\ Waits
        BY <2>2 DEF GivesUp, IInv
      <3>2. SUFFICES ASSUME FrameBy(First, came) PROVE FALSE
        BY <3>1
      <3>3. HasHeader(First, fed) /\ End(First) <= fed
        BY <3>1, <3>2 DEF FrameBy
      <3>4. End(First) > fed
        BY <3>1, <3>3 DEF Waits
      <3>5. End(First) \in Nat
        BY <1>3, <3>3, EndIsNat DEF IInv
      <3> QED
        BY <1>3, <3>3, <3>4, <3>5
    <2> QED
      BY <1>2, <2>1, <2>2
  <1>11. \A q \in 1 .. base' : Hopeless(q)
    <2> SUFFICES ASSUME NEW q \in 1 .. base' PROVE Hopeless(q)
      OBVIOUS
    <2>1. CASE q \in 1 .. base
      BY <2>1 DEF IInv
    <2>2. CASE q = First
      BY <2>2, <1>10 DEF Hopeless
    <2>3. CASE q \in First + 1 .. p - 1
      BY <2>3, <1>4 DEF Hopeless, FrameBy
    <2> QED
      BY <2>1, <2>2, <2>3, <1>3, <1>4, <1>5 DEF First
  <1>12. \A q \in 1 .. base' : Hopeless(q)'
    BY <1>11, <1>6
    DEF Hopeless, Covered, Cut, FrameBy, HasHeader, GoodLength, GoodCrc, End, Total
  <1> QED
    BY <1>2, <1>6, <1>7, <1>8, <1>9, <1>12 DEF IInv

-----------------------------------------------------------------------------
\* The idle line is seen: what is in the buffer is all there will be.
LEMMA TimeoutKeepsIInv == ASSUME IInv, Timeout PROVE IInv'
  <1>1. TypeOK'
    BY DEF IInv, TypeOK, Timeout
  <1>2. RoomForMore'
    BY DEF RoomForMore, Timeout
  <1>3. TakenAreFrames'
    BY HistoryStays DEF IInv, Timeout
  <1>4. UNCHANGED <<line, came, fed, base, taken, cuts>> /\ pc = "idle" /\ pc' = "timeout"
    BY DEF Timeout
  <1>5. \A q \in 1 .. base : FrameBy(q, came) => Covered(q) \/ Cut(q)
    <2> SUFFICES ASSUME NEW q \in 1 .. base, FrameBy(q, came)
                 PROVE  Covered(q) \/ Cut(q)
      OBVIOUS
    <2>1. Hopeless(q) /\ came \in 0 .. MaxBytes /\ q \in Nat \ {0}
      BY ParserAssumption DEF IInv, TypeOK
    <2>2. End(q) \in Nat
      BY <2>1, EndIsNat DEF IInv, FrameBy
    <2>3. FrameBy(q, MaxBytes)
      BY <2>1, <2>2, FrameGrows, ParserAssumption
    <2> QED
      BY <2>1, <2>3, <1>4 DEF Hopeless
  <1>6. \A q \in 1 .. base' : Hopeless(q)'
    BY <1>4, <1>5
    DEF Hopeless, Covered, Cut, FrameBy, HasHeader, GoodLength, GoodCrc, End, Total
  <1> QED
    BY <1>1, <1>2, <1>3, <1>4, <1>6 DEF IInv

\* A frame that is yet to end was cut by the idle line.
LEMMA EndTimeoutKeepsIInv == ASSUME IInv, EndTimeout PROVE IInv'
  <1>1. /\ UNCHANGED <<line, came, fed, base, taken>> /\ cuts' = cuts \cup {came}
        /\ pc = "timeout" /\ pc' = "idle" /\ ~Pending
    BY DEF EndTimeout
  <1>2. TypeOK'
    BY <1>1 DEF IInv, TypeOK
  <1>3. RoomForMore'
    BY <1>1, ParserAssumption
    DEF IInv, TypeOK, RoomForMore, Pending, FRAME_MAX, OVERHEAD
  <1>4. TakenAreFrames'
    BY <1>1, HistoryStays DEF IInv
  <1>5. ASSUME NEW q \in 1 .. base, FrameBy(q, MaxBytes)
        PROVE  Covered(q) \/ Cut(q) \/ (q <= came /\ came < End(q))
    <2>1. Hopeless(q) /\ came \in 0 .. MaxBytes /\ q \in Nat \ {0} /\ q <= came
      BY ParserAssumption DEF IInv, TypeOK
    <2>2. End(q) \in Nat /\ End(q) >= q + HEADER /\ HasHeader(q, MaxBytes)
      BY <1>5, <2>1, EndIsNat, ParserAssumption DEF IInv, FrameBy
    <2>3. CASE End(q) <= came
      <3>1. FrameBy(q, came)
        BY <1>5, <2>1, <2>2, <2>3, ParserAssumption DEF FrameBy, HasHeader
      <3> QED
        BY <2>1, <3>1, <1>1 DEF Hopeless
    <2>4. CASE End(q) > came
      BY <2>1, <2>4
    <2> QED
      BY <2>1, <2>2, <2>3, <2>4
  <1>6. \A q \in 1 .. base' : Hopeless(q)'
    <2> SUFFICES ASSUME NEW q \in 1 .. base' PROVE Hopeless(q)'
      OBVIOUS
    <2>1. FrameBy(q, MaxBytes) => Covered(q) \/ Cut(q) \/ (q <= came /\ came < End(q))
      BY <1>1, <1>5
    <2>2. Cut(q) \/ (q <= came /\ came < End(q)) => Cut(q)'
      BY <1>1 DEF Cut, End, Total
    <2>3. Covered(q) => Covered(q)'
      BY <1>1 DEF Covered, End, Total
    <2>4. FrameBy(q, MaxBytes)' => FrameBy(q, MaxBytes)
      BY <1>1 DEF FrameBy, HasHeader, GoodLength, GoodCrc, End, Total
    <2>5. FrameBy(q, MaxBytes)' => Covered(q)' \/ Cut(q)'
      BY <2>1, <2>2, <2>3, <2>4
    <2> QED
      BY <2>5, <1>1 DEF Hopeless
  <1>7. ~Pending'
    BY <1>1 DEF Pending
  <1> QED
    BY <1>1, <1>2, <1>3, <1>4, <1>6, <1>7 DEF IInv

-----------------------------------------------------------------------------
\* Nothing moves in a step that changes no variable.
LEMMA StutterKeepsIInv == ASSUME IInv, UNCHANGED vars PROVE IInv'
  <1> USE DEF vars
  <1>1. TypeOK' /\ RoomForMore'
    BY DEF IInv, TypeOK, RoomForMore
  <1>2. TakenAreFrames'
    BY HistoryStays DEF IInv
  <1>3. \A q \in 1 .. base' : Hopeless(q)'
    BY DEF IInv, Hopeless, Covered, Cut, FrameBy, HasHeader, GoodLength, GoodCrc, End, Total
  <1>4. pc' \in {"idle", "copy"} /\ Pending' => Waits'
    BY WaitsStays DEF IInv
  <1> QED
    BY <1>1, <1>2, <1>3, <1>4 DEF IInv

LEMMA NextKeepsIInv == IInv /\ [Next]_vars => IInv'
  <1> SUFFICES ASSUME IInv, [Next]_vars PROVE IInv'
    OBVIOUS
  <1>1. CASE Accept
    BY <1>1, AcceptKeepsIInv
  <1>2. CASE Recover
    BY <1>2, RecoverKeepsIInv
  <1>3. CASE Break
    BY <1>3, BreakKeepsIInv
  <1>4. CASE Copy
    BY <1>4, CopyKeepsIInv
  <1>5. CASE Return
    BY <1>5, ReturnKeepsIInv
  <1>6. CASE EndTimeout
    BY <1>6, EndTimeoutKeepsIInv
  <1>7. CASE Timeout
    BY <1>7, TimeoutKeepsIInv
  <1>8. CASE \E n \in 1 .. MaxBytes : Receive(n)
    BY <1>8, ReceiveKeepsIInv
  <1>9. CASE UNCHANGED vars
    BY <1>9, StutterKeepsIInv
  <1> QED
    BY <1>1, <1>2, <1>3, <1>4, <1>5, <1>6, <1>7, <1>8, <1>9 DEF Next, Parse

\* The inductive invariant of the parser: what it threw away begins no frame
\* that could still come whole (ipc_drain, ipc_resync).
THEOREM ParserInvariant == Spec => []IInv
  <1>1. Init => IInv
    BY InitIInv
  <1>2. IInv /\ [Next]_vars => IInv'
    BY NextKeepsIInv
  <1> QED
    BY <1>1, <1>2, PTL DEF Spec

\* Type correctness of the parser; its buffer never holds more than a frame.
THEOREM ParserTypeOK == Spec => []TypeOK
  <1>1. IInv => TypeOK
    BY DEF IInv
  <1> QED
    BY <1>1, ParserInvariant, PTL

\* The step of ipc_parser_push for a full buffer without a frame is never taken.
THEOREM ParserHasRoom == Spec => []RoomForMore
  <1>1. IInv => RoomForMore
    BY DEF IInv
  <1> QED
    BY <1>1, ParserInvariant, PTL

\* The callback gets whole frames of the line, one after the other.
THEOREM ParserTakesFrames == Spec => []TakenAreFrames
  <1>1. IInv => TakenAreFrames
    BY DEF IInv
  <1> QED
    BY <1>1, ParserInvariant, PTL

\* No frame that came whole is lost, unless its start byte lies in a frame that
\* was taken or the line was idle in the middle of it.
THEOREM ParserSkipsNothing == Spec => []NothingSkipped
  <1>1. IInv => NothingSkipped
    <2> SUFFICES ASSUME IInv PROVE NothingSkipped
      OBVIOUS
    <2>1. came \in 0 .. MaxBytes /\ fed \in 0 .. came /\ base \in 0 .. fed
      BY DEF IInv, TypeOK
    <2>2. ASSUME NEW q \in 1 .. base, FrameBy(q, came)
          PROVE  Covered(q) \/ Cut(q)
      <3>1. Hopeless(q) /\ q \in Nat \ {0}
        BY DEF IInv
      <3>2. End(q) \in Nat
        BY <2>1, <2>2, <3>1, EndIsNat DEF IInv, FrameBy
      <3>3. FrameBy(q, MaxBytes)
        BY <2>1, <2>2, <3>1, <3>2, FrameGrows, ParserAssumption
      <3> QED
        BY <2>2, <3>1, <3>3 DEF Hopeless
    <2>3. ASSUME pc = "idle", Pending, FrameBy(First, came)
          PROVE  FALSE
      <3>1. Waits /\ fed = came /\ First \in Nat \ {0} /\ fed \in 0 .. MaxBytes
        BY <2>1, <2>3 DEF IInv, First
      <3>2. HasHeader(First, fed) /\ End(First) <= fed
        BY <2>3, <3>1 DEF FrameBy
      <3>3. End(First) > fed /\ End(First) \in Nat
        BY <3>1, <3>2, EndIsNat DEF IInv, Waits
      <3> QED
        BY <3>1, <3>2, <3>3
    <2> QED
      BY <2>2, <2>3 DEF NothingSkipped
  <1> QED
    BY <1>1, ParserInvariant, PTL

-----------------------------------------------------------------------------
\* An idle line divides the frames that are taken: the steps that take one,
\* throw bytes away or see the line idle, and the rest, which do neither.
LEMMA NextKeepsCuts == IInv /\ CutsInv /\ [Next]_vars => CutsInv'
  <1> SUFFICES ASSUME IInv, CutsInv, [Next]_vars PROVE CutsInv'
    OBVIOUS
  <1>1. /\ base \in Nat /\ fed \in Nat /\ came \in Nat
        /\ cuts \subseteq Nat /\ taken \subseteq Nat
    BY ParserAssumption DEF IInv, TypeOK
  <1>2. CASE Accept
    <2>1. taken' = taken \cup {First} /\ base' = End(First) /\ UNCHANGED <<line, cuts>>
      BY <1>2 DEF Accept
    <2>2. First = base + 1 /\ First \in Nat \ {0}
      BY <1>1 DEF First
    <2>3. End(First) \in Nat /\ End(First) >= First + HEADER
      <3>1. HasHeader(First, fed) /\ fed \in 0 .. MaxBytes /\ TypeOK
        BY <1>2, ParserAssumption DEF IInv, TypeOK, Accept, FrameBy
      <3> QED
        BY <2>2, <3>1, EndIsNat
    <2>4. base <= base'
      BY <1>1, <2>1, <2>2, <2>3, ParserAssumption
    <2>5. ASSUME NEW c \in cuts
          PROVE  c <= base' /\ \A p \in taken' : p <= c => End(p) <= c
      <3>1. c <= base /\ \A p \in taken : p <= c => End(p) <= c
        BY DEF CutsInv
      <3>2. c <= base' /\ ~(First <= c)
        BY <1>1, <2>2, <2>4, <2>1, <2>3, <3>1
      <3> QED
        BY <2>1, <3>1, <3>2
    <2> QED
      BY <2>1, <2>5 DEF CutsInv, End, Total
  <1>3. CASE Recover
    <2>1. PICK p \in First + 1 .. fed + 1 : Discard(p - First)
      BY <1>3 DEF Recover, Resync
    <2>2. base <= base' /\ base' \in Nat /\ UNCHANGED <<line, cuts, taken>>
      BY <1>1, <2>1 DEF Discard, First
    <2>3. \A c \in cuts : c <= base'
      BY <1>1, <2>2 DEF CutsInv
    <2> QED
      BY <2>2, <2>3 DEF CutsInv, End, Total
  <1>4. CASE EndTimeout
    <2>1. UNCHANGED <<line, base, taken>> /\ cuts' = cuts \cup {came}
      BY <1>4 DEF EndTimeout
    <2>2. base = came
      BY <1>4 DEF IInv, TypeOK, EndTimeout, Pending
    <2>3. \A p \in taken : End(p) <= came
      BY <2>2, TakenEnds
    <2>4. came <= base
      BY <1>1, <2>2
    <2> QED
      BY <2>1, <2>3, <2>4 DEF CutsInv, End, Total
  <1>5. CASE Break \/ Copy \/ Return \/ Timeout \/ (\E n \in 1 .. MaxBytes : Receive(n))
             \/ UNCHANGED vars
    <2>1. UNCHANGED <<line, base, taken, cuts>>
      BY <1>5 DEF Break, Copy, Return, Timeout, Receive, vars
    <2> QED
      BY <2>1 DEF CutsInv, End, Total
  <1> QED
    BY <1>2, <1>3, <1>4, <1>5 DEF Next, Parse

\* A function on the first k numbers is a sequence of that length.
LEMMA FunctionIsSeq ==
    ASSUME NEW S, NEW k \in Nat, NEW s \in [1 .. k -> S]
    PROVE  s \in Seq(S) /\ Len(s) = k
  <1>1. s \in Seq(S)
    BY SeqDef
  <1>2. Len(s) \in Nat /\ 1 .. Len(s) = 1 .. k
    BY <1>1, LenProperties
  <1>3. Len(s) = k
    <2>1. k \in 1 .. k => k \in 1 .. Len(s)
      BY <1>2
    <2>2. Len(s) \in 1 .. Len(s) => Len(s) \in 1 .. k
      BY <1>2
    <2> QED
      BY <1>2, <2>1, <2>2
  <1> QED
    BY <1>1, <1>3

LEMMA OneIsSeq ==
    ASSUME NEW S, NEW x \in S
    PROVE  <<x>> \in Seq(S) /\ Len(<<x>>) = 1 /\ <<x>>[1] = x
  OBVIOUS

\* A word between two bytes.
LEMMA FirstAndLast ==
    ASSUME NEW S, NEW s \in Seq(S), NEW x \in S, NEW y \in S,
           NEW w, w = <<y>> \o s \o <<x>>
    PROVE  /\ w \in Seq(S) /\ Len(w) = Len(s) + 2
           /\ w[1] = y /\ w[Len(s) + 2] = x
           /\ \A i \in 1 .. Len(s) : w[i + 1] = s[i]
  <1> DEFINE v == <<y>> \o s
             n == Len(s)
  <1>1. n \in Nat
    BY LenProperties
  <1>2. /\ <<x>> \in Seq(S) /\ Len(<<x>>) = 1 /\ <<x>>[1] = x
        /\ <<y>> \in Seq(S) /\ Len(<<y>>) = 1 /\ <<y>>[1] = y
    BY OneIsSeq
  <1>3. v \in Seq(S) /\ Len(v) = 1 + n
        /\ \A i \in 1 .. 1 + n : v[i] = IF i <= 1 THEN <<y>>[i] ELSE s[i - 1]
    BY <1>2, ConcatProperties
  <1> HIDE DEF v
  <1>4. v \o <<x>> \in Seq(S) /\ Len(v \o <<x>>) = (1 + n) + 1
        /\ \A i \in 1 .. (1 + n) + 1 :
              (v \o <<x>>)[i] = IF i <= 1 + n THEN v[i] ELSE <<x>>[i - (1 + n)]
    BY <1>2, <1>3, ConcatProperties
  <1>5. w = v \o <<x>>
    BY DEF v
  <1> HIDE DEF n
  <1>6. w \in Seq(S) /\ Len(w) = n + 2
        /\ \A i \in 1 .. n + 2 : w[i] = IF i <= 1 + n THEN v[i] ELSE <<x>>[i - (1 + n)]
    BY <1>1, <1>4, <1>5
  <1>7. w[1] = y
    BY <1>1, <1>2, <1>3, <1>6
  <1>8. w[n + 2] = x
    <2>1. w[n + 2] = <<x>>[(n + 2) - (1 + n)] /\ (n + 2) - (1 + n) = 1
      BY <1>1, <1>6
    <2> QED
      BY <1>2, <2>1
  <1>9. ASSUME NEW i \in 1 .. n PROVE w[i + 1] = s[i]
    <2>1. i + 1 \in 1 .. n + 2 /\ i + 1 <= 1 + n /\ i + 1 \in 1 .. 1 + n
          /\ ~(i + 1 <= 1) /\ (i + 1) - 1 = i
      BY <1>1
    <2>2. w[i + 1] = v[i + 1] /\ v[i + 1] = s[(i + 1) - 1]
      BY <1>3, <1>6, <2>1
    <2> QED
      BY <2>1, <2>2
  <1> QED
    BY <1>6, <1>7, <1>8, <1>9 DEF n

\* The bytes of ipc_encode, one by one.
LEMMA EncodeBytes ==
    ASSUME NEW rest \in [1 .. HEADER - 2 -> Bytes], NEW payload \in Words(MAX_PAYLOAD),
           NEW body, body = <<Len(payload)>> \o rest \o payload
    PROVE  /\ body \in Seq(Nat) /\ Len(payload) \in 0 .. MAX_PAYLOAD
           /\ Len(body) = HEADER - 1 + Len(payload) /\ body[1] = Len(payload)
           /\ Encode(rest, payload) = <<SOF>> \o body \o <<Crc(body)>>
  <1>1. PICK k \in 0 .. MAX_PAYLOAD : payload \in [1 .. k -> Bytes]
    BY DEF Words
  <1> DEFINE l == Len(payload)
             r == Len(rest)
             h == <<l>> \o rest
  <1>2. payload \in Seq(Nat) /\ l \in 0 .. MAX_PAYLOAD
    <2>1. payload \in Seq(Bytes) /\ l = k
      BY <1>1, FunctionIsSeq, ParserAssumption
    <2> QED
      BY <2>1, <1>1, SeqMonotonic, ParserAssumption
  <1>3. rest \in Seq(Nat) /\ r = HEADER - 2
    <2>1. HEADER - 2 \in Nat
      BY ParserAssumption
    <2>2. rest \in Seq(Bytes) /\ r = HEADER - 2
      <3> DEFINE n == HEADER - 2
      <3>1. n \in Nat /\ rest \in [1 .. n -> Bytes]
        BY <2>1
      <3> HIDE DEF n
      <3>2. rest \in Seq(Bytes) /\ r = n
        BY <3>1, FunctionIsSeq
      <3> QED
        BY <3>2 DEF n
    <2> QED
      BY <2>2, SeqMonotonic, ParserAssumption
  <1> HIDE DEF l, r
  <1>4. l \in Nat /\ r \in Nat /\ r + 1 = HEADER - 1
    BY <1>2, <1>3, ParserAssumption
  <1>5. <<l>> \in Seq(Nat) /\ Len(<<l>>) = 1 /\ <<l>>[1] = l
    BY <1>4, OneIsSeq
  <1>6. h \in Seq(Nat) /\ Len(h) = 1 + r
        /\ \A i \in 1 .. 1 + r : h[i] = IF i <= 1 THEN <<l>>[i] ELSE rest[i - 1]
    BY <1>3, <1>5, ConcatProperties DEF r
  <1> HIDE DEF h
  <1>7. h[1] = l
    BY <1>4, <1>5, <1>6
  <1>8. h \o payload \in Seq(Nat) /\ Len(h \o payload) = (1 + r) + l
        /\ \A i \in 1 .. (1 + r) + l :
              (h \o payload)[i] = IF i <= 1 + r THEN h[i] ELSE payload[i - (1 + r)]
    <2>1. Len(payload) = l
      BY DEF l
    <2>2. /\ h \o payload \in Seq(Nat) /\ Len(h \o payload) = Len(h) + Len(payload)
          /\ \A i \in 1 .. Len(h) + Len(payload) :
                (h \o payload)[i] = IF i <= Len(h) THEN h[i] ELSE payload[i - Len(h)]
      BY <1>2, <1>6, ConcatProperties
    <2> QED
      BY <1>6, <2>1, <2>2
  <1>9. body = h \o payload
    BY DEF h, l
  <1>10. body[1] = l
    BY <1>4, <1>7, <1>8, <1>9
  <1>11. Len(body) = HEADER - 1 + l
    <2>1. Len(body) = (1 + r) + l
      BY <1>8, <1>9
    <2> QED
      BY <1>4, <2>1, ParserAssumption
  <1> QED
    BY <1>2, <1>8, <1>9, <1>10, <1>11 DEF Encode, l

\* What ipc_encode wrote is a frame for ipc_drain, wherever it lies.
LEMMA EncodedIsFrame ==
    ASSUME TypeOK, NEW c \in 0 .. MaxBytes,
           NEW rest \in [1 .. HEADER - 2 -> Bytes], NEW payload \in Words(MAX_PAYLOAD),
           Holds(c, Encode(rest, payload))
    PROVE  FrameBy(c + 1, came) /\ c + 1 <= came
  <1> DEFINE body == <<Len(payload)>> \o rest \o payload
             e    == Encode(rest, payload)
             l    == Len(payload)
             S    == Nat \cup {Crc(body)}
  <1>1. /\ body \in Seq(Nat) /\ l \in 0 .. MAX_PAYLOAD
        /\ Len(body) = HEADER - 1 + l /\ body[1] = l
        /\ e = <<SOF>> \o body \o <<Crc(body)>>
    BY EncodeBytes
  <1>2. body \in Seq(S) /\ Crc(body) \in S /\ SOF \in S
    <2>1. Nat \subseteq S /\ Crc(body) \in S /\ SOF \in S
      BY ParserAssumption
    <2>2. body \in Seq(Nat)
      BY <1>1
    <2> HIDE DEF S, body
    <2> QED
      BY <2>1, <2>2, SeqMonotonic
  <1>3. c + Len(e) <= came /\ SubSeq(line, c + 1, c + Len(e)) = e
    BY DEF Holds
  <1> HIDE DEF body, e, l, S
  <1>4. /\ e \in Seq(S) /\ Len(e) = Len(body) + 2 /\ e[1] = SOF
        /\ e[Len(body) + 2] = Crc(body)
        /\ \A i \in 1 .. Len(body) : e[i + 1] = body[i]
    BY <1>1, <1>2, FirstAndLast
  <1>5. Len(e) = HEADER + 1 + l /\ Len(e) \in Nat /\ came \in 0 .. MaxBytes /\ HEADER >= 2
        /\ l \in Nat /\ MaxBytes \in Nat /\ HEADER \in Nat /\ c \in Nat
    BY <1>1, <1>4, ParserAssumption DEF TypeOK
  <1>6. \A i \in 1 .. MaxBytes : line[i] \in Bytes
    BY DEF TypeOK, Lines
  <1>7. ASSUME NEW i \in 1 .. Len(e) PROVE line[c + i] = e[i]
    <2>1. /\ c + 1 \in Int /\ c + Len(e) \in Int
          /\ \A j \in c + 1 .. c + Len(e) : line[j] \in Bytes
          /\ i \in 1 .. (c + Len(e)) - (c + 1) + 1 /\ (c + 1) + i - 1 = c + i
      BY <1>3, <1>5, <1>6
    <2>2. SubSeq(line, c + 1, c + Len(e))[i] = line[(c + 1) + i - 1]
      BY <2>1, SubSeqProperties
    <2> QED
      BY <1>3, <2>1, <2>2
  <1>8. line[c + 1] = SOF
    <2>1. 1 \in 1 .. Len(e)
      BY <1>5
    <2>2. line[c + 1] = e[1]
      BY <1>7, <2>1
    <2> QED
      BY <1>4, <2>2
  <1>9. line[c + 2] = l
    <2>1. 2 \in 1 .. Len(e) /\ 1 \in 1 .. Len(body)
      BY <1>1, <1>5
    <2>2. e[1 + 1] = body[1]
      BY <1>4, <2>1
    <2> QED
      BY <1>1, <1>7, <2>1, <2>2
  <1>10. Total(c + 1) = Len(e) /\ End(c + 1) = c + Len(e)
    <2>1. c + 1 + 1 = c + 2
      BY <1>5
    <2>2. Total(c + 1) = Len(e)
      BY <1>5, <1>9, <2>1 DEF Total, OVERHEAD
    <2> QED
      BY <1>5, <2>2 DEF End
  <1>11. HasHeader(c + 1, came) /\ GoodLength(c + 1)
    <2>1. c + 1 + 1 = c + 2 /\ l <= MAX_PAYLOAD
      BY <1>1, <1>5, ParserAssumption
    <2>2. c + 1 + HEADER - 1 <= came
      BY <1>3, <1>5
    <2> QED
      BY <1>9, <2>1, <2>2 DEF HasHeader, GoodLength
  <1>12. SubSeq(line, c + 1 + 1, (c + Len(e)) - 1) = body
    <2> DEFINE part == SubSeq(line, c + 1 + 1, (c + Len(e)) - 1)
               n    == Len(body)
    <2>1. n \in Nat /\ Len(e) = n + 2 /\ c + n + 1 <= MaxBytes
      BY <1>1, <1>3, <1>4, <1>5
    <2>2. c + 1 + 1 = c + 2 /\ (c + Len(e)) - 1 = c + n + 1
      BY <1>5, <2>1
    <2> HIDE DEF n
    <2>3. SubSeq(line, c + 2, c + n + 1) \in Seq(Bytes)
          /\ Len(SubSeq(line, c + 2, c + n + 1)) = n
          /\ \A i \in 1 .. n : SubSeq(line, c + 2, c + n + 1)[i] = line[c + 1 + i]
      <3>1. /\ c + 2 \in Int /\ c + n + 1 \in Int
            /\ \A j \in c + 2 .. c + n + 1 : line[j] \in Bytes
            /\ (c + n + 1) - (c + 2) + 1 = n
            /\ (IF c + 2 <= c + n + 1 THEN (c + n + 1) - (c + 2) + 1 ELSE 0) = n
            /\ \A j \in 1 .. n : (c + 2) + j - 1 = c + 1 + j
        BY <1>5, <1>6, <2>1
      <3>2. /\ SubSeq(line, c + 2, c + n + 1) \in Seq(Bytes)
            /\ Len(SubSeq(line, c + 2, c + n + 1)) = n
            /\ \A j \in 1 .. n : SubSeq(line, c + 2, c + n + 1)[j] = line[(c + 2) + j - 1]
        BY <3>1, SubSeqProperties
      <3> QED
        BY <3>1, <3>2
    <2>4. part \in Seq(Bytes) /\ Len(part) = n
          /\ \A i \in 1 .. n : part[i] = line[c + 1 + i]
      BY <2>2, <2>3
    <2> HIDE DEF part
    <2>5. ASSUME NEW i \in 1 .. n PROVE part[i] = body[i]
      <3>1. i + 1 \in 1 .. Len(e) /\ c + 1 + i = c + (i + 1)
        BY <1>5, <2>1
      <3>2. line[c + (i + 1)] = e[i + 1]
        BY <1>7, <3>1
      <3> QED
        BY <1>4, <2>4, <3>1, <3>2 DEF n
    <2>6. Len(body) = n /\ Len(part) = n
      BY <2>4 DEF n
    <2>7. part = body
      <3>1. part \in Seq(Nat)
        BY <2>4, SeqMonotonic, ParserAssumption
      <3> QED
        BY <1>1, <3>1, <2>5, <2>6, SeqEqual
    <2> QED
      BY <2>7 DEF part
  <1>13. GoodCrc(c + 1)
    <2>1. line[c + Len(e)] = Crc(body)
      <3>1. Len(e) \in 1 .. Len(e)
        BY <1>5
      <3>2. line[c + Len(e)] = e[Len(e)]
        BY <1>7, <3>1
      <3> QED
        BY <1>4, <3>2
    <2>2. End(c + 1) = c + Len(e)
      BY <1>10
    <2> QED
      BY <1>12, <2>1, <2>2 DEF GoodCrc
  <1> QED
    BY <1>3, <1>5, <1>8, <1>10, <1>11, <1>13 DEF FrameBy

\* A frame of ipc_encode that begins after an idle line, or as the first one,
\* is taken when its last byte is there, unless the line was idle within it.
THEOREM ParserTakesEncoded == Spec => []EncodedIsTaken
  <1>1. Init => CutsInv
    BY DEF Init, CutsInv
  <1>2. IInv /\ CutsInv /\ [Next]_vars => CutsInv'
    BY NextKeepsCuts
  <1>3. IInv /\ CutsInv /\ NothingSkipped => EncodedIsTaken
    <2> SUFFICES ASSUME IInv, CutsInv, NothingSkipped, pc = "idle",
                        NEW c \in cuts \cup {0},
                        NEW rest \in [1 .. HEADER - 2 -> Bytes],
                        NEW payload \in Words(MAX_PAYLOAD),
                        Holds(c, Encode(rest, payload))
                 PROVE  c + 1 \in taken \/ Cut(c + 1)
      BY DEF EncodedIsTaken
    <2>1. /\ c \in 0 .. MaxBytes /\ base \in Nat /\ came \in Nat /\ fed = came
          /\ c <= base /\ base <= came
      BY ParserAssumption DEF IInv, TypeOK, CutsInv
    <2>2. FrameBy(c + 1, came) /\ c + 1 <= came
      BY <2>1, EncodedIsFrame DEF IInv
    <2>3. c + 1 <= base
      <3>1. SUFFICES ASSUME ~(c + 1 <= base) PROVE FALSE
        OBVIOUS
      <3>2. c + 1 = First /\ Pending
        BY <2>1, <2>2, <3>1 DEF First, Pending
      <3> QED
        BY <2>2, <3>2 DEF NothingSkipped
    <2>4. Covered(c + 1) \/ Cut(c + 1)
      BY <2>1, <2>2, <2>3 DEF NothingSkipped
    <2>5. ASSUME NEW p \in taken, p <= c + 1, c + 1 <= End(p) PROVE p = c + 1
      <3>1. p \in Nat \ {0} /\ End(p) \in Nat
        BY TakenEnds
      <3>2. p <= c => End(p) <= c
        BY <2>1, <3>1 DEF CutsInv
      <3> QED
        BY <2>1, <2>5, <3>1, <3>2
    <2> QED
      BY <2>4, <2>5 DEF Covered
  <1> QED
    BY <1>1, <1>2, <1>3, ParserInvariant, ParserSkipsNothing, PTL DEF Spec

-----------------------------------------------------------------------------
(* A call of the parser comes to its end.                                  *)

\* What a call has yet to do: each byte of the chunk is copied and taken out.
Place == CASE pc = "drain" -> 2 [] pc \in {"copy", "timeout"} -> 1 [] OTHER -> 0

ToDo == 3 * (came - fed) + (fed - base) + Place

CallGoesForward == [][pc # "idle" => ToDo' < ToDo]_vars

\* The measure, with the bytes to copy and those of the buffer as numbers.
LEMMA ToDoIs ==
    ASSUME IInv
    PROVE  /\ came \in Nat /\ fed \in Nat /\ base \in Nat /\ came - fed \in Nat
           /\ fed - base \in Nat /\ Place \in 0 .. 2 /\ ToDo \in Nat
  <1>1. /\ came \in Nat /\ fed \in Nat /\ base \in Nat
        /\ came - fed \in Nat /\ fed - base \in Nat
    BY ParserAssumption DEF IInv, TypeOK
  <1>2. Place \in 0 .. 2
    BY DEF Place
  <1> QED
    BY <1>1, <1>2 DEF ToDo

\* Bytes are taken out of the buffer, a frame or what is none.
LEMMA LessWhenTaken ==
    ASSUME IInv, base' \in Nat, base < base', UNCHANGED <<came, fed, pc>>
    PROVE  ToDo' < ToDo
  <1>1. /\ Place' = Place
        /\ ToDo' = 3 * (came - fed) + (fed - base') + Place
    BY DEF ToDo, Place
  <1> HIDE DEF Place
  <1> QED
    BY <1>1, ToDoIs DEF ToDo

\* Bytes of the chunk come into the buffer, to be looked at.
LEMMA LessWhenCopied == ASSUME IInv, Copy PROVE ToDo' < ToDo
  <1> DEFINE k == Least(came - fed, FRAME_MAX - (fed - base))
  <1>1. k \in Nat /\ k >= 1
    BY ToDoIs, ParserAssumption DEF Copy, Least, FRAME_MAX, OVERHEAD
  <1>2. /\ fed' = fed + k /\ came' = came /\ base' = base
        /\ Place = 1 /\ Place' = 2
    BY DEF Copy, Place
  <1> HIDE DEF k
  <1>3. /\ ToDo = 3 * (came - fed) + (fed - base) + 1
        /\ ToDo' = 3 * (came - (fed + k)) + ((fed + k) - base) + 2
    BY <1>2 DEF ToDo
  <1> QED
    BY <1>1, <1>3, ToDoIs

\* The call goes on with its chunk, or returns.
LEMMA LessWhenLeft ==
    ASSUME IInv, Break \/ Return \/ EndTimeout
    PROVE  ToDo' < ToDo
  <1>1. UNCHANGED <<came, fed, base>>
    BY DEF Break, Return, EndTimeout
  <1>2. Place' \in Nat /\ Place' < Place
    BY DEF Break, Return, EndTimeout, Place
  <1>3. ToDo' = 3 * (came - fed) + (fed - base) + Place'
    BY <1>1 DEF ToDo
  <1> QED
    BY <1>2, <1>3, ToDoIs DEF ToDo

\* A call of the parser has no endless loop, whatever the buffer holds: each
\* turn of ipc_drain and of ipc_parser_push takes bytes out or brings new ones
\* in, and leaves less to do; no discard of ipc_resync is of nothing.
THEOREM CallsGoForward == Spec => CallGoesForward /\ [](ToDo \in Nat)
<1>1. ASSUME IInv, [Next]_vars
      PROVE  [pc # "idle" => ToDo' < ToDo]_vars
  <2> SUFFICES ASSUME Next, pc # "idle" PROVE ToDo' < ToDo
    BY <1>1
  <2>1. CASE Accept
    <3>1. First \in 1 .. MaxBytes /\ base \in Nat /\ fed \in 0 .. MaxBytes
      BY <1>1, <2>1, ParserAssumption DEF IInv, TypeOK, Accept, Pending, First
    <3>2. End(First) \in Nat /\ End(First) >= First + HEADER
      BY <1>1, <2>1, <3>1, EndIsNat DEF IInv, Accept, FrameBy
    <3>3. base' \in Nat /\ base < base'
      BY <2>1, <3>1, <3>2, ParserAssumption DEF Accept, First
    <3> QED
      BY <1>1, <2>1, <3>3, LessWhenTaken DEF Accept
  <2>2. CASE Recover
    <3>1. PICK p \in First + 1 .. fed + 1 : Discard(p - First)
      BY <2>2 DEF Recover, Resync
    <3>2. base' \in Nat /\ base < base'
      BY <1>1, <3>1, ToDoIs DEF Discard, First
    <3> QED
      BY <1>1, <3>1, <3>2, LessWhenTaken DEF Discard
  <2>3. CASE Copy
    BY <1>1, <2>3, LessWhenCopied
  <2>4. CASE Break \/ Return \/ EndTimeout
    BY <1>1, <2>4, LessWhenLeft
  <2>5. CASE Timeout \/ \E n \in 1 .. MaxBytes : Receive(n)
    BY <2>5 DEF Timeout, Receive
  <2> QED
    BY <2>1, <2>2, <2>3, <2>4, <2>5 DEF Next, Parse
<1>2. IInv /\ [Next]_vars => [pc # "idle" => ToDo' < ToDo]_vars
  BY <1>1
<1>3. IInv => ToDo \in Nat
  BY ToDoIs
<1> QED
  BY <1>2, <1>3, ParserInvariant, PTL DEF Spec, CallGoesForward
=============================================================================
