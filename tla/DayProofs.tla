------------------------------ MODULE DayProofs -----------------------------
(***************************************************************************)
(* The time of the board and the levels of its display: tg-time, which     *)
(* sends the clock and the offset of the local time, and the scanner,      *)
(* which takes the minute of the day from them (TimeKeeper and             *)
(* DisplayLevels).  Each theorem is about one of the two.                  *)
(***************************************************************************)
EXTENDS TimeKeeper, DisplayLevels, SequenceTheorems, TLAPS

-----------------------------------------------------------------------------
(* tg-time: its types, and that an offset the board does not hold is never *)
(* forgotten; for every counter, threshold, offset and bound.              *)

Sources  == {"none", "rtc", "sntp"}
Requests == [op : {"state", "time"}, err : Int]

KeeperType ==
    [pc : {"idle", "state", "decide", "push"}, source : Sources, err : Int,
     known : BOOLEAN, stm : Int, waits : Requests \cup {NoRequest},
     pending : BOOLEAN, have : BOOLEAN, last : 0 .. WRAP - 1]

BoardType == [err : Int, offset : {0, Offset}, saved : {0, Offset}, frames : 0 .. WRAP - 1]

\* The types of all fields, with those that TimeTypeOK leaves open.
Types ==
    /\ engine \in [source : Sources, err : Int]
    /\ board \in BoardType /\ keeper \in KeeperType
    /\ line \in Seq(Requests)
    /\ left \in [slow : 0 .. MaxSlow, resets : 0 .. MaxResets, starts : 0 .. MaxStarts]
    /\ unread \in BOOLEAN /\ missed \in BOOLEAN

\* What the wapp waits for is the last request of the line, and its place names it.
WaitOK ==
    /\ keeper.pc \in {"idle", "decide"} <=> keeper.waits = NoRequest
    /\ keeper.waits # NoRequest =>
          /\ line # <<>>
          /\ line[Len(line)].op = (IF keeper.pc = "push" THEN "time" ELSE "state")

\* Each request on the line that nobody waits for has cost a time limit or a start.
LineOK ==
    Len(line) <= (IF keeper.waits = NoRequest THEN 0 ELSE 1)
                 + (MaxSlow - left.slow) + (MaxStarts - left.starts)

TimeInv == Types /\ WaitOK /\ LineOK /\ OffsetIsDue

-----------------------------------------------------------------------------
(* Facts about the operators.                                              *)

\* The counter of frames keeps its range.
LEMMA CountedType ==
    ASSUME NEW n \in 0 .. WRAP - 1
    PROVE  Counted(n) \in 0 .. WRAP - 1
<1>1. WRAP \in Nat /\ WRAP > 2  BY TimeAssumption DEF TimeAssumption
<1>2. n + 1 \in Int  OBVIOUS
<1> QED BY <1>1, <1>2, SMT DEF Counted

\* A request of the line is told from none.
LEMMA RequestIsOne == \A r \in Requests : r # NoRequest
<1> TAKE r \in Requests
<1>1. r.op # "none"  BY DEF Requests
<1>2. NoRequest.op = "none"  BY DEF NoRequest
<1> QED BY <1>1, <1>2

\* The board keeps its types, whatever request it takes.
LEMMA TakesType ==
    ASSUME board \in BoardType, NEW ask \in Requests
    PROVE  Takes(ask) \in BoardType
<1>1. Counted(board.frames) \in 0 .. WRAP - 1  BY CountedType DEF BoardType
<1>2. ask.err \in Int  BY DEF Requests
<1>3. CASE ask.op = "time"
  <2>1. Takes(ask) = [board EXCEPT !.err = ask.err, !.offset = Offset, !.frames = Counted(board.frames)]
    BY <1>3 DEF Takes
  <2> QED BY <1>1, <1>2, <2>1 DEF BoardType
<1>4. CASE ask.op # "time"
  <2>1. Takes(ask) = [board EXCEPT !.frames = Counted(board.frames)]  BY <1>4 DEF Takes
  <2> QED BY <1>1, <2>1 DEF BoardType
<1> QED BY <1>3, <1>4

\* A request leaves the board with the offset of the config, or as it was.
LEMMA TakesOffset ==
    ASSUME board \in BoardType, NEW ask \in Requests
    PROVE  Takes(ask).offset = IF ask.op = "time" THEN Offset ELSE board.offset
BY DEF Takes, BoardType

\* The bounds go down one at a time.
LEMMA SpendType ==
    ASSUME Types, NEW what \in {"slow", "resets", "starts"}, Spend(what)
    PROVE  /\ left' \in [slow : 0 .. MaxSlow, resets : 0 .. MaxResets, starts : 0 .. MaxStarts]
           /\ left'[what] = left[what] - 1
           /\ \A w \in {"slow", "resets", "starts"} \ {what} : left'[w] = left[w]
<1>1. left' = [left EXCEPT ![what] = left[what] - 1] /\ left[what] > 0  BY DEF Spend
<1>2. MaxSlow \in Nat /\ MaxResets \in Nat /\ MaxStarts \in Nat  BY TimeAssumption DEF TimeAssumption
<1>3. left \in [slow : 0 .. MaxSlow, resets : 0 .. MaxResets, starts : 0 .. MaxStarts]  BY DEF Types
<1>4. CASE what = "slow"  BY <1>1, <1>2, <1>3, <1>4
<1>5. CASE what = "resets"  BY <1>1, <1>2, <1>3, <1>5
<1>6. CASE what = "starts"  BY <1>1, <1>2, <1>3, <1>6
<1> QED BY <1>4, <1>5, <1>6

\* A new request of the wapp goes to the end of the line.
LEMMA SendLine ==
    ASSUME line \in Seq(Requests), NEW op \in {"state", "time"}, NEW err \in Int, Send(op, err)
    PROVE  /\ line' \in Seq(Requests) /\ line' # <<>> /\ Len(line') = Len(line) + 1
           /\ line'[Len(line')] = [op |-> op, err |-> err]
<1>1. [op |-> op, err |-> err] \in Requests  BY DEF Requests
<1>2. line' = Append(line, [op |-> op, err |-> err])  BY DEF Send
<1> QED BY <1>1, <1>2

-----------------------------------------------------------------------------
(* The invariant.                                                          *)

LEMMA InitInv == ASSUME TimeInit PROVE TimeInv
<1> USE TimeAssumption DEF TimeAssumption
<1>1. keeper = Fresh /\ line = <<>> /\ unread = FALSE /\ missed = FALSE
      /\ left = [slow |-> MaxSlow, resets |-> MaxResets, starts |-> MaxStarts]
      /\ engine = [source |-> "none", err |-> 0]
      /\ board \in [err : StartErrs, offset : {0}, saved : {0}, frames : {0}]
    BY DEF TimeInit
<1>2. StartErrs \subseteq Int  BY DEF LOST
<1>w. WRAP \in Nat /\ WRAP > 2  BY DEF TimeAssumption
<1>z. 0 \in 0 .. WRAP - 1  BY <1>w
<1>3. board \in BoardType  BY <1>1, <1>2, <1>z DEF BoardType
<1>4. keeper \in KeeperType  BY <1>1, <1>z DEF Fresh, KeeperType, Sources
<1>m. MaxSlow \in 0 .. MaxSlow /\ MaxResets \in 0 .. MaxResets /\ MaxStarts \in 0 .. MaxStarts
    BY DEF TimeAssumption
<1>l. left \in [slow : 0 .. MaxSlow, resets : 0 .. MaxResets, starts : 0 .. MaxStarts]
    BY <1>1, <1>m
<1>e. engine \in [source : Sources, err : Int] /\ line \in Seq(Requests)  BY <1>1 DEF Sources
<1>5. Types  BY <1>1, <1>3, <1>4, <1>l, <1>e DEF Types
<1>6. WaitOK  BY <1>1 DEF WaitOK, Fresh
<1>7. LineOK  BY <1>1 DEF LineOK, Fresh
<1>8. OffsetIsDue  BY <1>1 DEF OffsetIsDue, Fresh
<1> QED BY <1>5, <1>6, <1>7, <1>8 DEF TimeInv

\* The steps of the wapp between two requests.
LEMMA StepInv == ASSUME TimeInv, Step PROVE TimeInv'
<1> USE TimeAssumption DEF TimeInv
<1>0. /\ engine \in [source : Sources, err : Int] /\ board \in BoardType
      /\ keeper \in KeeperType /\ line \in Seq(Requests)
  BY DEF Types
<1>b. /\ MaxSlow \in Nat /\ MaxStarts \in Nat /\ left.slow \in Int /\ left.starts \in Int
  BY DEF TimeAssumption, Types
<1>r. \A e \in Int : [op |-> "state", err |-> e] \in Requests /\ [op |-> "time", err |-> e] \in Requests
  BY DEF Requests
<1>n. keeper.waits # NoRequest => keeper.waits \in Requests  BY <1>0 DEF KeeperType
<1>1. CASE ReadEngine
  <2>1. /\ keeper.pc = "idle" /\ Send("state", 0)
        /\ keeper' = [keeper EXCEPT !.pc = "state", !.source = engine.source,
                         !.err = engine.err, !.waits = [op |-> "state", err |-> 0]]
        /\ UNCHANGED <<engine, board, left, unread, missed>>
    BY <1>1 DEF ReadEngine
  <2>2. /\ line' \in Seq(Requests) /\ line' # <<>> /\ Len(line') = Len(line) + 1
        /\ line'[Len(line')] = [op |-> "state", err |-> 0]
    BY <1>0, <2>1, SendLine
  <2>3. keeper.waits = NoRequest  BY <2>1 DEF WaitOK
  <2>4. [op |-> "state", err |-> 0] \in Requests  BY DEF Requests
  <2>5. keeper' \in KeeperType  BY <1>0, <2>1, <2>4 DEF KeeperType
  <2>6. Types'  BY <2>1, <2>2, <2>5 DEF Types
  <2>7. keeper'.pc = "state" /\ keeper'.waits = [op |-> "state", err |-> 0]
        /\ keeper'.pending = keeper.pending
    BY <1>0, <2>1 DEF KeeperType
  <2>8. keeper'.waits # NoRequest  BY <2>7, <2>4, RequestIsOne
  <2>9. WaitOK'  BY <2>2, <2>7, <2>8 DEF WaitOK
  <2>10. Len(line) \in Nat  BY <1>0
  <2>a. left'.slow = left.slow /\ left'.starts = left.starts  BY <2>1
  <2>b. Len(line) <= (MaxSlow - left.slow) + (MaxStarts - left.starts)
    BY <1>b, <2>3, <2>10 DEF LineOK
  <2>c. Len(line') <= 1 + (MaxSlow - left'.slow) + (MaxStarts - left'.starts)
    BY <1>b, <2>2, <2>10, <2>a, <2>b
  <2>11. LineOK'  BY <2>8, <2>c DEF LineOK
  <2>12. OffsetIsDue'  BY <2>1, <2>7 DEF OffsetIsDue
  <2> QED BY <2>6, <2>9, <2>11, <2>12
<1>2. CASE Push
  <2>1. /\ keeper.pc = "decide" /\ Send("time", keeper.err)
        /\ keeper' = [keeper EXCEPT !.pc = "push",
                                    !.waits = [op |-> "time", err |-> keeper.err]]
        /\ UNCHANGED <<engine, board, left, unread, missed>>
    BY <1>2 DEF Push
  <2>0. keeper.err \in Int  BY <1>0 DEF KeeperType
  <2>2. /\ line' \in Seq(Requests) /\ line' # <<>> /\ Len(line') = Len(line) + 1
        /\ line'[Len(line')] = [op |-> "time", err |-> keeper.err]
    BY <1>0, <2>0, <2>1, SendLine
  <2>3. keeper.waits = NoRequest  BY <2>1 DEF WaitOK
  <2>4. [op |-> "time", err |-> keeper.err] \in Requests  BY <1>r, <2>0
  <2>5. keeper' \in KeeperType  BY <1>0, <2>1, <2>4 DEF KeeperType
  <2>6. Types'  BY <2>1, <2>2, <2>5 DEF Types
  <2>7. keeper'.pc = "push" /\ keeper'.waits = [op |-> "time", err |-> keeper.err]
        /\ keeper'.pending = keeper.pending
    BY <1>0, <2>1 DEF KeeperType
  <2>8. keeper'.waits # NoRequest  BY <2>7, <2>4, RequestIsOne
  <2>9. WaitOK'  BY <2>2, <2>7, <2>8 DEF WaitOK
  <2>10. Len(line) \in Nat  BY <1>0
  <2>a. left'.slow = left.slow /\ left'.starts = left.starts  BY <2>1
  <2>b. Len(line) <= (MaxSlow - left.slow) + (MaxStarts - left.starts)
    BY <1>b, <2>3, <2>10 DEF LineOK
  <2>c. Len(line') <= 1 + (MaxSlow - left'.slow) + (MaxStarts - left'.starts)
    BY <1>b, <2>2, <2>10, <2>a, <2>b
  <2>11. LineOK'  BY <2>8, <2>c DEF LineOK
  <2>12. OffsetIsDue'  BY <2>1, <2>7 DEF OffsetIsDue
  <2> QED BY <2>6, <2>9, <2>11, <2>12
<1>3. CASE WriteEngine \/ Nothing
  <2>1. /\ keeper.pc = "decide" /\ keeper' = [keeper EXCEPT !.pc = "idle"]
        /\ engine' \in {engine, [source |-> "rtc", err |-> keeper.stm]}
        /\ UNCHANGED <<board, line, left, unread, missed>>
    BY <1>3 DEF WriteEngine, Nothing
  <2>2. keeper' \in KeeperType /\ keeper.stm \in Int  BY <1>0, <2>1 DEF KeeperType
  <2>3. engine' \in [source : Sources, err : Int]  BY <1>0, <2>1, <2>2 DEF Sources
  <2>4. Types'  BY <2>1, <2>2, <2>3 DEF Types
  <2>5. keeper'.pc = "idle" /\ keeper'.waits = keeper.waits /\ keeper'.pending = keeper.pending
    BY <1>0, <2>1 DEF KeeperType
  <2>6. WaitOK' /\ LineOK'  BY <2>1, <2>5 DEF WaitOK, LineOK
  <2>7. OffsetIsDue'  BY <2>1, <2>5 DEF OffsetIsDue
  <2> QED BY <2>4, <2>6, <2>7
<1> QED BY <1>1, <1>2, <1>3 DEF Step

\* A request or a push gets no answer in time.
LEMMA GiveUpInv == ASSUME TimeInv, GiveUp PROVE TimeInv'
<1> USE TimeAssumption DEF TimeInv
<1>0. keeper \in KeeperType /\ line \in Seq(Requests)  BY DEF Types
<1>1. /\ keeper.waits # NoRequest /\ Spend("slow")
      /\ keeper' = IF keeper.pc = "push"
                   THEN [keeper EXCEPT !.pc = "idle", !.waits = NoRequest]
                   ELSE [keeper EXCEPT !.pc = "decide", !.waits = NoRequest,
                                       !.known = FALSE, !.err = keeper.err - SLOW]
      /\ line' = [i \in DOMAIN line |-> IF line[i].op = "time"
                     THEN [op |-> "time", err |-> line[i].err - SLOW] ELSE line[i]]
      /\ UNCHANGED <<engine, board, unread, missed>>
  BY DEF GiveUp
<1>2. SLOW \in Int  BY DEF TimeAssumption
<1>3. \A i \in DOMAIN line : line'[i] \in Requests
  <2> TAKE i \in DOMAIN line
  <2>1. line[i] \in Requests  BY <1>0
  <2>2. line[i].err - SLOW \in Int  BY <1>2, <2>1 DEF Requests
  <2>3. [op |-> "time", err |-> line[i].err - SLOW] \in Requests  BY <2>2 DEF Requests
  <2> QED BY <1>1, <2>1, <2>3
<1>4. DOMAIN line = 1 .. Len(line) /\ Len(line) \in Nat  BY <1>0
<1>5. line' \in Seq(Requests) /\ Len(line') = Len(line)  BY <1>1, <1>3, <1>4, IsASeq
<1>6. keeper.err - SLOW \in Int  BY <1>0, <1>2 DEF KeeperType
<1>7. /\ keeper' \in KeeperType /\ keeper'.pc \in {"idle", "decide"}
      /\ keeper'.waits = NoRequest /\ keeper'.pending = keeper.pending
  BY <1>0, <1>1, <1>6 DEF KeeperType
<1>8. /\ left' \in [slow : 0 .. MaxSlow, resets : 0 .. MaxResets, starts : 0 .. MaxStarts]
      /\ left'.slow = left.slow - 1 /\ left'.starts = left.starts
  BY <1>1, SpendType
<1>9. Types'  BY <1>1, <1>5, <1>7, <1>8 DEF Types
<1>10. WaitOK'  BY <1>7 DEF WaitOK
<1>11. left.slow \in Int /\ left.starts \in Int /\ MaxSlow \in Int /\ MaxStarts \in Int
  BY DEF Types, TimeAssumption
<1>12. LineOK'
  <2> DEFINE n == Len(line)
             a == left.slow
             b == left.starts
  <2>1. n <= 1 + (MaxSlow - a) + (MaxStarts - b)  BY <1>1 DEF LineOK
  <2>2. n \in Nat /\ a \in Int /\ b \in Int  BY <1>4, <1>11
  <2>3. Len(line') = n /\ left'.slow = a - 1 /\ left'.starts = b /\ keeper'.waits = NoRequest
    BY <1>5, <1>7, <1>8
  <2> HIDE DEF n, a, b
  <2>4. n <= 0 + (MaxSlow - (a - 1)) + (MaxStarts - b)  BY <1>11, <2>1, <2>2
  <2> QED BY <2>3, <2>4 DEF LineOK
<1>13. OffsetIsDue'  BY <1>1, <1>7 DEF OffsetIsDue
<1> QED BY <1>9, <1>10, <1>12, <1>13

\* The board carries out a request, and the wapp may get the reply.
LEMMA TakeInv == ASSUME TimeInv, Take PROVE TimeInv'
<1> USE TimeAssumption DEF TimeInv
<1>0. /\ board \in BoardType /\ keeper \in KeeperType /\ line \in Seq(Requests)
      /\ unread \in BOOLEAN /\ missed \in BOOLEAN
  BY DEF Types
<1>b. left.slow \in Int /\ left.starts \in Int /\ MaxSlow \in Int /\ MaxStarts \in Int
  BY DEF Types, TimeAssumption
<1>1. /\ line # <<>> /\ line' = Tail(line) /\ board' = Takes(Head(line)) /\ engine' = engine
  BY DEF Take
<1>2. /\ Head(line) \in Requests /\ Head(line) = line[1] /\ line' \in Seq(Requests)
      /\ Len(line) \in Nat /\ Len(line) > 0 /\ Len(line') = Len(line) - 1
      /\ \A i \in 1 .. Len(line') : line'[i] = line[i + 1]
  BY <1>0, <1>1
<1>3. board' \in BoardType  BY <1>0, <1>1, <1>2, TakesType
<1>4. board'.offset = IF Head(line).op = "time" THEN Offset ELSE board.offset
  BY <1>0, <1>1, <1>2, TakesOffset
<1>5. CASE keeper.waits = NoRequest \/ Len(line) > 1
  <2>1. UNCHANGED <<keeper, left, unread, missed>>  BY <1>5 DEF Take
  <2>2. Types'  BY <1>1, <1>2, <1>3, <2>1 DEF Types
  <2>3. WaitOK'
    <3>1. CASE keeper.waits = NoRequest  BY <2>1, <3>1 DEF WaitOK
    <3>2. CASE Len(line) > 1
      <4>1. line' # <<>> /\ line'[Len(line')] = line[Len(line)]  BY <1>2, <3>2
      <4> QED BY <2>1, <4>1 DEF WaitOK
    <3> QED BY <1>5, <3>1, <3>2
  <2>4. LineOK'
    <3> DEFINE room == (IF keeper.waits = NoRequest THEN 0 ELSE 1)
                       + (MaxSlow - left.slow) + (MaxStarts - left.starts)
               n    == Len(line)
    <3>1. n <= room /\ n \in Nat /\ Len(line') = n - 1  BY <1>2 DEF LineOK
    <3>2. room \in Int  BY <1>b
    <3>3. LineOK' <=> Len(line') <= room  BY <2>1 DEF LineOK
    <3> HIDE DEF room, n
    <3>4. n - 1 <= room  BY <3>1, <3>2
    <3> QED BY <3>1, <3>3, <3>4
  <2>5. OffsetIsDue'  BY <1>4, <2>1 DEF OffsetIsDue
  <2> QED BY <2>2, <2>3, <2>4, <2>5
<1>6. CASE keeper.waits # NoRequest /\ ~(Len(line) > 1)
  <2>1. Len(line) = 1 /\ Len(line') = 0 /\ keeper.pc \in {"state", "push"}
    BY <1>0, <1>2, <1>6 DEF WaitOK, KeeperType
  <2>2. Head(line).op = (IF keeper.pc = "push" THEN "time" ELSE "state")
    BY <1>2, <1>6, <2>1 DEF WaitOK
  <2>3. CASE keeper.pc = "push"
    <3>1. keeper' = Pushed(keeper) /\ UNCHANGED <<left, unread, missed>>
      BY <1>6, <2>3 DEF Take
    <3>2. keeper' \in KeeperType /\ keeper'.pc = "idle" /\ keeper'.waits = NoRequest
      BY <1>0, <3>1 DEF KeeperType, Pushed
    <3>3. Types'  BY <1>1, <1>2, <1>3, <3>1, <3>2 DEF Types
    <3>4. WaitOK'  BY <3>2 DEF WaitOK
    <3>5. LineOK'
      <4>1. left.slow <= MaxSlow /\ left.starts <= MaxStarts  BY DEF Types
      <4>2. 0 <= 0 + (MaxSlow - left.slow) + (MaxStarts - left.starts)  BY <1>b, <4>1
      <4> QED BY <2>1, <3>1, <3>2, <4>2 DEF LineOK
    <3>6. OffsetIsDue'  BY <1>4, <2>2, <2>3 DEF OffsetIsDue
    <3> QED BY <3>3, <3>4, <3>5, <3>6
  <2>4. CASE keeper.pc = "state"
    <3>1. PICK d \in {0, SLOW} :
              /\ IF d = 0 THEN UNCHANGED left ELSE Spend("slow")
              /\ keeper' = GotState(keeper, board'.frames, board.err, d)
      BY <1>6, <2>4 DEF Take
    <3>2. missed' = (missed \/ (unread /\ keeper.have /\ board'.frames >= keeper.last))
          /\ unread' = FALSE
      BY <1>6, <2>4 DEF Take
    <3>3. /\ left' \in [slow : 0 .. MaxSlow, resets : 0 .. MaxResets, starts : 0 .. MaxStarts]
          /\ left'.slow <= left.slow /\ left'.starts = left.starts
      <4>1. CASE d = 0  BY <1>b, <3>1, <4>1 DEF Types
      <4>2. CASE d # 0  BY <1>b, <3>1, <4>2, SpendType
      <4> QED BY <4>1, <4>2
    <3>4. d \in Int /\ board.err \in Int /\ board'.frames \in 0 .. WRAP - 1
          /\ keeper.err \in Int /\ keeper.last \in Int
      BY <1>0, <1>3, <3>1 DEF BoardType, KeeperType, TimeAssumption
    <3>5. IsReset(keeper.have, keeper.last, board'.frames) \in BOOLEAN
          /\ (IF board.err = LOST THEN LOST ELSE board.err + d) \in Int
          /\ keeper.err - d \in Int
      BY <1>0, <3>4 DEF IsReset, LOST, KeeperType
    <3>6. /\ keeper' \in KeeperType /\ keeper'.pc = "decide" /\ keeper'.waits = NoRequest
          /\ keeper'.pending = (keeper.pending \/ IsReset(keeper.have, keeper.last, board'.frames))
      <4> DEFINE stm == IF board.err = LOST THEN LOST ELSE board.err + d
                 own == keeper.err - d
                 due == keeper.pending \/ IsReset(keeper.have, keeper.last, board'.frames)
                 now == board'.frames
      <4>1. keeper' = [keeper EXCEPT !.pc = "decide", !.waits = NoRequest, !.known = TRUE,
                                     !.stm = stm, !.err = own, !.pending = due,
                                     !.have = TRUE, !.last = now]
        BY <3>1 DEF GotState
      <4>2. stm \in Int /\ own \in Int /\ due \in BOOLEAN /\ now \in 0 .. WRAP - 1
        BY <3>4, <3>5
      <4> HIDE DEF stm, own, due, now
      <4>3. keeper' \in KeeperType /\ keeper'.pc = "decide" /\ keeper'.waits = NoRequest
            /\ keeper'.pending = due
        BY <1>0, <4>1, <4>2 DEF KeeperType
      <4> QED BY <4>3 DEF due
    <3>7. missed' \in BOOLEAN /\ unread' \in BOOLEAN  BY <3>2
    <3>8. Types'  BY <1>1, <1>2, <1>3, <3>3, <3>6, <3>7 DEF Types
    <3>9. WaitOK'  BY <3>6 DEF WaitOK
    <3>10. left'.slow \in Int /\ left'.starts \in Int /\ left'.slow <= MaxSlow /\ left'.starts <= MaxStarts
      BY <1>b, <3>3 DEF TimeAssumption
    <3>11. LineOK'  BY <1>b, <2>1, <3>6, <3>10 DEF LineOK
    <3>12. OffsetIsDue'
      <4>1. board'.offset = board.offset  BY <1>4, <2>2, <2>4
      <4>2. CASE keeper.pending  BY <3>6, <4>2 DEF OffsetIsDue
      <4>3. CASE missed  BY <3>2, <4>3 DEF OffsetIsDue
      <4>4. CASE unread
        <5>1. CASE keeper.have /\ board'.frames >= keeper.last
          BY <3>2, <4>4, <5>1 DEF OffsetIsDue
        <5>2. CASE ~(keeper.have /\ board'.frames >= keeper.last)
          <6>1. IsReset(keeper.have, keeper.last, board'.frames)
            BY <1>0, <3>4, <5>2 DEF IsReset
          <6> QED BY <3>6, <6>1 DEF OffsetIsDue
        <5> QED BY <5>1, <5>2
      <4> QED BY <4>1, <4>2, <4>3, <4>4 DEF OffsetIsDue
    <3> QED BY <3>8, <3>9, <3>11, <3>12
  <2> QED BY <2>1, <2>3, <2>4
<1> QED BY <1>5, <1>6

\* The board and the engine by themselves.
LEMMA OthersInv ==
    ASSUME TimeInv, OtherFrame \/ Save \/ Reset \/ SetClock \/ Restart
    PROVE  TimeInv'
<1> USE TimeAssumption DEF TimeInv
<1>0. board \in BoardType /\ WRAP \in Nat /\ WRAP > 2  BY DEF Types, TimeAssumption
<1>b. left.slow \in Int /\ left.starts \in Int /\ MaxSlow \in Int /\ MaxStarts \in Int
      /\ left.slow <= MaxSlow /\ left.starts <= MaxStarts /\ Len(line) \in Nat
  BY DEF Types, TimeAssumption
<1>1. CASE OtherFrame \/ Save
  <2>1. /\ UNCHANGED <<engine, keeper, line, left, unread, missed>>
        /\ \/ board' = [board EXCEPT !.frames = Counted(board.frames)]
           \/ board' = [board EXCEPT !.saved = board.offset]
    BY <1>1 DEF OtherFrame, Save
  <2>2. board.frames \in 0 .. WRAP - 1  BY <1>0 DEF BoardType
  <2>3. Counted(board.frames) \in 0 .. WRAP - 1  BY <2>2, CountedType
  <2>4. board' \in BoardType /\ board'.offset = board.offset  BY <1>0, <2>1, <2>3 DEF BoardType
  <2> QED BY <2>1, <2>4 DEF Types, WaitOK, LineOK, OffsetIsDue
<1>2. CASE Reset
  <2>1. PICK e \in {board.err, LOST} :
            board' = [board EXCEPT !.frames = 0, !.offset = board.saved, !.err = e]
    BY <1>2 DEF Reset
  <2>2. Spend("resets") /\ unread' = TRUE /\ UNCHANGED <<engine, keeper, line, missed>>
    BY <1>2 DEF Reset
  <2>3. e \in Int /\ 0 \in 0 .. WRAP - 1  BY <1>0 DEF BoardType, LOST
  <2>4. board' \in BoardType  BY <1>0, <2>1, <2>3 DEF BoardType
  <2>5. /\ left' \in [slow : 0 .. MaxSlow, resets : 0 .. MaxResets, starts : 0 .. MaxStarts]
        /\ left'.slow = left.slow /\ left'.starts = left.starts
    BY <2>2, SpendType
  <2>6. Types'  BY <2>2, <2>4, <2>5 DEF Types
  <2>7. WaitOK' /\ LineOK'  BY <2>2, <2>5 DEF WaitOK, LineOK
  <2>8. OffsetIsDue'  BY <2>2 DEF OffsetIsDue
  <2> QED BY <2>6, <2>7, <2>8
<1>3. CASE SetClock
  <2>1. /\ engine' = [source |-> "sntp", err |-> 0]
        /\ UNCHANGED <<board, keeper, line, left, unread, missed>>
    BY <1>3 DEF SetClock
  <2>2. engine' \in [source : Sources, err : Int]  BY <2>1 DEF Sources
  <2> QED BY <2>1, <2>2 DEF Types, WaitOK, LineOK, OffsetIsDue
<1>4. CASE Restart
  <2>1. /\ Spend("starts") /\ engine' = [source |-> "none", err |-> 0] /\ keeper' = Fresh
        /\ unread' = FALSE /\ UNCHANGED <<board, line, missed>>
    BY <1>4 DEF Restart
  <2>2. /\ left' \in [slow : 0 .. MaxSlow, resets : 0 .. MaxResets, starts : 0 .. MaxStarts]
        /\ left'.slow = left.slow /\ left'.starts = left.starts - 1
    BY <2>1, SpendType
  <2>3. engine' \in [source : Sources, err : Int]  BY <2>1 DEF Sources
  <2>4. keeper' \in KeeperType  BY <1>0, <2>1 DEF Fresh, KeeperType, Sources
  <2>5. keeper'.pc = "idle" /\ keeper'.waits = NoRequest /\ keeper'.pending = TRUE
    BY <2>1 DEF Fresh
  <2>6. Types'  BY <2>1, <2>2, <2>3, <2>4 DEF Types
  <2>7. WaitOK'  BY <2>5 DEF WaitOK
  <2>a. Len(line) <= 1 + (MaxSlow - left.slow) + (MaxStarts - left.starts)
    BY <1>b DEF LineOK
  <2>c. Len(line') = Len(line) /\ left'.slow = left.slow /\ left'.starts = left.starts - 1
    BY <2>1, <2>2
  <2>b. Len(line') <= (MaxSlow - left'.slow) + (MaxStarts - left'.starts)
    BY <1>b, <2>a, <2>c
  <2>d. Len(line') <= 0 + (MaxSlow - left'.slow) + (MaxStarts - left'.starts)
    BY <1>b, <2>b, <2>c
  <2>8. LineOK'  BY <2>5, <2>d DEF LineOK
  <2>9. OffsetIsDue'  BY <2>5 DEF OffsetIsDue
  <2> QED BY <2>6, <2>7, <2>8, <2>9
<1> QED BY <1>1, <1>2, <1>3, <1>4

\* The inductive invariant.
THEOREM TimeInvariant == TimeSpec => []TimeInv
<1>1. TimeInit => TimeInv  BY InitInv
<1>2. TimeInv /\ [TimeNext]_timeVars => TimeInv'
  <2> SUFFICES ASSUME TimeInv, [TimeNext]_timeVars PROVE TimeInv'
    OBVIOUS
  <2>1. CASE Step  BY <2>1, StepInv
  <2>2. CASE GiveUp  BY <2>2, GiveUpInv
  <2>3. CASE Take  BY <2>3, TakeInv
  <2>4. CASE OtherFrame \/ Save \/ Reset \/ SetClock \/ Restart  BY <2>4, OthersInv
  <2>5. CASE UNCHANGED timeVars
    BY <2>5 DEF timeVars, TimeInv, Types, WaitOK, LineOK, OffsetIsDue
  <2> QED BY <2>1, <2>2, <2>3, <2>4, <2>5 DEF TimeNext
<1> QED BY <1>1, <1>2, PTL DEF TimeSpec

\* Type correctness; the line never holds more than the bounds let pile up.
THEOREM TimeTypes == TimeSpec => []TimeTypeOK
<1>1. TimeInv => TimeTypeOK
  <2> SUFFICES ASSUME TimeInv PROVE TimeTypeOK
    OBVIOUS
  <2>1. Types /\ WaitOK /\ LineOK  BY DEF TimeInv
  <2>2. left.slow \in Nat /\ left.starts \in Nat /\ MaxSlow \in Nat /\ MaxStarts \in Nat
    BY <2>1, TimeAssumption DEF Types, TimeAssumption
  <2>3. Len(line) \in Nat  BY <2>1 DEF Types
  <2>a. Len(line) <= 1 + (MaxSlow - left.slow) + (MaxStarts - left.starts)
    BY <2>1, <2>2, <2>3 DEF LineOK
  <2>4. Len(line) <= 1 + MaxSlow + MaxStarts  BY <2>2, <2>3, <2>a
  <2>5. keeper.pc \in {"idle", "state", "decide", "push"}  BY <2>1 DEF Types, KeeperType
  <2>6. (keeper.pc \in {"state", "push"}) <=> (keeper.waits # NoRequest)  BY <2>1, <2>5 DEF WaitOK
  <2>7. {keeper.known, keeper.pending, keeper.have, unread, missed} \subseteq BOOLEAN
    BY <2>1 DEF Types, KeeperType
  <2>8. /\ keeper.source \in {"none", "rtc", "sntp"} /\ keeper.last \in 0 .. WRAP - 1
        /\ engine.source \in {"none", "rtc", "sntp"} /\ engine.err \in Int
    BY <2>1 DEF Types, KeeperType, Sources
  <2>9. /\ board.err \in Int /\ board.frames \in 0 .. WRAP - 1
        /\ {board.offset, board.saved} \subseteq {0, Offset}
    BY <2>1 DEF Types, BoardType
  <2> QED BY <2>4, <2>5, <2>6, <2>7, <2>8, <2>9 DEF TimeTypeOK
<1> QED BY <1>1, TimeInvariant, PTL

\* An offset that the board lost is due: the ACK of a push never hides a reset
\* that came after it, whatever was slow (main of tg-time, tg_time_stm_reset).
THEOREM TimeOffsetIsDue == TimeSpec => []OffsetIsDue
<1>1. TimeInv => OffsetIsDue  BY DEF TimeInv
<1> QED BY <1>1, TimeInvariant, PTL

-----------------------------------------------------------------------------
(* The levels of the display, for every length of a day, every set of      *)
(* levels, periods and offsets, and any number of requests.  The invariant *)
(* IInv of DisplayLevels is inductive; each step is taken in the order of  *)
(* Next.                                                                   *)

\* A minute of a day plus any offset is a minute of a day.
LEMMA MinuteOfDay ==
    ASSUME NEW x \in Int
    PROVE  x % DAY \in Minutes
  BY LevelsAssumption, SMT DEF Minutes

\* The settings of the store are put on the display before the scanner starts
\* (hazk03_display_setconfig).
LEMMA InitKeepsIInv == Init => IInv
  <1> SUFFICES ASSUME Init PROVE IInv
    OBVIOUS
  <1>1. 0 \in Minutes
    BY LevelsAssumption, SMT DEF Minutes
  <1>2. 0 \in 0 .. MaxRequests
    BY LevelsAssumption, SMT
  <1>3. TypeOK
    BY <1>1, <1>2, LevelsAssumption DEF Init, TypeOK
  <1>4. Darkens /\ Brightens
    BY DEF Init, Darkens, Brightens, Changes, HoldsOld
  <1> QED
    BY <1>3, <1>4 DEF Init, IInv

-----------------------------------------------------------------------------
(* The scanner.                                                            *)

\* A drawing of the scanner takes the lock and gives it back.
LEMMA DrawKeepsIInv == IInv /\ (Draw \/ EndDraw) => IInv'
  <1> SUFFICES ASSUME IInv, Draw \/ EndDraw PROVE IInv'
    OBVIOUS
  <1> USE DEF IInv, From, ScanOnly, settings
  <1>1. TypeOK'
    BY DEF TypeOK, Draw, EndDraw
  <1>2. (lock = "scan" <=> pc = "draw")'
    BY DEF Draw, EndDraw
  <1>3. Darkens'
    BY DEF Draw, EndDraw, Darkens, Changes
  <1>4. Brightens'
    BY DEF Draw, EndDraw, Brightens, Changes, HoldsOld
  <1> QED
    BY <1>1, <1>2, <1>3, <1>4

\* A new second: the scanner reads the time.
LEMMA SecondKeepsIInv == IInv /\ Second => IInv'
  <1> SUFFICES ASSUME IInv, Second PROVE IInv'
    OBVIOUS
  <1> USE DEF IInv, From, ScanOnly, settings, Second
  <1>1. clock + offset \in Int
    BY LevelsAssumption, SMT DEF TypeOK, Minutes
  <1>2. Local \in Minutes
    BY <1>1, MinuteOfDay DEF Local
  <1>3. TypeOK'
    BY <1>2 DEF TypeOK
  <1>4. Darkens'
    BY DEF Darkens, Changes
  <1>5. Brightens'
    BY DEF Brightens, Changes, HoldsOld
  <1> QED
    BY <1>3, <1>4, <1>5

\* The scanner looks at the period and may enter or leave it.
LEMMA LookKeepsIInv == IInv /\ Look => IInv'
  <1> SUFFICES ASSUME IInv, Look PROVE IInv'
    OBVIOUS
  <1> USE DEF IInv, From, ScanOnly, settings, Look
  <1>1. InSleep(at) \in BOOLEAN
    BY DEF InSleep
  <1>2. TypeOK'
    BY <1>1 DEF TypeOK
  <1>3. Darkens'
    <2>1. srv = "idle"
      BY DEF From
    <2>2. CASE asleep' = asleep
      BY <2>1, <2>2, <1>1 DEF TypeOK, Darkens, Changes
    <2>3. CASE asleep' # asleep
      BY <2>1, <2>3, <1>1 DEF TypeOK, Darkens, Changes
    <2> QED
      BY <2>2, <2>3
  <1>4. Brightens'
    BY <1>1 DEF TypeOK, Brightens, Changes, HoldsOld
  <1> QED
    BY <1>2, <1>3, <1>4

\* The levels of the edge go to the digits and to the panels.
LEMMA EdgeKeepsIInv == IInv /\ (Edge \/ ApplyDigits \/ ApplyPanels) => IInv'
  <1> SUFFICES ASSUME IInv, Edge \/ ApplyDigits \/ ApplyPanels PROVE IInv'
    OBVIOUS
  <1> USE DEF IInv, From, ScanOnly, settings
  <1>1. CASE Edge
    <2>1. TypeOK'
      BY <1>1, LevelsAssumption DEF Edge, TypeOK
    <2>2. Darkens' /\ Brightens'
      BY <1>1 DEF Edge, Darkens, Brightens, Changes, HoldsOld
    <2> QED
      BY <1>1, <2>1, <2>2 DEF Edge
  <1>2. CASE ApplyDigits
    <2>1. TypeOK'
      BY <1>2 DEF ApplyDigits, TypeOK
    <2>2. Darkens' /\ Brightens'
      BY <1>2 DEF ApplyDigits, Darkens, Brightens, Changes, HoldsOld
    <2> QED
      BY <1>2, <2>1, <2>2 DEF ApplyDigits
  <1>3. CASE ApplyPanels
    <2>1. TypeOK'
      BY <1>3 DEF ApplyPanels, TypeOK
    <2>2. Darkens' /\ Brightens'
      BY <1>3 DEF ApplyPanels, Darkens, Brightens, Changes, HoldsOld
    <2> QED
      BY <1>3, <2>1, <2>2 DEF ApplyPanels
  <1> QED
    BY <1>1, <1>2, <1>3

\* The digits are written and take the level that the driver had.
LEMMA FlushKeepsIInv == IInv /\ (Flush \/ Store) => IInv'
  <1> SUFFICES ASSUME IInv, Flush \/ Store PROVE IInv'
    OBVIOUS
  <1> USE DEF IInv, From, ScanOnly, settings
  <1>1. CASE Flush
    <2>1. TypeOK'
      BY <1>1 DEF Flush, TypeOK
    <2>2. Darkens' /\ Brightens'
      BY <1>1 DEF Flush, Darkens, Brightens, Changes, HoldsOld
    <2> QED
      BY <1>1, <2>1, <2>2 DEF Flush
  <1>2. CASE Store
    <2>1. 0 \in Minutes
      BY LevelsAssumption, SMT DEF Minutes
    <2>2. TypeOK'
      BY <1>2, <2>1, LevelsAssumption DEF Store, TypeOK
    <2>3. Darkens' /\ Brightens'
      BY <1>2 DEF Store, Darkens, Brightens, Changes, HoldsOld
    <2> QED
      BY <1>2, <2>2, <2>3 DEF Store
  <1> QED
    BY <1>1, <1>2

-----------------------------------------------------------------------------
(* The requests and the clock.                                             *)

\* The number of requests stays in its bound.
LEMMA RequestCounts == TypeOK /\ Request => count' \in 0 .. MaxRequests
  BY LevelsAssumption, SMT DEF TypeOK, Request

\* A request for a level goes to an awake display alone.
LEMMA SetBrightnessKeepsIInv ==
    ASSUME NEW b \in Levels, IInv, SetBrightness(b)
    PROVE  IInv'
  <1>1. /\ count' \in 0 .. MaxRequests
        /\ srv = "idle" /\ bright' = b
        /\ UNCHANGED <<period, offset, clock, asleep, panels, lock, pc, arg, at>>
    BY RequestCounts DEF IInv, SetBrightness, Request, scanVars
  <1>2. CASE asleep
    <2>1. UNCHANGED <<digits, srv, late>>
      BY <1>2 DEF SetBrightness
    <2>2. TypeOK'
      BY <1>1, <2>1 DEF IInv, TypeOK
    <2>3. Darkens' /\ Brightens'
      BY <1>1, <1>2, <2>1 DEF IInv, Darkens, Brightens, Changes, HoldsOld
    <2> QED
      BY <1>1, <2>2, <2>3 DEF IInv
  <1>3. CASE ~asleep
    <2>1. digits' = b /\ srv' = "panels"
      BY <1>3 DEF SetBrightness
    <2>2. late' \in BOOLEAN /\ (late' <=> HoldsOld)
      <3>1. late' = HoldsOld
        BY <1>3, Zenon DEF SetBrightness
      <3>2. late' \in BOOLEAN
        BY <3>1, SMT DEF HoldsOld
      <3>3. late' <=> HoldsOld
        BY <3>1, Zenon
      <3> QED
        BY <3>2, <3>3
    <2>3. TypeOK'
      BY <1>1, <2>1, <2>2 DEF IInv, TypeOK
    <2>4. ~asleep'
      BY <1>1, <1>3
    <2>5. Darkens'
      BY <2>4 DEF Darkens
    <2>6. Brightens'
      BY <1>1, <2>1, <2>2 DEF Brightens, Changes, HoldsOld
    <2> QED
      BY <1>1, <2>3, <2>5, <2>6 DEF IInv
  <1> QED
    BY <1>2, <1>3

\* The panels take the level of a request when no drawing holds the lock.
LEMMA ServerPanelsKeepsIInv == IInv /\ ServerPanels => IInv'
  <1> SUFFICES ASSUME IInv, ServerPanels PROVE IInv'
    OBVIOUS
  <1> USE DEF IInv, ServerPanels, settings, scanVars
  <1>1. TypeOK'
    BY DEF TypeOK
  <1>2. Darkens' /\ Brightens'
    BY DEF Darkens, Brightens, Changes, HoldsOld
  <1> QED
    BY <1>1, <1>2

\* A new period, a new time and the next minute leave the levels to the scanner.
LEMMA ClockKeepsIInv ==
    ASSUME IInv,
           \/ NextMinute
           \/ \E p \in Periods \cup {Off} : SetSleep(p)
           \/ \E c \in Minutes, o \in Offsets : SetTime(c, o)
    PROVE  IInv'
  <1> USE DEF IInv, settings, scanVars
  <1>1. CASE NextMinute
    <2>1. clock + 1 \in Int
      BY SMT DEF TypeOK, Minutes
    <2>2. clock' \in Minutes
      BY <1>1, <2>1, MinuteOfDay DEF NextMinute
    <2> QED
      BY <1>1, <2>2 DEF NextMinute, TypeOK, Darkens, Brightens, Changes, HoldsOld
  <1>2. CASE \E p \in Periods \cup {Off} : SetSleep(p)
    <2>1. count' \in 0 .. MaxRequests
      BY <1>2, RequestCounts DEF SetSleep
    <2> QED
      BY <1>2, <2>1 DEF SetSleep, Request, TypeOK, Darkens, Brightens, Changes, HoldsOld
  <1>3. CASE \E c \in Minutes, o \in Offsets : SetTime(c, o)
    <2>1. count' \in 0 .. MaxRequests
      BY <1>3, RequestCounts DEF SetTime
    <2> QED
      BY <1>3, <2>1 DEF SetTime, Request, TypeOK, Darkens, Brightens, Changes, HoldsOld
  <1> QED
    BY <1>1, <1>2, <1>3

\* A step that changes nothing.
LEMMA StutterKeepsIInv == IInv /\ UNCHANGED vars => IInv'
  BY DEF vars, settings, scanVars, IInv, TypeOK, Darkens, Brightens, Changes, HoldsOld

\* Every step keeps the invariant.
LEMMA NextKeepsIInv == IInv /\ [Next]_vars => IInv'
  <1> SUFFICES ASSUME IInv, [Next]_vars PROVE IInv'
    OBVIOUS
  <1>1. CASE Scanner
    BY <1>1, DrawKeepsIInv, SecondKeepsIInv, LookKeepsIInv, EdgeKeepsIInv, FlushKeepsIInv
       DEF Scanner
  <1>2. CASE ServerPanels
    BY <1>2, ServerPanelsKeepsIInv
  <1>3. CASE \E b \in Levels : SetBrightness(b)
    BY <1>3, SetBrightnessKeepsIInv
  <1>4. CASE \/ NextMinute
             \/ \E p \in Periods \cup {Off} : SetSleep(p)
             \/ \E c \in Minutes, o \in Offsets : SetTime(c, o)
    BY <1>4, ClockKeepsIInv
  <1>5. CASE UNCHANGED vars
    BY <1>5, StutterKeepsIInv
  <1> QED
    BY <1>1, <1>2, <1>3, <1>4, <1>5 DEF Next
-----------------------------------------------------------------------------
\* The inductive invariant of the levels (display_update_sleep,
\* hazk03_display_brightness, tm1629a_flush).
THEOREM LevelsInvariant == Spec => []IInv
  <1>1. Init => IInv
    BY InitKeepsIInv
  <1>2. IInv /\ [Next]_vars => IInv'
    BY NextKeepsIInv
  <1> QED
    BY <1>1, <1>2, PTL DEF Spec

\* Type correctness of the levels, of the period and of the scanner.
THEOREM LevelsTypeOK == Spec => []TypeOK
  <1>1. IInv => TypeOK
    BY DEF IInv
  <1> QED
    BY <1>1, LevelsInvariant, PTL

\* A display in its sleep period is dark, whatever requests, new periods and
\* new times came on the way into it and in it.
THEOREM LevelsAsleepIsDark == Spec => []AsleepIsDark
  <1>1. IInv => AsleepIsDark
    BY DEF IInv, Darkens, AsleepIsDark, AtRest
  <1> QED
    BY <1>1, LevelsInvariant, PTL

\* An awake display has the levels of the last request, also of one that came
\* in the sleep period, but for one that met the scanner with older levels.
THEOREM LevelsAwakeIsBright == Spec => []AwakeIsBright
  <1>1. IInv => AwakeIsBright
    BY DEF IInv, Brightens, AwakeIsBright, AtRest
  <1> QED
    BY <1>1, LevelsInvariant, PTL

-----------------------------------------------------------------------------
\* One step of a display that sleeps before and after it lights nothing.
LEMMA SleepStepIsDark ==
    ASSUME IInv, [Next]_vars, asleep, asleep'
    PROVE  digits' <= digits /\ panels' <= panels
  <1> USE DEF IInv, From, ScanOnly, settings, scanVars
  <1>1. digits \in Nat /\ panels \in Nat
    BY LevelsAssumption DEF TypeOK
  <1>2. srv = "idle" /\ (pc \in {"digits", "panels", "store"} => arg = 0)
    BY DEF Darkens
  <1>3. \/ digits' = digits /\ panels' = panels
        \/ digits' = 0 /\ panels' = panels
        \/ digits' = digits /\ panels' = 0
    <2>1. CASE Draw \/ EndDraw \/ Second \/ Look \/ Edge \/ Flush
      BY <2>1 DEF Draw, EndDraw, Second, Look, Edge, Flush
    <2>2. CASE ApplyDigits \/ ApplyPanels \/ Store
      BY <2>2, <1>2 DEF ApplyDigits, ApplyPanels, Store
    <2>3. CASE ServerPanels
      BY <2>3, <1>2 DEF ServerPanels
    <2>4. CASE \E b \in Levels : SetBrightness(b)
      BY <2>4 DEF SetBrightness
    <2>5. CASE NextMinute \/ \E p \in Periods \cup {Off} : SetSleep(p)
      BY <2>5 DEF NextMinute, SetSleep
    <2>6. CASE \E c \in Minutes, o \in Offsets : SetTime(c, o)
      BY <2>6 DEF SetTime
    <2>7. CASE UNCHANGED vars
      BY <2>7 DEF vars
    <2> QED
      BY <2>1, <2>2, <2>3, <2>4, <2>5, <2>6, <2>7 DEF Next, Scanner
  <1> QED
    BY <1>1, <1>3, SMT

\* Nothing lights a display that sleeps, not even for a moment.
THEOREM LevelsStaysDark == Spec => StaysDark
  <1>1. IInv /\ [Next]_vars => [asleep /\ asleep' => digits' <= digits /\ panels' <= panels]_vars
    BY SleepStepIsDark
  <1> QED
    BY <1>1, LevelsInvariant, PTL DEF Spec, StaysDark
-----------------------------------------------------------------------------
(* The arc of the period.                                                  *)

\* There is one remainder.
LEMMA RemainderIs ==
    ASSUME NEW d \in Nat \ {0}, NEW x \in Int, NEW k \in Int, NEW y \in 0 .. d - 1,
           x = d * k + y
    PROVE  x % d = y
  <1> DEFINE q == x \div d
             r == x % d
  <1>1. q \in Int /\ r \in 0 .. d - 1 /\ x = d * q + r
    OBVIOUS
  <1> HIDE DEF q, r
  <1>2. ~(q >= k + 1)
    <2> SUFFICES ASSUME q >= k + 1 PROVE FALSE
      OBVIOUS
    <2>1. q - k \in Nat \ {0} /\ d * (q - k) = d * q - d * k
      BY <1>1
    <2>2. d * (q - k) >= d
      BY <2>1
    <2> QED
      BY <1>1, <2>1, <2>2
  <1>3. ~(q <= k - 1)
    <2> SUFFICES ASSUME q <= k - 1 PROVE FALSE
      OBVIOUS
    <2>1. k - q \in Nat \ {0} /\ d * (k - q) = d * k - d * q
      BY <1>1
    <2>2. d * (k - q) >= d
      BY <2>1
    <2> QED
      BY <1>1, <2>1, <2>2
  <1>4. q = k
    BY <1>1, <1>2, <1>3
  <1>5. r = y
    BY <1>1, <1>4
  <1> QED
    BY <1>5 DEF r

\* The minutes of a period are those less far from its start than its end is.
LEMMA PeriodIsArc ==
    ASSUME NEW m \in Minutes, NEW s \in Minutes, NEW w \in Minutes
    PROVE  InPeriod(m, s, w) <=> (m - s) % DAY < (w - s) % DAY
  <1> DEFINE Since(x) == IF x >= s THEN x - s ELSE x - s + DAY
  <1>1. DAY \in Nat \ {0}
    BY LevelsAssumption
  <1>2. ASSUME NEW x \in Minutes PROVE (x - s) % DAY = Since(x)
    <2>1. CASE x >= s
      <3>1. x - s \in 0 .. DAY - 1 /\ x - s = DAY * 0 + (x - s)
        BY <1>1, <2>1 DEF Minutes
      <3> QED
        BY <1>1, <2>1, <3>1, RemainderIs
    <2>2. CASE x < s
      <3>1. /\ x - s + DAY \in 0 .. DAY - 1 /\ x - s \in Int
            /\ x - s = DAY * (-1) + (x - s + DAY) /\ ~(x >= s)
        BY <1>1, <2>2 DEF Minutes
      <3> QED
        BY <1>1, <3>1, RemainderIs
    <2> QED
      BY <1>1, <2>1, <2>2 DEF Minutes
  <1>3. (m - s) % DAY = Since(m) /\ (w - s) % DAY = Since(w)
    BY <1>2
  <1> QED
    BY <1>1, <1>3 DEF Minutes, InPeriod

\* The sleep period is an arc of the day, whatever its ends and the length of a
\* day are; it may go through midnight (display_in_sleep).
THEOREM PeriodsAreArcs == Spec => []SleepIsArc
  <1>1. TypeOK => SleepIsArc
    <2> SUFFICES ASSUME TypeOK, NEW m \in Minutes
                 PROVE  InSleep(m) <=> /\ period # Off
                                       /\ (m - period[1]) % DAY < (period[2] - period[1]) % DAY
      BY DEF SleepIsArc
    <2>1. CASE period = Off
      BY <2>1 DEF InSleep
    <2>2. CASE period # Off
      <3>1. period[1] \in Minutes /\ period[2] \in Minutes
        BY <2>2, LevelsAssumption DEF TypeOK, Minutes
      <3> QED
        BY <2>2, <3>1, PeriodIsArc DEF InSleep
    <2> QED
      BY <2>1, <2>2
  <1> QED
    BY <1>1, LevelsTypeOK, PTL
=============================================================================
