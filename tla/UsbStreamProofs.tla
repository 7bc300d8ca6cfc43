-------------------------- MODULE UsbStreamProofs ---------------------------
(***************************************************************************)
(* Proofs about UsbStream, for every number of channels, requests and      *)
(* attempts and for every modulus of the sequence above 1.                 *)
(***************************************************************************)
EXTENDS UsbStream, SequenceTheorems, TLAPS

USE UsbAssumption

-----------------------------------------------------------------------------
(* Sequences.                                                              *)

LEMMA ElemsType ==
    ASSUME NEW S, NEW q \in Seq(S)
    PROVE  Elems(q) \subseteq S
BY DEF Elems

LEMMA ElemsEmpty == Elems(<<>>) = {}
BY DEF Elems

LEMMA ElemsAppend ==
    ASSUME NEW S, NEW q \in Seq(S), NEW e \in S
    PROVE  /\ Append(q, e) \in Seq(S)
           /\ Elems(Append(q, e)) = Elems(q) \cup {e}
<1>1. /\ Append(q, e) \in Seq(S)
      /\ Len(Append(q, e)) = Len(q) + 1
      /\ \A k \in 1 .. Len(q) : Append(q, e)[k] = q[k]
      /\ Append(q, e)[Len(q) + 1] = e
  OBVIOUS
<1> QED
  BY <1>1 DEF Elems

LEMMA ElemsTail ==
    ASSUME NEW S, NEW q \in Seq(S), q # <<>>
    PROVE  /\ Tail(q) \in Seq(S)
           /\ Head(q) \in S
           /\ Head(q) \in Elems(q)
           /\ Elems(Tail(q)) \subseteq Elems(q)
BY DEF Elems

LEMMA ElemsOne ==
    ASSUME NEW S, NEW q \in Seq(S), Len(q) = 1
    PROVE  q # <<>> /\ Tail(q) = <<>> /\ Elems(q) = {q[1]} /\ Head(q) = q[1] /\ q[1] \in S
<1>1. q # <<>> /\ Head(q) = q[1] /\ q[1] \in S
  OBVIOUS
<1>3. Tail(q) \in Seq(S)
  BY <1>1
<1>4. Len(Tail(q)) = 0
  BY <1>1
<1>5. Tail(q) = <<>>
  BY <1>3, <1>4, EmptySeq
<1>2. Elems(q) = {q[1]}
  BY DEF Elems
<1> QED
  BY <1>1, <1>2, <1>5

\* The order of the copies on the line.
Sorted(q) == \A i, j \in DOMAIN q : i < j => q[i].op <= q[j].op

LEMMA SortedTail ==
    ASSUME NEW q \in Seq(Frame), q # <<>>, Sorted(q)
    PROVE  /\ Sorted(Tail(q))
           /\ \A f \in Elems(Tail(q)) : Head(q).op <= f.op
<1>1. /\ Len(Tail(q)) = Len(q) - 1
      /\ \A k \in 1 .. Len(q) - 1 : Tail(q)[k] = q[k + 1]
      /\ Head(q) = q[1]
      /\ Tail(q) \in Seq(Frame)
  OBVIOUS
<1>2. Sorted(Tail(q))
  BY <1>1 DEF Sorted
<1>3. ASSUME NEW f \in Elems(Tail(q))
      PROVE  Head(q).op <= f.op
  <2>1. PICK k \in 1 .. Len(q) - 1 : f = q[k + 1]
    BY <1>1 DEF Elems
  <2> QED
    BY <1>1, <2>1 DEF Sorted
<1> QED
  BY <1>2, <1>3

LEMMA SortedAppend ==
    ASSUME NEW q \in Seq(Frame), NEW f \in Frame, Sorted(q),
           \A g \in Elems(q) : g.op <= f.op
    PROVE  Sorted(Append(q, f))
<1>1. /\ Len(Append(q, f)) = Len(q) + 1
      /\ \A k \in 1 .. Len(q) : Append(q, f)[k] = q[k] /\ q[k] \in Elems(q)
      /\ Append(q, f)[Len(q) + 1] = f
      /\ Append(q, f) \in Seq(Frame)
  BY DEF Elems
<1> QED
  BY <1>1 DEF Sorted

-----------------------------------------------------------------------------
(* Types.                                                                  *)

OpRecord == [kind : Kinds, chan : Channels, fits : BOOLEAN]

LEMMA Typed ==
    ASSUME TypeOK
    PROVE  /\ Cur \in 0 .. MaxOps
           /\ DOMAIN ops = 1 .. Cur
           /\ DOMAIN ops \subseteq Ops
           /\ \A n \in DOMAIN ops : ops[n] \in OpRecord /\ ops[n].chan \in Channels
           /\ Elems(down) \subseteq Frame
           /\ Elems(up) \subseteq Answer
           /\ Elems(req) \subseteq Frame
           /\ Elems(rsp) \subseteq Answer
           /\ \A c \in Channels : Elems(stream[c]) \subseteq Piece
<1>1. /\ Cur \in 0 .. MaxOps
      /\ DOMAIN ops = 1 .. Cur
      /\ DOMAIN ops \subseteq Ops
  BY DEF TypeOK, Cur, Ops
<1>2. \A n \in DOMAIN ops : ops[n] \in OpRecord /\ ops[n].chan \in Channels
  <2>1. ops \in Seq(OpRecord)
    BY DEF TypeOK, OpRecord
  <2>2. \A n \in 1 .. Len(ops) : ops[n] \in OpRecord
    BY <2>1
  <2>3. \A r \in OpRecord : r.chan \in Channels
    BY DEF OpRecord
  <2> QED
    BY <1>1, <2>2, <2>3 DEF Cur
<1>3. Elems(down) \subseteq Frame /\ Elems(up) \subseteq Answer
  BY ElemsType DEF TypeOK
<1>4. Elems(req) \subseteq Frame /\ Elems(rsp) \subseteq Answer
  BY ElemsType DEF TypeOK
<1>5. \A c \in Channels : Elems(stream[c]) \subseteq Piece
  BY ElemsType DEF TypeOK
<1> QED
  BY <1>1, <1>2, <1>3, <1>4, <1>5

LEMMA InitIInv == ASSUME Init PROVE IInv
<1>1. TypeOK
  <2>1. ops \in Seq([kind : Kinds, chan : Channels, fits : BOOLEAN]) /\ Len(ops) <= MaxOps
    BY DEF Init
  <2>2. /\ req \in Seq(Frame) /\ rsp \in Seq(Answer) /\ down \in Seq(Frame)
        /\ up \in Seq(Answer) /\ flight \in Seq(Frame) /\ Len(flight) <= 1
    BY DEF Init
  <2>3. /\ stream \in [Channels -> Seq(Piece)]
        /\ takes \in [1 .. MaxAsks -> Nat]
        /\ said \in [Ops -> {"none", "ok", "failed"}]
        /\ chseq \in [Channels -> Seqs]
    BY DEF Init, Seqs
  <2>4. waiting \in BOOLEAN /\ valid \in BOOLEAN
    BY Zenon DEF Init
  <2>5. asks \in 0 .. MaxAsks /\ tries \in 0 .. REPLY_TRIES /\ last \in Seqs
    BY DEF Init, Seqs
  <2>6. opened \in SUBSET Channels /\ chan \in Channels \cup {None}
    BY Zenon DEF Init
  <2> QED
    BY <2>1, <2>2, <2>3, <2>4, <2>5, <2>6 DEF TypeOK
<1>2. Elems(down) = {} /\ Elems(up) = {} /\ Elems(req) = {} /\ Elems(rsp) = {}
      /\ Elems(flight) = {} /\ \A c \in Channels : Elems(stream[c]) = {}
  BY ElemsEmpty DEF Init
<1>3. Cur = 0 /\ DOMAIN ops = {}
  BY DEF Init, Cur
<1>4. PlaceOK /\ DoneOK /\ LineOK /\ StreamOK
  BY <1>1, <1>2, <1>3 DEF Init, PlaceOK, DoneOK, LineOK, StreamOK, Ops, IsWrite
<1>5. CopiesOK /\ SequenceOK /\ SubscribeOK /\ AnswersOK /\ AllFit /\ AckedWriteReached
  BY <1>1, <1>2, <1>3 DEF Init, CopiesOK, SequenceOK, SubscribeOK, AnswersOK,
     AllFit, AckedWriteReached, Pending, IsWrite, WrittenTo
<1> QED
  BY <1>1, <1>4, <1>5 DEF IInv

-----------------------------------------------------------------------------
(* What a step of the pipes, the broker or the line leaves alone.          *)

dataVars == <<ops, said, chseq, chan, last, valid, stream>>

LEMMA DataUnchanged ==
    ASSUME IInv, UNCHANGED dataVars
    PROVE  StreamOK' /\ SequenceOK' /\ SubscribeOK' /\ AllFit' /\ AckedWriteReached'
<1>1. StreamOK' /\ SubscribeOK' /\ AllFit' /\ AckedWriteReached'
  BY DEF IInv, dataVars, StreamOK, SubscribeOK, AllFit, AckedWriteReached, IsWrite,
     WrittenTo, Taken, Has
<1>2. SequenceOK'
  BY DEF IInv, dataVars, SequenceOK, Pending, IsWrite, WrittenTo, Taken, Has, Cur
<1> QED
  BY <1>1, <1>2

\* Copies leave the line.
LEMMA LineShrinks ==
    ASSUME IInv, UNCHANGED dataVars, UNCHANGED asks,
           \/ down' = down
           \/ down # <<>> /\ down' = Tail(down)
    PROVE  LineOK' /\ CopiesOK' /\ down' \in Seq(Frame)
<1>1. /\ down' \in Seq(Frame)
      /\ Elems(down') \subseteq Elems(down)
      /\ Sorted(down')
  <2>1. down \in Seq(Frame) /\ Sorted(down)
    BY DEF IInv, TypeOK, LineOK, Sorted
  <2>2. CASE down' = down
    BY <2>1, <2>2 DEF Sorted
  <2>3. CASE down # <<>> /\ down' = Tail(down)
    BY <2>1, <2>3, ElemsTail, SortedTail
  <2> QED
    BY <2>2, <2>3
<1>2. LineOK'
  BY <1>1 DEF IInv, LineOK, dataVars, Sorted, IsWrite, Cur
<1>3. CopiesOK'
  BY <1>1 DEF IInv, CopiesOK, dataVars, IsWrite, Taken, Has, Seen
<1> QED
  BY <1>1, <1>2, <1>3

LEMMA ModInSeqs ==
    ASSUME NEW i \in Int
    PROVE  (i + 1) % SEQ_MOD \in Seqs
BY DEF Seqs

LEMMA NextDiffers ==
    ASSUME NEW i \in Seqs
    PROVE  (i + 1) % SEQ_MOD # i
BY DEF Seqs

\* The broker puts a copy of the request tg-usb waits for on the line.
LEMMA CopyJoins ==
    ASSUME IInv, UNCHANGED dataVars, UNCHANGED asks, waiting,
           NEW f \in Frame, f.id = asks, f.op = Cur, f.seq = chseq[ops[Cur].chan],
           down' = Append(down, f)
    PROVE  LineOK' /\ CopiesOK' /\ down' \in Seq(Frame)
<1> USE DEF IInv
<1>1. /\ down \in Seq(Frame)
      /\ down' \in Seq(Frame)
      /\ Elems(down') = Elems(down) \cup {f}
  BY ElemsAppend DEF TypeOK
<1>2. /\ Cur \in DOMAIN ops /\ Cur \in Nat
      /\ ops[Cur].chan \in Channels
      /\ DOMAIN ops = 1 .. Cur
      /\ said[Cur] # "ok"
  BY Typed DEF PlaceOK
<1>3. Sorted(down')
  <2>1. \A g \in Elems(down) : g.op <= f.op
    BY <1>2 DEF LineOK
  <2> QED
    BY <1>1, <2>1, SortedAppend DEF LineOK, Sorted
<1>4. \A c \in Channels : \A p \in Elems(stream[c]) : p.op <= f.op
  BY <1>2 DEF StreamOK, IsWrite
<1>5. LineOK'
  <2>1. UNCHANGED <<Cur, asks>> /\ ops' = ops /\ said' = said /\ chseq' = chseq /\ stream' = stream
    BY DEF dataVars, Cur
  <2>2. \A g \in Elems(down') :
            /\ g.op \in DOMAIN ops /\ g.id <= asks
            /\ g.id = asks => g.op = Cur
            /\ g.op = Cur /\ IsWrite(Cur) /\ said[Cur] # "ok"
                   => g.seq = chseq[ops[Cur].chan]
            /\ \A c \in Channels : \A p \in Elems(stream[c]) : p.op <= g.op
    <3>1. asks \in Int
      BY DEF TypeOK
    <3> QED
      BY <1>1, <1>2, <1>4, <3>1 DEF LineOK
  <2>3. IsWrite(Cur)' <=> IsWrite(Cur)
    BY <2>1 DEF IsWrite
  <2> QED
    BY <1>3, <2>1, <2>2, <2>3 DEF LineOK, Sorted
<1>6. ASSUME IsWrite(Cur)
      PROVE  Taken(Cur) <=> Seen(f, ops[Cur].chan)
  <2>1. Pending(ops[Cur].chan)
    BY <1>2, <1>6 DEF Pending
  <2>2. last \in Seqs /\ chseq[ops[Cur].chan] \in Seqs
    BY <1>2 DEF TypeOK
  <2>3. (last + 1) % SEQ_MOD # last
    BY <2>2, NextDiffers
  <2> QED
    BY <1>2, <2>1, <2>2, <2>3 DEF SequenceOK, Seen
<1>7. CopiesOK'
  <2>1. ASSUME NEW g \in Elems(down'), IsWrite(g.op)
        PROVE  Taken(g.op) <=> Seen(g, ops[g.op].chan)
    BY <1>1, <1>6, <2>1 DEF CopiesOK
  <2>2. \A g \in Elems(down') : IsWrite(g.op)' => IsWrite(g.op)
    BY DEF IsWrite, dataVars
  <2>3. \A g \in Elems(down') :
            /\ Taken(g.op)' <=> Taken(g.op)
            /\ Seen(g, ops[g.op].chan)' <=> Seen(g, ops[g.op].chan)
    BY DEF Taken, Has, Seen, dataVars
  <2> QED
    BY <2>1, <2>2, <2>3 DEF CopiesOK
<1> QED
  BY <1>1, <1>5, <1>7

-----------------------------------------------------------------------------
(* Where the request is.                                                   *)

LEMMA PlaceLengths ==
    ASSUME IInv
    PROVE  /\ Len(req) \in Nat /\ Len(flight) \in Nat /\ Len(rsp) \in Nat
           /\ req = <<>> <=> Len(req) = 0
           /\ flight = <<>> <=> Len(flight) = 0
           /\ rsp = <<>> <=> Len(rsp) = 0
           /\ waiting => Len(req) + Len(flight) + Len(rsp) = 1
           /\ ~waiting => req = <<>> /\ flight = <<>> /\ rsp = <<>>
           /\ req # <<>> => waiting /\ flight = <<>> /\ rsp = <<>> /\ Len(req) = 1
           /\ flight # <<>> => waiting /\ req = <<>> /\ rsp = <<>> /\ Len(flight) = 1
           /\ rsp # <<>> => waiting /\ req = <<>> /\ flight = <<>> /\ Len(rsp) = 1
<1>1. req \in Seq(Frame) /\ flight \in Seq(Frame) /\ rsp \in Seq(Answer)
  BY DEF IInv, TypeOK
<1>2. \A S : \A q \in Seq(S) : Len(q) \in Nat /\ (q = <<>> <=> Len(q) = 0)
  BY EmptySeq
<1>3. /\ Len(req) \in Nat /\ Len(flight) \in Nat /\ Len(rsp) \in Nat
      /\ req = <<>> <=> Len(req) = 0
      /\ flight = <<>> <=> Len(flight) = 0
      /\ rsp = <<>> <=> Len(rsp) = 0
  BY <1>1, <1>2
<1>4. /\ waiting => Len(req) + Len(flight) + Len(rsp) = 1
      /\ ~waiting => req = <<>> /\ flight = <<>> /\ rsp = <<>>
  BY DEF IInv, PlaceOK
<1>5. req # <<>> \/ flight # <<>> \/ rsp # <<>> => waiting
  BY <1>4
<1>6. /\ req # <<>> => Len(req) = 1 /\ Len(flight) = 0 /\ Len(rsp) = 0
      /\ flight # <<>> => Len(flight) = 1 /\ Len(req) = 0 /\ Len(rsp) = 0
      /\ rsp # <<>> => Len(rsp) = 1 /\ Len(req) = 0 /\ Len(flight) = 0
  <2> DEFINE a == Len(req)
             b == Len(flight)
             d == Len(rsp)
  <2>1. a \in Nat /\ b \in Nat /\ d \in Nat /\ (waiting => a + b + d = 1)
    BY <1>3, <1>4
  <2>2. /\ req # <<>> => a # 0 /\ waiting
        /\ flight # <<>> => b # 0 /\ waiting
        /\ rsp # <<>> => d # 0 /\ waiting
    BY <1>3, <1>5
  <2> HIDE DEF a, b, d
  <2>3. /\ waiting /\ a # 0 => a = 1 /\ b = 0 /\ d = 0
        /\ waiting /\ b # 0 => b = 1 /\ a = 0 /\ d = 0
        /\ waiting /\ d # 0 => d = 1 /\ a = 0 /\ b = 0
    BY <2>1
  <2>4. /\ req # <<>> => a = 1 /\ b = 0 /\ d = 0
        /\ flight # <<>> => b = 1 /\ a = 0 /\ d = 0
        /\ rsp # <<>> => d = 1 /\ a = 0 /\ b = 0
    BY <2>2, <2>3, Zenon
  <2> QED
    BY <2>4 DEF a, b, d
<1> QED
  BY <1>3, <1>4, <1>5, <1>6

LEMMA InPipe ==
    ASSUME IInv, req # <<>>
    PROVE  /\ waiting /\ flight = <<>> /\ rsp = <<>> /\ Tail(req) = <<>>
           /\ Elems(req) = {Head(req)} /\ Head(req) \in Frame
           /\ Head(req).id = asks /\ Head(req).op = Cur
           /\ Head(req).seq = chseq[ops[Cur].chan]
<1>1. waiting /\ flight = <<>> /\ rsp = <<>> /\ Len(req) = 1
  BY PlaceLengths
<1>2. req \in Seq(Frame)
  BY DEF IInv, TypeOK
<1>3. Tail(req) = <<>> /\ Elems(req) = {Head(req)} /\ Head(req) \in Frame
  BY <1>1, <1>2, ElemsOne
<1> QED
  BY <1>1, <1>3 DEF IInv, PlaceOK

LEMMA InFlight ==
    ASSUME IInv, flight # <<>>
    PROVE  /\ waiting /\ req = <<>> /\ rsp = <<>>
           /\ Elems(flight) = {flight[1]} /\ flight[1] \in Frame
           /\ flight[1].id = asks /\ flight[1].op = Cur
           /\ flight[1].seq = chseq[ops[Cur].chan]
<1>1. waiting /\ req = <<>> /\ rsp = <<>> /\ Len(flight) = 1
  BY PlaceLengths
<1>2. flight \in Seq(Frame)
  BY DEF IInv, TypeOK
<1>3. Elems(flight) = {flight[1]} /\ flight[1] \in Frame
  BY <1>1, <1>2, ElemsOne
<1> QED
  BY <1>1, <1>3 DEF IInv, PlaceOK

LEMMA Answered ==
    ASSUME IInv, rsp # <<>>
    PROVE  /\ waiting /\ req = <<>> /\ flight = <<>> /\ Tail(rsp) = <<>>
           /\ Elems(rsp) = {Head(rsp)} /\ Head(rsp) \in Answer
<1>1. waiting /\ req = <<>> /\ flight = <<>> /\ Len(rsp) = 1
  BY PlaceLengths
<1>2. rsp \in Seq(Answer)
  BY DEF IInv, TypeOK
<1> QED
  BY <1>1, <1>2, ElemsOne

-----------------------------------------------------------------------------
(* The broker and the line.                                                *)

LEMMA StartStep == ASSUME IInv, Start PROVE IInv'
<1> DEFINE f == Head(req)
<1>1. /\ waiting /\ flight = <<>> /\ rsp = <<>> /\ Tail(req) = <<>>
      /\ f \in Frame /\ f.id = asks /\ f.op = Cur /\ f.seq = chseq[ops[Cur].chan]
  BY InPipe DEF Start
<1>2. UNCHANGED dataVars /\ UNCHANGED <<asks, waiting, rsp, up>>
      /\ down' = Append(down, f) /\ flight' = <<f>> /\ req' = <<>> /\ tries' = 1
  BY <1>1 DEF Start, dataVars, clientVars, wappVars, boardVars
<1>3. LineOK' /\ CopiesOK' /\ down' \in Seq(Frame)
  BY <1>1, <1>2, CopyJoins
<1>4. StreamOK' /\ SequenceOK' /\ SubscribeOK' /\ AllFit' /\ AckedWriteReached'
  BY <1>2, DataUnchanged
<1>5. TypeOK'
  <2>1. flight' \in Seq(Frame) /\ Len(flight') <= 1 /\ req' \in Seq(Frame)
    BY <1>1, <1>2
  <2> QED
    BY <1>2, <1>3, <2>1 DEF IInv, TypeOK, Start, clientVars, wappVars, boardVars
<1>6. PlaceOK'
  <2>1. Elems(flight') = {f} /\ Elems(req') = {} /\ Len(flight') = 1
        /\ Len(req') = 0 /\ Len(rsp') = 0
    BY <1>1, <1>2 DEF Elems
  <2> QED
    BY <1>1, <1>2, <2>1 DEF IInv, PlaceOK, dataVars, Cur
<1>7. DoneOK' /\ AnswersOK'
  BY <1>1, <1>2 DEF IInv, DoneOK, AnswersOK, dataVars, IsWrite, Taken, Has, Cur
<1> QED
  BY <1>3, <1>4, <1>5, <1>6, <1>7 DEF IInv

LEMMA AttemptStep == ASSUME IInv, Attempt PROVE IInv'
<1> DEFINE f == flight[1]
<1>1. /\ waiting
      /\ f \in Frame /\ f.id = asks /\ f.op = Cur /\ f.seq = chseq[ops[Cur].chan]
  BY InFlight DEF Attempt
<1>2. UNCHANGED dataVars /\ UNCHANGED <<asks, waiting, req, rsp, flight, up>>
      /\ down' = Append(down, f) /\ tries' = tries + 1
  BY DEF Attempt, dataVars, clientVars, wappVars, boardVars
<1>3. LineOK' /\ CopiesOK' /\ down' \in Seq(Frame)
  BY <1>1, <1>2, CopyJoins
<1>4. StreamOK' /\ SequenceOK' /\ SubscribeOK' /\ AllFit' /\ AckedWriteReached'
  BY <1>2, DataUnchanged
<1>5. TypeOK'
  <2>1. tries' \in 0 .. REPLY_TRIES
    BY <1>2 DEF IInv, TypeOK, Attempt
  <2> QED
    BY <1>2, <1>3, <2>1 DEF IInv, TypeOK, Attempt, clientVars, wappVars, boardVars
<1>6. PlaceOK' /\ DoneOK' /\ AnswersOK'
  BY <1>2 DEF IInv, PlaceOK, DoneOK, AnswersOK, dataVars, IsWrite, Taken, Has, Cur
<1> QED
  BY <1>3, <1>4, <1>5, <1>6 DEF IInv

LEMMA AnswersLeave ==
    ASSUME IInv, up' = up \/ (up # <<>> /\ up' = Tail(up))
    PROVE  up' \in Seq(Answer) /\ Elems(up') \subseteq Elems(up)
<1>1. up \in Seq(Answer)
  BY DEF IInv, TypeOK
<1>2. CASE up' = up
  BY <1>1, <1>2
<1>3. CASE up # <<>> /\ up' = Tail(up)
  BY <1>1, <1>3, ElemsTail
<1> QED
  BY <1>2, <1>3

\* The broker passes an answer on, or gives its own when it gives up.
LEMMA AnswerStep ==
    ASSUME IInv, NEW a \in Answer, flight # <<>> \/ req # <<>>,
           a.ok /\ IsWrite(Cur) => Taken(Cur),
           UNCHANGED dataVars,
           UNCHANGED <<asks, waiting, tries, opened, takes, down>>,
           rsp' = Append(rsp, a), flight' = <<>>, req' = <<>>,
           up' = up \/ (up # <<>> /\ up' = Tail(up))
    PROVE  IInv'
<1>a. asks' = asks /\ waiting' = waiting /\ tries' = tries /\ down' = down
      /\ opened' = opened /\ takes' = takes
  OBVIOUS
<1>1. waiting /\ rsp = <<>>
  BY PlaceLengths
<1>2. rsp' \in Seq(Answer) /\ Elems(rsp') = {a} /\ Len(rsp') = 1
  BY <1>1 DEF Elems
<1>3. up' \in Seq(Answer) /\ Elems(up') \subseteq Elems(up)
  BY AnswersLeave
<1>4. LineOK' /\ CopiesOK' /\ down' \in Seq(Frame)
  BY LineShrinks
<1>5. StreamOK' /\ SequenceOK' /\ SubscribeOK' /\ AllFit' /\ AckedWriteReached'
  BY DataUnchanged
<1>6. TypeOK'
  <2>1. flight' \in Seq(Frame) /\ Len(flight') <= 1 /\ req' \in Seq(Frame)
    OBVIOUS
  <2> QED
    BY <1>2, <1>3, <1>4, <2>1 DEF IInv, TypeOK, dataVars
<1>7. PlaceOK'
  <2>1. Elems(flight') = {} /\ Elems(req') = {} /\ Len(flight') = 0 /\ Len(req') = 0
    BY <1>1 DEF Elems
  <2> QED
    BY <1>1, <1>2, <2>1 DEF IInv, PlaceOK, dataVars, Cur
<1>8. DoneOK' /\ AnswersOK'
  BY <1>2, <1>3 DEF IInv, DoneOK, AnswersOK, dataVars, IsWrite, Taken, Has, Cur
<1> QED
  BY <1>4, <1>5, <1>6, <1>7, <1>8 DEF IInv

LEMMA BrokerFailsStep == ASSUME IInv, BrokerFails PROVE IInv'
<1>1. [id |-> flight[1].id, ok |-> FALSE] \in Answer
  BY InFlight DEF BrokerFails, Frame, Answer
<1>2. req' = <<>>
  BY InFlight DEF BrokerFails
<1>3. /\ UNCHANGED dataVars
      /\ UNCHANGED <<asks, waiting, tries, opened, takes, down>>
      /\ rsp' = Append(rsp, [id |-> flight[1].id, ok |-> FALSE])
      /\ flight' = <<>> /\ flight # <<>> /\ up' = up
  BY DEF BrokerFails, dataVars, clientVars, wappVars, boardVars
<1>4. [id |-> flight[1].id, ok |-> FALSE].ok = FALSE
  OBVIOUS
<1> QED
  BY <1>1, <1>2, <1>3, <1>4, AnswerStep

LEMMA RefuseStep == ASSUME IInv, Refuse PROVE IInv'
<1>1. [id |-> Head(req).id, ok |-> FALSE] \in Answer
  BY InPipe DEF Refuse, Frame, Answer
<1>2. req' = <<>> /\ flight' = <<>>
  BY InPipe DEF Refuse, brokerVars
<1>3. /\ UNCHANGED dataVars
      /\ UNCHANGED <<asks, waiting, tries, opened, takes, down>>
      /\ rsp' = Append(rsp, [id |-> Head(req).id, ok |-> FALSE])
      /\ req # <<>> /\ up' = up
  BY DEF Refuse, dataVars, clientVars, wappVars, brokerVars, boardVars
<1>4. [id |-> Head(req).id, ok |-> FALSE].ok = FALSE
  OBVIOUS
<1> QED
  BY <1>1, <1>2, <1>3, <1>4, AnswerStep

\* Frames leave the line.
LEMMA LineStep ==
    ASSUME IInv, UNCHANGED <<clientVars, wappVars, req, rsp, brokerVars, boardVars>>,
           down' = down \/ (down # <<>> /\ down' = Tail(down)),
           up' = up \/ (up # <<>> /\ up' = Tail(up))
    PROVE  IInv'
<1> USE DEF clientVars, wappVars, brokerVars, boardVars
<1>1. UNCHANGED dataVars
  BY DEF dataVars
<1>2. up' \in Seq(Answer) /\ Elems(up') \subseteq Elems(up)
  BY AnswersLeave
<1>3. LineOK' /\ CopiesOK' /\ down' \in Seq(Frame)
  BY <1>1, LineShrinks
<1>4. StreamOK' /\ SequenceOK' /\ SubscribeOK' /\ AllFit' /\ AckedWriteReached'
  BY <1>1, DataUnchanged
<1>5. TypeOK'
  BY <1>2, <1>3 DEF IInv, TypeOK
<1>6. PlaceOK' /\ DoneOK'
  BY DEF IInv, PlaceOK, DoneOK, IsWrite, Cur
<1>7. AnswersOK'
  BY <1>2 DEF IInv, AnswersOK, IsWrite, Taken, Has, Cur
<1> QED
  BY <1>3, <1>4, <1>5, <1>6, <1>7 DEF IInv

LEMMA OnReplyStep == ASSUME IInv, OnReply PROVE IInv'
<1>1. Head(up) \in Answer /\ Head(up) \in Elems(up)
  BY ElemsTail DEF IInv, TypeOK, OnReply
<1>2. CASE flight # <<>> /\ flight[1].id = Head(up).id
  <2>1. Head(up).ok /\ IsWrite(Cur) => Taken(Cur)
    BY <1>1, <1>2, InFlight DEF IInv, AnswersOK
  <2>2. req' = <<>>
    BY <1>2, InFlight DEF OnReply
  <2>3. /\ UNCHANGED dataVars
        /\ UNCHANGED <<asks, waiting, tries, opened, takes, down>>
        /\ rsp' = Append(rsp, Head(up)) /\ flight' = <<>>
        /\ up # <<>> /\ up' = Tail(up)
    BY <1>2 DEF OnReply, dataVars, clientVars, wappVars, boardVars
  <2> QED
    BY <1>1, <1>2, <2>1, <2>2, <2>3, AnswerStep
<1>3. CASE ~(flight # <<>> /\ flight[1].id = Head(up).id)
  <2>1. /\ UNCHANGED <<clientVars, wappVars, req, rsp, brokerVars, boardVars>>
        /\ up # <<>> /\ up' = Tail(up) /\ down' = down
    BY <1>3 DEF OnReply, brokerVars
  <2> QED
    BY <2>1, LineStep
<1> QED
  BY <1>2, <1>3

LEMMA LoseStep == ASSUME IInv, Lose PROVE IInv'
<1>1. UNCHANGED <<clientVars, wappVars, req, rsp, brokerVars, boardVars>>
  BY DEF Lose
<1>2. CASE down # <<>> /\ down' = Tail(down) /\ up' = up
  BY <1>1, <1>2, LineStep
<1>3. CASE up # <<>> /\ up' = Tail(up) /\ down' = down
  BY <1>1, <1>3, LineStep
<1> QED
  BY <1>2, <1>3 DEF Lose

-----------------------------------------------------------------------------
(* tg-usb and its clients.                                                 *)

LEMMA NewOpStep ==
    ASSUME IInv, CallersRepeat, NEW kind \in Kinds, NEW c \in Channels,
           kind # "write" => ~WrittenTo(c), NewOp(kind, c, TRUE)
    PROVE  IInv'
<1> DEFINE r == [kind |-> kind, chan |-> c, fits |-> TRUE]
           f == [id |-> asks + 1, op |-> Cur + 1, seq |-> chseq[c]]
<1> USE DEF IInv
<1>1. /\ ~waiting /\ waiting' = TRUE /\ Cur < MaxOps /\ asks < MaxAsks
      /\ asks' = asks + 1 /\ ops' = Append(ops, r) /\ req' = Append(req, f)
      /\ said' = said /\ chseq' = chseq /\ rsp' = rsp /\ flight' = flight
      /\ tries' = tries /\ down' = down /\ up' = up /\ opened' = opened
      /\ chan' = chan /\ last' = last /\ valid' = valid /\ stream' = stream
      /\ takes' = takes
  BY DEF NewOp, SendAsk, brokerVars, boardVars, Cur
<1>2. /\ Cur \in Nat /\ DOMAIN ops = 1 .. Cur /\ DOMAIN ops \subseteq Ops
      /\ asks \in Nat /\ MaxOps \in Nat /\ MaxAsks \in Nat
      /\ Cur + 1 \in Ops /\ f \in Frame
  <2>1. Cur \in Nat /\ DOMAIN ops = 1 .. Cur /\ DOMAIN ops \subseteq Ops
    BY Typed
  <2>2. asks \in Nat /\ MaxOps \in Nat /\ MaxAsks \in Nat /\ chseq[c] \in Seqs
    BY DEF TypeOK
  <2>3. Cur + 1 \in Ops /\ asks + 1 \in 1 .. MaxAsks
    BY <1>1, <2>1, <2>2 DEF Ops
  <2> QED
    BY <2>1, <2>2, <2>3 DEF Frame
<1>3. req = <<>> /\ flight = <<>> /\ rsp = <<>> /\ req' = <<f>>
  BY <1>1 DEF PlaceOK
<1>4. /\ ops' \in Seq(OpRecord) /\ Cur' = Cur + 1 /\ DOMAIN ops' = 1 .. Cur + 1
      /\ \A n \in 1 .. Cur : ops'[n] = ops[n]
      /\ ops'[Cur + 1] = r
  <2>1. ops \in Seq(OpRecord) /\ r \in OpRecord
    BY DEF TypeOK, OpRecord
  <2> QED
    BY <1>1, <2>1 DEF Cur
<1>5. \A n \in 1 .. Cur : n \in DOMAIN ops' /\ (n \in DOMAIN ops)
  BY <1>2, <1>4
<1>6. /\ Elems(req') = {f} /\ Elems(flight') = {} /\ Elems(rsp') = {}
      /\ Len(req') = 1 /\ Len(flight') = 0 /\ Len(rsp') = 0
  BY <1>1, <1>3 DEF Elems
<1>7. said[Cur + 1] = "none"
  BY <1>2 DEF DoneOK
<1>8. IsWrite(Cur) => said[Cur] = "ok"
  <2>1. SUFFICES ASSUME IsWrite(Cur) PROVE said[Cur] = "ok"
    OBVIOUS
  <2>2. Cur \in Ops /\ said[Cur] # "none" /\ Cur \in DOMAIN ops
    BY <1>1, <1>2, <2>1 DEF DoneOK, IsWrite
  <2>3. ~Unresolved
    BY DEF NewOp
  <2>4. ops # <<>>
    BY <2>2
  <2>5. said[Cur] # "failed"
    BY <2>1, <2>3, <2>4 DEF Unresolved, IsWrite, Cur
  <2> QED
    BY <2>2, <2>5 DEF TypeOK
<1>9. TypeOK'
  <2>1. req' \in Seq(Frame)
    BY <1>2, <1>3
  <2>2. Len(ops') <= MaxOps /\ asks' \in 0 .. MaxAsks /\ waiting' \in BOOLEAN
    BY <1>1, <1>2, <1>4 DEF Cur
  <2>3. ops' \in Seq([kind : Kinds, chan : Channels, fits : BOOLEAN])
    BY <1>4 DEF OpRecord
  <2> QED
    BY <1>1, <2>1, <2>2, <2>3 DEF TypeOK
<1>10. PlaceOK'
  BY <1>1, <1>2, <1>4, <1>6, <1>7 DEF PlaceOK
<1>11. DoneOK'
  <2>1. ASSUME NEW n \in Ops, n < Cur + 1, n \in DOMAIN ops', ops'[n].kind = "write"
        PROVE  said[n] = "ok"
    <3>1. n \in 1 .. Cur /\ n \in DOMAIN ops /\ IsWrite(n)
      BY <1>2, <1>4, <2>1 DEF Ops, IsWrite
    <3>2. CASE n = Cur
      BY <1>8, <3>1, <3>2
    <3>3. CASE n < Cur
      BY <3>1, <3>3 DEF DoneOK
    <3> QED
      BY <1>2, <2>1, <3>1, <3>2, <3>3
  <2>2. \A n \in Ops : n > Cur + 1 => said[n] = "none"
    BY <1>2 DEF DoneOK, Ops
  <2> QED
    BY <1>1, <1>4, <2>1, <2>2 DEF DoneOK, IsWrite
<1>12. LineOK'
  <2>1. \A g \in Elems(down) :
            /\ g.op \in 1 .. Cur /\ g.id <= asks
            /\ \A d \in Channels : \A p \in Elems(stream[d]) : p.op <= g.op
    BY <1>2 DEF LineOK
  <2>2. \A g \in Elems(down) :
            /\ g.op \in DOMAIN ops' /\ g.id <= asks + 1
            /\ g.id # asks + 1 /\ g.op # Cur + 1
    <3>1. \A g \in Elems(down) : g.id \in Int
      BY Typed DEF Frame
    <3> QED
      BY <1>2, <1>4, <2>1, <3>1
  <2> QED
    BY <1>1, <1>4, <2>1, <2>2 DEF LineOK
<1>13. StreamOK'
  <2>1. \A d \in Channels : \A p \in Elems(stream[d]) :
            p.op \in 1 .. Cur /\ ops[p.op].kind = "write" /\ ops[p.op].chan = d
    BY <1>2 DEF StreamOK, IsWrite
  <2> QED
    BY <1>1, <1>4, <1>5, <2>1 DEF StreamOK, IsWrite
<1>14. CopiesOK'
  <2>1. \A g \in Elems(down) : g.op \in 1 .. Cur /\ ops'[g.op] = ops[g.op]
    BY <1>2, <1>4 DEF LineOK
  <2> QED
    BY <1>1, <1>2, <2>1 DEF CopiesOK, IsWrite, Taken, Has, Seen
<1>15. \A d \in Channels : WrittenTo(d) => WrittenTo(d)'
  BY <1>2, <1>4, <1>5 DEF WrittenTo
<1>16. SequenceOK'
  <2>1. valid => WrittenTo(chan)
    BY DEF SequenceOK
  <2>2. valid => WrittenTo(chan)'
    BY <1>1, <1>2, <1>4, <1>5, <2>1 DEF WrittenTo
  <2>3. \A d \in Channels : ~Pending(d)
    BY <1>8 DEF Pending
  <2>4. \A d \in Channels : valid /\ chan = d => chseq[d] = (last + 1) % SEQ_MOD
    BY <2>3 DEF SequenceOK
  <2>5. \A d \in Channels : \A p \in Elems(stream[d]) : p.op # Cur + 1
    BY <1>2 DEF StreamOK, IsWrite
  <2>6. ~Taken(Cur)'
    <3>1. Cur' = Cur + 1 /\ ops'[Cur + 1] = r /\ stream' = stream /\ r.chan = c
      BY <1>1, <1>4
    <3> HIDE DEF r
    <3>2. [op |-> Cur + 1, whole |-> TRUE].op = Cur + 1
      OBVIOUS
    <3>3. [op |-> Cur + 1, whole |-> TRUE] \notin Elems(stream[c])
      BY <2>5, <3>2
    <3>4. Taken(Cur)' <=> [op |-> Cur + 1, whole |-> TRUE] \in Elems(stream[c])
      BY <3>1 DEF Taken, Has, Elems
    <3> QED
      BY <3>3, <3>4
  <2> QED
    BY <1>1, <2>2, <2>4, <2>6 DEF SequenceOK, WrittenTo
<1>17. SubscribeOK'
  <2>1. \A d \in Channels : ~WrittenTo(d)' => chseq'[d] = 0
    BY <1>1, <1>15 DEF SubscribeOK
  <2>2. ASSUME NEW n \in DOMAIN ops', ops'[n].kind # "write",
               NEW m \in 1 .. n, m \in DOMAIN ops', ops'[m].kind = "write"
        PROVE  ops'[m].chan # ops'[n].chan
    <3>1. n \in 1 .. Cur + 1 /\ m \in 1 .. Cur + 1 /\ m # n
      BY <1>2, <1>4, <2>2
    <3>2. CASE n = Cur + 1
      <4>1. m \in 1 .. Cur /\ m \in DOMAIN ops /\ ops'[m] = ops[m] /\ ops'[n] = r
        BY <1>2, <1>4, <3>1, <3>2
      <4>2. ~WrittenTo(c)
        BY <2>2, <4>1
      <4> QED
        BY <2>2, <4>1, <4>2 DEF WrittenTo
    <3>3. CASE n # Cur + 1
      <4>1. /\ n \in DOMAIN ops /\ ops'[n] = ops[n]
            /\ m \in DOMAIN ops /\ ops'[m] = ops[m]
        BY <1>2, <1>4, <2>2, <3>1, <3>3
      <4> QED
        BY <2>2, <4>1 DEF SubscribeOK, IsWrite
    <3> QED
      BY <3>2, <3>3
  <2> QED
    BY <2>1, <2>2 DEF SubscribeOK, IsWrite
<1>18. AnswersOK'
  <2>1. \A a \in Elems(up) : a.id <= asks /\ a.id # asks + 1
    BY <1>2 DEF AnswersOK
  <2> QED
    <3>1. \A a \in Elems(up) : a.id \in Int
      BY Typed DEF Answer
    <3> QED
      BY <1>1, <1>2, <1>6, <2>1, <3>1 DEF AnswersOK
<1>19. AllFit'
  BY <1>2, <1>4 DEF AllFit
<1>20. AckedWriteReached'
  <2>1. ASSUME NEW n \in Ops, n \in DOMAIN ops', ops'[n].kind = "write", said[n] = "ok"
        PROVE  Has(ops'[n].chan, n, TRUE)
    <3>1. n \in 1 .. Cur /\ n \in DOMAIN ops /\ ops'[n] = ops[n]
      BY <1>2, <1>4, <1>7, <2>1
    <3> QED
      BY <2>1, <3>1 DEF AckedWriteReached, IsWrite, Taken
  <2> QED
    BY <1>1, <2>1 DEF AckedWriteReached, IsWrite, Taken, Has
<1> QED
  BY <1>9, <1>10, <1>11, <1>12, <1>13, <1>14, <1>16, <1>17, <1>18, <1>19, <1>20

LEMMA RepeatStep == ASSUME IInv, Repeat PROVE IInv'
<1> DEFINE c == ops[Cur].chan
           f == [id |-> asks + 1, op |-> Cur, seq |-> chseq[c]]
<1> USE DEF IInv
<1>1. /\ ~waiting /\ waiting' = TRUE /\ asks < MaxAsks
      /\ asks' = asks + 1 /\ req' = Append(req, f)
      /\ UNCHANGED dataVars /\ rsp' = rsp /\ flight' = flight
      /\ tries' = tries /\ down' = down /\ up' = up /\ opened' = opened
      /\ takes' = takes
  BY DEF Repeat, SendAsk, clientVars, brokerVars, boardVars, dataVars, Cur
<1>2. /\ Cur \in Nat /\ DOMAIN ops = 1 .. Cur /\ asks \in Nat
      /\ Cur \in DOMAIN ops /\ Cur \in Ops /\ c \in Channels /\ said[Cur] = "failed"
  <2>1. Cur \in Nat /\ DOMAIN ops = 1 .. Cur /\ DOMAIN ops \subseteq Ops
        /\ \A n \in DOMAIN ops : ops[n].chan \in Channels
    BY Typed
  <2>2. ops # <<>> /\ said[Cur] = "failed"
    BY DEF Repeat, Unresolved, Cur
  <2>3. Cur # 0
    BY <2>2, EmptySeq DEF TypeOK, Cur
  <2>4. Cur \in DOMAIN ops /\ Cur \in Ops
    BY <2>1, <2>3
  <2>5. asks \in Nat
    BY DEF TypeOK
  <2> QED
    BY <2>1, <2>2, <2>4, <2>5
<1>3. f \in Frame
  BY <1>1, <1>2 DEF TypeOK, Frame
<1>4. req = <<>> /\ flight = <<>> /\ rsp = <<>> /\ req' = <<f>>
  BY <1>1 DEF PlaceOK
<1>5. StreamOK' /\ SequenceOK' /\ SubscribeOK' /\ AllFit' /\ AckedWriteReached'
  BY <1>1, DataUnchanged
<1>6. TypeOK'
  <2>1. req' \in Seq(Frame) /\ asks' \in 0 .. MaxAsks /\ waiting' \in BOOLEAN
    BY <1>1, <1>2, <1>3, <1>4 DEF TypeOK
  <2> QED
    BY <1>1, <2>1 DEF TypeOK, dataVars
<1>7. PlaceOK'
  <2>1. /\ Elems(req') = {f} /\ Elems(flight') = {} /\ Len(req') = 1
        /\ Len(flight') = 0 /\ Len(rsp') = 0
    BY <1>1, <1>4 DEF Elems
  <2> QED
    BY <1>1, <1>2, <2>1 DEF PlaceOK, dataVars, Cur
<1>8. DoneOK' /\ CopiesOK'
  BY <1>1 DEF DoneOK, CopiesOK, dataVars, IsWrite, Taken, Has, Seen, Cur
<1>9. LineOK'
  <2>1. \A g \in Elems(down) : g.id <= asks + 1 /\ g.id # asks + 1
    <3>1. \A g \in Elems(down) : g.id \in Int
      BY Typed DEF Frame
    <3> QED
      BY <1>2, <3>1 DEF LineOK
  <2> QED
    BY <1>1, <2>1 DEF LineOK, dataVars, IsWrite, Cur
<1>10. AnswersOK'
  <2>1. \A a \in Elems(up) : a.id <= asks + 1 /\ a.id # asks + 1
    <3>1. \A a \in Elems(up) : a.id \in Int
      BY Typed DEF Answer
    <3> QED
      BY <1>2, <3>1 DEF AnswersOK
  <2>2. Elems(rsp') = {}
    BY <1>1, <1>4, ElemsEmpty
  <2> QED
    BY <1>1, <2>1, <2>2 DEF AnswersOK
<1> QED
  BY <1>5, <1>6, <1>7, <1>8, <1>9, <1>10

LEMMA TakeReplyStep == ASSUME IInv, TakeReply PROVE IInv'
<1> DEFINE a == Head(rsp)
           c == ops[Cur].chan
           won == a.ok /\ ops[Cur].kind = "write"
<1> USE DEF IInv
<1>1. /\ waiting /\ rsp # <<>> /\ rsp' = Tail(rsp) /\ waiting' = FALSE
      /\ said' = [said EXCEPT ![Cur] = IF a.ok THEN "ok" ELSE "failed"]
      /\ chseq' = SeqAfter(ops[Cur], a.ok)
      /\ ops' = ops /\ asks' = asks /\ req' = req /\ flight' = flight
      /\ tries' = tries /\ down' = down /\ up' = up /\ opened' = opened
      /\ chan' = chan /\ last' = last /\ valid' = valid /\ stream' = stream
      /\ takes' = takes
  BY DEF TakeReply, brokerVars, boardVars, Cur
<1>2. req = <<>> /\ flight = <<>> /\ Tail(rsp) = <<>> /\ a \in Elems(rsp) /\ a \in Answer
  BY <1>1, Answered
<1>3. /\ Cur \in Nat /\ DOMAIN ops = 1 .. Cur /\ Cur' = Cur
      /\ Cur \in DOMAIN ops /\ Cur \in Ops /\ c \in Channels /\ said[Cur] # "ok"
      /\ ops[Cur].kind \in Kinds
  <2>1. Cur \in Nat /\ DOMAIN ops = 1 .. Cur /\ DOMAIN ops \subseteq Ops
        /\ \A n \in DOMAIN ops : ops[n] \in OpRecord /\ ops[n].chan \in Channels
    BY Typed
  <2>2. Cur > 0 /\ said[Cur] # "ok"
    BY <1>1 DEF PlaceOK
  <2>3. Cur \in DOMAIN ops /\ Cur' = Cur
    BY <1>1, <2>1, <2>2 DEF Cur
  <2>4. \A x \in OpRecord : x.kind \in Kinds
    BY DEF OpRecord
  <2> QED
    BY <2>1, <2>2, <2>3, <2>4
<1>4. /\ \A n \in Ops : n # Cur => said'[n] = said[n]
      /\ said'[Cur] = IF a.ok THEN "ok" ELSE "failed"
      /\ said' \in [Ops -> {"none", "ok", "failed"}]
  BY <1>1, <1>3 DEF TypeOK
<1>5. won => Taken(Cur) /\ valid /\ chan = c /\ last = chseq[c]
  <2>1. SUFFICES ASSUME won PROVE Taken(Cur) /\ valid /\ chan = c /\ last = chseq[c]
    OBVIOUS
  <2>2. IsWrite(Cur)
    BY <1>3, <2>1 DEF IsWrite
  <2>3. Taken(Cur)
    BY <1>2, <2>1, <2>2 DEF AnswersOK
  <2>4. Pending(c)
    BY <1>3, <2>2 DEF Pending
  <2> QED
    BY <1>3, <2>3, <2>4 DEF SequenceOK
<1>6. ops[Cur].kind # "write" => chseq[c] = 0
  <2>1. SUFFICES ASSUME ops[Cur].kind # "write" PROVE chseq[c] = 0
    OBVIOUS
  <2>2. \A m \in 1 .. Cur : IsWrite(m) => ops[m].chan # c
    BY <1>3, <2>1 DEF SubscribeOK
  <2>3. ~WrittenTo(c)
    BY <1>3, <2>2 DEF WrittenTo, IsWrite
  <2> QED
    BY <1>3, <2>3 DEF SubscribeOK
<1>7. /\ ~won => chseq' = chseq
      /\ won => chseq' = [chseq EXCEPT ![c] = (chseq[c] + 1) % SEQ_MOD]
  BY <1>1, <1>3, <1>6 DEF SeqAfter, TypeOK
<1>8. /\ chseq' \in [Channels -> Seqs]
      /\ \A d \in Channels : ~won \/ d # c => chseq'[d] = chseq[d]
      /\ won => chseq'[c] = (chseq[c] + 1) % SEQ_MOD
  <2>1. chseq \in [Channels -> Seqs] /\ chseq[c] \in Int
    <3>1. chseq \in [Channels -> Seqs]
      BY DEF TypeOK
    <3>2. chseq[c] \in Seqs
      BY <1>3, <3>1
    <3> QED
      BY <3>1, <3>2 DEF Seqs
  <2> DEFINE s == (chseq[c] + 1) % SEQ_MOD
  <2>2. s \in Seqs
    BY <2>1, ModInSeqs
  <2> HIDE DEF s
  <2>3. CASE ~won
    BY <1>7, <2>1, <2>3
  <2>4. CASE won
    <3>1. chseq' = [chseq EXCEPT ![c] = s]
      BY <1>7, <2>4 DEF s
    <3>2. chseq' \in [Channels -> Seqs] /\ chseq'[c] = s
          /\ \A d \in Channels : d # c => chseq'[d] = chseq[d]
      BY <1>3, <2>1, <2>2, <3>1
    <3> QED
      BY <2>4, <3>2 DEF s
  <2> QED
    BY <2>3, <2>4
<1>9. TypeOK'
  <2>1. rsp' \in Seq(Answer)
    BY <1>1, ElemsTail DEF TypeOK
  <2>2. /\ said' \in [Ops -> {"none", "ok", "failed"}]
        /\ chseq' \in [Channels -> Seqs]
        /\ waiting' \in BOOLEAN
    BY <1>1, <1>4, <1>8
  <2>3. UNCHANGED <<ops, asks, req, flight, tries, down, up, opened, chan, last,
                    valid, stream, takes>>
    BY <1>1
  <2> QED
    BY <2>1, <2>2, <2>3 DEF TypeOK
<1>10. PlaceOK'
  BY <1>1, <1>2, ElemsEmpty DEF PlaceOK
<1>11. DoneOK'
  BY <1>1, <1>3, <1>4 DEF DoneOK, IsWrite
<1>12. LineOK'
  <2>1. ASSUME NEW f \in Elems(down), f.op = Cur, IsWrite(Cur), said'[Cur] # "ok"
        PROVE  f.seq = chseq'[c]
    <3>1. ~won
      BY <1>4, <2>1
    <3> QED
      BY <1>3, <1>8, <2>1, <3>1 DEF LineOK
  <2> QED
    BY <1>1, <1>3, <2>1 DEF LineOK, IsWrite
<1>13. StreamOK' /\ CopiesOK' /\ AllFit'
  BY <1>1 DEF StreamOK, CopiesOK, AllFit, IsWrite, Taken, Has, Seen
<1>14. SequenceOK'
  <2>1. (valid => WrittenTo(chan))'
    BY <1>1 DEF SequenceOK, WrittenTo
  <2>2. ASSUME NEW d \in Channels
        PROVE  IF Pending(d)' /\ Taken(Cur)'
               THEN valid /\ chan = d /\ last = chseq'[d]
               ELSE valid /\ chan = d => chseq'[d] = (last + 1) % SEQ_MOD
    <3>1. CASE won
      <4>1. said'[Cur] = "ok"
        BY <1>4, <3>1
      <4>2. ~Pending(d)'
        BY <1>3, <4>1 DEF Pending
      <4> QED
        BY <1>5, <1>8, <3>1, <4>2
    <3>2. CASE ~won
      <4>1. /\ Pending(d)' <=> Pending(d)
            /\ Taken(Cur)' <=> Taken(Cur)
            /\ chseq'[d] = chseq[d]
        <5>1. IsWrite(Cur) => said'[Cur] # "ok"
          BY <1>4, <3>2 DEF IsWrite
        <5> QED
          BY <1>1, <1>3, <1>8, <3>2, <5>1 DEF Pending, IsWrite, Taken, Has
      <4> QED
        BY <4>1 DEF SequenceOK
    <3> QED
      BY <3>1, <3>2
  <2> QED
    BY <1>1, <2>1, <2>2 DEF SequenceOK
<1>15. SubscribeOK'
  <2>1. won => WrittenTo(c)
    BY <1>3 DEF WrittenTo
  <2>2. \A d \in Channels : ~WrittenTo(d) => chseq'[d] = 0
    BY <1>8, <2>1 DEF SubscribeOK
  <2> QED
    BY <1>1, <2>2 DEF SubscribeOK, IsWrite, WrittenTo
<1>16. AnswersOK'
  <2>1. Elems(rsp') = {}
    BY <1>1, <1>2, ElemsEmpty
  <2> QED
    BY <1>1, <1>3, <2>1 DEF AnswersOK, IsWrite, Taken, Has
<1>17. AckedWriteReached'
  <2>1. ASSUME NEW n \in Ops, IsWrite(n), said'[n] = "ok"
        PROVE  Taken(n)
    <3>1. CASE n = Cur
      BY <1>4, <1>5, <2>1, <3>1 DEF IsWrite
    <3>2. CASE n # Cur
      BY <1>4, <2>1, <3>2 DEF AckedWriteReached
    <3> QED
      BY <3>1, <3>2
  <2> QED
    BY <1>1, <2>1 DEF AckedWriteReached, IsWrite, Taken, Has
<1> QED
  BY <1>9, <1>10, <1>11, <1>12, <1>13, <1>14, <1>15, <1>16, <1>17

-----------------------------------------------------------------------------
(* The board.                                                              *)

Front == Head(down)

LEMMA Received ==
    ASSUME IInv, down # <<>>
    PROVE  /\ Cur \in Nat /\ DOMAIN ops = 1 .. Cur /\ DOMAIN ops \subseteq Ops
           /\ Cur \in Ops /\ Cur \in DOMAIN ops
           /\ Front \in Frame /\ Front \in Elems(down) /\ Front.op \in DOMAIN ops
           /\ ops[Front.op] \in OpRecord /\ ops[Front.op].chan \in Channels
           /\ Tail(down) \in Seq(Frame) /\ Sorted(Tail(down))
           /\ Elems(Tail(down)) \subseteq Elems(down)
           /\ \A g \in Elems(Tail(down)) : Front.op <= g.op /\ g.op \in 1 .. Cur
<1>1. down \in Seq(Frame) /\ Sorted(down)
  BY DEF IInv, TypeOK, LineOK, Sorted
<1>2. /\ Front \in Frame /\ Front \in Elems(down)
      /\ Tail(down) \in Seq(Frame) /\ Sorted(Tail(down))
      /\ Elems(Tail(down)) \subseteq Elems(down)
      /\ \A g \in Elems(Tail(down)) : Front.op <= g.op
  BY <1>1, ElemsTail, SortedTail DEF Front
<1>3. \A g \in Elems(down) : g.op \in DOMAIN ops
  BY DEF IInv, LineOK
<1>4. /\ Cur \in Nat /\ DOMAIN ops = 1 .. Cur /\ DOMAIN ops \subseteq Ops
      /\ \A n \in DOMAIN ops : ops[n] \in OpRecord /\ ops[n].chan \in Channels
  BY Typed DEF IInv
<1>5. Cur \in DOMAIN ops /\ Cur \in Ops
  <2>1. Front.op \in 1 .. Cur
    BY <1>2, <1>3, <1>4
  <2>2. Cur \in 1 .. Cur
    BY <1>4, <2>1
  <2> QED
    BY <1>4, <2>2
<1> QED
  BY <1>2, <1>3, <1>4, <1>5

LEMMA AnswerJoins ==
    ASSUME IInv, NEW a \in Answer, up' = Append(up, a)
    PROVE  up' \in Seq(Answer) /\ Elems(up') = Elems(up) \cup {a}
<1>1. up \in Seq(Answer)
  BY DEF IInv, TypeOK
<1> QED
  BY <1>1, ElemsAppend

\* What the board leaves alone.
restVars == <<clientVars, wappVars, req, rsp, brokerVars>>

\* A frame that changes no sequence and gives a device nothing.
LEMMA IdleStep ==
    ASSUME IInv, UNCHANGED restVars, down # <<>>, down' = Tail(down),
           NEW a \in Answer, a.id = Front.id, up' = Append(up, a),
           a.ok /\ a.id = asks /\ IsWrite(Cur) => Taken(Cur),
           opened' \in SUBSET Channels,
           UNCHANGED <<chan, last, valid, stream, takes>>
    PROVE  IInv'
<1>1. /\ UNCHANGED dataVars
      /\ UNCHANGED <<waiting, asks, req, rsp, flight, tries, takes>>
  BY DEF restVars, dataVars, clientVars, wappVars, brokerVars
<1>2. up' \in Seq(Answer) /\ Elems(up') = Elems(up) \cup {a}
  BY AnswerJoins
<1>3. LineOK' /\ CopiesOK' /\ down' \in Seq(Frame)
  BY <1>1, LineShrinks
<1>4. StreamOK' /\ SequenceOK' /\ SubscribeOK' /\ AllFit' /\ AckedWriteReached'
  BY <1>1, DataUnchanged
<1>5. TypeOK'
  BY <1>1, <1>2, <1>3 DEF IInv, TypeOK, dataVars
<1>6. PlaceOK' /\ DoneOK'
  BY <1>1 DEF IInv, PlaceOK, DoneOK, dataVars, IsWrite, Cur
<1>7. AnswersOK'
  <2>1. a.id <= asks
    BY Received DEF IInv, LineOK
  <2> QED
    BY <1>1, <1>2, <2>1 DEF IInv, AnswersOK, dataVars, IsWrite, Taken, Has, Cur
<1> QED
  BY <1>3, <1>4, <1>5, <1>6, <1>7 DEF IInv

\* A copy of a write the board does not know is of the write tg-usb works on.
LEMMA NewWrite ==
    ASSUME IInv, down # <<>>, IsWrite(Front.op),
           ~IsRepeat(Front, ops[Front.op].chan)
    PROVE  /\ Front.op = Cur /\ IsWrite(Cur) /\ said[Cur] # "ok" /\ ~Taken(Cur)
           /\ Pending(ops[Cur].chan)
           /\ Front.seq = chseq[ops[Cur].chan]
           /\ \A g \in Elems(Tail(down)) :
                  g.op = Cur /\ g.seq = chseq[ops[Cur].chan]
<1> USE DEF IInv
<1>1. ~Taken(Front.op)
  BY Received DEF CopiesOK, Seen, IsRepeat
<1>2. said[Front.op] # "ok"
  BY <1>1, Received DEF AckedWriteReached
<1>3. Front.op = Cur
  <2>1. Front.op \in 1 .. Cur /\ Cur \in Nat /\ Front.op \in Ops
    BY Received
  <2>2. ~(Front.op < Cur)
    BY <1>2, <2>1 DEF DoneOK
  <2> QED
    BY <2>1, <2>2
<1>4. IsWrite(Cur) /\ said[Cur] # "ok" /\ ~Taken(Cur)
  BY <1>1, <1>2, <1>3
<1>5. Pending(ops[Cur].chan)
  BY <1>4 DEF Pending
<1>6. \A g \in Elems(down) : g.op = Cur => g.seq = chseq[ops[Cur].chan]
  BY <1>4 DEF LineOK
<1>7. \A g \in Elems(Tail(down)) : g.op = Cur /\ g \in Elems(down)
  BY <1>3, Received
<1> QED
  BY <1>3, <1>4, <1>5, <1>6, <1>7, Received

LEMMA GainsStep ==
    ASSUME TypeOK, NEW c \in Channels, NEW p \in Piece,
           stream' = [stream EXCEPT ![c] = Append(@, p)]
    PROVE  /\ stream' \in [Channels -> Seq(Piece)]
           /\ \A d \in Channels : d # c => stream'[d] = stream[d]
           /\ Elems(stream'[c]) = Elems(stream[c]) \cup {p}
<1>1. stream \in [Channels -> Seq(Piece)] /\ stream[c] \in Seq(Piece)
  BY DEF TypeOK
<1>2. /\ Append(stream[c], p) \in Seq(Piece)
      /\ Elems(Append(stream[c], p)) = Elems(stream[c]) \cup {p}
  BY <1>1, ElemsAppend
<1>3. /\ stream' \in [Channels -> Seq(Piece)]
      /\ \A d \in Channels : d # c => stream'[d] = stream[d]
      /\ stream'[c] = Append(stream[c], p)
  BY <1>1, <1>2
<1> QED
  BY <1>2, <1>3

LEMMA TakeWriteStep ==
    ASSUME IInv, UNCHANGED restVars, down # <<>>, down' = Tail(down),
           NEW a \in Answer, a.id = Front.id, up' = Append(up, a),
           IsWrite(Front.op), TakeWrite(Front, ops[Front.op].chan)
    PROVE  IInv'
<1> DEFINE c == ops[Cur].chan
           p == [op |-> Cur, whole |-> TRUE]
<1> USE DEF IInv
<1>1. /\ Front.op = Cur /\ IsWrite(Cur) /\ said[Cur] # "ok" /\ ~Taken(Cur)
      /\ Pending(c) /\ Front.seq = chseq[c]
      /\ \A g \in Elems(Tail(down)) : g.op = Cur /\ g.seq = chseq[c]
  BY NewWrite DEF TakeWrite
<1>2. /\ Cur \in Nat /\ DOMAIN ops = 1 .. Cur /\ DOMAIN ops \subseteq Ops
      /\ Cur \in DOMAIN ops /\ Cur \in Ops /\ Front \in Frame /\ Front \in Elems(down)
      /\ c \in Channels /\ Tail(down) \in Seq(Frame) /\ Sorted(Tail(down))
      /\ Elems(Tail(down)) \subseteq Elems(down)
  BY <1>1, Received
<1>3. /\ ops' = ops /\ said' = said /\ waiting' = waiting /\ asks' = asks
      /\ chseq' = chseq /\ req' = req /\ rsp' = rsp /\ flight' = flight
      /\ tries' = tries /\ Cur' = Cur
  BY DEF restVars, clientVars, wappVars, brokerVars, Cur
<1>4. ops[Cur].fits = TRUE
  BY <1>2 DEF AllFit, TypeOK
<1>5. /\ opened' = opened \cup {c} /\ chan' = c /\ last' = chseq[c] /\ valid' = TRUE
      /\ stream' = [stream EXCEPT ![c] = Append(@, p)]
      /\ takes' = [takes EXCEPT ![Front.id] = @ + 1]
  BY <1>1, <1>4 DEF TakeWrite, Select, Gains
<1>6. p \in Piece
  BY <1>2 DEF Piece
<1>7. /\ stream' \in [Channels -> Seq(Piece)]
      /\ \A d \in Channels : d # c => stream'[d] = stream[d]
      /\ Elems(stream'[c]) = Elems(stream[c]) \cup {p}
  BY <1>2, <1>5, <1>6, GainsStep
<1>8. up' \in Seq(Answer) /\ Elems(up') = Elems(up) \cup {a}
  BY AnswerJoins
<1>9. /\ \A d \in Channels : Elems(stream[d]) \subseteq Elems(stream'[d])
      /\ \A d \in Channels : \A q \in Elems(stream'[d]) :
             q \in Elems(stream[d]) \/ (d = c /\ q = p)
      /\ p \in Elems(stream'[c])
  BY <1>7
<1>10. TypeOK'
  <2>1. takes' \in [1 .. MaxAsks -> Nat]
    <3>1. Front.id \in 1 .. MaxAsks /\ takes \in [1 .. MaxAsks -> Nat]
      BY <1>2 DEF TypeOK, Frame
    <3> QED
      BY <1>5, <3>1
  <2>2. opened' \in SUBSET Channels /\ chan' \in Channels \cup {None} /\ valid' \in BOOLEAN
    BY <1>2, <1>5 DEF TypeOK
  <2>3. last' \in Seqs
    BY <1>2, <1>5 DEF TypeOK
  <2>4. down' \in Seq(Frame)
    BY <1>2
  <2> QED
    BY <1>3, <1>7, <1>8, <2>1, <2>2, <2>3, <2>4 DEF TypeOK
<1>11. PlaceOK' /\ DoneOK' /\ SubscribeOK' /\ AllFit'
  BY <1>3 DEF PlaceOK, DoneOK, SubscribeOK, AllFit, IsWrite, WrittenTo
<1>12. LineOK'
  <2>1. \A g \in Elems(down') : \A d \in Channels : \A q \in Elems(stream'[d]) : q.op <= g.op
    <3>1. ASSUME NEW g \in Elems(down'), NEW d \in Channels, NEW q \in Elems(stream'[d])
          PROVE  q.op <= g.op
      <4>1. g \in Elems(down) /\ g.op = Cur
        BY <1>1, <1>2
      <4>2. CASE q \in Elems(stream[d])
        BY <4>1, <4>2 DEF LineOK
      <4>3. CASE q = p
        BY <1>2, <4>1, <4>3
      <4> QED
        BY <1>9, <4>2, <4>3
    <3> QED
      BY <3>1
  <2>2. \A g \in Elems(down') :
            /\ g.op \in DOMAIN ops /\ g.id <= asks
            /\ g.id = asks => g.op = Cur
            /\ g.op = Cur /\ IsWrite(Cur) /\ said[Cur] # "ok" => g.seq = chseq[c]
    BY <1>2 DEF LineOK
  <2> QED
    BY <1>2, <1>3, <2>1, <2>2 DEF LineOK, Sorted, IsWrite
<1>13. StreamOK'
  <2>1. \A d \in Channels : \A q \in Elems(stream'[d]) : IsWrite(q.op) /\ ops[q.op].chan = d
    BY <1>1, <1>9 DEF StreamOK
  <2> QED
    BY <1>3, <2>1 DEF StreamOK, IsWrite
<1>14. /\ \A n \in DOMAIN ops : Taken(n) => Has(ops[n].chan, n, TRUE)'
       /\ Taken(Cur)'
  <2>1. \A n \in DOMAIN ops : ops[n].chan \in Channels
    BY Typed
  <2> QED
    BY <1>3, <1>9, <2>1 DEF Taken, Has
<1>15. CopiesOK'
  <2>1. \A g \in Elems(down') : g.op = Cur /\ g.seq = chseq[c]
    BY <1>1
  <2> QED
    BY <1>3, <1>5, <1>14, <2>1 DEF CopiesOK, Seen, Taken
<1>16. SequenceOK'
  <2>1. WrittenTo(c)
    BY <1>1 DEF WrittenTo, IsWrite
  <2>2. (valid => WrittenTo(chan))'
    BY <1>3, <1>5, <2>1 DEF WrittenTo
  <2>3. ASSUME NEW d \in Channels
        PROVE  IF Pending(d)' /\ Taken(Cur)'
               THEN valid' /\ chan' = d /\ last' = chseq'[d]
               ELSE valid' /\ chan' = d => chseq'[d] = (last' + 1) % SEQ_MOD
    <3>1. CASE d = c
      <4>1. Pending(d)'
        BY <1>1, <1>3, <3>1 DEF Pending, IsWrite
      <4> QED
        BY <1>3, <1>5, <1>14, <3>1, <4>1
    <3>2. CASE d # c
      <4>1. ~Pending(d)'
        BY <1>3, <3>2 DEF Pending
      <4> QED
        BY <1>5, <3>2, <4>1
    <3> QED
      BY <3>1, <3>2
  <2> QED
    BY <2>2, <2>3 DEF SequenceOK
<1>17. AnswersOK'
  <2>1. a.id <= asks
    BY <1>2 DEF LineOK
  <2> QED
    BY <1>3, <1>8, <1>14, <2>1 DEF AnswersOK
<1>18. AckedWriteReached'
  BY <1>2, <1>3, <1>14 DEF AckedWriteReached, IsWrite, Taken
<1> QED
  BY <1>10, <1>11, <1>12, <1>13, <1>15, <1>16, <1>17, <1>18

\* The device takes a part of a write, or nothing.
LEMMA WriteFailsStep ==
    ASSUME IInv, UNCHANGED restVars, down # <<>>, down' = Tail(down),
           NEW a \in Answer, a.id = Front.id, ~a.ok, up' = Append(up, a),
           IsWrite(Front.op), WriteFails(Front, ops[Front.op].chan)
    PROVE  IInv'
<1> DEFINE c == ops[Cur].chan
           p == [op |-> Cur, whole |-> FALSE]
<1> USE DEF IInv
<1>1. /\ Front.op = Cur /\ IsWrite(Cur) /\ said[Cur] # "ok" /\ ~Taken(Cur)
      /\ Pending(c) /\ Front.seq = chseq[c]
      /\ \A g \in Elems(Tail(down)) : g.op = Cur /\ g.seq = chseq[c]
  BY NewWrite DEF WriteFails
<1>2. /\ Cur \in Nat /\ DOMAIN ops = 1 .. Cur /\ DOMAIN ops \subseteq Ops
      /\ Cur \in DOMAIN ops /\ Cur \in Ops /\ Front \in Frame /\ Front \in Elems(down)
      /\ c \in Channels /\ Tail(down) \in Seq(Frame) /\ Sorted(Tail(down))
      /\ Elems(Tail(down)) \subseteq Elems(down)
  BY <1>1, Received
<1>3. /\ ops' = ops /\ said' = said /\ waiting' = waiting /\ asks' = asks
      /\ chseq' = chseq /\ req' = req /\ rsp' = rsp /\ flight' = flight
      /\ tries' = tries /\ Cur' = Cur
  BY DEF restVars, clientVars, wappVars, brokerVars, Cur
<1>5. /\ opened' = opened \cup {c} /\ chan' = c /\ last' = last
      /\ valid' = (valid /\ chan = c) /\ takes' = takes
      /\ stream' = stream \/ stream' = [stream EXCEPT ![c] = Append(@, p)]
  BY <1>1 DEF WriteFails, Open, Select, Gains
<1>6. p \in Piece
  BY <1>2 DEF Piece
<1>7. stream' \in [Channels -> Seq(Piece)]
  BY <1>2, <1>5, <1>6, GainsStep DEF TypeOK
<1>8. up' \in Seq(Answer) /\ Elems(up') = Elems(up) \cup {a}
  BY AnswerJoins
<1>9. /\ \A d \in Channels : Elems(stream[d]) \subseteq Elems(stream'[d])
      /\ \A d \in Channels : \A q \in Elems(stream'[d]) :
             q \in Elems(stream[d]) \/ (d = c /\ q = p)
  <2>1. CASE stream' = stream
    BY <2>1
  <2>2. CASE stream' = [stream EXCEPT ![c] = Append(@, p)]
    <3>1. /\ \A d \in Channels : d # c => stream'[d] = stream[d]
          /\ Elems(stream'[c]) = Elems(stream[c]) \cup {p}
      BY <1>2, <1>6, <2>2, GainsStep
    <3> QED
      BY <3>1
  <2> QED
    BY <1>5, <2>1, <2>2
<1>10. TypeOK'
  <2>1. opened' \in SUBSET Channels /\ chan' \in Channels \cup {None}
    BY <1>2, <1>5 DEF TypeOK
  <2>2. valid' \in BOOLEAN
    BY <1>5, Zenon
  <2>3. down' \in Seq(Frame)
    BY <1>2
  <2> QED
    BY <1>3, <1>5, <1>7, <1>8, <2>1, <2>2, <2>3 DEF TypeOK
<1>11. PlaceOK' /\ DoneOK' /\ SubscribeOK' /\ AllFit'
  BY <1>3 DEF PlaceOK, DoneOK, SubscribeOK, AllFit, IsWrite, WrittenTo
<1>12. LineOK'
  <2>1. \A g \in Elems(down') : \A d \in Channels : \A q \in Elems(stream'[d]) : q.op <= g.op
    <3>1. ASSUME NEW g \in Elems(down'), NEW d \in Channels, NEW q \in Elems(stream'[d])
          PROVE  q.op <= g.op
      <4>1. g \in Elems(down) /\ g.op = Cur
        BY <1>1, <1>2
      <4>2. CASE q \in Elems(stream[d])
        BY <4>1, <4>2 DEF LineOK
      <4>3. CASE q = p
        BY <1>2, <4>1, <4>3
      <4> QED
        BY <1>9, <4>2, <4>3
    <3> QED
      BY <3>1
  <2>2. \A g \in Elems(down') :
            /\ g.op \in DOMAIN ops /\ g.id <= asks
            /\ g.id = asks => g.op = Cur
            /\ g.op = Cur /\ IsWrite(Cur) /\ said[Cur] # "ok" => g.seq = chseq[c]
    BY <1>2 DEF LineOK
  <2> QED
    BY <1>2, <1>3, <2>1, <2>2 DEF LineOK, Sorted, IsWrite
<1>13. StreamOK'
  <2>1. \A d \in Channels : \A q \in Elems(stream'[d]) : IsWrite(q.op) /\ ops[q.op].chan = d
    BY <1>1, <1>9 DEF StreamOK
  <2> QED
    BY <1>3, <2>1 DEF StreamOK, IsWrite
<1>14. \A n \in DOMAIN ops : Taken(n) <=> Has(ops[n].chan, n, TRUE)'
  <2>1. \A n \in DOMAIN ops : ops[n].chan \in Channels
    BY Typed
  <2>2. \A n : [op |-> n, whole |-> TRUE] # p
    OBVIOUS
  <2> QED
    BY <1>3, <1>9, <2>1, <2>2 DEF Taken, Has
<1>15. valid' => valid /\ chan = c /\ chseq[c] = (last + 1) % SEQ_MOD
  BY <1>1, <1>2, <1>5 DEF SequenceOK
<1>16. CopiesOK'
  <2>1. \A g \in Elems(down') : g.op = Cur /\ g.seq = chseq[c]
    BY <1>1
  <2>2. last \in Seqs /\ (last + 1) % SEQ_MOD # last
    <3>1. last \in Seqs
      BY DEF TypeOK
    <3> QED
      BY <3>1, NextDiffers
  <2>3. ~Taken(Cur)'
    BY <1>1, <1>2, <1>3, <1>14 DEF Taken
  <2>4. \A g \in Elems(down') : ~(valid' /\ last = g.seq)
    BY <1>15, <2>1, <2>2
  <2> QED
    BY <1>3, <1>5, <2>1, <2>3, <2>4 DEF CopiesOK, Seen
<1>17. SequenceOK'
  <2>1. WrittenTo(c)
    BY <1>1 DEF WrittenTo, IsWrite
  <2>2. (valid => WrittenTo(chan))'
    BY <1>3, <1>5, <2>1 DEF WrittenTo
  <2>3. ~Taken(Cur)'
    BY <1>1, <1>2, <1>3, <1>14 DEF Taken
  <2> QED
    BY <1>3, <1>5, <1>15, <2>2, <2>3 DEF SequenceOK
<1>18. AnswersOK'
  <2>1. a.id <= asks
    BY <1>2 DEF LineOK
  <2>2. Taken(Cur)' <=> Taken(Cur)
    BY <1>2, <1>3, <1>14 DEF Taken
  <2> QED
    BY <1>3, <1>8, <2>1, <2>2 DEF AnswersOK, IsWrite
<1>19. AckedWriteReached'
  BY <1>2, <1>3, <1>14 DEF AckedWriteReached, IsWrite, Taken
<1> QED
  BY <1>10, <1>11, <1>12, <1>13, <1>16, <1>17, <1>18, <1>19

\* The board opens the device of a subscribe.
LEMMA FollowStep ==
    ASSUME IInv, UNCHANGED restVars, down # <<>>, down' = Tail(down),
           NEW a \in Answer, a.id = Front.id, up' = Append(up, a),
           ~IsWrite(Front.op), Open(ops[Front.op].chan),
           UNCHANGED <<last, stream, takes>>
    PROVE  IInv'
<1> DEFINE c == ops[Front.op].chan
<1> USE DEF IInv
<1>1. /\ Cur \in Nat /\ DOMAIN ops = 1 .. Cur /\ DOMAIN ops \subseteq Ops
      /\ Cur \in DOMAIN ops /\ Front \in Frame /\ Front \in Elems(down)
      /\ Front.op \in 1 .. Cur
      /\ c \in Channels /\ Tail(down) \in Seq(Frame) /\ Sorted(Tail(down))
      /\ Elems(Tail(down)) \subseteq Elems(down)
      /\ \A g \in Elems(Tail(down)) : Front.op <= g.op /\ g.op \in 1 .. Cur
  BY Received
<1>2. /\ ops' = ops /\ said' = said /\ waiting' = waiting /\ asks' = asks
      /\ chseq' = chseq /\ req' = req /\ rsp' = rsp /\ flight' = flight
      /\ tries' = tries /\ Cur' = Cur
  BY DEF restVars, clientVars, wappVars, brokerVars, Cur
<1>3. /\ opened' = opened \cup {c} /\ chan' = c /\ valid' = (valid /\ chan = c)
      /\ last' = last /\ stream' = stream /\ takes' = takes
  BY DEF Open, Select
<1>4. up' \in Seq(Answer) /\ Elems(up') = Elems(up) \cup {a}
  BY AnswerJoins
\* Nothing of a write behind this frame was taken.
<1>5. \A n \in 1 .. Cur : Front.op <= n /\ IsWrite(n) => ~Taken(n)
  <2>1. SUFFICES ASSUME NEW n \in 1 .. Cur, Front.op <= n, IsWrite(n), Taken(n)
                 PROVE  FALSE
    OBVIOUS
  <2>2. [op |-> n, whole |-> TRUE] \in Elems(stream[ops[n].chan]) /\ ops[n].chan \in Channels
    BY <1>1, <2>1, Typed DEF Taken, Has
  <2>3. n <= Front.op
    BY <1>1, <2>2 DEF LineOK
  <2> QED
    BY <1>1, <2>1, <2>3
<1>6. TypeOK'
  <2>1. opened' \in SUBSET Channels /\ chan' \in Channels \cup {None}
    BY <1>1, <1>3 DEF TypeOK
  <2>2. valid' \in BOOLEAN
    BY <1>3, Zenon
  <2>3. down' \in Seq(Frame)
    BY <1>1
  <2> QED
    BY <1>2, <1>3, <1>4, <2>1, <2>2, <2>3 DEF TypeOK
<1>7. PlaceOK' /\ DoneOK' /\ SubscribeOK' /\ AllFit' /\ StreamOK' /\ AckedWriteReached'
  BY <1>2, <1>3 DEF PlaceOK, DoneOK, SubscribeOK, AllFit, StreamOK, AckedWriteReached,
     IsWrite, WrittenTo, Taken, Has
<1>8. LineOK'
  BY <1>1, <1>2, <1>3 DEF LineOK, Sorted, IsWrite
<1>9. CopiesOK'
  <2>1. ASSUME NEW g \in Elems(down'), IsWrite(g.op)
        PROVE  ~Taken(g.op) /\ ~(valid /\ chan = ops[g.op].chan /\ last = g.seq)
    BY <1>1, <1>5, <2>1 DEF CopiesOK, Seen
  <2> QED
    BY <1>2, <1>3, <2>1 DEF CopiesOK, Seen, IsWrite, Taken, Has
<1>10. SequenceOK'
  <2>1. (valid => WrittenTo(chan))'
    BY <1>2, <1>3 DEF SequenceOK, WrittenTo
  <2>2. IsWrite(Cur) => ~Taken(Cur)
    BY <1>1, <1>5
  <2>3. \A d \in Channels : valid /\ chan = d => chseq[d] = (last + 1) % SEQ_MOD
    BY <2>2 DEF SequenceOK, Pending
  <2>4. IsWrite(Cur)' => ~Taken(Cur)'
    BY <1>2, <1>3, <2>2 DEF IsWrite, Taken, Has
  <2> QED
    BY <1>2, <1>3, <2>1, <2>3, <2>4 DEF SequenceOK, Pending
<1>11. AnswersOK'
  <2>1. a.id <= asks
    BY <1>1 DEF LineOK
  <2>2. a.id = asks => ~IsWrite(Cur)
    BY <1>1 DEF LineOK
  <2> QED
    BY <1>2, <1>3, <1>4, <2>1, <2>2 DEF AnswersOK, IsWrite, Taken, Has
<1> QED
  BY <1>6, <1>7, <1>8, <1>9, <1>10, <1>11

LEMMA BoardStep == ASSUME IInv, Board PROVE IInv'
<1> DEFINE op == ops[Front.op]
<1>1. PICK ok \in BOOLEAN :
          /\ up' = Append(up, [id |-> Front.id, ok |-> ok])
          /\ \/ op.kind = "write" /\ OnWrite(Front, op.chan, ok)
             \/ op.kind # "write" /\ OnSubscribe(op.kind, op.chan, ok)
  BY DEF Board, Front
<1> DEFINE a == [id |-> Front.id, ok |-> ok]
<1>2. UNCHANGED restVars /\ down # <<>> /\ down' = Tail(down)
  BY DEF Board, restVars
<1>3. /\ a \in Answer /\ a.id = Front.id /\ a.ok = ok /\ up' = Append(up, a)
      /\ op.chan \in Channels /\ Front.op \in DOMAIN ops /\ Front \in Elems(down)
      /\ op.kind = "write" <=> IsWrite(Front.op)
      /\ opened \in SUBSET Channels
  <2>1. Front \in Frame /\ op.chan \in Channels /\ Front.op \in DOMAIN ops
        /\ Front \in Elems(down)
    BY <1>2, Received
  <2> QED
    BY <1>1, <2>1 DEF Frame, Answer, IsWrite, IInv, TypeOK
<1>4. Front.id = asks => Front.op = Cur
  BY <1>3 DEF IInv, LineOK
<1> HIDE DEF a
<1>5. CASE op.kind = "write" /\ ok /\ DropRepeat(Front, op.chan)
  <2>1. /\ chan' = chan /\ last' = last /\ valid' = valid /\ stream' = stream
        /\ takes' = takes /\ opened' \in SUBSET Channels
    BY <1>3, <1>5 DEF DropRepeat, IsRepeat, Open, Select, IInv, TypeOK
  <2>2. Taken(Front.op)
    BY <1>3, <1>5 DEF DropRepeat, IsRepeat, IInv, CopiesOK, Seen
  <2> QED
    BY <1>2, <1>3, <1>4, <2>1, <2>2, IdleStep
<1>6. CASE op.kind = "write" /\ ok /\ TakeWrite(Front, op.chan)
  BY <1>2, <1>3, <1>6, TakeWriteStep
<1>7. CASE ~ok /\ OpenFails(op.chan)
  <2>1. /\ chan' = chan /\ last' = last /\ valid' = valid /\ stream' = stream
        /\ takes' = takes /\ opened' \in SUBSET Channels
    BY <1>3, <1>7 DEF OpenFails, boardVars
  <2> QED
    BY <1>2, <1>3, <1>7, <2>1, IdleStep
<1>8. CASE op.kind = "write" /\ ~ok /\ WriteFails(Front, op.chan)
  BY <1>2, <1>3, <1>8, WriteFailsStep
<1>9. CASE op.kind # "write" /\ UNCHANGED boardVars
  <2>1. /\ chan' = chan /\ last' = last /\ valid' = valid /\ stream' = stream
        /\ takes' = takes /\ opened' \in SUBSET Channels
    BY <1>3, <1>9 DEF boardVars
  <2>2. ~(a.id = asks /\ IsWrite(Cur))
    BY <1>3, <1>4, <1>9
  <2> QED
    BY <1>2, <1>3, <2>1, <2>2, IdleStep
<1>10. CASE op.kind # "write" /\ Open(op.chan) /\ UNCHANGED <<last, stream, takes>>
  BY <1>2, <1>3, <1>10, FollowStep
<1> QED
  BY <1>1, <1>5, <1>6, <1>7, <1>8, <1>9, <1>10 DEF OnWrite, OnSubscribe

-----------------------------------------------------------------------------
(* The theorems.                                                           *)

LEMMA NextIInv == ASSUME Careful, IInv, [Next]_vars PROVE IInv'
<1>1. CASE UNCHANGED vars
  <2>1. UNCHANGED <<clientVars, wappVars, req, rsp, brokerVars, boardVars>>
        /\ down' = down /\ up' = up
    BY <1>1 DEF vars
  <2> QED
    BY <2>1, LineStep
<1>2. ASSUME NEW c \in Channels, Write(c)
      PROVE  IInv'
  <2>1. NewOp("write", c, TRUE)
    BY <1>2 DEF Write, Careful
  <2> QED
    BY <2>1, NewOpStep DEF Careful, Kinds
<1>3. ASSUME NEW c \in Channels, Subscribe(c)
      PROVE  IInv'
  <2>1. PICK kind \in {"follow", "stop"} : NewOp(kind, c, TRUE)
    BY <1>3 DEF Subscribe
  <2>2. ~WrittenTo(c)
    BY <1>3 DEF Subscribe, Careful
  <2> QED
    BY <2>1, <2>2, NewOpStep DEF Careful, Kinds
<1>4. CASE GiveUp \/ Restart
  BY <1>4 DEF GiveUp, Restart, Careful
<1>5. CASE Drain
  BY <1>5, Answered DEF Drain
<1> QED
  BY <1>1, <1>2, <1>3, <1>4, <1>5, RepeatStep, TakeReplyStep, StartStep, RefuseStep,
     AttemptStep, BrokerFailsStep, OnReplyStep, LoseStep, BoardStep DEF Next

\* With clients that repeat a write until it succeeds, that subscribe to a
\* channel before they write to it, and with a tg-usb that runs on and hears the
\* broker out, the two sequences (ch->seq of tg-usb, g_usb_seq of the board) stay
\* in step, whatever is lost and sent again.
THEOREM SequencesInStep == ASSUME Careful PROVE Spec => []IInv
<1>1. Init => IInv
  BY InitIInv
<1>2. IInv /\ [Next]_vars => IInv'
  BY NextIInv
<1> QED
  BY <1>1, <1>2, PTL DEF Spec

\* Then a write reported as taken (200 of route_write) is in the stream of its
\* device.
THEOREM AckedWritesReach == ASSUME Careful PROVE Spec => []AckedWriteReached
<1>1. IInv => AckedWriteReached
  BY DEF IInv
<1> QED
  BY <1>1, SequencesInStep, PTL

-----------------------------------------------------------------------------
(* The refinement.                                                         *)

LEMMA InitRefines == ASSUME Init PROVE Device!DInit
<1>1. toldBar = {}
  BY DEF Init, toldBar, IsWrite
<1> QED
  BY <1>1 DEF Init, Device!DInit

LEMMA ToldStays ==
    ASSUME UNCHANGED clientVars
    PROVE  toldBar' = toldBar
BY DEF clientVars, toldBar, IsWrite

LEMMA NewOpTells ==
    ASSUME IInv, NEW kind, NEW c, NEW fits, NewOp(kind, c, fits)
    PROVE  toldBar' = toldBar /\ stream' = stream
<1>1. /\ ops' = Append(ops, [kind |-> kind, chan |-> c, fits |-> fits])
      /\ said' = said /\ stream' = stream
  BY DEF NewOp, boardVars
<1>2. /\ Cur \in Nat /\ DOMAIN ops = 1 .. Cur
      /\ DOMAIN ops' = 1 .. Cur + 1
      /\ \A n \in 1 .. Cur : ops'[n] = ops[n]
  BY <1>1 DEF IInv, TypeOK, Cur
<1>3. \A n \in Ops : n > Cur => said[n] = "none"
  BY DEF IInv, DoneOK
<1>4. ASSUME NEW n \in Ops
      PROVE  IsWrite(n)' /\ said'[n] = "ok" <=> IsWrite(n) /\ said[n] = "ok"
  <2>1. CASE n > Cur
    BY <1>1, <1>3, <2>1
  <2>2. CASE ~(n > Cur)
    <3>1. n \in DOMAIN ops /\ n \in DOMAIN ops' /\ ops'[n] = ops[n]
      BY <1>2, <2>2 DEF Ops
    <3> QED
      BY <1>1, <3>1 DEF IsWrite
  <2> QED
    BY <2>1, <2>2
<1> QED
  BY <1>1, <1>4 DEF toldBar

LEMMA TakeReplyTells == ASSUME IInv, TakeReply PROVE [Device!DNext]_(Device!dvars)
<1> DEFINE c == ops[Cur].chan
           a == Head(rsp)
<1>1. /\ ops' = ops /\ stream' = stream
      /\ said' = [said EXCEPT ![Cur] = IF a.ok THEN "ok" ELSE "failed"]
      /\ waiting /\ rsp # <<>>
  BY DEF TakeReply, boardVars, Cur
<1>2. /\ Cur \in Ops /\ c \in Channels /\ said[Cur] # "ok" /\ a \in Elems(rsp)
  <2>1. Cur > 0 /\ Cur \in Nat /\ DOMAIN ops = 1 .. Cur /\ DOMAIN ops \subseteq Ops
        /\ \A n \in DOMAIN ops : ops[n].chan \in Channels
    BY <1>1, Typed DEF IInv, PlaceOK
  <2>2. Cur \in DOMAIN ops
    BY <2>1
  <2> QED
    BY <1>1, <2>1, <2>2, Answered DEF IInv, PlaceOK
<1>3. /\ said'[Cur] = IF a.ok THEN "ok" ELSE "failed"
      /\ \A n \in Ops : n # Cur => said'[n] = said[n]
  BY <1>1, <1>2 DEF IInv, TypeOK
<1>4. CASE a.ok /\ IsWrite(Cur)
  <2>1. Taken(Cur)
    BY <1>2, <1>4 DEF IInv, AnswersOK
  <2>2. \E k \in DOMAIN stream[c] : stream[c][k] = [op |-> Cur, whole |-> TRUE]
    BY <2>1 DEF Taken, Has, Elems
  <2>3. toldBar' = toldBar \cup {Cur}
    BY <1>1, <1>2, <1>3, <1>4 DEF toldBar, IsWrite
  <2>4. Device!Tell(c, Cur)
    BY <1>1, <2>2, <2>3 DEF Device!Tell
  <2> QED
    BY <1>2, <2>4 DEF Device!DNext, Ops
<1>5. CASE ~(a.ok /\ IsWrite(Cur))
  <2>1. toldBar' = toldBar
    BY <1>1, <1>2, <1>3, <1>5 DEF toldBar, IsWrite
  <2> QED
    BY <1>1, <2>1 DEF Device!dvars
<1> QED
  BY <1>4, <1>5

LEMMA BoardTakes == ASSUME IInv, Board PROVE [Device!DNext]_(Device!dvars)
<1> DEFINE op == ops[Front.op]
           c == ops[Cur].chan
<1>1. PICK ok \in BOOLEAN :
          \/ op.kind = "write" /\ OnWrite(Front, op.chan, ok)
          \/ op.kind # "write" /\ OnSubscribe(op.kind, op.chan, ok)
  BY DEF Board, Front
<1>2. toldBar' = toldBar /\ down # <<>>
  BY ToldStays DEF Board
<1>3. IsWrite(Front.op) <=> op.kind = "write"
  BY <1>2, Received DEF IsWrite
<1>4. CASE stream' = stream
  BY <1>2, <1>4 DEF Device!dvars
<1>5. ASSUME NEW whole \in BOOLEAN, op.kind = "write", ~IsRepeat(Front, op.chan),
             Gains(op.chan, Front.op, whole)
      PROVE  Device!DNext
  <2>1. /\ Front.op = Cur /\ ~Taken(Cur) /\ Cur \in Ops /\ c \in Channels
        /\ Cur \in Nat /\ DOMAIN ops = 1 .. Cur
    BY <1>2, <1>3, <1>5, NewWrite, Received
  <2>2. \A p \in Elems(stream[c]) : p \in Piece /\ p.op <= Cur
    BY <2>1, Typed DEF IInv, StreamOK, IsWrite
  <2>3. \A p \in Elems(stream[c]) : p.whole => p.op # Cur
    <3>1. \A p \in Piece : p.whole /\ p.op = Cur => p = [op |-> Cur, whole |-> TRUE]
      BY DEF Piece
    <3> QED
      BY <2>1, <2>2, <3>1 DEF Taken, Has
  <2>4. Device!Fresh(c, Cur)
    BY <2>2, <2>3 DEF Device!Fresh, Elems
  <2>5. Device!Take(c, Cur, whole)
    BY <1>2, <1>5, <2>1, <2>4 DEF Device!Take, Gains
  <2> QED
    BY <2>1, <2>5 DEF Device!DNext, Ops
<1>6. CASE op.kind = "write" /\ ok /\ TakeWrite(Front, op.chan)
  <2>1. op.fits \in BOOLEAN
    BY <1>2, Received DEF OpRecord
  <2> QED
    BY <1>5, <1>6, <2>1 DEF TakeWrite
<1>7. CASE op.kind = "write" /\ ~ok /\ WriteFails(Front, op.chan)
  <2>1. CASE Gains(op.chan, Front.op, FALSE)
    BY <1>5, <1>7, <2>1 DEF WriteFails
  <2> QED
    BY <1>4, <1>7, <2>1 DEF WriteFails
<1> QED
  BY <1>1, <1>4, <1>6, <1>7 DEF OnWrite, OnSubscribe, DropRepeat, OpenFails, boardVars

LEMMA NextRefines ==
    ASSUME Careful, IInv, [Next]_vars
    PROVE  [Device!DNext]_(Device!dvars)
<1>1. CASE UNCHANGED clientVars /\ stream' = stream
  BY <1>1, ToldStays DEF Device!dvars
<1>2. CASE \E c \in Channels : Write(c) \/ Subscribe(c)
  BY <1>2, NewOpTells DEF Write, Subscribe, Device!dvars
<1>3. CASE GiveUp
  BY <1>3 DEF GiveUp, Careful
<1>4. CASE Repeat \/ Drain \/ Restart
  BY <1>1, <1>4 DEF Repeat, Drain, Restart, boardVars
<1>5. CASE Start \/ Refuse \/ Attempt \/ BrokerFails \/ OnReply \/ Lose
  BY <1>1, <1>5 DEF Start, Refuse, Attempt, BrokerFails, OnReply, Lose, boardVars
<1>6. CASE UNCHANGED vars
  BY <1>1, <1>6 DEF vars, boardVars
<1> QED
  BY <1>2, <1>3, <1>4, <1>5, <1>6, TakeReplyTells, BoardTakes DEF Next

\* Then a device takes the writes of its clients once each and in their order,
\* and a client is told of success for a write the device took (DeviceStream).
THEOREM ChannelsImplementStream == ASSUME Careful PROVE Spec => DeviceSpec
<1>1. Init => Device!DInit
  BY InitRefines
<1>2. IInv /\ [Next]_vars => [Device!DNext]_(Device!dvars)
  BY NextRefines
<1> QED
  BY <1>1, <1>2, SequencesInStep, PTL DEF Spec, DeviceSpec, Device!DSpec

-----------------------------------------------------------------------------
(* Clients of any kind.  The copies of one request are equal, later ones   *)
(* stand behind them, and the board knows those of a write it took: that   *)
(* needs no care of the clients, and it holds until tg-usb asks again.     *)

Live == Elems(down) \cup Elems(flight)

\* Frames of requests that were made.
KnownOK == \A f \in Live \cup Elems(req) : f.op \in DOMAIN ops /\ f.id <= asks

Rises(q) == \A i, j \in DOMAIN q : i < j => q[i].id < q[j].id
Climbs(q) == \A i, j \in DOMAIN q : i < j => q[i].id <= q[j].id

OrderOK == /\ Rises(req) /\ Climbs(down)
           /\ \A f \in Elems(down), g \in Elems(flight) : f.id <= g.id
           /\ \A f \in Live, g \in Elems(req) : f.id < g.id
           /\ \A f, g \in Live : f.id = g.id => f = g

\* The board took no request that is still in the pipe, and none behind which
\* another one reached it.
TakesOK == \A i \in 1 .. MaxAsks :
               takes[i] > 0 => /\ i <= asks
                               /\ \A f \in Live : i <= f.id
                               /\ \A f \in Elems(req) : i < f.id

SeenOK == \A f \in Live : takes[f.id] > 0 /\ IsWrite(f.op) => Seen(f, ops[f.op].chan)

WildInv == TypeOK /\ KnownOK /\ OrderOK /\ TakesOK /\ SeenOK /\ AttemptsTakeOnce

LEMMA RisesTail ==
    ASSUME NEW q \in Seq(Frame), q # <<>>
    PROVE  /\ Rises(q) => Rises(Tail(q)) /\ \A f \in Elems(Tail(q)) : Head(q).id < f.id
           /\ Climbs(q) => Climbs(Tail(q)) /\ \A f \in Elems(Tail(q)) : Head(q).id <= f.id
<1>1. /\ Len(Tail(q)) = Len(q) - 1 /\ Len(q) \in Nat
      /\ DOMAIN Tail(q) = 1 .. Len(q) - 1 /\ DOMAIN q = 1 .. Len(q)
      /\ \A k \in 1 .. Len(q) - 1 : Tail(q)[k] = q[k + 1]
      /\ Head(q) = q[1] /\ 1 \in DOMAIN q
      /\ Tail(q) \in Seq(Frame)
  OBVIOUS
<1>2. (Rises(q) => Rises(Tail(q))) /\ (Climbs(q) => Climbs(Tail(q)))
  <2>1. ASSUME NEW i \in DOMAIN Tail(q), NEW j \in DOMAIN Tail(q), i < j
        PROVE  /\ i + 1 \in DOMAIN q /\ j + 1 \in DOMAIN q /\ i + 1 < j + 1
               /\ Tail(q)[i] = q[i + 1] /\ Tail(q)[j] = q[j + 1]
    BY <1>1, <2>1
  <2>2. Rises(q) => Rises(Tail(q))
    BY <2>1 DEF Rises
  <2>3. Climbs(q) => Climbs(Tail(q))
    BY <2>1 DEF Climbs
  <2> QED
    BY <2>2, <2>3
<1>3. ASSUME NEW f \in Elems(Tail(q))
      PROVE  (Rises(q) => Head(q).id < f.id) /\ (Climbs(q) => Head(q).id <= f.id)
  <2>1. PICK k \in 1 .. Len(q) - 1 : f = q[k + 1]
    BY <1>1 DEF Elems
  <2>2. k + 1 \in DOMAIN q /\ 1 < k + 1
    BY <1>1
  <2> QED
    BY <1>1, <2>1, <2>2 DEF Rises, Climbs
<1> QED
  BY <1>2, <1>3

LEMMA RisesAppend ==
    ASSUME NEW q \in Seq(Frame), NEW f \in Frame
    PROVE  /\ Rises(q) /\ (\A g \in Elems(q) : g.id < f.id) => Rises(Append(q, f))
           /\ Climbs(q) /\ (\A g \in Elems(q) : g.id <= f.id) => Climbs(Append(q, f))
<1>1. /\ DOMAIN Append(q, f) = 1 .. Len(q) + 1 /\ DOMAIN q = 1 .. Len(q)
      /\ Len(q) \in Nat
      /\ \A k \in 1 .. Len(q) : Append(q, f)[k] = q[k] /\ q[k] \in Elems(q)
      /\ Append(q, f)[Len(q) + 1] = f
  BY DEF Elems
<1> QED
  BY <1>1 DEF Rises, Climbs

LEMMA InitWild == ASSUME Init PROVE WildInv
<1>1. TypeOK
  BY InitIInv DEF IInv
<1>2. Elems(down) = {} /\ Elems(req) = {} /\ Elems(flight) = {}
  BY ElemsEmpty DEF Init
<1>3. Rises(req) /\ Climbs(down) /\ \A i \in 1 .. MaxAsks : takes[i] = 0
  BY DEF Init, Rises, Climbs
<1> QED
  BY <1>1, <1>2, <1>3 DEF WildInv, Live, KnownOK, OrderOK, TakesOK, SeenOK, AttemptsTakeOnce

LEMMA WildTyped ==
    ASSUME TypeOK
    PROVE  /\ DOMAIN ops = 1 .. Len(ops) /\ Len(ops) \in Nat /\ asks \in Nat
           /\ \A n \in DOMAIN ops : ops[n].chan \in Channels
           /\ Live \subseteq Frame /\ Elems(req) \subseteq Frame
           /\ \A f \in Frame : f.id \in 1 .. MaxAsks /\ f.id \in Nat /\ takes[f.id] \in Nat
           /\ \A i \in 1 .. MaxAsks : takes[i] \in Nat /\ i \in Nat
           /\ MaxAsks \in Nat
<1>1. Elems(flight) \subseteq Frame
  BY ElemsType DEF TypeOK
<1>2. \A f \in Frame : f.id \in 1 .. MaxAsks
  BY DEF Frame
<1>3. \A i \in 1 .. MaxAsks : takes[i] \in Nat /\ i \in Nat
  BY DEF TypeOK
<1> QED
  BY <1>1, <1>2, <1>3, Typed DEF TypeOK, Live, Cur

\* A new request stands behind all others.
LEMMA AskedLast ==
    ASSUME WildInv, TypeOK', NEW f \in Frame, f.id = asks + 1, f.op \in DOMAIN ops',
           asks < MaxAsks, asks' = asks + 1, req' = Append(req, f),
           \A n \in DOMAIN ops : n \in DOMAIN ops' /\ ops'[n] = ops[n],
           UNCHANGED <<down, flight, boardVars>>
    PROVE  WildInv'
<1> USE DEF WildInv
<1>1. Live' = Live /\ takes' = takes /\ down' = down /\ flight' = flight
  BY DEF Live, boardVars
<1>2. req \in Seq(Frame) /\ Elems(req') = Elems(req) \cup {f}
  BY ElemsAppend DEF TypeOK
<1>3. \A g \in Live \cup Elems(req) : g.op \in DOMAIN ops /\ g.id <= asks /\ g.id \in Nat
  BY WildTyped DEF KnownOK
<1>4. asks \in Nat
  BY WildTyped
<1>5. KnownOK'
  BY <1>1, <1>2, <1>3, <1>4 DEF KnownOK
<1>6. OrderOK'
  <2>1. Rises(req')
    BY <1>2, <1>3, <1>4, RisesAppend DEF OrderOK
  <2> QED
    BY <1>1, <1>2, <1>3, <1>4, <2>1 DEF OrderOK
<1>7. TakesOK'
  BY <1>1, <1>2, <1>3, <1>4 DEF TakesOK
<1>8. SeenOK'
  <2>1. \A g \in Live : (IsWrite(g.op)' <=> IsWrite(g.op)) /\ ops'[g.op] = ops[g.op]
    BY <1>3 DEF IsWrite
  <2> QED
    BY <1>1, <2>1 DEF SeenOK, Seen, boardVars
<1>9. AttemptsTakeOnce'
  BY <1>1 DEF AttemptsTakeOnce
<1> QED
  BY <1>5, <1>6, <1>7, <1>8, <1>9

\* Requests and copies go.
LEMMA GoneWild ==
    ASSUME WildInv, TypeOK', UNCHANGED <<ops, asks, chan, last, valid, takes>>,
           req' = req \/ (req # <<>> /\ req' = Tail(req)),
           flight' = flight \/ flight' = <<>>,
           down' = down \/ (down # <<>> /\ down' = Tail(down))
    PROVE  WildInv'
<1> USE DEF WildInv
<1>1. req \in Seq(Frame) /\ down \in Seq(Frame)
  BY DEF TypeOK
<1>2. Elems(req') \subseteq Elems(req) /\ (Rises(req) => Rises(req'))
  BY <1>1, ElemsTail, RisesTail
<1>3. Elems(down') \subseteq Elems(down) /\ (Climbs(down) => Climbs(down'))
  BY <1>1, ElemsTail, RisesTail
<1>4. Elems(flight') \subseteq Elems(flight) /\ Live' \subseteq Live
  <2>1. Elems(flight') \subseteq Elems(flight)
    BY ElemsEmpty
  <2> QED
    BY <1>3, <2>1 DEF Live
<1>5. KnownOK' /\ OrderOK'
  BY <1>2, <1>3, <1>4 DEF KnownOK, OrderOK
<1>6. TakesOK' /\ AttemptsTakeOnce'
  BY <1>2, <1>4 DEF TakesOK, AttemptsTakeOnce
<1>7. SeenOK'
  BY <1>4 DEF SeenOK, Seen, IsWrite
<1> QED
  BY <1>5, <1>6, <1>7

\* The broker puts a copy of its request on the line.
LEMMA CopyWild ==
    ASSUME WildInv, TypeOK', UNCHANGED <<ops, asks, boardVars>>, NEW f \in Frame,
           down' = Append(down, f), Elems(flight') = {f},
           \/ req # <<>> /\ req' = Tail(req) /\ f = Head(req)
           \/ req' = req /\ Elems(flight) = {f}
    PROVE  WildInv'
<1> USE DEF WildInv
<1>1. req \in Seq(Frame) /\ down \in Seq(Frame)
  BY DEF TypeOK
<1>2. Elems(down') = Elems(down) \cup {f} /\ Live' = Elems(down) \cup {f}
  BY <1>1, ElemsAppend DEF Live
<1>3. /\ Elems(req') \subseteq Elems(req) /\ Rises(req')
      /\ f \in Elems(req) \cup Live
      /\ \A g \in Elems(req') : f.id < g.id
  <2>1. CASE req # <<>> /\ req' = Tail(req) /\ f = Head(req)
    <3>1. Rises(req)
      BY DEF OrderOK
    <3>2. Elems(Tail(req)) \subseteq Elems(req) /\ Head(req) \in Elems(req)
      BY <1>1, <2>1, ElemsTail
    <3>3. Rises(Tail(req)) /\ \A g \in Elems(Tail(req)) : f.id < g.id
      BY <1>1, <2>1, <3>1, RisesTail
    <3> QED
      BY <2>1, <3>2, <3>3
  <2>2. CASE req' = req /\ Elems(flight) = {f}
    BY <2>2 DEF OrderOK, Live
  <2> QED
    BY <2>1, <2>2
<1>4. /\ \A g \in Elems(down) : g.id <= f.id
      /\ \A g \in Elems(down) : g.id = f.id => g = f
  <2>1. CASE f = Head(req) /\ req # <<>>
    <3>1. \A g \in Elems(down) : g.id < f.id /\ g.id \in Nat
      BY <1>1, <2>1, ElemsTail, WildTyped DEF OrderOK, Live
    <3>2. f.id \in Nat
      BY WildTyped
    <3> QED
      BY <3>1, <3>2
  <2>2. CASE Elems(flight) = {f}
    BY <2>2 DEF OrderOK, Live
  <2> QED
    BY <2>1, <2>2
<1>5. KnownOK'
  BY <1>2, <1>3 DEF KnownOK, Live
<1>6. OrderOK'
  <2>1. Climbs(down')
    BY <1>1, <1>4, RisesAppend DEF OrderOK
  <2>2. f.id <= f.id
    BY WildTyped
  <2>3. \A g, h \in Live' : g.id = h.id => g = h
    BY <1>2, <1>4 DEF OrderOK, Live
  <2>4. \A g \in Live', h \in Elems(req') : g.id < h.id
    BY <1>2, <1>3 DEF OrderOK, Live
  <2>5. \A g \in Elems(down'), h \in Elems(flight') : g.id <= h.id
    BY <1>2, <1>4, <2>2
  <2> QED
    BY <1>3, <2>1, <2>3, <2>4, <2>5 DEF OrderOK
<1>7. \A i \in 1 .. MaxAsks : takes[i] > 0 => i <= f.id
  <2>1. f.id \in Nat
    BY WildTyped
  <2> QED
    BY <1>3, <2>1 DEF TakesOK
<1>8. TakesOK' /\ AttemptsTakeOnce'
  BY <1>2, <1>3, <1>7 DEF TakesOK, AttemptsTakeOnce, boardVars, Live
<1>9. takes[f.id] > 0 => f \in Live
  <2>1. f.id \in 1 .. MaxAsks /\ f.id \in Nat
    BY WildTyped
  <2> QED
    BY <1>3, <2>1 DEF TakesOK
<1>10. SeenOK'
  BY <1>2, <1>9 DEF SeenOK, Seen, IsWrite, boardVars, Live
<1> QED
  BY <1>5, <1>6, <1>8, <1>10

-----------------------------------------------------------------------------
(* The types need no care either.                                          *)

LEMMA AppendTyped ==
    ASSUME NEW S, NEW q \in Seq(S), NEW e \in S
    PROVE  Append(q, e) \in Seq(S)
OBVIOUS

LEMMA TailTyped ==
    ASSUME NEW S, NEW q \in Seq(S), q # <<>>
    PROVE  Tail(q) \in Seq(S) /\ Head(q) \in S
OBVIOUS

LEMMA NewOpTyped ==
    ASSUME TypeOK, NEW kind \in Kinds, NEW c \in Channels, NEW fits \in BOOLEAN,
           NewOp(kind, c, fits)
    PROVE  /\ TypeOK' /\ asks < MaxAsks /\ asks' = asks + 1
           /\ \A n \in DOMAIN ops : n \in DOMAIN ops' /\ ops'[n] = ops[n]
           /\ \E f \in Frame : f.id = asks + 1 /\ f.op \in DOMAIN ops' /\ req' = Append(req, f)
<1> DEFINE r == [kind |-> kind, chan |-> c, fits |-> fits]
           f == [id |-> asks + 1, op |-> Len(ops) + 1, seq |-> chseq[c]]
<1>1. /\ ops \in Seq(OpRecord) /\ Len(ops) \in Nat /\ Len(ops) < MaxOps /\ r \in OpRecord
      /\ asks \in Nat /\ asks < MaxAsks /\ asks' = asks + 1
      /\ ops' = Append(ops, r) /\ req' = Append(req, f) /\ waiting' = TRUE
      /\ MaxOps \in Nat /\ MaxAsks \in Nat
  BY DEF TypeOK, NewOp, SendAsk, OpRecord
<1>2. f \in Frame
  BY <1>1 DEF Frame, Ops, TypeOK
<1>3. /\ ops' \in Seq(OpRecord) /\ Len(ops') = Len(ops) + 1
      /\ DOMAIN ops' = 1 .. Len(ops) + 1 /\ DOMAIN ops = 1 .. Len(ops)
      /\ \A n \in 1 .. Len(ops) : ops'[n] = ops[n]
  BY <1>1
<1>4. ops' \in Seq([kind : Kinds, chan : Channels, fits : BOOLEAN]) /\ Len(ops') <= MaxOps
  BY <1>1, <1>3 DEF OpRecord
<1>5. req' \in Seq(Frame) /\ asks' \in 0 .. MaxAsks /\ waiting' \in BOOLEAN
  <2>1. req \in Seq(Frame)
    BY DEF TypeOK
  <2>2. req' \in Seq(Frame)
    BY <1>1, <1>2, <2>1, AppendTyped
  <2> QED
    BY <1>1, <2>2
<1>6. TypeOK'
  BY <1>4, <1>5 DEF TypeOK, NewOp, brokerVars, boardVars
<1>7. f.id = asks + 1 /\ f.op \in DOMAIN ops'
  BY <1>1, <1>3
<1> QED
  BY <1>1, <1>2, <1>3, <1>6, <1>7

LEMMA NewOpWild ==
    ASSUME WildInv, NEW kind \in Kinds, NEW c \in Channels, NEW fits \in BOOLEAN,
           NewOp(kind, c, fits)
    PROVE  WildInv'
<1>1. PICK f \in Frame : f.id = asks + 1 /\ f.op \in DOMAIN ops' /\ req' = Append(req, f)
  BY NewOpTyped DEF WildInv
<1> QED
  BY <1>1, NewOpTyped, AskedLast DEF WildInv, NewOp, brokerVars

LEMMA RepeatWild == ASSUME WildInv, Repeat PROVE WildInv'
<1> DEFINE f == [id |-> asks + 1, op |-> Len(ops), seq |-> chseq[ops[Len(ops)].chan]]
<1> USE DEF WildInv
<1>1. /\ ops # <<>> /\ req' = Append(req, f) /\ asks < MaxAsks /\ asks' = asks + 1
      /\ ops' = ops /\ waiting' = TRUE
      /\ asks \in Nat /\ MaxAsks \in Nat /\ Len(ops) \in Nat /\ Len(ops) <= MaxOps
      /\ MaxOps \in Nat
  BY DEF TypeOK, Repeat, SendAsk, Unresolved, clientVars
<1>2. Len(ops) \in DOMAIN ops /\ ops[Len(ops)].chan \in Channels
  <2>1. ops \in Seq(OpRecord)
    BY DEF TypeOK, OpRecord
  <2>2. Len(ops) \in DOMAIN ops
    BY <1>1, <2>1
  <2> QED
    BY <2>2, WildTyped
<1>3. f \in Frame
  <2>1. Len(ops) \in Ops
    BY <1>1, <1>2, WildTyped DEF Ops
  <2>2. chseq[ops[Len(ops)].chan] \in Seqs
    BY <1>2 DEF TypeOK
  <2> QED
    BY <1>1, <2>1, <2>2 DEF Frame
<1>4. TypeOK'
  <2>1. req \in Seq(Frame)
    BY DEF TypeOK
  <2>2. req' \in Seq(Frame)
    BY <1>1, <1>3, <2>1, AppendTyped
  <2>3. asks' \in 0 .. MaxAsks /\ waiting' \in BOOLEAN
    BY <1>1
  <2> QED
    BY <2>2, <2>3 DEF TypeOK, Repeat, clientVars, brokerVars, boardVars
<1> QED
  BY <1>1, <1>2, <1>3, <1>4, AskedLast DEF Repeat, brokerVars

LEMMA WappWild ==
    ASSUME WildInv, TakeReply \/ GiveUp \/ Drain \/ Restart
    PROVE  WildInv'
<1> USE DEF WildInv
<1>1. TypeOK'
  <2>1. CASE TakeReply
    <3>1. rsp' \in Seq(Answer) /\ waiting' \in BOOLEAN
      BY <2>1, TailTyped DEF TakeReply, TypeOK
    <3>2. said' \in [Ops -> {"none", "ok", "failed"}]
      BY <2>1 DEF TakeReply, TypeOK
    <3>3. chseq' \in [Channels -> Seqs]
      <4>1. \A i \in Seqs : i \in Int
        BY DEF Seqs
      <4>2. \A i \in Seqs : (i + 1) % SEQ_MOD \in Seqs
        BY <4>1, ModInSeqs
      <4>3. 0 \in Seqs
        BY DEF Seqs
      <4> QED
        BY <2>1, <4>2, <4>3 DEF TakeReply, TypeOK, SeqAfter
    <3> QED
      BY <2>1, <3>1, <3>2, <3>3 DEF TakeReply, TypeOK, brokerVars, boardVars
  <2>2. CASE GiveUp
    BY <2>2 DEF GiveUp, TypeOK, brokerVars, boardVars
  <2>3. CASE Drain
    <3>1. rsp' \in Seq(Answer)
      BY <2>3, TailTyped DEF Drain, TypeOK
    <3> QED
      BY <2>3, <3>1 DEF Drain, TypeOK, clientVars, wappVars, brokerVars, boardVars
  <2>4. CASE Restart
    <3>1. chseq' \in [Channels -> Seqs]
      BY <2>4 DEF Restart, Seqs
    <3> QED
      BY <2>4, <3>1 DEF Restart, TypeOK, clientVars, brokerVars, boardVars
  <2> QED
    BY <2>1, <2>2, <2>3, <2>4
<1>2. UNCHANGED <<ops, asks, chan, last, valid, takes, req, flight, down>>
  BY DEF TakeReply, GiveUp, Drain, Restart, clientVars, wappVars, brokerVars, boardVars
<1> QED
  BY <1>1, <1>2, GoneWild

LEMMA BrokerWild ==
    ASSUME WildInv, Start \/ Refuse \/ Attempt \/ BrokerFails \/ OnReply \/ Lose
    PROVE  WildInv'
<1> USE DEF WildInv, clientVars, wappVars, brokerVars, boardVars
<1>1. /\ req \in Seq(Frame) /\ rsp \in Seq(Answer) /\ flight \in Seq(Frame)
      /\ down \in Seq(Frame) /\ up \in Seq(Answer) /\ Len(flight) <= 1
      /\ tries \in 0 .. REPLY_TRIES
  BY DEF TypeOK
<1>2. \A f \in Frame : [id |-> f.id, ok |-> FALSE] \in Answer
  BY DEF Frame, Answer
<1>3. flight # <<>> => flight[1] \in Frame /\ Elems(flight) = {flight[1]}
  <2>2. \A S : \A q \in Seq(S) : Len(q) \in Nat /\ (q = <<>> <=> Len(q) = 0)
    BY EmptySeq
  <2>3. Len(flight) \in Nat /\ (flight = <<>> <=> Len(flight) = 0)
    BY <1>1, <2>2
  <2>1. flight # <<>> => Len(flight) = 1
    <3> DEFINE n == Len(flight)
    <3>1. n \in Nat /\ n <= 1 /\ (flight # <<>> => n # 0)
      BY <1>1, <2>3
    <3> HIDE DEF n
    <3>2. n # 0 => n = 1
      BY <3>1
    <3> QED
      BY <3>1, <3>2 DEF n
  <2> QED
    BY <1>1, <2>1, ElemsOne
<1>4. CASE Start
  <2>1. Head(req) \in Frame /\ req' \in Seq(Frame) /\ req # <<>> /\ req' = Tail(req)
    BY <1>1, <1>4, TailTyped DEF Start
  <2>2. down' = Append(down, Head(req)) /\ down' \in Seq(Frame)
    BY <1>1, <1>4, <2>1, AppendTyped DEF Start
  <2>3. flight' = <<Head(req)>> /\ tries' = 1
    BY <1>4 DEF Start
  <2>4. flight' \in Seq(Frame) /\ Len(flight') = 1 /\ Elems(flight') = {Head(req)}
    BY <2>1, <2>3 DEF Elems
  <2>5. TypeOK'
    <3>1. /\ UNCHANGED <<clientVars, wappVars, rsp, up, boardVars>>
          /\ req' \in Seq(Frame) /\ down' \in Seq(Frame)
          /\ flight' \in Seq(Frame) /\ Len(flight') <= 1 /\ tries' = 1
      BY <1>4, <2>1, <2>2, <2>3, <2>4 DEF Start
    <3>2. tries' \in 0 .. REPLY_TRIES
      BY <3>1, UsbAssumption
    <3> QED
      BY <3>1, <3>2 DEF TypeOK
  <2> QED
    BY <1>4, <2>1, <2>2, <2>4, <2>5, CopyWild DEF Start
<1>5. CASE Refuse
  <2>1. Head(req) \in Frame /\ req' \in Seq(Frame) /\ req # <<>> /\ req' = Tail(req)
    BY <1>1, <1>5, TailTyped DEF Refuse
  <2>2. rsp' \in Seq(Answer)
    BY <1>1, <1>2, <1>5, <2>1, AppendTyped DEF Refuse
  <2>3. TypeOK'
    BY <1>5, <2>1, <2>2 DEF TypeOK, Refuse
  <2> QED
    BY <1>5, <2>1, <2>3, GoneWild DEF Refuse
<1>6. CASE Attempt
  <2>1. down' = Append(down, flight[1]) /\ down' \in Seq(Frame)
    BY <1>1, <1>3, <1>6, AppendTyped DEF Attempt
  <2>2. tries' \in 0 .. REPLY_TRIES
    BY <1>1, <1>6 DEF Attempt
  <2>3. TypeOK'
    BY <1>6, <2>1, <2>2 DEF TypeOK, Attempt
  <2> QED
    BY <1>3, <1>6, <2>1, <2>3, CopyWild DEF Attempt
<1>7. CASE BrokerFails
  <2>1. rsp' \in Seq(Answer)
    BY <1>1, <1>2, <1>3, <1>7, AppendTyped DEF BrokerFails
  <2>2. flight' = <<>> /\ flight' \in Seq(Frame) /\ Len(flight') <= 1
    BY <1>7 DEF BrokerFails
  <2>3. TypeOK'
    BY <1>7, <2>1, <2>2 DEF TypeOK, BrokerFails
  <2> QED
    BY <1>7, <2>2, <2>3, GoneWild DEF BrokerFails
<1>8. CASE OnReply
  <2>1. Head(up) \in Answer /\ up' \in Seq(Answer)
    BY <1>1, <1>8, TailTyped DEF OnReply
  <2>2. rsp' \in Seq(Answer)
    BY <1>1, <1>8, <2>1, AppendTyped DEF OnReply
  <2>3. flight' = flight \/ flight' = <<>>
    BY <1>8 DEF OnReply
  <2>4. flight' \in Seq(Frame) /\ Len(flight') <= 1
    <3>1. <<>> \in Seq(Frame) /\ Len(<<>>) <= 1
      OBVIOUS
    <3> QED
      BY <1>1, <2>3, <3>1, Zenon
  <2>5. TypeOK'
    BY <1>8, <2>1, <2>2, <2>4 DEF TypeOK, OnReply
  <2> QED
    BY <1>8, <2>3, <2>5, GoneWild DEF OnReply
<1>9. CASE Lose
  <2>1. /\ down' = down \/ (down # <<>> /\ down' = Tail(down))
        /\ up' = up \/ (up # <<>> /\ up' = Tail(up))
    BY <1>9 DEF Lose
  <2>2. down' \in Seq(Frame) /\ up' \in Seq(Answer)
    BY <1>1, <2>1, TailTyped
  <2>3. TypeOK'
    BY <1>9, <2>2 DEF TypeOK, Lose
  <2> QED
    BY <1>9, <2>1, <2>3, GoneWild DEF Lose
<1> QED
  BY <1>4, <1>5, <1>6, <1>7, <1>8, <1>9

-----------------------------------------------------------------------------
(* The board takes the frame at the front.                                 *)

LEMMA FrontIsLast ==
    ASSUME WildInv, down # <<>>, down' = Tail(down), UNCHANGED <<req, flight>>
    PROVE  /\ Head(down) \in Frame /\ Head(down) \in Live /\ Head(down).op \in DOMAIN ops
           /\ Live' \subseteq Live
           /\ \A f \in Live' : /\ Head(down).id <= f.id
                               /\ takes[f.id] > 0 => f = Head(down)
                               /\ f.id = Head(down).id => f = Head(down)
<1> DEFINE h == Head(down)
<1> USE DEF WildInv
<1>1. down \in Seq(Frame)
  BY DEF TypeOK
<1>2. h \in Frame /\ h \in Elems(down) /\ Elems(down') \subseteq Elems(down)
  BY <1>1, ElemsTail
<1>3. h \in Live /\ h.op \in DOMAIN ops /\ Live' \subseteq Live
  BY <1>2 DEF Live, KnownOK
<1>4. ASSUME NEW f \in Live'
      PROVE  /\ h.id <= f.id
             /\ takes[f.id] > 0 => f = h
             /\ f.id = h.id => f = h
  <2>1. f \in Live /\ f.id \in 1 .. MaxAsks /\ f.id \in Nat /\ h.id \in Nat
    BY <1>2, <1>3, <1>4, WildTyped
  <2>2. h.id <= f.id
    <3>1. CASE f \in Elems(down')
      <4>1. Climbs(down) /\ down # <<>>
        BY DEF OrderOK
      <4>2. \A g \in Elems(Tail(down)) : Head(down).id <= g.id
        BY <1>1, <4>1, RisesTail
      <4> QED
        BY <3>1, <4>2
    <3>2. CASE f \in Elems(flight)
      BY <1>2, <3>2 DEF OrderOK
    <3> QED
      BY <1>4, <3>1, <3>2 DEF Live
  <2>3. f.id = h.id => f = h
    BY <1>3, <2>1 DEF OrderOK
  <2>4. takes[f.id] > 0 => f.id <= h.id
    BY <1>3, <2>1 DEF TakesOK
  <2> QED
    BY <2>1, <2>2, <2>3, <2>4
<1> QED
  BY <1>2, <1>3, <1>4

\* The board selects a device for the frame in front, or takes its write: the
\* frames behind it are copies of it, or of requests that no device has seen.
LEMMA FrontWild ==
    ASSUME WildInv, TypeOK', down # <<>>, down' = Tail(down),
           UNCHANGED <<ops, asks, req, flight>>,
           LET h == Head(down) IN
           \/ /\ takes' = takes
              /\ IsWrite(h.op) => ~Seen(h, ops[h.op].chan)
           \/ /\ ~Seen(h, ops[h.op].chan) /\ IsWrite(h.op)
              /\ takes' = [takes EXCEPT ![h.id] = @ + 1]
              /\ chan' = ops[h.op].chan /\ last' = h.seq /\ valid' = TRUE
    PROVE  WildInv'
<1> DEFINE h == Head(down)
<1> USE DEF WildInv
<1>1. /\ h \in Frame /\ h \in Live /\ h.op \in DOMAIN ops
      /\ Live' \subseteq Live
      /\ \A f \in Live' : /\ h.id <= f.id
                          /\ takes[f.id] > 0 => f = h
                          /\ f.id = h.id => f = h
  BY FrontIsLast
<1>2. down \in Seq(Frame)
  BY DEF TypeOK
<1>3. Elems(down') \subseteq Elems(down) /\ Climbs(down')
  BY <1>2, ElemsTail, RisesTail DEF OrderOK
<1>4. KnownOK' /\ OrderOK'
  BY <1>1, <1>3 DEF KnownOK, OrderOK
<1>5. /\ h.id \in 1 .. MaxAsks /\ h.id <= asks
      /\ \A f \in Live' : f.id \in 1 .. MaxAsks
      /\ \A i \in 1 .. MaxAsks : takes[i] \in Nat
      /\ takes \in [1 .. MaxAsks -> Nat]
      /\ \A f \in Elems(req) : h.id < f.id
  BY <1>1, WildTyped DEF KnownOK, OrderOK, TypeOK
<1>6. CASE takes' = takes /\ (IsWrite(h.op) => ~Seen(h, ops[h.op].chan))
  <2>1. TakesOK' /\ AttemptsTakeOnce'
    BY <1>1, <1>6 DEF TakesOK, AttemptsTakeOnce
  <2>2. ASSUME NEW f \in Live', takes'[f.id] > 0, IsWrite(f.op)
        PROVE  FALSE
    <3>1. f = h
      BY <1>1, <1>6, <2>2
    <3>2. Seen(h, ops[h.op].chan)
      BY <1>1, <1>6, <2>2, <3>1 DEF SeenOK
    <3> QED
      BY <1>6, <2>2, <3>1, <3>2
  <2>3. SeenOK'
    BY <2>2 DEF SeenOK, IsWrite
  <2> QED
    BY <1>4, <2>1, <2>3
<1>7. CASE /\ ~Seen(h, ops[h.op].chan) /\ IsWrite(h.op)
           /\ takes' = [takes EXCEPT ![h.id] = @ + 1]
           /\ chan' = ops[h.op].chan /\ last' = h.seq /\ valid' = TRUE
  <2>1. takes[h.id] = 0
    BY <1>1, <1>5, <1>7 DEF SeenOK
  <2>2. takes'[h.id] = 1 /\ \A i \in 1 .. MaxAsks \ {h.id} : takes'[i] = takes[i]
    BY <1>5, <1>7, <2>1
  <2>3. AttemptsTakeOnce'
    BY <2>2 DEF AttemptsTakeOnce
  <2>4. TakesOK'
    BY <1>1, <1>5, <2>2 DEF TakesOK
  <2>5. ASSUME NEW f \in Live', takes'[f.id] > 0
        PROVE  f = h
    <3>1. f.id \in 1 .. MaxAsks
      BY <1>5
    <3>2. CASE f.id = h.id
      BY <1>1, <3>2
    <3>3. CASE f.id # h.id
      BY <1>1, <2>2, <2>5, <3>1, <3>3
    <3> QED
      BY <3>2, <3>3
  <2>6. ASSUME NEW f \in Live', takes'[f.id] > 0
        PROVE  valid' /\ chan' = ops'[f.op].chan /\ last' = f.seq
    BY <1>7, <2>5, <2>6
  <2>7. SeenOK'
    BY <2>6 DEF SeenOK, Seen
  <2> QED
    BY <1>4, <2>3, <2>4, <2>7
<1> QED
  BY <1>6, <1>7

LEMMA BoardTyped == ASSUME WildInv, Board PROVE TypeOK'
<1> DEFINE f == Head(down)
           op == ops[f.op]
<1> USE DEF WildInv
<1>1. /\ down # <<>> /\ down' = Tail(down)
      /\ UNCHANGED <<clientVars, wappVars, req, rsp, brokerVars>>
  BY DEF Board
<1>2. f \in Frame /\ f.op \in DOMAIN ops /\ op \in OpRecord /\ op.chan \in Channels
  <2>1. f \in Frame /\ f.op \in DOMAIN ops
    BY <1>1, FrontIsLast DEF brokerVars
  <2> QED
    BY <2>1, Typed
<1>3. PICK ok \in BOOLEAN :
          /\ up' = Append(up, [id |-> f.id, ok |-> ok])
          /\ \/ op.kind = "write" /\ OnWrite(f, op.chan, ok)
             \/ op.kind # "write" /\ OnSubscribe(op.kind, op.chan, ok)
  BY DEF Board
<1>4. down' \in Seq(Frame) /\ up' \in Seq(Answer)
  <2>1. [id |-> f.id, ok |-> ok] \in Answer
    BY <1>2, <1>3 DEF Frame, Answer
  <2> QED
    BY <1>1, <1>3, <2>1, AppendTyped, TailTyped DEF TypeOK
<1>5. /\ f.seq \in Seqs /\ f.id \in 1 .. MaxAsks /\ f.op \in Ops
      /\ op.fits \in BOOLEAN
  BY <1>2 DEF Frame, OpRecord
<1>6. ASSUME NEW c \in Channels, NEW whole \in BOOLEAN, Gains(c, f.op, whole)
      PROVE  stream' \in [Channels -> Seq(Piece)]
  <2>1. [op |-> f.op, whole |-> whole] \in Piece
    BY <1>5 DEF Piece
  <2>2. Append(stream[c], [op |-> f.op, whole |-> whole]) \in Seq(Piece)
    BY <2>1, AppendTyped DEF TypeOK
  <2> QED
    BY <1>6, <2>2 DEF Gains, TypeOK
<1>7. ASSUME NEW c \in Channels, Open(c)
      PROVE  opened' \in SUBSET Channels /\ chan' \in Channels \cup {None} /\ valid' \in BOOLEAN
  BY <1>7 DEF Open, Select, TypeOK
<1>8. /\ opened' \in SUBSET Channels /\ chan' \in Channels \cup {None}
      /\ last' \in Seqs /\ valid' \in BOOLEAN
      /\ stream' \in [Channels -> Seq(Piece)]
      /\ takes' \in [1 .. MaxAsks -> Nat]
  <2>1. CASE UNCHANGED boardVars
    BY <2>1 DEF boardVars, TypeOK
  <2>2. CASE Open(op.chan) /\ UNCHANGED <<last, stream, takes>>
    BY <1>2, <1>7, <2>2 DEF TypeOK
  <2>3. CASE TakeWrite(f, op.chan)
    <3>1. stream' \in [Channels -> Seq(Piece)]
      BY <1>2, <1>5, <1>6, <2>3 DEF TakeWrite
    <3>2. takes' = [takes EXCEPT ![f.id] = @ + 1] /\ takes \in [1 .. MaxAsks -> Nat]
      BY <2>3 DEF TakeWrite, TypeOK
    <3>3. takes' \in [1 .. MaxAsks -> Nat]
      BY <1>5, <3>2
    <3>4. opened' = opened \cup {op.chan} /\ chan' = op.chan /\ last' = f.seq /\ valid' = TRUE
      BY <2>3 DEF TakeWrite, Select
    <3> QED
      BY <1>2, <1>5, <3>1, <3>3, <3>4 DEF TypeOK
  <2>4. CASE Open(op.chan) /\ UNCHANGED <<last, takes>> /\ Gains(op.chan, f.op, FALSE)
    BY <1>2, <1>6, <1>7, <2>4 DEF TypeOK
  <2> QED
    BY <1>3, <2>1, <2>2, <2>3, <2>4 DEF OnWrite, OnSubscribe, DropRepeat, OpenFails, WriteFails
<1> QED
  BY <1>1, <1>4, <1>8 DEF TypeOK, clientVars, wappVars, brokerVars

LEMMA BoardWild == ASSUME WildInv, Board PROVE WildInv'
<1> DEFINE f == Head(down)
           op == ops[f.op]
<1>1. /\ down # <<>> /\ down' = Tail(down) /\ TypeOK'
      /\ UNCHANGED <<ops, asks, req, flight>>
  BY BoardTyped DEF Board, clientVars, wappVars, brokerVars
<1>2. f.op \in DOMAIN ops
  BY <1>1, FrontIsLast
<1>3. IsWrite(f.op) <=> op.kind = "write"
  BY <1>2 DEF IsWrite
<1>4. IsRepeat(f, op.chan) <=> Seen(f, op.chan)
  BY DEF IsRepeat, Seen
<1>5. PICK ok \in BOOLEAN :
          \/ op.kind = "write" /\ OnWrite(f, op.chan, ok)
          \/ op.kind # "write" /\ OnSubscribe(op.kind, op.chan, ok)
  BY DEF Board
<1>6. CASE UNCHANGED <<chan, last, valid, takes>>
  BY <1>1, <1>6, GoneWild
<1>7. CASE op.kind = "write" /\ DropRepeat(f, op.chan)
  BY <1>6, <1>7 DEF DropRepeat, IsRepeat, Open, Select, WildInv, TypeOK
<1>8. CASE op.kind = "write" /\ TakeWrite(f, op.chan)
  BY <1>1, <1>3, <1>4, <1>8, FrontWild DEF TakeWrite, Select
<1>9. CASE op.kind = "write" /\ WriteFails(f, op.chan)
  BY <1>1, <1>3, <1>4, <1>9, FrontWild DEF WriteFails
<1>10. CASE op.kind # "write" /\ takes' = takes
  BY <1>1, <1>3, <1>10, FrontWild
<1> QED
  BY <1>5, <1>6, <1>7, <1>8, <1>9, <1>10 DEF OnWrite, OnSubscribe, OpenFails, boardVars

LEMMA NextWild == WildInv /\ [Next]_vars => WildInv'
<1> SUFFICES ASSUME WildInv, [Next]_vars PROVE WildInv'
  OBVIOUS
<1>1. CASE \E c \in Channels : Write(c) \/ Subscribe(c)
  <2>1. PICK c \in Channels : Write(c) \/ Subscribe(c)
    BY <1>1
  <2>2. PICK kind \in Kinds, fits \in BOOLEAN : NewOp(kind, c, fits)
    BY <2>1 DEF Write, Subscribe, Kinds
  <2> QED
    BY <2>2, NewOpWild
<1>2. CASE UNCHANGED vars
  BY <1>2, GoneWild DEF vars, clientVars, wappVars, brokerVars, boardVars, WildInv, TypeOK
<1> QED
  BY <1>1, <1>2, RepeatWild, WappWild, BrokerWild, BoardWild DEF Next

(***************************************************************************)
(* The types hold whatever the clients do.                                 *)
(***************************************************************************)
THEOREM UsbTypeOK == Spec => []TypeOK
<1>1. WildInv => TypeOK
  BY DEF WildInv
<1> QED
  BY <1>1, InitWild, NextWild, PTL DEF Spec

(***************************************************************************)
(* No write reaches a device twice by the attempts of one request, whatever*)
(* the clients and tg-usb do meanwhile (ipc_usb_write).                    *)
(***************************************************************************)
THEOREM AttemptsReachOnce == Spec => []AttemptsTakeOnce
<1>1. WildInv => AttemptsTakeOnce
  BY DEF WildInv
<1> QED
  BY <1>1, InitWild, NextWild, PTL DEF Spec
=============================================================================
