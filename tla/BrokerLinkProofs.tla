-------------------------- MODULE BrokerLinkProofs --------------------------
(***************************************************************************)
(* Proofs about BrokerLink, for every number of peers and requests and     *)
(* every capacity of the pipes and the line: the invariant, the bound of   *)
(* the attempts, the rule of raw mode and the refinement of                *)
(* RequestService.                                                         *)
(***************************************************************************)
EXTENDS BrokerLink, FiniteSetTheorems, TLAPS

USE BrokerAssumption

-----------------------------------------------------------------------------
(* The sequences: what an operation adds to the frames of one.             *)

LEMMA PutFrames ==
    ASSUME NEW line \in Seq(LineFrame), NEW f \in LineFrame
    PROVE  /\ Put(line, f) \in Seq(LineFrame)
           /\ Frames(Put(line, f)) \subseteq Frames(line) \cup {f}
BY DEF Put, Frames

LEMMA AgedFrames ==
    ASSUME NEW line \in Seq(LineFrame)
    PROVE  /\ Aged(line) \in Seq(LineFrame)
           /\ \A f \in Frames(Aged(line)) : f \in Frames(line) /\ f.link_id # next_id
BY DEF Aged, Frames

LEMMA FramesType ==
    ASSUME NEW S, NEW q \in Seq(S)
    PROVE  Frames(q) \subseteq S
BY DEF Frames

LEMMA LineType ==
    ASSUME TypeOK
    PROVE  \A f \in Frames(down) \cup Frames(up) : f \in LineFrame /\ f.src \in Requests
<1>1. Frames(down) \subseteq LineFrame /\ Frames(up) \subseteq LineFrame
  BY FramesType DEF TypeOK
<1> QED
  BY <1>1 DEF LineFrame

LEMMA RspType ==
    ASSUME TypeOK
    PROVE  \A p \in Peers : \A f \in Frames(rsp[p]) : f \in RspFrame /\ f.src \in Requests
<1>1. \A p \in Peers : Frames(rsp[p]) \subseteq RspFrame
  BY FramesType DEF TypeOK
<1> QED
  BY <1>1 DEF RspFrame

LEMMA AppendElements ==
    ASSUME NEW S, NEW q \in Seq(S), NEW e \in S
    PROVE  /\ Append(q, e) \in Seq(S)
           /\ Len(Append(q, e)) = Len(q) + 1
           /\ \A k \in 1 .. Len(q) : Append(q, e)[k] = q[k]
           /\ Append(q, e)[Len(q) + 1] = e
OBVIOUS

LEMMA TailFrames ==
    ASSUME NEW S, NEW q \in Seq(S), q # <<>>
    PROVE  /\ Tail(q) \in Seq(S)
           /\ Head(q) \in S
           /\ Head(q) \in Frames(q)
           /\ Frames(Tail(q)) \subseteq Frames(q)
BY DEF Frames

LEMMA ToPeersFrames ==
    ASSUME rsp \in [Peers -> Seq(RspFrame)],
           NEW S, NEW f \in RspFrame, ToPeers(S, f)
    PROVE  /\ rsp' \in [Peers -> Seq(RspFrame)]
           /\ \A p \in Peers : Frames(rsp'[p]) \subseteq
                  Frames(rsp[p]) \cup (IF p \in S THEN {f} ELSE {})
<1>1. rsp' \in [Peers -> Seq(RspFrame)]
  BY DEF ToPeers
<1>2. ASSUME NEW p \in Peers
      PROVE  Frames(rsp'[p]) \subseteq Frames(rsp[p]) \cup (IF p \in S THEN {f} ELSE {})
  <2>1. CASE p \in S /\ Room(p)
    <3>1. rsp'[p] = Append(rsp[p], f)
      BY <2>1 DEF ToPeers
    <3> QED
      BY <2>1, <3>1 DEF Frames
  <2>2. CASE ~(p \in S /\ Room(p))
    BY <2>2 DEF ToPeers
  <2> QED
    BY <2>1, <2>2
<1> QED
  BY <1>1, <1>2

-----------------------------------------------------------------------------
(* An answer to a request.                                                 *)

LEMMA RequestPair ==
    ASSUME NEW p \in Peers, NEW i \in Ids
    PROVE  /\ <<p, i>> \in Requests
           /\ <<p, i>>[1] = p
           /\ <<p, i>>[2] = i
BY DEF Requests

LEMMA RequestIsPair ==
    ASSUME NEW r \in Requests
    PROVE  r[1] \in Peers /\ r[2] \in Ids /\ r = <<r[1], r[2]>>
BY DEF Requests

LEMMA ReplyEffect ==
    ASSUME TypeOK, NEW p \in Peers, NEW i \in Ids, NEW v \in Verdicts,
           NEW src \in Requests, Reply(p, i, v, src)
    PROVE  /\ rsp' \in [Peers -> Seq(RspFrame)]
           /\ verdict' \in [Requests -> Verdicts]
           /\ answers' \in [Requests -> Nat]
           /\ verdict'[<<p, i>>] = v
           /\ answers'[<<p, i>>] = answers[<<p, i>>] + 1
           /\ \A r \in Requests \ {<<p, i>>} :
                  verdict'[r] = verdict[r] /\ answers'[r] = answers[r]
           /\ \A q \in Peers : \A f \in Frames(rsp'[q]) :
                  \/ f \in Frames(rsp[q])
                  \/ q = p /\ f = [corr |-> i, says |-> v, src |-> src]
<1>1. [corr |-> i, says |-> v, src |-> src] \in RspFrame
  BY DEF RspFrame, Ids
<1>2. /\ rsp' \in [Peers -> Seq(RspFrame)]
      /\ \A q \in Peers : \A f \in Frames(rsp'[q]) :
             \/ f \in Frames(rsp[q])
             \/ q = p /\ f = [corr |-> i, says |-> v, src |-> src]
  <2> DEFINE g == [corr |-> i, says |-> v, src |-> src]
  <2>1. ToPeers({p}, g) /\ rsp \in [Peers -> Seq(RspFrame)] /\ g \in RspFrame
    BY <1>1 DEF Reply, TypeOK
  <2> HIDE DEF g
  <2>2. /\ rsp' \in [Peers -> Seq(RspFrame)]
        /\ \A q \in Peers : Frames(rsp'[q]) \subseteq
               Frames(rsp[q]) \cup (IF q \in {p} THEN {g} ELSE {})
    BY <2>1, ToPeersFrames
  <2>3. \A q \in Peers : \A f \in Frames(rsp'[q]) : f \in Frames(rsp[q]) \/ (q = p /\ f = g)
    BY <2>2
  <2> QED
    BY <2>2, <2>3 DEF g
<1>3. <<p, i>> \in Requests
  BY RequestPair
<1>4. /\ verdict' \in [Requests -> Verdicts]
      /\ verdict'[<<p, i>>] = v
      /\ \A r \in Requests \ {<<p, i>>} : verdict'[r] = verdict[r]
  BY <1>3 DEF Reply, TypeOK
<1>5. /\ answers' \in [Requests -> Nat]
      /\ answers'[<<p, i>>] = answers[<<p, i>>] + 1
      /\ \A r \in Requests \ {<<p, i>>} : answers'[r] = answers[r]
  <2> DEFINE own == <<p, i>>
  <2>1. /\ answers \in [Requests -> Nat] /\ own \in Requests
        /\ answers' = [answers EXCEPT ![own] = answers[own] + 1]
    BY <1>3 DEF Reply, TypeOK
  <2> HIDE DEF own
  <2>2. /\ answers' \in [Requests -> Nat] /\ answers'[own] = answers[own] + 1
        /\ \A r \in Requests \ {own} : answers'[r] = answers[r]
    BY <2>1
  <2> QED
    BY <2>2 DEF own
<1> QED
  BY <1>2, <1>4, <1>5

\* An answer keeps the records of the requests in order when it is the first
\* one and agrees with what the board did.
LEMMA AnswerKeepsRequests ==
    ASSUME TypeOK, RequestOK, NEW p \in Peers, NEW i \in Ids,
           NEW v \in Verdicts \ {"none"}, NEW src \in Requests,
           Reply(p, i, v, src), UNCHANGED runs,
           verdict[<<p, i>>] = "none",
           v \in Local => runs[<<p, i>>] = 0,
           v = "reply" => runs[<<p, i>>] > 0,
           ~Untouched(<<p, i>>)',
           \A r \in Requests : Untouched(r)' => Untouched(r)
    PROVE  RequestOK'
<1> DEFINE q == <<p, i>>
<1>1. /\ q \in Requests
      /\ verdict'[q] = v /\ answers'[q] = answers[q] + 1
      /\ \A r \in Requests \ {q} : verdict'[r] = verdict[r] /\ answers'[r] = answers[r]
  BY ReplyEffect, RequestPair
<1>2. answers[q] = 0
  BY <1>1 DEF RequestOK
<1> HIDE DEF q
<1> QED
  BY <1>1, <1>2 DEF RequestOK, q

LEMMA AnswerIsOwn ==
    ASSUME TypeOK, ReplyIsOwn, NEW p \in Peers, NEW i \in Ids,
           NEW v \in Verdicts, NEW src \in Requests,
           Reply(p, i, v, src), UNCHANGED runs,
           v = "reply" => src = <<p, i>> /\ runs[src] > 0
    PROVE  ReplyIsOwn'
<1>1. \A q \in Peers : \A f \in Frames(rsp'[q]) :
          \/ f \in Frames(rsp[q])
          \/ q = p /\ f = [corr |-> i, says |-> v, src |-> src]
  BY ReplyEffect
<1> QED
  BY <1>1 DEF ReplyIsOwn

\* A frame that is no reply leaves the replies in the pipes as they are.
LEMMA OtherFrameIsOwn ==
    ASSUME TypeOK, ReplyIsOwn, NEW S, NEW f \in RspFrame, f.says # "reply",
           ToPeers(S, f), UNCHANGED runs
    PROVE  ReplyIsOwn'
<1>1. \A q \in Peers : Frames(rsp'[q]) \subseteq Frames(rsp[q]) \cup {f}
  BY ToPeersFrames DEF TypeOK
<1> QED
  BY <1>1 DEF ReplyIsOwn

-----------------------------------------------------------------------------
LEMMA InitIInv == Init => IInv
<1> SUFFICES ASSUME Init PROVE IInv
  OBVIOUS
<1>1. TypeOK
  BY DEF Init, TypeOK, Peers, Inflight, LinkIds, Verdicts
<1>2. PipeOK /\ LoopOK /\ BusyOK
  BY DEF Init, PipeOK, LoopOK, BusyOK, Taken
<1>3. RequestOK
  BY RequestIsPair DEF Init, RequestOK, Local
<1>4. LineOK /\ ReplyIsOwn
  BY DEF Init, LineOK, ReplyIsOwn, Frames
<1> QED
  BY <1>1, <1>2, <1>3, <1>4 DEF IInv

-----------------------------------------------------------------------------
(* Steps that touch neither a request nor the line.                        *)

LEMMA LoopStep ==
    ASSUME IInv, UNCHANGED <<peerVars, linkVars, lineVars, history>>,
           pc' \in {"link", "peers", "frames", "timers"}, turn' \in Peers,
           left' \in Nat, LoopOK'
    PROVE  IInv'
<1> USE DEF IInv, peerVars, linkVars, lineVars, history
<1>1. TypeOK'
  BY DEF TypeOK
<1>2. PipeOK'
  BY DEF PipeOK, Taken
<1>3. RequestOK'
  BY DEF RequestOK, Untouched, Taken
<1>4. BusyOK'
  BY DEF BusyOK, Untouched, Taken, Current
<1>5. LineOK'
  <2>1. UNCHANGED <<asked, pipe, verdict, inflight, down, up, runs>> /\ LineOK
    OBVIOUS
  <2> HIDE DEF IInv, peerVars, linkVars, lineVars, history
  <2>2. ASSUME NEW f PROVE FrameOK(f)' <=> FrameOK(f)
    BY <2>1 DEF FrameOK, Untouched, Taken, Current
  <2> QED
    BY <2>1, <2>2 DEF LineOK
<1>6. ReplyIsOwn'
  BY DEF ReplyIsOwn
<1> QED
  BY <1>1, <1>2, <1>3, <1>4, <1>5, <1>6

LEMMA TurnType ==
    ASSUME TypeOK, NextTurn
    PROVE  pc' \in {"link", "peers", "frames", "timers"} /\ turn' \in Peers /\ LoopOK'
<1>1. turn \in 1 .. NPeers
  BY DEF TypeOK, Peers
<1>2. CASE turn = NPeers
  <2>1. pc' = "timers" /\ turn' = 1 /\ 1 \in 1 .. NPeers
    BY <1>1, <1>2 DEF NextTurn
  <2> QED
    BY <2>1 DEF Peers, LoopOK
<1>3. CASE turn # NPeers
  <2>1. pc' = "peers" /\ turn' = turn + 1 /\ turn + 1 \in 1 .. NPeers
    <3>1. pc' = "peers" /\ turn' = turn + 1
      BY <1>3 DEF NextTurn
    <3>2. turn + 1 \in 1 .. NPeers
      BY <1>1, <1>3, BrokerAssumption
    <3> QED
      BY <3>1, <3>2
  <2> QED
    BY <2>1 DEF Peers, LoopOK
<1> QED
  BY <1>2, <1>3

LEMMA StutterStep ==
    ASSUME IInv, UNCHANGED vars
    PROVE  IInv'
<1> USE DEF vars, loopVars
<1>1. UNCHANGED <<peerVars, linkVars, lineVars, history>>
  OBVIOUS
<1>2. LoopOK'
  BY DEF IInv, LoopOK, peerVars
<1> QED
  BY <1>1, <1>2, LoopStep DEF IInv, TypeOK

LEMMA LeaveLinkStep == ASSUME IInv, LeaveLink PROVE IInv'
<1> USE DEF LeaveLink
<1>1. LoopOK'
  BY DEF LoopOK
<1>2. turn' \in Peers
  BY DEF Peers
<1>3. left' \in Nat
  BY DEF IInv, TypeOK
<1> QED
  BY <1>1, <1>2, <1>3, LoopStep

LEMMA SkipPipeStep == ASSUME IInv, SkipPipe PROVE IInv'
BY TurnType, LoopStep DEF SkipPipe, IInv, TypeOK

LEMMA ReadPipeStep == ASSUME IInv, ReadPipe PROVE IInv'
<1>1. left' \in Nat
  BY DEF ReadPipe, IInv, TypeOK
<1>2. LoopOK'
  BY DEF ReadPipe, LoopOK, peerVars
<1> QED
  BY <1>1, <1>2, LoopStep DEF ReadPipe, IInv, TypeOK

LEMMA NoTimeoutStep == ASSUME IInv, NoTimeout PROVE IInv'
<1>1. LoopOK'
  BY DEF NoTimeout, LoopOK
<1> QED
  BY <1>1, LoopStep DEF NoTimeout, IInv, TypeOK

LEMMA GiveUpStep == ASSUME IInv, NEW p \in Peers, GiveUp(p) PROVE IInv'
<1> USE DEF GiveUp, IInv, loopVars, linkVars, lineVars, history
<1>1. TypeOK'
  BY DEF TypeOK
<1>2. PipeOK' /\ LoopOK'
  BY DEF PipeOK, LoopOK, Taken
<1>3. RequestOK'
  BY DEF RequestOK, Untouched, Taken
<1>4. BusyOK'
  BY DEF BusyOK, Untouched, Taken, Current
<1>5. LineOK'
  BY DEF LineOK, FrameOK, Untouched, Taken, Current
<1>6. ReplyIsOwn'
  BY DEF ReplyIsOwn
<1> QED
  BY <1>1, <1>2, <1>3, <1>4, <1>5, <1>6

LEMMA ReceiveStep == ASSUME IInv, NEW p \in Peers, Receive(p) PROVE IInv'
<1> USE DEF Receive, IInv, loopVars, linkVars, lineVars, history
<1>1. /\ Tail(rsp[p]) \in Seq(RspFrame)
      /\ Frames(Tail(rsp[p])) \subseteq Frames(rsp[p])
  BY TailFrames DEF TypeOK
<1>2. TypeOK'
  BY <1>1 DEF TypeOK
<1>3. PipeOK' /\ LoopOK'
  BY DEF PipeOK, LoopOK, Taken
<1>4. RequestOK'
  BY DEF RequestOK, Untouched, Taken
<1>5. BusyOK'
  BY DEF BusyOK, Untouched, Taken, Current
<1>6. LineOK'
  BY DEF LineOK, FrameOK, Untouched, Taken, Current
<1>7. ReplyIsOwn'
  BY <1>1 DEF ReplyIsOwn, TypeOK
<1> QED
  BY <1>2, <1>3, <1>4, <1>5, <1>6, <1>7

-----------------------------------------------------------------------------
(* A peer writes a request.                                                *)

LEMMA AskStep ==
    ASSUME IInv, NEW p \in Peers, NEW kind \in KindsOf(p), Ask(p, kind)
    PROVE  IInv'
<1> USE DEF Ask, IInv, loopVars, linkVars, lineVars, history
<1> DEFINE r == [id |-> asked[p] + 1, kind |-> kind]
<1>0. /\ pipe \in [Peers -> Seq(Request)] /\ asked \in [Peers -> Nat]
      /\ down \in Seq(LineFrame) /\ up \in Seq(LineFrame)
  BY DEF TypeOK
<1>1. asked[p] + 1 \in Ids /\ asked' \in [Peers -> 0 .. MaxReqs]
  BY DEF TypeOK, Ids
<1>2. r \in Request
  BY <1>1 DEF Request, KindsOf, Kinds
<1>3. /\ pipe' \in [Peers -> Seq(Request)]
      /\ pipe'[p] = Append(pipe[p], r)
      /\ asked'[p] = asked[p] + 1
      /\ \A q \in Peers \ {p} : pipe'[q] = pipe[q] /\ asked'[q] = asked[q]
  BY <1>0, <1>2
<1>4. TypeOK'
  <2>1. want' \in [Peers -> 0 .. MaxReqs]
    BY <1>1 DEF TypeOK, Ids
  <2> QED
    BY <1>1, <1>3, <2>1 DEF TypeOK
<1>5. /\ Len(pipe'[p]) = Len(pipe[p]) + 1
      /\ \A k \in 1 .. Len(pipe[p]) : pipe'[p][k] = pipe[p][k]
      /\ pipe'[p][Len(pipe[p]) + 1] = r
      /\ Len(pipe[p]) \in Nat /\ asked[p] \in Nat
  BY <1>0, <1>2, <1>3, AppendElements
<1>6. \A q \in Peers : Taken(q)' = Taken(q)
  BY <1>3, <1>5 DEF Taken
<1>7. PipeOK'
  <2>1. ASSUME NEW q \in Peers, NEW k \in 1 .. Len(pipe'[q])
        PROVE  pipe'[q][k].id = Taken(q)' + k
    <3>1. CASE q # p \/ k \in 1 .. Len(pipe[p])
      BY <1>3, <1>5, <1>6, <3>1 DEF PipeOK
    <3>2. CASE q = p /\ k = Len(pipe[p]) + 1
      BY <1>5, <1>6, <3>2 DEF Taken
    <3> QED
      BY <1>5, <3>1, <3>2
  <2> QED
    BY <1>6, <2>1 DEF PipeOK
<1>12. LoopOK'
  <2>1. Len(pipe[turn]) <= Len(pipe'[turn]) /\ Len(pipe[turn]) \in Nat /\ Len(pipe'[turn]) \in Nat
    BY <1>0, <1>3, <1>5 DEF TypeOK
  <2> QED
    BY <2>1 DEF LoopOK, TypeOK
<1>13. \A s \in Requests : Untouched(s)' <=> Untouched(s)
  BY <1>6, RequestIsPair DEF Untouched
<1>8. RequestOK'
  BY <1>13 DEF RequestOK
<1>9. BusyOK'
  <2>1. inflight.busy => Current \in Requests
    BY RequestPair DEF BusyOK, Current, TypeOK, Inflight
  <2> QED
    BY <1>13, <2>1 DEF BusyOK, Current
<1>10. LineOK'
  BY <1>13, LineType DEF LineOK, FrameOK, Current
<1>11. ReplyIsOwn'
  BY DEF ReplyIsOwn
<1> QED
  BY <1>4, <1>7, <1>8, <1>9, <1>10, <1>11, <1>12

-----------------------------------------------------------------------------
(* The board and the line.                                                 *)

LEMMA RunRequestStep == ASSUME IInv, RunRequest PROVE IInv'
<1> USE DEF RunRequest, IInv, peerVars, loopVars, linkVars
<1> DEFINE h == Head(down)
<1>1. /\ down \in Seq(LineFrame) /\ up \in Seq(LineFrame)
      /\ runs \in [Requests -> Nat]
  BY DEF TypeOK
<1>2. /\ h \in LineFrame /\ h \in Frames(down) /\ h.kind = "op"
      /\ down' \in Seq(LineFrame) /\ Frames(down') \subseteq Frames(down)
  BY <1>1, TailFrames
<1>3. up' \in Seq(LineFrame) /\ Frames(up') \subseteq Frames(up) \cup {h}
  BY <1>1, <1>2, PutFrames
<1>4. /\ h.src \in Requests
      /\ runs' \in [Requests -> Nat]
      /\ runs'[h.src] > 0
      /\ \A r \in Requests : runs'[r] >= runs[r]
      /\ \A r \in Requests \ {h.src} : runs'[r] = runs[r]
  BY <1>1, <1>2, LineType
<1>5. FrameOK(h)
  BY <1>2 DEF LineOK
<1>6. TypeOK'
  BY <1>2, <1>3, <1>4 DEF TypeOK
<1>7. PipeOK' /\ LoopOK'
  BY DEF PipeOK, LoopOK, Taken
<1>8. RequestOK'
  <2>1. ~Untouched(h.src) /\ verdict[h.src] \notin Local
    BY <1>2, <1>5 DEF FrameOK
  <2>2. \A r \in Requests : runs'[r] \in Nat /\ runs[r] \in Nat
    BY <1>1, <1>4
  <2> QED
    BY <1>4, <2>1, <2>2 DEF RequestOK, Untouched, Taken
<1>9. BusyOK'
  BY DEF BusyOK, Untouched, Taken, Current
<1>10. LineOK'
  <2>1. \A f : FrameOK(f)' <=> FrameOK(f)
    BY DEF FrameOK, Untouched, Taken, Current
  <2>2. \A f \in Frames(down) \cup Frames(up) : f.src \in Requests
    BY LineType
  <2>3. \A r \in Requests : runs'[r] \in Nat /\ runs[r] \in Nat
    BY <1>1, <1>4
  <2>4. \A f \in Frames(down') : FrameOK(f)'
    BY <1>2, <2>1 DEF LineOK
  <2>5. \A f \in Frames(up') : FrameOK(f)' /\ (f.kind = "op" => runs'[f.src] > 0)
    BY <1>3, <1>4, <1>5, <2>1, <2>2, <2>3 DEF LineOK
  <2> QED
    BY <2>4, <2>5 DEF LineOK
<1>11. ReplyIsOwn'
  <2>1. \A p \in Peers : \A f \in Frames(rsp[p]) : f.src \in Requests
    BY RspType
  <2>2. \A r \in Requests : runs'[r] \in Nat /\ runs[r] \in Nat
    BY <1>1, <1>4
  <2> QED
    BY <1>4, <2>1, <2>2 DEF ReplyIsOwn
<1> QED
  BY <1>6, <1>7, <1>8, <1>9, <1>10, <1>11

\* A step of the line that adds at most frames which are no requests, and
\* requests that are on the line already.
LEMMA LineStepKeeps ==
    ASSUME IInv, UNCHANGED <<peerVars, loopVars, linkVars, history>>,
           pushes' \in 0 .. MaxPush,
           down' \in Seq(LineFrame), up' \in Seq(LineFrame),
           \A f \in Frames(down') : f \in Frames(down),
           \A f \in Frames(up') : f \in Frames(up) \/ f.kind # "op"
    PROVE  IInv'
<1> USE DEF IInv, peerVars, loopVars, linkVars, history
<1>1. TypeOK'
  BY DEF TypeOK
<1>2. PipeOK' /\ LoopOK'
  BY DEF PipeOK, LoopOK, Taken
<1>3. RequestOK'
  BY DEF RequestOK, Untouched, Taken
<1>4. BusyOK'
  BY DEF BusyOK, Untouched, Taken, Current
<1>5. LineOK'
  <2>1. \A f : FrameOK(f)' <=> FrameOK(f)
    BY DEF FrameOK, Untouched, Taken, Current
  <2>2. \A f : f.kind # "op" => FrameOK(f)
    BY DEF FrameOK
  <2> QED
    BY <2>1, <2>2 DEF LineOK
<1>6. ReplyIsOwn'
  BY DEF ReplyIsOwn
<1> QED
  BY <1>1, <1>2, <1>3, <1>4, <1>5, <1>6

LEMMA AnswerRawStep == ASSUME IInv, AnswerRaw PROVE IInv'
<1>1. down \in Seq(LineFrame) /\ up \in Seq(LineFrame) /\ pushes \in 0 .. MaxPush
  BY DEF IInv, TypeOK
<1>2. /\ Head(down) \in LineFrame /\ Head(down).kind = "raw"
      /\ down' \in Seq(LineFrame) /\ Frames(down') \subseteq Frames(down)
  BY <1>1, TailFrames DEF AnswerRaw
<1>3. up' \in Seq(LineFrame) /\ Frames(up') \subseteq Frames(up) \cup {Head(down)}
  BY <1>1, <1>2, PutFrames DEF AnswerRaw
<1> QED
  BY <1>1, <1>2, <1>3, LineStepKeeps DEF AnswerRaw

LEMMA PushFrameStep == ASSUME IInv, PushFrame PROVE IInv'
<1> DEFINE f == [kind |-> "push", link_id |-> 0, src |-> <<1, 1>>]
<1>1. down \in Seq(LineFrame) /\ up \in Seq(LineFrame) /\ pushes' \in 0 .. MaxPush
  BY DEF IInv, TypeOK, PushFrame
<1>2. f \in LineFrame
  BY RequestPair DEF LineFrame, Peers, Ids
<1>3. up' \in Seq(LineFrame) /\ Frames(up') \subseteq Frames(up) \cup {f}
  BY <1>1, <1>2, PutFrames DEF PushFrame
<1> QED
  BY <1>1, <1>3, LineStepKeeps DEF PushFrame

LEMMA LoseStep == ASSUME IInv, Lose PROVE IInv'
<1>1. down \in Seq(LineFrame) /\ up \in Seq(LineFrame) /\ pushes \in 0 .. MaxPush
  BY DEF IInv, TypeOK
<1>2. CASE down # <<>> /\ down' = Tail(down) /\ UNCHANGED up
  <2>1. down' \in Seq(LineFrame) /\ Frames(down') \subseteq Frames(down)
    BY <1>1, <1>2, TailFrames
  <2> QED
    BY <1>1, <1>2, <2>1, LineStepKeeps DEF Lose
<1>3. CASE up # <<>> /\ up' = Tail(up) /\ UNCHANGED down
  <2>1. up' \in Seq(LineFrame) /\ Frames(up') \subseteq Frames(up)
    BY <1>1, <1>3, TailFrames
  <2> QED
    BY <1>1, <1>3, <2>1, LineStepKeeps DEF Lose
<1> QED
  BY <1>2, <1>3 DEF Lose

-----------------------------------------------------------------------------
(* check_timeout.                                                          *)

LEMMA ResendStep == ASSUME IInv, Resend PROVE IInv'
<1> USE DEF Resend, IInv, peerVars, history
<1> DEFINE f == [kind |-> "op", link_id |-> inflight.link_id, src |-> Current]
<1>1. /\ down \in Seq(LineFrame) /\ inflight \in Inflight
      /\ inflight.busy /\ inflight.tries < REPLY_TRIES
  BY DEF TypeOK, TriesLeft
<1>2. Current \in Requests
  BY <1>1, RequestPair DEF BusyOK, Current, Inflight
<1>3. f \in LineFrame
  BY <1>1, <1>2 DEF LineFrame, Inflight
<1>4. down' \in Seq(LineFrame) /\ Frames(down') \subseteq Frames(down) \cup {f}
  <2>1. down' = Put(down, f)
    BY DEF Current
  <2> HIDE DEF Resend, IInv, f
  <2> QED
    BY <1>1, <1>3, <2>1, PutFrames
<1>5. /\ inflight' \in Inflight
      /\ inflight'.busy /\ inflight'.peer_id = inflight.peer_id
      /\ inflight'.peer = inflight.peer /\ inflight'.link_id = inflight.link_id
  <2>1. inflight' = [inflight EXCEPT !.tries = inflight.tries + 1]
    OBVIOUS
  <2> HIDE DEF Resend, IInv, f
  <2>2. inflight.tries + 1 \in 0 .. REPLY_TRIES
    BY <1>1, BrokerAssumption DEF Inflight
  <2> QED
    BY <1>1, <2>1, <2>2 DEF Inflight
<1>6. TypeOK'
  BY <1>4, <1>5 DEF TypeOK
<1>7. PipeOK' /\ LoopOK'
  BY DEF PipeOK, LoopOK, Taken
<1>8. RequestOK'
  BY DEF RequestOK, Untouched, Taken
<1>9. Current' = Current /\ (\A r : Untouched(r)' <=> Untouched(r))
  BY <1>5 DEF Current, Untouched, Taken
<1>10. BusyOK'
  BY <1>1, <1>5, <1>9 DEF BusyOK
<1>11. LineOK'
  <2>1. \A g : FrameOK(g)' <=> FrameOK(g)
    BY <1>5, <1>9 DEF FrameOK
  <2>2. FrameOK(f)
    BY <1>1 DEF FrameOK, BusyOK, Local
  <2> QED
    BY <1>4, <2>1, <2>2 DEF LineOK
<1>12. ReplyIsOwn'
  BY DEF ReplyIsOwn
<1> QED
  BY <1>6, <1>7, <1>8, <1>10, <1>11, <1>12

LEMMA IdleEffect ==
    ASSUME TypeOK
    PROVE  /\ Idle \in Inflight
           /\ ~Idle.busy
           /\ Idle.link_id = inflight.link_id
           /\ Idle.peer = inflight.peer /\ Idle.peer_id = inflight.peer_id
BY DEF TypeOK, Idle, Inflight

\* The request in flight takes its answer and the line is free again.
LEMMA AnswerInFlight ==
    ASSUME IInv, inflight.busy, NEW v \in {"reply", "failed"},
           NEW src \in Requests,
           v = "reply" => src = Current /\ runs[src] > 0,
           Reply(inflight.peer, inflight.peer_id, v, src),
           inflight' = Idle, pc' \in {"link", "timers"},
           UNCHANGED <<pipe, asked, want, turn, left, next_id, raw, down, pushes, runs>>,
           up' \in Seq(LineFrame), \A f \in Frames(up') : f \in Frames(up)
    PROVE  IInv'
<1> USE DEF IInv
<1>1. /\ inflight.peer \in Peers /\ inflight.peer_id \in Ids
      /\ Current \in Requests
  BY RequestPair DEF BusyOK, TypeOK, Inflight, Current
<1>2. v \in Verdicts \ {"none"} /\ v \notin Local
  BY DEF Verdicts, Local
<1>3. /\ rsp' \in [Peers -> Seq(RspFrame)]
      /\ verdict' \in [Requests -> Verdicts]
      /\ answers' \in [Requests -> Nat]
      /\ verdict'[Current] = v
      /\ \A r \in Requests \ {Current} : verdict'[r] = verdict[r]
  BY <1>1, <1>2, ReplyEffect DEF Current
<1>4. \A r : Untouched(r)' <=> Untouched(r)
  BY DEF Untouched, Taken
<1>5. TypeOK'
  BY <1>3, IdleEffect DEF TypeOK
<1>6. PipeOK' /\ LoopOK'
  BY DEF PipeOK, LoopOK, Taken
<1>7. RequestOK'
  BY <1>1, <1>2, <1>4, AnswerKeepsRequests DEF BusyOK, Current
<1>8. BusyOK'
  BY IdleEffect DEF BusyOK
<1>9. LineOK'
  <2>1. ASSUME NEW f \in Frames(down) \cup Frames(up), FrameOK(f)
        PROVE  FrameOK(f)'
    <3>1. f.src \in Requests
      BY LineType
    <3>2. Current' = Current /\ inflight'.link_id = inflight.link_id
      BY IdleEffect DEF Current
    <3> QED
      BY <1>2, <1>3, <1>4, <2>1, <3>1, <3>2 DEF FrameOK
  <2> QED
    BY <2>1 DEF LineOK
<1>10. ReplyIsOwn'
  BY <1>1, <1>2, AnswerIsOwn DEF Current
<1> QED
  BY <1>5, <1>6, <1>7, <1>8, <1>9, <1>10

LEMMA FailStep == ASSUME IInv, Fail PROVE IInv'
<1>1. Current \in Requests
  BY RequestPair DEF Fail, IInv, BusyOK, Current, TypeOK, Inflight
<1>2. up' \in Seq(LineFrame) /\ Frames(up') = Frames(up)
  BY DEF Fail, lineVars, IInv, TypeOK
<1>3. Reply(inflight.peer, inflight.peer_id, "failed", Current)
  BY DEF Fail, Nack, Current
<1> QED
  BY <1>1, <1>2, <1>3, AnswerInFlight DEF Fail, lineVars

-----------------------------------------------------------------------------
(* pump_link.                                                              *)

\* What the broker reads from the line and does not take for a reply.
LEMMA ReadLinkKeeps ==
    ASSUME IInv, UNCHANGED <<pipe, asked, want, loopVars, linkVars, down, pushes, history>>,
           rsp' \in [Peers -> Seq(RspFrame)], ReplyIsOwn',
           up' \in Seq(LineFrame), \A f \in Frames(up') : f \in Frames(up)
    PROVE  IInv'
<1> USE DEF IInv, loopVars, linkVars, history
<1>1. TypeOK'
  BY DEF TypeOK
<1>2. PipeOK' /\ LoopOK'
  BY DEF PipeOK, LoopOK, Taken
<1>3. RequestOK'
  BY DEF RequestOK, Untouched, Taken
<1>4. BusyOK'
  BY DEF BusyOK, Untouched, Taken, Current
<1>5. LineOK'
  BY DEF LineOK, FrameOK, Untouched, Taken, Current
<1> QED
  BY <1>1, <1>2, <1>3, <1>4, <1>5

LEMMA ReadLinkStep == ASSUME IInv, ReadLink PROVE IInv'
<1> DEFINE h == Head(up)
<1>1. TypeOK /\ ReplyIsOwn /\ up \in Seq(LineFrame) /\ rsp \in [Peers -> Seq(RspFrame)]
  BY DEF IInv, TypeOK
<1>2. /\ h \in LineFrame /\ h \in Frames(up) /\ h.src \in Requests
      /\ up' \in Seq(LineFrame) /\ Frames(up') \subseteq Frames(up)
  BY <1>1, TailFrames, LineType DEF ReadLink
<1>3. ASSUME UNCHANGED <<rsp, verdict, answers, inflight>>
      PROVE  IInv'
  <2>1. ReplyIsOwn'
    BY <1>1, <1>3 DEF ReplyIsOwn, ReadLink
  <2> QED
    BY <1>1, <1>2, <1>3, <2>1, ReadLinkKeeps DEF ReadLink, linkVars, history
<1>4. ASSUME NEW S, NEW says \in {"push", "raw"},
             ToPeers(S, [corr |-> 0, says |-> says, src |-> h.src]),
             UNCHANGED <<verdict, answers, inflight>>
      PROVE  IInv'
  <2> DEFINE f == [corr |-> 0, says |-> says, src |-> h.src]
  <2>1. f \in RspFrame /\ f.says # "reply"
    BY <1>2 DEF RspFrame
  <2>2. ReplyIsOwn'
    BY <1>1, <1>4, <2>1, OtherFrameIsOwn DEF ReadLink
  <2>3. rsp' \in [Peers -> Seq(RspFrame)]
    BY <1>1, <1>4, <2>1, ToPeersFrames
  <2> QED
    BY <1>2, <1>4, <2>2, <2>3, ReadLinkKeeps DEF ReadLink, linkVars, history
<1>5. CASE raw # 0
  BY <1>4, <1>5 DEF ReadLink, OnLinkFrame
<1>6. CASE raw = 0 /\ h.kind = "raw"
  BY <1>3, <1>6 DEF ReadLink, OnLinkFrame
<1>7. CASE raw = 0 /\ h.kind = "push"
  BY <1>4, <1>7 DEF ReadLink, OnLinkFrame, DemuxPush
<1>8. CASE raw = 0 /\ h.kind = "op" /\ Matches(h)
  <2>1. /\ Reply(inflight.peer, inflight.peer_id, "reply", h.src)
        /\ inflight' = Idle
    BY <1>8 DEF ReadLink, OnLinkFrame, OnReply
  <2>2. h.src = Current /\ runs[h.src] > 0
    BY <1>2, <1>8 DEF IInv, LineOK, FrameOK, Matches
  <2> QED
    BY <1>2, <1>8, <2>1, <2>2, AnswerInFlight DEF ReadLink, Matches, loopVars
<1>9. CASE raw = 0 /\ h.kind = "op" /\ ~Matches(h)
  BY <1>3, <1>9 DEF ReadLink, OnLinkFrame, OnReply
<1> QED
  BY <1>2, <1>5, <1>6, <1>7, <1>8, <1>9 DEF LineFrame

-----------------------------------------------------------------------------
(* pump_peers: the broker takes one request out of a pipe.                 *)

LEMMA TakeRequest ==
    ASSUME IInv, HandleFrame, NEW p, p = turn, NEW r, r = Head(pipe[p]),
           NEW q, q = <<p, r.id>>
    PROVE  /\ p \in Peers /\ r.id \in Ids /\ r \in Request /\ q \in Requests
           /\ Untouched(q) /\ ~Untouched(q)'
           /\ \A s \in Requests \ {q} : Untouched(s)' <=> Untouched(s)
           /\ pipe' \in [Peers -> Seq(Request)]
           /\ pc' \in {"link", "peers", "frames", "timers"} /\ turn' \in Peers
           /\ left' \in Nat
           /\ PipeOK' /\ LoopOK'
<1>1. /\ pipe \in [Peers -> Seq(Request)] /\ p \in Peers /\ left \in Nat
      /\ asked \in [Peers -> Nat] /\ pc = "frames" /\ asked' = asked
      /\ pipe' = [pipe EXCEPT ![p] = Tail(@)]
  BY DEF IInv, TypeOK, HandleFrame
<1>2. left \in 1 .. Len(pipe[p]) /\ Len(pipe[p]) \in Nat
  BY <1>1 DEF IInv, LoopOK
<1>3. /\ r \in Request /\ r = pipe[p][1]
      /\ Tail(pipe[p]) \in Seq(Request)
      /\ Len(Tail(pipe[p])) = Len(pipe[p]) - 1
      /\ \A k \in 1 .. Len(pipe[p]) - 1 : Tail(pipe[p])[k] = pipe[p][k + 1]
  BY <1>1, <1>2
<1>4. /\ pipe' \in [Peers -> Seq(Request)]
      /\ pipe'[p] = Tail(pipe[p])
      /\ \A w \in Peers \ {p} : pipe'[w] = pipe[w]
  BY <1>1, <1>3
<1>5. /\ Taken(p)' = Taken(p) + 1
      /\ \A w \in Peers \ {p} : Taken(w)' = Taken(w)
      /\ \A w \in Peers : Taken(w) \in Nat /\ Taken(w)' \in Nat
  <2>1. \A w \in Peers : Taken(w) \in Nat
    BY DEF IInv, PipeOK
  <2>2. Taken(p)' = Taken(p) + 1
    BY <1>1, <1>2, <1>3, <1>4 DEF Taken
  <2>3. \A w \in Peers \ {p} : Taken(w)' = Taken(w)
    BY <1>1, <1>4 DEF Taken
  <2>4. ASSUME NEW w \in Peers
        PROVE  Taken(w)' \in Nat
    <3>1. Taken(w) \in Nat
      BY <2>1
    <3>2. CASE w = p
      BY <2>2, <3>1, <3>2
    <3>3. CASE w # p
      BY <2>3, <3>1, <3>3
    <3> QED
      BY <3>2, <3>3
  <2> QED
    BY <2>1, <2>2, <2>3, <2>4
<1>6. r.id = Taken(p) + 1
  BY <1>1, <1>2, <1>3 DEF IInv, PipeOK
<1>7. r.id \in Ids /\ q \in Requests /\ q[1] = p /\ q[2] = r.id
  BY <1>1, <1>3, RequestPair DEF Request
<1>8. Untouched(q) /\ ~Untouched(q)'
  BY <1>1, <1>5, <1>6, <1>7 DEF Untouched
<1>9. ASSUME NEW s \in Requests \ {q}
      PROVE  Untouched(s)' <=> Untouched(s)
  <2>1. s[1] \in Peers /\ s[2] \in Nat /\ (s[1] = p => s[2] # r.id)
    BY RequestIsPair DEF Ids
  <2> QED
    BY <1>1, <1>5, <1>6, <2>1 DEF Untouched
<1>10. PipeOK'
  <2>1. ASSUME NEW w \in Peers, NEW k \in 1 .. Len(pipe'[w])
        PROVE  pipe'[w][k].id = Taken(w)' + k
    <3>1. CASE w # p
      <4>1. pipe'[w] = pipe[w] /\ Taken(w)' = Taken(w)
        BY <1>4, <1>5, <3>1
      <4>2. k \in 1 .. Len(pipe[w])
        BY <4>1
      <4>3. pipe[w][k].id = Taken(w) + k
        BY <4>2 DEF IInv, PipeOK
      <4> QED
        BY <4>1, <4>3
    <3>2. CASE w = p
      <4>1. k \in 1 .. Len(pipe[p]) - 1 /\ k + 1 \in 1 .. Len(pipe[p])
        BY <1>2, <1>3, <1>4, <3>2
      <4>2. pipe'[w][k] = pipe[p][k + 1]
        BY <1>3, <1>4, <3>2, <4>1
      <4>3. pipe[p][k + 1].id = Taken(p) + (k + 1)
        BY <1>1, <4>1 DEF IInv, PipeOK
      <4> QED
        BY <1>1, <1>5, <3>2, <4>1, <4>2, <4>3
    <3> QED
      BY <3>1, <3>2
  <2> QED
    BY <1>5, <2>1 DEF PipeOK
<1>11. /\ pc' \in {"link", "peers", "frames", "timers"} /\ turn' \in Peers
       /\ left' \in Nat /\ LoopOK'
  <2>1. left' = left - 1
    BY DEF HandleFrame
  <2>2. CASE left = 1
    BY <1>1, <2>1, <2>2, TurnType DEF HandleFrame, IInv
  <2>3. CASE left # 1
    BY <1>1, <1>2, <1>3, <1>4, <2>1, <2>3 DEF HandleFrame, LoopOK
  <2> QED
    BY <2>2, <2>3
<1> QED
  BY <1>1, <1>3, <1>4, <1>7, <1>8, <1>9, <1>10, <1>11

\* The broker answers a request out of a pipe for itself.
LEMMA LocalAnswer ==
    ASSUME IInv, HandleFrame, NEW v \in Local,
           Nack(turn, Head(pipe[turn]).id, v),
           UNCHANGED <<inflight, next_id, down>>,
           raw' \in 0 .. NPeers, inflight.busy => raw' = 0,
           up' \in Seq(LineFrame), \A f \in Frames(up') : f \in Frames(up)
    PROVE  IInv'
<1>1. PICK p, r, q : p = turn /\ r = Head(pipe[p]) /\ q = <<p, r.id>>
  OBVIOUS
<1>2. /\ p \in Peers /\ r.id \in Ids /\ q \in Requests
      /\ Untouched(q) /\ ~Untouched(q)'
      /\ \A s \in Requests \ {q} : Untouched(s)' <=> Untouched(s)
      /\ pipe' \in [Peers -> Seq(Request)]
      /\ pc' \in {"link", "peers", "frames", "timers"} /\ turn' \in Peers
      /\ left' \in Nat
      /\ PipeOK' /\ LoopOK'
  BY <1>1, TakeRequest
<1>3. UNCHANGED <<asked, want, pushes, runs>>
  BY DEF HandleFrame
<1>4. v \in Verdicts \ {"none"} /\ v # "reply" /\ Reply(p, r.id, v, q)
  BY <1>1 DEF Local, Verdicts, Nack
<1>5. /\ rsp' \in [Peers -> Seq(RspFrame)]
      /\ verdict' \in [Requests -> Verdicts]
      /\ answers' \in [Requests -> Nat]
      /\ \A s \in Requests \ {q} : verdict'[s] = verdict[s]
  BY <1>1, <1>2, <1>4, ReplyEffect DEF IInv
<1>6. verdict[q] = "none" /\ runs[q] = 0
  BY <1>2 DEF IInv, RequestOK
<1>7. TypeOK'
  BY <1>2, <1>3, <1>5 DEF IInv, TypeOK
<1>8. RequestOK'
  BY <1>1, <1>2, <1>3, <1>4, <1>6, AnswerKeepsRequests DEF IInv
<1>9. BusyOK'
  <2>1. CASE ~inflight.busy
    BY <2>1 DEF BusyOK
  <2>2. CASE inflight.busy
    <3>1. /\ inflight.peer_id \in Ids /\ ~Untouched(Current)
          /\ verdict[Current] = "none" /\ Current \in Requests
      BY <2>2, RequestPair DEF IInv, BusyOK, Current, TypeOK, Inflight
    <3>2. Current # q /\ Current' = Current
      BY <1>2, <3>1 DEF Current
    <3>3. ~Untouched(Current)' /\ verdict'[Current] = "none"
      BY <1>2, <1>5, <3>1, <3>2 DEF Untouched
    <3> QED
      BY <2>2, <3>1, <3>2, <3>3 DEF BusyOK, Untouched
  <2> QED
    BY <2>1, <2>2
<1>10. LineOK'
  <2>1. ASSUME NEW f \in Frames(down) \cup Frames(up), FrameOK(f)
        PROVE  FrameOK(f)'
    <3>1. f.src \in Requests
      BY LineType DEF IInv
    <3>2. Current' = Current
      BY DEF Current
    <3> QED
      BY <1>2, <1>5, <2>1, <3>1, <3>2 DEF FrameOK
  <2> QED
    BY <1>3, <2>1 DEF IInv, LineOK
<1>11. ReplyIsOwn'
  BY <1>2, <1>3, <1>4, AnswerIsOwn DEF IInv
<1> QED
  BY <1>2, <1>7, <1>8, <1>9, <1>10, <1>11 DEF IInv

\* The broker takes a request out of a pipe and gives no answer yet.
LEMMA RawDataStep ==
    ASSUME IInv, HandleFrame, raw = turn, OnRawData(turn, Head(pipe[turn])),
           UNCHANGED <<inflight, next_id, raw, up>>
    PROVE  IInv'
<1>1. PICK p, r, q : p = turn /\ r = Head(pipe[p]) /\ q = <<p, r.id>>
  OBVIOUS
<1> DEFINE g == [kind |-> "raw", link_id |-> 0, src |-> q]
<1>2. /\ q \in Requests /\ Untouched(q) /\ ~Untouched(q)'
      /\ \A s \in Requests \ {q} : Untouched(s)' <=> Untouched(s)
      /\ pipe' \in [Peers -> Seq(Request)]
      /\ pc' \in {"link", "peers", "frames", "timers"} /\ turn' \in Peers
      /\ left' \in Nat
      /\ PipeOK' /\ LoopOK'
  BY <1>1, TakeRequest
<1>3. UNCHANGED <<asked, want, pushes, runs, rsp, verdict, answers>>
  BY DEF HandleFrame, OnRawData
<1>4. g \in LineFrame
  BY <1>2 DEF LineFrame
<1>5. down' \in Seq(LineFrame) /\ Frames(down') \subseteq Frames(down) \cup {g}
  <2>1. down' = Put(down, g) /\ down \in Seq(LineFrame)
    BY <1>1 DEF IInv, TypeOK, OnRawData
  <2> HIDE DEF g
  <2> QED
    BY <1>4, <2>1, PutFrames
<1>6. TypeOK'
  BY <1>2, <1>3, <1>5 DEF IInv, TypeOK
<1>7. \A s \in Requests : ~Untouched(s) => ~Untouched(s)'
  BY <1>2
<1>8. RequestOK'
  BY <1>2, <1>3 DEF IInv, RequestOK
<1>9. BusyOK'
  <2>1. CASE ~inflight.busy
    BY <2>1 DEF BusyOK
  <2>2. CASE inflight.busy
    <3>1. /\ inflight.peer_id \in Ids /\ ~Untouched(Current)
          /\ verdict[Current] = "none" /\ Current \in Requests /\ raw = 0
      BY <2>2, RequestPair DEF IInv, BusyOK, Current, TypeOK, Inflight
    <3>2. Current' = Current
      BY DEF Current
    <3>3. ~Untouched(Current)' /\ verdict'[Current] = "none"
      BY <1>2, <1>3, <3>1, <3>2 DEF Untouched
    <3> QED
      BY <2>2, <3>1, <3>2, <3>3 DEF BusyOK, Untouched
  <2> QED
    BY <2>1, <2>2
<1>10. LineOK'
  <2>1. ASSUME NEW f \in Frames(down) \cup Frames(up), FrameOK(f)
        PROVE  FrameOK(f)'
    <3>1. f.src \in Requests
      BY LineType DEF IInv
    <3>2. Current' = Current
      BY DEF Current
    <3> QED
      BY <1>2, <1>3, <2>1, <3>1, <3>2 DEF FrameOK
  <2>2. FrameOK(g)'
    BY DEF FrameOK
  <2> QED
    BY <1>3, <1>5, <2>1, <2>2 DEF IInv, LineOK
<1>11. ReplyIsOwn'
  BY <1>3 DEF IInv, ReplyIsOwn
<1> QED
  BY <1>2, <1>6, <1>8, <1>9, <1>10, <1>11 DEF IInv

LEMMA StartRequestStep ==
    ASSUME IInv, HandleFrame, ~OpRefused,
           StartRequest(turn, Head(pipe[turn]))
    PROVE  IInv'
<1>1. PICK p, r, q : p = turn /\ r = Head(pipe[p]) /\ q = <<p, r.id>>
  OBVIOUS
<1> DEFINE g == [kind |-> "op", link_id |-> next_id, src |-> q]
<1>2. /\ p \in Peers /\ r.id \in Ids /\ q \in Requests
      /\ Untouched(q) /\ ~Untouched(q)'
      /\ \A s \in Requests \ {q} : Untouched(s)' <=> Untouched(s)
      /\ pipe' \in [Peers -> Seq(Request)]
      /\ pc' \in {"link", "peers", "frames", "timers"} /\ turn' \in Peers
      /\ left' \in Nat
      /\ PipeOK' /\ LoopOK'
  BY <1>1, TakeRequest
<1>3. UNCHANGED <<asked, want, pushes, runs, rsp, verdict, answers, raw>>
  BY DEF HandleFrame, StartRequest
<1>4. /\ down \in Seq(LineFrame) /\ up \in Seq(LineFrame) /\ next_id \in LinkIds
      /\ raw = 0
  BY DEF IInv, TypeOK, OpRefused
<1>5. g \in LineFrame
  BY <1>2, <1>4 DEF LineFrame, LinkIds
<1>6. /\ Aged(down) \in Seq(LineFrame)
      /\ \A f \in Frames(Aged(down)) : f \in Frames(down) /\ f.link_id # next_id
  BY <1>4, AgedFrames
<1>7. down' \in Seq(LineFrame) /\ Frames(down') \subseteq Frames(Aged(down)) \cup {g}
  <2>1. down' = Put(Aged(down), g)
    BY <1>1 DEF StartRequest
  <2> HIDE DEF g
  <2> QED
    BY <1>5, <1>6, <2>1, PutFrames
<1>8. /\ up' \in Seq(LineFrame)
      /\ \A f \in Frames(up') : f \in Frames(up) /\ f.link_id # next_id
  BY <1>4, AgedFrames DEF StartRequest
<1>9. /\ inflight' \in Inflight
      /\ inflight'.link_id = next_id /\ inflight'.peer = p /\ inflight'.peer_id = r.id
  BY <1>1, <1>2, <1>4 DEF StartRequest, Inflight, LinkIds, Ids
<1>10. next_id' \in LinkIds
  BY <1>4 DEF StartRequest, NextId, LinkIds
<1>11. TypeOK'
  BY <1>2, <1>3, <1>7, <1>8, <1>9, <1>10 DEF IInv, TypeOK
<1>12. RequestOK'
  BY <1>2, <1>3 DEF IInv, RequestOK
<1>13. Current' = q /\ verdict[q] = "none"
  BY <1>1, <1>2, <1>9 DEF Current, IInv, RequestOK
<1>14. BusyOK'
  <2>1. ~Untouched(Current)'
    BY <1>2, <1>13 DEF Untouched
  <2> QED
    BY <1>2, <1>3, <1>4, <1>9, <1>13, <2>1 DEF BusyOK
<1>15. LineOK'
  <2>1. ASSUME NEW f \in Frames(down) \cup Frames(up), FrameOK(f), f.link_id # next_id
        PROVE  FrameOK(f)'
    <3>1. f.src \in Requests
      BY LineType DEF IInv
    <3> QED
      BY <1>2, <1>3, <1>9, <2>1, <3>1 DEF FrameOK
  <2>2. ASSUME NEW f \in Frames(down') PROVE FrameOK(f)'
    <3>1. f = g \/ (f \in Frames(down) /\ f.link_id # next_id)
      BY <1>6, <1>7
    <3>2. CASE f = g
      BY <1>2, <1>3, <1>13, <3>2 DEF FrameOK, Local
    <3>3. CASE f # g
      BY <2>1, <3>1, <3>3 DEF IInv, LineOK
    <3> QED
      BY <3>2, <3>3
  <2>3. \A f \in Frames(up') : FrameOK(f)' /\ (f.kind = "op" => runs[f.src] > 0)
    BY <1>8, <2>1 DEF IInv, LineOK
  <2> QED
    BY <1>3, <2>2, <2>3 DEF LineOK
<1>16. ReplyIsOwn'
  BY <1>3 DEF IInv, ReplyIsOwn
<1> QED
  BY <1>2, <1>11, <1>12, <1>14, <1>15, <1>16 DEF IInv

LEMMA HandleFrameStep == ASSUME IInv, HandleFrame PROVE IInv'
<1> DEFINE r == Head(pipe[turn])
<1>1. /\ raw \in 0 .. NPeers /\ turn \in 0 .. NPeers
      /\ up \in Seq(LineFrame) /\ (inflight.busy => raw = 0)
  BY DEF IInv, TypeOK, Peers, BusyOK
<1>2. CASE r.kind \in {"raw_on", "raw_off"} /\ OnRaw(turn, r)
           /\ UNCHANGED <<inflight, next_id, down>>
  <2>1. PICK v \in Local : Nack(turn, r.id, v)
    BY <1>2 DEF OnRaw, Local
  <2>2. raw' \in 0 .. NPeers /\ (inflight.busy => raw' = 0)
    BY <1>1, <1>2 DEF OnRaw, RawRefused
  <2>3. up' \in Seq(LineFrame) /\ \A f \in Frames(up') : f \in Frames(up)
    <3>1. up' = up \/ up' = <<>>
      BY <1>2 DEF OnRaw
    <3>2. Frames(<<>>) = {}
      BY DEF Frames
    <3>3. CASE up' = <<>>
      BY <3>2, <3>3
    <3> QED
      BY <1>1, <3>1, <3>3
  <2> QED
    BY <1>2, <2>1, <2>2, <2>3, LocalAnswer
<1>3. CASE r.kind = "raw_data" /\ OnRawData(turn, r)
           /\ UNCHANGED <<inflight, next_id, raw, up>>
  <2>1. CASE raw # turn
    <3>1. "busy" \in Local /\ Nack(turn, r.id, "busy") /\ UNCHANGED down
      BY <1>3, <2>1 DEF OnRawData, Local
    <3> QED
      BY <1>1, <1>3, <3>1, LocalAnswer
  <2>2. CASE raw = turn
    BY <1>3, <2>2, RawDataStep
  <2> QED
    BY <2>1, <2>2
<1>4. CASE r.kind = "op" /\ OnOp(turn, r)
  <2>1. CASE OpRefused
    <3>1. "busy" \in Local /\ Nack(turn, r.id, "busy")
          /\ UNCHANGED <<inflight, next_id, raw, down, up>>
      BY <1>4, <2>1 DEF OnOp, Local
    <3> QED
      BY <1>1, <3>1, LocalAnswer
  <2>2. CASE ~OpRefused
    BY <1>4, <2>2, StartRequestStep DEF OnOp
  <2> QED
    BY <2>1, <2>2
<1> QED
  BY <1>2, <1>3, <1>4 DEF HandleFrame, OnPeerFrame

-----------------------------------------------------------------------------
LEMMA NextKeepsIInv == IInv /\ [Next]_vars => IInv'
<1> SUFFICES ASSUME IInv, [Next]_vars PROVE IInv'
  OBVIOUS
<1>1. CASE BrokerStep
  BY <1>1, ReadLinkStep, LeaveLinkStep, SkipPipeStep, ReadPipeStep,
     HandleFrameStep, ResendStep, FailStep, NoTimeoutStep DEF BrokerStep
<1>2. CASE \E p \in Peers : PeerStep(p)
  BY <1>2, AskStep, ReceiveStep, GiveUpStep DEF PeerStep
<1>3. CASE LineStep
  BY <1>3, RunRequestStep, AnswerRawStep, PushFrameStep, LoseStep DEF LineStep
<1>4. CASE UNCHANGED vars
  BY <1>4, StutterStep
<1> QED
  BY <1>1, <1>2, <1>3, <1>4 DEF Next

THEOREM BrokerInvariant == Spec => []IInv
BY InitIInv, NextKeepsIInv, PTL DEF Spec

(***************************************************************************)
(* Type correctness, the part of the invariant that says what every        *)
(* variable of the broker, the pipes and the line holds.                   *)
(***************************************************************************)
THEOREM BrokerTypeOK == Spec => []TypeOK
<1>1. IInv => TypeOK
  BY DEF IInv
<1> QED
  BY <1>1, BrokerInvariant, PTL

(***************************************************************************)
(* A reply in a pipe is the reply to the request of that peer with that    *)
(* identifier (on_link_frame).                                             *)
(***************************************************************************)
THEOREM BrokerReplyIsOwn == Spec => []ReplyIsOwn
<1>1. IInv => ReplyIsOwn
  BY DEF IInv
<1> QED
  BY <1>1, BrokerInvariant, PTL

(***************************************************************************)
(* No request takes two answers (on_link_frame, check_timeout).            *)
(***************************************************************************)
THEOREM BrokerOneAnswer == Spec => []OneAnswer
<1>1. IInv => OneAnswer
  BY DEF IInv, RequestOK, OneAnswer
<1> QED
  BY <1>1, BrokerInvariant, PTL

(***************************************************************************)
(* The board never runs a request the broker refused (on_peer_frame).      *)
(***************************************************************************)
THEOREM BrokerRefusedNeverRuns == Spec => []RefusedNeverRuns
<1>1. IInv => RefusedNeverRuns
  BY DEF IInv, RequestOK, LineOK, FrameOK, RefusedNeverRuns, OnLine
<1> QED
  BY <1>1, BrokerInvariant, PTL

-----------------------------------------------------------------------------
(* How often a request stands on the line.                                 *)

Places(q, r) == {k \in DOMAIN q : q[k].kind = "op" /\ q[k].src = r}

Copies(q, r) == Cardinality(Places(q, r))

LEMMA CopiesType ==
    ASSUME NEW S, NEW q \in Seq(S), NEW r
    PROVE  IsFiniteSet(Places(q, r)) /\ Copies(q, r) \in Nat
<1>1. Places(q, r) \in SUBSET (1 .. Len(q)) /\ Len(q) \in Nat
  BY DEF Places
<1>2. IsFiniteSet(1 .. Len(q))
  BY <1>1, FS_Interval
<1>3. IsFiniteSet(Places(q, r))
  BY <1>1, <1>2, FS_Subset
<1> QED
  BY <1>3, FS_CardinalityType DEF Copies

LEMMA CopiesNone ==
    ASSUME NEW S, NEW q \in Seq(S), NEW r,
           \A f \in Frames(q) : f.kind = "op" => f.src # r
    PROVE  Copies(q, r) = 0
<1>1. Places(q, r) = {}
  BY DEF Places, Frames
<1> QED
  BY <1>1, FS_EmptySet DEF Copies

LEMMA CopiesAppend ==
    ASSUME NEW S, NEW q \in Seq(S), NEW f \in S, NEW r
    PROVE  Copies(Append(q, f), r) =
               IF f.kind = "op" /\ f.src = r THEN Copies(q, r) + 1 ELSE Copies(q, r)
<1>1. /\ DOMAIN Append(q, f) = 1 .. Len(q) + 1 /\ DOMAIN q = 1 .. Len(q)
      /\ \A k \in 1 .. Len(q) : Append(q, f)[k] = q[k]
      /\ Append(q, f)[Len(q) + 1] = f
      /\ Len(q) \in Nat
  BY AppendElements
<1>2. IsFiniteSet(Places(q, r))
  BY CopiesType
<1>5. Len(q) + 1 \notin Places(q, r)
  BY <1>1 DEF Places
<1>3. CASE f.kind = "op" /\ f.src = r
  <2>1. Places(Append(q, f), r) = Places(q, r) \cup {Len(q) + 1}
    BY <1>1, <1>3 DEF Places
  <2>2. \A P, x : IsFiniteSet(P) /\ x \notin P => Cardinality(P \cup {x}) = Cardinality(P) + 1
    BY FS_AddElement
  <2>3. Cardinality(Places(q, r) \cup {Len(q) + 1}) = Cardinality(Places(q, r)) + 1
    BY <1>2, <1>5, <2>2
  <2> QED
    BY <1>3, <2>1, <2>3 DEF Copies
<1>4. CASE ~(f.kind = "op" /\ f.src = r)
  <2>1. Places(Append(q, f), r) = Places(q, r)
    BY <1>1, <1>4 DEF Places
  <2> QED
    BY <1>4, <2>1 DEF Copies
<1> QED
  BY <1>3, <1>4

LEMMA CopiesTail ==
    ASSUME NEW S, NEW q \in Seq(S), q # <<>>, NEW r
    PROVE  Copies(q, r) = IF Head(q).kind = "op" /\ Head(q).src = r
                          THEN Copies(Tail(q), r) + 1 ELSE Copies(Tail(q), r)
<1> DEFINE P == Places(Tail(q), r)
           Q == Places(q, r) \ {1}
           shift == [k \in P |-> k + 1]
<1>1. /\ Tail(q) \in Seq(S) /\ Len(Tail(q)) = Len(q) - 1 /\ Len(q) \in Nat
      /\ DOMAIN Tail(q) = 1 .. Len(q) - 1 /\ DOMAIN q = 1 .. Len(q)
      /\ \A k \in 1 .. Len(q) - 1 : Tail(q)[k] = q[k + 1]
      /\ Head(q) = q[1] /\ 1 \in DOMAIN q
  OBVIOUS
<1>2. IsFiniteSet(P) /\ IsFiniteSet(Places(q, r)) /\ Copies(Tail(q), r) \in Nat
  BY <1>1, CopiesType
<1>3. \A k \in P : k \in Nat /\ k + 1 \in Q
  BY <1>1 DEF Places
<1>4. \A k \in Q : k - 1 \in P /\ (k - 1) + 1 = k
  BY <1>1 DEF Places
<1>5. shift \in Bijection(P, Q)
  <2>1. shift \in [P -> Q]
    BY <1>3
  <2>2. \A a, b \in P : shift[a] = shift[b] => a = b
    BY <1>3
  <2>3. \A t \in Q : \E s \in P : shift[s] = t
    BY <1>4
  <2> HIDE DEF P, Q, shift
  <2> QED
    BY <2>1, <2>2, <2>3 DEF Bijection, Injection, Surjection, IsInjective
<1>6. Cardinality(Q) = Cardinality(P)
  BY <1>2, <1>5, FS_Bijection DEF ExistsBijection
<1>7. Cardinality(Q) = IF 1 \in Places(q, r) THEN Copies(q, r) - 1 ELSE Copies(q, r)
  BY <1>2, FS_RemoveElement DEF Copies
<1>8. 1 \in Places(q, r) <=> Head(q).kind = "op" /\ Head(q).src = r
  BY <1>1 DEF Places
<1>9. Copies(q, r) \in Nat /\ Copies(Tail(q), r) = Cardinality(P)
  BY CopiesType DEF Copies
<1> QED
  BY <1>2, <1>6, <1>7, <1>8, <1>9

\* A full line takes no copy; no other frame is one.
LEMMA CopiesPut ==
    ASSUME NEW q \in Seq(LineFrame), NEW f \in LineFrame, NEW r
    PROVE  /\ Copies(Put(q, f), r) <= Copies(q, r) + 1
           /\ ~(f.kind = "op" /\ f.src = r) => Copies(Put(q, f), r) = Copies(q, r)
BY CopiesAppend, CopiesType DEF Put

LEMMA CopiesAged ==
    ASSUME NEW q \in Seq(LineFrame), NEW r
    PROVE  Copies(Aged(q), r) <= Copies(q, r)
<1>1. <<>> \in Seq(LineFrame) /\ Frames(<<>>) = {}
  BY DEF Frames
<1>2. Copies(<<>>, r) = 0
  BY <1>1, CopiesNone
<1> QED
  BY <1>2, CopiesType DEF Aged

-----------------------------------------------------------------------------
(* How often a request went on the line: what the board ran and what still *)
(* stands there are attempts of the broker.                                *)

Started(r) == IF r = Current THEN inflight.tries ELSE REPLY_TRIES

AttemptsOK == \A r \in Requests : runs[r] + Copies(down, r) <= Started(r)

LEMMA CountsType ==
    ASSUME TypeOK
    PROVE  /\ down \in Seq(LineFrame)
           /\ inflight.tries \in 0 .. REPLY_TRIES
           /\ \A r \in Requests : /\ runs[r] \in Nat /\ Copies(down, r) \in Nat
                                  /\ Started(r) \in Nat /\ Started(r) <= REPLY_TRIES
<1>1. down \in Seq(LineFrame) /\ inflight.tries \in 0 .. REPLY_TRIES
      /\ \A r \in Requests : runs[r] \in Nat
  BY DEF TypeOK, Inflight
<1>2. \A r : Copies(down, r) \in Nat
  BY <1>1, CopiesType
<1> QED
  BY <1>1, <1>2 DEF Started

\* A step that starts no attempt and runs nothing.
LEMMA QuietAttempts ==
    ASSUME TypeOK, TypeOK', AttemptsOK, UNCHANGED runs,
           Current' = Current, inflight'.tries = inflight.tries,
           \A r \in Requests : Copies(down', r) <= Copies(down, r)
    PROVE  AttemptsOK'
<1>1. ASSUME NEW r \in Requests
      PROVE  runs'[r] + Copies(down', r) <= Started(r)'
  <2>1. Started(r)' = Started(r)
    BY DEF Started
  <2>2. Copies(down', r) \in Nat
    BY CopiesType DEF TypeOK
  <2>3. runs[r] + Copies(down, r) <= Started(r) /\ Copies(down', r) <= Copies(down, r)
    BY DEF AttemptsOK
  <2> QED
    BY <2>1, <2>2, <2>3, CountsType
<1> QED
  BY <1>1 DEF AttemptsOK

LEMMA TailAttempts ==
    ASSUME TypeOK, TypeOK', AttemptsOK, UNCHANGED runs,
           Current' = Current, inflight'.tries = inflight.tries,
           down' = down \/ (down # <<>> /\ down' = Tail(down))
    PROVE  AttemptsOK'
<1>1. down \in Seq(LineFrame) /\ down' \in Seq(LineFrame)
  BY DEF TypeOK
<1>2. ASSUME NEW r \in Requests PROVE Copies(down', r) <= Copies(down, r)
  <2>1. Copies(down, r) \in Nat /\ Copies(down', r) \in Nat
    BY <1>1, CopiesType
  <2>2. CASE down' = down
    BY <2>1, <2>2
  <2>3. CASE down # <<>> /\ down' = Tail(down)
    BY <1>1, <2>1, <2>3, CopiesTail
  <2> QED
    BY <2>2, <2>3
<1> QED
  BY <1>2, QuietAttempts

LEMMA RunAttempts == ASSUME IInv, TypeOK', AttemptsOK, RunRequest PROVE AttemptsOK'
<1> DEFINE h == Head(down)
<1>1. /\ down \in Seq(LineFrame) /\ down # <<>> /\ h.kind = "op"
      /\ down' = Tail(down) /\ runs' = [runs EXCEPT ![h.src] = @ + 1]
      /\ runs \in [Requests -> Nat] /\ down' \in Seq(LineFrame)
  BY DEF IInv, TypeOK, RunRequest
<1>2. h.src \in Requests
  BY <1>1, TailFrames, LineType DEF IInv
<1>3. ASSUME NEW r \in Requests
      PROVE  runs'[r] + Copies(down', r) <= Started(r)'
  <2>1. Started(r)' = Started(r)
    BY DEF RunRequest, Started, Current, linkVars
  <2>2. /\ Copies(down', r) \in Nat
        /\ Copies(down, r) = IF h.src = r THEN Copies(down', r) + 1 ELSE Copies(down', r)
    BY <1>1, CopiesType, CopiesTail
  <2>3. runs'[r] = IF h.src = r THEN runs[r] + 1 ELSE runs[r]
    BY <1>1, <1>2
  <2>4. runs[r] + Copies(down, r) <= Started(r) /\ runs[r] \in Nat
    BY <1>1 DEF AttemptsOK
  <2> QED
    BY <2>1, <2>2, <2>3, <2>4
<1> QED
  BY <1>3 DEF AttemptsOK

LEMMA ResendAttempts == ASSUME IInv, TypeOK', AttemptsOK, Resend PROVE AttemptsOK'
<1> DEFINE f == [kind |-> "op", link_id |-> inflight.link_id, src |-> Current]
<1>1. /\ TypeOK /\ down \in Seq(LineFrame) /\ inflight \in Inflight /\ inflight.busy
      /\ down' = Put(down, f) /\ runs' = runs
      /\ inflight' = [inflight EXCEPT !.tries = @ + 1]
  BY DEF IInv, TypeOK, Resend, Current, history
<1>2. Current \in Requests
  BY <1>1, RequestPair DEF IInv, BusyOK, Current, Inflight
<1>3. f \in LineFrame
  BY <1>1, <1>2 DEF LineFrame, Inflight
<1>4. Current' = Current /\ inflight'.tries = inflight.tries + 1
  BY <1>1 DEF Current, Inflight
<1>5. ASSUME NEW r \in Requests
      PROVE  runs'[r] + Copies(down', r) <= Started(r)'
  <2>1. /\ runs[r] + Copies(down, r) <= Started(r) /\ runs[r] \in Nat
        /\ Copies(down, r) \in Nat /\ Started(r) \in Nat
        /\ inflight.tries \in Nat
    BY <1>1, CountsType DEF AttemptsOK
  <2>2. Copies(down', r) \in Nat
    BY CopiesType DEF TypeOK
  <2>3. CASE r = Current
    <3>1. Copies(down', r) <= Copies(down, r) + 1
      <4> HIDE DEF f
      <4> QED
        BY <1>1, <1>3, CopiesPut
    <3>2. Started(r)' = inflight.tries + 1 /\ Started(r) = inflight.tries
      BY <1>4, <2>3 DEF Started
    <3>3. runs'[r] = runs[r]
      BY <1>1
    <3> QED
      BY <2>1, <2>2, <3>1, <3>2, <3>3
  <2>4. CASE r # Current
    <3>1. f.src # r
      BY <2>4
    <3>2. Copies(down', r) = Copies(down, r)
      <4> HIDE DEF f
      <4> QED
        BY <1>1, <1>3, <3>1, CopiesPut
    <3>3. Started(r)' = Started(r)
      BY <1>4, <2>4 DEF Started
    <3> QED
      BY <1>1, <2>1, <3>2, <3>3
  <2> QED
    BY <2>3, <2>4
<1> QED
  BY <1>5 DEF AttemptsOK

\* The request of a new attempt has no copy on the line and never ran.
LEMMA StartAttempts ==
    ASSUME IInv, IInv', AttemptsOK, HandleFrame, ~OpRefused,
           StartRequest(turn, Head(pipe[turn]))
    PROVE  AttemptsOK'
<1>1. PICK p, r, q : p = turn /\ r = Head(pipe[p]) /\ q = <<p, r.id>>
  OBVIOUS
<1> DEFINE g == [kind |-> "op", link_id |-> next_id, src |-> q]
<1>2. /\ p \in Peers /\ r.id \in Ids /\ q \in Requests /\ Untouched(q)
  BY <1>1, TakeRequest
<1>3. /\ TypeOK /\ down \in Seq(LineFrame) /\ next_id \in LinkIds /\ runs' = runs
  BY DEF IInv, TypeOK, HandleFrame
<1>4. g \in LineFrame
  BY <1>2, <1>3 DEF LineFrame, LinkIds
<1>5. down' = Put(Aged(down), g) /\ Current' = q /\ inflight'.tries = 1
  BY <1>1 DEF StartRequest, Current
<1>6. Aged(down) \in Seq(LineFrame) /\ down' \in Seq(LineFrame)
  BY <1>3, AgedFrames DEF IInv, TypeOK
<1>7. runs[q] = 0 /\ Copies(down, q) = 0
  <2>1. runs[q] = 0
    BY <1>2 DEF IInv, RequestOK
  <2>2. \A f \in Frames(down) : f.kind = "op" => f.src # q
    BY <1>2 DEF IInv, LineOK, FrameOK
  <2> QED
    BY <1>3, <2>1, <2>2, CopiesNone
<1>8. ASSUME NEW s \in Requests
      PROVE  runs'[s] + Copies(down', s) <= Started(s)'
  <2>1. /\ runs[s] + Copies(down, s) <= Started(s) /\ runs[s] \in Nat
        /\ Copies(down, s) \in Nat /\ Started(s) \in Nat /\ Started(s) <= REPLY_TRIES
    BY <1>3, CountsType DEF AttemptsOK
  <2>2. Copies(Aged(down), s) \in Nat /\ Copies(Aged(down), s) <= Copies(down, s)
        /\ Copies(down', s) \in Nat
    BY <1>3, <1>6, CopiesAged, CopiesType
  <2>3. CASE s = q
    <3>1. Copies(down', s) <= Copies(Aged(down), s) + 1
      <4> HIDE DEF g
      <4> QED
        BY <1>4, <1>5, <1>6, CopiesPut
    <3>2. Started(s)' = 1
      BY <1>5, <2>3 DEF Started
    <3> QED
      BY <1>3, <1>7, <2>2, <2>3, <3>1, <3>2
  <2>4. CASE s # q
    <3>1. g.src # s
      BY <2>4
    <3>2. Copies(down', s) = Copies(Aged(down), s)
      <4> HIDE DEF g
      <4> QED
        BY <1>4, <1>5, <1>6, <3>1, CopiesPut
    <3>3. Started(s)' = REPLY_TRIES
      BY <1>5, <2>4 DEF Started
    <3> QED
      BY <1>3, <2>1, <2>2, <3>2, <3>3
  <2> QED
    BY <2>3, <2>4
<1> QED
  BY <1>8 DEF AttemptsOK

\* RAW_DATA puts a frame on the line that the board does not run.
LEMMA HandleFrameAttempts ==
    ASSUME IInv, IInv', AttemptsOK, HandleFrame
    PROVE  AttemptsOK'
<1> DEFINE r == Head(pipe[turn])
<1>1. TypeOK /\ TypeOK' /\ runs' = runs /\ down \in Seq(LineFrame)
  BY DEF IInv, TypeOK, HandleFrame
<1>2. CASE inflight' = inflight /\ down' = down
  BY <1>1, <1>2, TailAttempts DEF Current
<1>3. CASE r.kind = "raw_data" /\ OnRawData(turn, r) /\ UNCHANGED inflight /\ raw = turn
  <2> DEFINE f == [kind |-> "raw", link_id |-> 0, src |-> <<turn, r.id>>]
  <2>1. down' = Put(down, f) /\ inflight' = inflight
    BY <1>3 DEF OnRawData
  <2>2. f \in LineFrame
    <3>1. PICK q : q = <<turn, r.id>>
      OBVIOUS
    <3>2. q \in Requests
      BY <3>1, TakeRequest
    <3> QED
      BY <3>1, <3>2 DEF LineFrame
  <2>3. f.kind # "op"
    OBVIOUS
  <2>4. \A s \in Requests : Copies(down', s) = Copies(down, s) /\ Copies(down, s) \in Nat
    <3> HIDE DEF f
    <3> QED
      BY <1>1, <2>1, <2>2, <2>3, CopiesPut, CopiesType
  <2> QED
    BY <1>1, <2>1, <2>4, QuietAttempts DEF Current
<1>4. CASE ~OpRefused /\ StartRequest(turn, r)
  BY <1>4, StartAttempts
<1> QED
  BY <1>2, <1>3, <1>4 DEF HandleFrame, OnPeerFrame, OnRaw, OnRawData, OnOp

LEMMA ReadLinkAttempts ==
    ASSUME IInv, IInv', AttemptsOK, ReadLink
    PROVE  AttemptsOK'
<1>1. down' = down /\ runs' = runs /\ TypeOK /\ TypeOK' /\ inflight \in Inflight
  BY DEF IInv, TypeOK, ReadLink
<1>2. inflight' = inflight \/ inflight' = Idle
  <2> DEFINE h == Head(up)
  <2>1. h \in LineFrame
    BY TailFrames DEF IInv, TypeOK, ReadLink
  <2>2. CASE raw # 0
    BY <2>2 DEF ReadLink, OnLinkFrame
  <2>3. CASE raw = 0 /\ h.kind = "raw"
    BY <2>3 DEF ReadLink, OnLinkFrame
  <2>4. CASE raw = 0 /\ h.kind = "push"
    BY <2>4 DEF ReadLink, OnLinkFrame, DemuxPush
  <2>5. CASE raw = 0 /\ h.kind = "op"
    BY <2>5 DEF ReadLink, OnLinkFrame, OnReply
  <2> QED
    BY <2>1, <2>2, <2>3, <2>4, <2>5 DEF LineFrame
<1>3. Current' = Current /\ inflight'.tries = inflight.tries
  BY <1>1, <1>2 DEF Current, Idle, Inflight
<1> QED
  BY <1>1, <1>3, TailAttempts

LEMMA NextKeepsAttempts == IInv /\ AttemptsOK /\ [Next]_vars => AttemptsOK'
<1> SUFFICES ASSUME IInv, AttemptsOK, [Next]_vars PROVE AttemptsOK'
  OBVIOUS
<1>1. IInv' /\ TypeOK /\ TypeOK' /\ inflight \in Inflight
  BY NextKeepsIInv DEF IInv, TypeOK
<1>2. CASE UNCHANGED <<runs, inflight, down>>
  BY <1>1, <1>2, TailAttempts DEF Current
<1>3. CASE HandleFrame
  BY <1>1, <1>3, HandleFrameAttempts
<1>4. CASE Resend
  BY <1>1, <1>4, ResendAttempts
<1>5. CASE Fail
  <2>1. down' = down /\ runs' = runs /\ inflight' = Idle
    BY <1>5 DEF Fail, lineVars
  <2>2. Current' = Current /\ inflight'.tries = inflight.tries
    BY <1>1, <2>1 DEF Current, Idle, Inflight
  <2> QED
    BY <1>1, <2>1, <2>2, TailAttempts
<1>6. CASE RunRequest
  BY <1>1, <1>6, RunAttempts
<1>7. CASE AnswerRaw \/ Lose
  BY <1>1, <1>7, TailAttempts DEF AnswerRaw, Lose, linkVars, history, Current
<1>8. CASE ReadLink
  BY <1>1, <1>8, ReadLinkAttempts
<1>9. CASE LeaveLink \/ SkipPipe \/ ReadPipe \/ NoTimeout \/ PushFrame
  BY <1>2, <1>9 DEF LeaveLink, SkipPipe, ReadPipe, NoTimeout, PushFrame,
     linkVars, lineVars, history
<1>10. CASE \E p \in Peers : PeerStep(p)
  BY <1>2, <1>10 DEF PeerStep, Ask, Receive, GiveUp, linkVars, lineVars, history
<1>11. CASE UNCHANGED vars
  BY <1>2, <1>11 DEF vars, linkVars, lineVars, history
<1> QED
  BY <1>3, <1>4, <1>5, <1>6, <1>7, <1>8, <1>9, <1>10, <1>11 DEF Next, BrokerStep, LineStep

(***************************************************************************)
(* The board runs a request at most REPLY_TRIES times (check_timeout).     *)
(***************************************************************************)
THEOREM BrokerRunsBounded == Spec => []RunsBounded
<1>1. Init => AttemptsOK
  <2> SUFFICES ASSUME Init PROVE AttemptsOK
    OBVIOUS
  <2>1. \A r \in Requests : runs[r] = 0 /\ r # Current
    BY RequestIsPair DEF Init, Current, Ids
  <2>2. down \in Seq(LineFrame) /\ Frames(down) = {}
    BY DEF Init, Frames
  <2>3. \A r \in Requests : Copies(down, r) = 0
    BY <2>2, CopiesNone
  <2> QED
    BY <2>1, <2>3 DEF AttemptsOK, Started
<1>2. IInv /\ AttemptsOK => RunsBounded
  <2> SUFFICES ASSUME IInv, AttemptsOK, NEW r \in Requests PROVE runs[r] <= REPLY_TRIES
    BY DEF RunsBounded
  <2>1. /\ runs[r] + Copies(down, r) <= Started(r) /\ runs[r] \in Nat
        /\ Copies(down, r) \in Nat /\ Started(r) \in Nat /\ Started(r) <= REPLY_TRIES
    BY CountsType DEF IInv, AttemptsOK
  <2> QED
    BY <2>1
<1> QED
  BY <1>1, <1>2, NextKeepsAttempts, BrokerInvariant, PTL DEF Spec

-----------------------------------------------------------------------------
(* Raw mode.                                                               *)

\* What a raw-mode holder is owed by one step.
RawStep == raw # 0 =>
             /\ Len(down') > Len(down) =>
                  down'[Len(down')].kind = "raw" /\ down'[Len(down')].src[1] = raw
             /\ raw' # raw => turn = raw /\ pc = "frames"

LEMMA ShrinkIsQuiet ==
    ASSUME TypeOK, down' = down \/ (down # <<>> /\ down' = Tail(down)), raw' = raw
    PROVE  RawStep
<1>1. down \in Seq(LineFrame)
  BY DEF TypeOK
<1>2. ~(Len(down') > Len(down))
  <2>1. CASE down' = down
    BY <1>1, <2>1
  <2>2. CASE down # <<>> /\ down' = Tail(down)
    BY <1>1, <2>2
  <2> QED
    BY <2>1, <2>2
<1> QED
  BY <1>2 DEF RawStep

LEMMA HandleFrameIsOwned == ASSUME IInv, HandleFrame PROVE RawStep
<1> DEFINE r == Head(pipe[turn])
<1>1. TypeOK /\ pc = "frames" /\ down \in Seq(LineFrame)
  BY DEF IInv, TypeOK, HandleFrame
<1>2. CASE OnRaw(turn, r) /\ UNCHANGED down
  <2>1. raw # 0 /\ raw' # raw => turn = raw
    BY <1>2 DEF OnRaw, RawRefused
  <2>2. ~(Len(down') > Len(down))
    BY <1>1, <1>2
  <2> QED
    BY <1>1, <2>1, <2>2 DEF RawStep
<1>3. CASE OnRawData(turn, r) /\ UNCHANGED raw
  <2>1. CASE raw # turn
    BY <1>1, <1>3, <2>1, ShrinkIsQuiet DEF OnRawData
  <2>2. CASE raw = turn
    <3> DEFINE f == [kind |-> "raw", link_id |-> 0, src |-> <<turn, r.id>>]
    <3>1. down' = down \/ down' = Append(down, f)
      BY <1>3, <2>2 DEF OnRawData, Put
    <3>2. f.kind = "raw" /\ f.src[1] = turn
      OBVIOUS
    <3>3. CASE down' = down
      BY <1>1, <1>3, <3>3, ShrinkIsQuiet
    <3>4. CASE down' = Append(down, f)
      <4>1. down'[Len(down')] = f
        <5> HIDE DEF f
        <5> QED
          BY <1>1, <3>4
      <4> QED
        BY <1>3, <2>2, <3>2, <4>1 DEF RawStep
    <3> QED
      BY <3>1, <3>3, <3>4
  <2> QED
    BY <2>1, <2>2
<1>4. CASE OnOp(turn, r)
  <2>1. CASE OpRefused
    BY <1>1, <1>4, <2>1, ShrinkIsQuiet DEF OnOp
  <2>2. CASE ~OpRefused
    BY <2>2 DEF OpRefused, RawStep
  <2> QED
    BY <2>1, <2>2
<1> QED
  BY <1>2, <1>3, <1>4 DEF HandleFrame, OnPeerFrame

LEMMA NextIsOwned == IInv /\ [Next]_vars => RawStep
<1> SUFFICES ASSUME IInv, [Next]_vars PROVE RawStep
  OBVIOUS
<1>1. TypeOK
  BY DEF IInv
<1>2. CASE ReadLink \/ LeaveLink \/ SkipPipe \/ ReadPipe \/ Fail \/ NoTimeout
  <2>1. down' = down /\ raw' = raw
    BY <1>2 DEF ReadLink, LeaveLink, SkipPipe, ReadPipe, Fail, NoTimeout, linkVars, lineVars
  <2> QED
    BY <1>1, <2>1, ShrinkIsQuiet
<1>3. CASE HandleFrame
  BY <1>3, HandleFrameIsOwned
<1>4. CASE Resend
  BY <1>4 DEF Resend, IInv, BusyOK, RawStep
<1>5. CASE \E p \in Peers : PeerStep(p)
  <2>1. down' = down /\ raw' = raw
    BY <1>5 DEF PeerStep, Ask, Receive, GiveUp, linkVars, lineVars
  <2> QED
    BY <1>1, <2>1, ShrinkIsQuiet
<1>6. CASE RunRequest \/ AnswerRaw
  <2>1. down # <<>> /\ down' = Tail(down) /\ raw' = raw
    BY <1>6 DEF RunRequest, AnswerRaw, linkVars
  <2> QED
    BY <1>1, <2>1, ShrinkIsQuiet
<1>7. CASE PushFrame \/ Lose
  <2>1. (down' = down \/ (down # <<>> /\ down' = Tail(down))) /\ raw' = raw
    BY <1>7 DEF PushFrame, Lose, linkVars
  <2> QED
    BY <1>1, <2>1, ShrinkIsQuiet
<1>8. CASE UNCHANGED vars
  <2>1. down' = down /\ raw' = raw
    BY <1>8 DEF vars, linkVars, lineVars
  <2> QED
    BY <1>1, <2>1, ShrinkIsQuiet
<1> QED
  BY <1>2, <1>3, <1>4, <1>5, <1>6, <1>7, <1>8 DEF Next, BrokerStep, LineStep

(***************************************************************************)
(* While a peer holds raw mode the broker adds that peer's bytes to the    *)
(* line and nothing else, and only that peer ends the mode (on_raw,        *)
(* on_peer_frame, check_timeout).                                          *)
(***************************************************************************)
THEOREM BrokerRawOwnership == Spec => RawOwnership
<1>1. IInv /\ [Next]_vars => [RawStep]_vars
  BY NextIsOwned
<1>2. []IInv /\ [][Next]_vars => [][RawStep]_vars
  BY <1>1, PTL
<1>3. Spec => [][RawStep]_vars
  BY <1>2, BrokerInvariant, PTL DEF Spec
<1> QED
  BY <1>3 DEF RawOwnership, RawStep

-----------------------------------------------------------------------------
(* RequestService.  Three things can happen to it: a peer asks, the board  *)
(* runs a request, the broker answers one.                                 *)

LEMMA ServiceStutters ==
    ASSUME UNCHANGED <<asked, runs, verdict>>
    PROVE  UNCHANGED <<phaseBar, ranBar, answerBar>>
<1>1. \A r \in Requests : Asked(r)' <=> Asked(r)
  BY DEF Asked
<1>2. phaseBar' = phaseBar
  BY <1>1 DEF phaseBar
<1>3. ranBar' = ranBar
  BY DEF ranBar
<1>4. answerBar' = answerBar
  BY DEF answerBar
<1> QED
  BY <1>2, <1>3, <1>4

LEMMA TakenIsAsked ==
    ASSUME IInv, NEW s \in Requests, ~Untouched(s)
    PROVE  Asked(s)
<1>1. s[1] \in Peers /\ s[2] \in Nat
  BY DEF Requests, Ids
<1>2. pipe \in [Peers -> Seq(Request)] /\ asked \in [Peers -> 0 .. MaxReqs]
      /\ Taken(s[1]) \in Nat
  BY <1>1 DEF IInv, TypeOK, PipeOK
<1>3. asked[s[1]] \in Nat /\ Len(pipe[s[1]]) \in Nat
  BY <1>1, <1>2
<1> QED
  BY <1>1, <1>2, <1>3 DEF Untouched, Taken, Asked

LEMMA AskSubmits ==
    ASSUME IInv, NEW p \in Peers, NEW kind, Ask(p, kind)
    PROVE  \E s \in Requests : Service!Submit(s)
<1>0. PICK s : s = <<p, asked[p] + 1>>
  OBVIOUS
<1>1. asked \in [Peers -> 0 .. MaxReqs] /\ asked[p] < MaxReqs
      /\ asked' = [asked EXCEPT ![p] = @ + 1] /\ UNCHANGED <<runs, verdict>>
  BY DEF IInv, TypeOK, Ask, history
<1>2. s \in Requests
  BY <1>0, <1>1, BrokerAssumption DEF Requests, Ids
<1>3. Taken(p) \in Nat /\ Len(pipe[p]) \in Nat /\ asked[p] \in Nat
  <2>1. Taken(p) \in Nat /\ pipe \in [Peers -> Seq(Request)]
    BY DEF IInv, TypeOK, PipeOK
  <2> QED
    BY <1>1, <2>1
<1>4. Untouched(s) /\ ~Asked(s)
  BY <1>0, <1>3 DEF Untouched, Taken, Asked
<1>5. verdict[s] = "none"
  BY <1>2, <1>4 DEF IInv, RequestOK
<1>6. Asked(s)' /\ \A t \in Requests \ {s} : Asked(t)' <=> Asked(t)
  <2>1. Asked(s)'
    BY <1>0, <1>1, <1>3 DEF Asked
  <2>2. ASSUME NEW t \in Requests, t # s PROVE Asked(t)' <=> Asked(t)
    <3>1. t[1] \in Peers /\ t[2] \in Nat /\ t = <<t[1], t[2]>>
      BY DEF Requests, Ids
    <3>2. CASE t[1] # p
      BY <1>1, <3>1, <3>2 DEF Asked
    <3>3. CASE t[1] = p
      <4>1. t[2] # asked[p] + 1
        BY <1>0, <2>2, <3>1, <3>3
      <4> QED
        BY <1>1, <1>3, <3>1, <3>3, <4>1 DEF Asked
    <3> QED
      BY <3>2, <3>3
  <2> QED
    BY <2>1, <2>2
<1>7. phaseBar[s] = "new"
  BY <1>2, <1>4 DEF phaseBar
<1>8. phaseBar' = [phaseBar EXCEPT ![s] = "open"]
  BY <1>1, <1>2, <1>5, <1>6 DEF phaseBar
<1>9. ranBar' = ranBar /\ answerBar' = answerBar
  BY <1>1 DEF ranBar, answerBar
<1> QED
  BY <1>2, <1>7, <1>8, <1>9 DEF Service!Submit

LEMMA RunRuns ==
    ASSUME IInv, RunRequest
    PROVE  \E s \in Requests : Service!Run(s)
<1> DEFINE s == Head(down).src
<1>1. down \in Seq(LineFrame) /\ down # <<>> /\ Head(down).kind = "op"
      /\ runs \in [Requests -> Nat] /\ verdict \in [Requests -> Verdicts]
      /\ runs' = [runs EXCEPT ![s] = @ + 1] /\ UNCHANGED <<asked, verdict>>
  BY DEF IInv, TypeOK, RunRequest, peerVars
<1>2. Head(down) \in Frames(down) /\ s \in Requests
  <2>1. 1 \in DOMAIN down /\ Head(down) = down[1] /\ down[1] \in LineFrame
    BY <1>1
  <2> QED
    BY <2>1 DEF Frames, LineFrame
<1>3. FrameOK(Head(down))
  BY <1>2 DEF IInv, LineOK
<1>4. ~Untouched(s) /\ verdict[s] \notin Local
  BY <1>1, <1>3 DEF FrameOK
<1>5. Asked(s)
  BY <1>2, <1>4, TakenIsAsked
<1> HIDE DEF s
<1>6. phaseBar[s] # "new" /\ answerBar[s] # "local"
  BY <1>1, <1>2, <1>4, <1>5 DEF phaseBar, answerBar, Verdicts, Local
<1>7. ranBar' = ranBar \cup {s}
  BY <1>1, <1>2 DEF ranBar
<1>8. phaseBar' = phaseBar /\ answerBar' = answerBar
  <2>1. \A r \in Requests : Asked(r)' <=> Asked(r)
    BY <1>1 DEF Asked
  <2> QED
    BY <1>1, <2>1 DEF phaseBar, answerBar
<1> QED
  BY <1>2, <1>6, <1>7, <1>8 DEF Service!Run

LEMMA ReplyAnswers ==
    ASSUME IInv, NEW p \in Peers, NEW i \in Ids, NEW v \in Verdicts \ {"none"},
           NEW src, Reply(p, i, v, src), UNCHANGED <<asked, runs>>,
           Asked(<<p, i>>), verdict[<<p, i>>] = "none",
           v = "reply" => runs[<<p, i>>] > 0,
           v \in Local => runs[<<p, i>>] = 0
    PROVE  \E s \in Requests, a \in Service!Answers : Service!Answer(s, a)
<1> DEFINE s == <<p, i>>
<1>1. s \in Requests
  BY DEF Requests
<1>2. /\ verdict \in [Requests -> Verdicts] /\ runs \in [Requests -> Nat]
      /\ verdict' = [verdict EXCEPT ![s] = v]
  BY DEF Reply, IInv, TypeOK
<1>3. \A r \in Requests : Asked(r)' <=> Asked(r)
  BY DEF Asked
<1>4. PICK a : a = IF v = "reply" THEN "board" ELSE IF v = "failed" THEN "gave_up"
                   ELSE "local"
  OBVIOUS
<1>5. a \in Service!Answers \ {"none"}
  BY <1>4 DEF Service!Answers
<1>6. Asked(s) /\ verdict[s] = "none" /\ (v = "reply" => runs[s] > 0)
      /\ (v \in Local => runs[s] = 0)
  OBVIOUS
<1> HIDE DEF s
<1>7. phaseBar[s] = "open" /\ phaseBar' = [phaseBar EXCEPT ![s] = "closed"]
  BY <1>1, <1>2, <1>3, <1>6 DEF phaseBar
<1>8. answerBar' = [answerBar EXCEPT ![s] = a]
  BY <1>1, <1>2, <1>4 DEF answerBar, Verdicts, Local
<1>9. ranBar' = ranBar
  BY DEF ranBar
<1>10. (a = "board" => s \in ranBar) /\ (a = "local" => s \notin ranBar)
  BY <1>1, <1>2, <1>4, <1>6 DEF ranBar, Verdicts, Local
<1> QED
  BY <1>1, <1>5, <1>7, <1>8, <1>9, <1>10 DEF Service!Answer

\* A step that answers the request in flight.
LEMMA InFlightAnswers ==
    ASSUME IInv, inflight.busy, NEW v \in {"reply", "failed"}, NEW src,
           Reply(inflight.peer, inflight.peer_id, v, src),
           v = "reply" => runs[Current] > 0, UNCHANGED <<asked, runs>>
    PROVE  \E s \in Requests, a \in Service!Answers : Service!Answer(s, a)
<1>1. /\ inflight.peer \in Peers /\ inflight.peer_id \in Ids
      /\ ~Untouched(Current) /\ verdict[Current] = "none"
  BY DEF IInv, TypeOK, Inflight, BusyOK
<1>2. Current \in Requests
  BY <1>1 DEF Current, Requests
<1>3. Asked(Current)
  BY <1>1, <1>2, TakenIsAsked
<1>4. v \in Verdicts \ {"none"} /\ v \notin Local
  BY DEF Verdicts, Local
<1> QED
  BY <1>1, <1>3, <1>4, ReplyAnswers DEF Current

LEMMA ReadLinkMaps ==
    ASSUME IInv, ReadLink
    PROVE  \/ \E s \in Requests, a \in Service!Answers : Service!Answer(s, a)
           \/ UNCHANGED <<phaseBar, ranBar, answerBar>>
<1> DEFINE f == Head(up)
<1>1. UNCHANGED <<asked, runs>> /\ OnLinkFrame(f) /\ up # <<>> /\ up \in Seq(LineFrame)
  BY DEF ReadLink, IInv, TypeOK
<1>2. f \in Frames(up) /\ f \in LineFrame
  <2>1. 1 \in DOMAIN up /\ f = up[1] /\ up[1] \in LineFrame
    BY <1>1
  <2> QED
    BY <2>1 DEF Frames
<1>3. raw \in 0 .. NPeers
  BY DEF IInv, TypeOK
<1>4. CASE raw = 0 /\ f.kind = "op" /\ Matches(f)
  <2>1. OnReply(f)
    BY <1>1, <1>4 DEF OnLinkFrame
  <2>2. Reply(inflight.peer, inflight.peer_id, "reply", f.src) /\ inflight.busy
    BY <1>4, <2>1 DEF OnReply, Matches
  <2>3. runs[Current] > 0
    BY <1>2, <1>4 DEF IInv, LineOK, FrameOK, Matches
  <2> QED
    BY <1>1, <2>2, <2>3, InFlightAnswers
<1>5. CASE ~(raw = 0 /\ f.kind = "op" /\ Matches(f))
  <2>1. verdict' = verdict
    BY <1>1, <1>2, <1>3, <1>5 DEF OnLinkFrame, OnReply, DemuxPush, LineFrame
  <2> QED
    BY <1>1, <2>1, ServiceStutters
<1> QED
  BY <1>4, <1>5

LEMMA HandleFrameMaps ==
    ASSUME IInv, HandleFrame
    PROVE  \/ \E s \in Requests, a \in Service!Answers : Service!Answer(s, a)
           \/ UNCHANGED <<phaseBar, ranBar, answerBar>>
<1>1. PICK p, r, q : p = turn /\ r = Head(pipe[p]) /\ q = <<p, r.id>>
  OBVIOUS
<1>2. p \in Peers /\ r.id \in Ids /\ q \in Requests /\ Untouched(q) /\ Asked(q)
      /\ UNCHANGED <<asked, runs>>
  <2>1. p \in Peers /\ r.id \in Ids /\ q \in Requests /\ Untouched(q)
    BY <1>1, TakeRequest
  <2>2. pipe \in [Peers -> Seq(Request)] /\ asked \in [Peers -> 0 .. MaxReqs]
        /\ Taken(p) \in Nat /\ pc = "frames" /\ left \in 1 .. Len(pipe[p])
    BY <1>1, <2>1 DEF IInv, TypeOK, PipeOK, LoopOK, HandleFrame
  <2>3. Len(pipe[p]) \in Nat /\ Len(pipe[p]) > 0 /\ asked[p] \in Nat
        /\ Head(pipe[p]) = pipe[p][1]
    BY <2>1, <2>2
  <2>4. r.id = Taken(p) + 1
    BY <1>1, <2>1, <2>3 DEF IInv, PipeOK
  <2>5. Asked(q)
    BY <1>1, <2>2, <2>3, <2>4 DEF Taken, Asked
  <2> QED
    BY <2>1, <2>5 DEF HandleFrame
<1>3. verdict[q] = "none" /\ runs[q] = 0
  BY <1>2 DEF IInv, RequestOK
<1>4. (\E v \in Local : Nack(p, r.id, v)) \/ UNCHANGED verdict
  BY <1>1 DEF HandleFrame, OnPeerFrame, OnRaw, OnRawData, OnOp, StartRequest, Local
<1>5. CASE \E v \in Local : Nack(p, r.id, v)
  <2>1. PICK v \in Local : Reply(p, r.id, v, q)
    BY <1>1, <1>5 DEF Nack
  <2>2. v \in Verdicts \ {"none"} /\ v # "reply"
    BY <2>1 DEF Local, Verdicts
  <2> QED
    BY <1>1, <1>2, <1>3, <2>1, <2>2, ReplyAnswers
<1>6. CASE UNCHANGED verdict
  BY <1>2, <1>6, ServiceStutters
<1> QED
  BY <1>4, <1>5, <1>6

LEMMA NextMaps ==
    IInv /\ [Next]_vars => [Service!SNext]_<<phaseBar, ranBar, answerBar>>
<1> SUFFICES ASSUME IInv, [Next]_vars
             PROVE  Service!SNext \/ UNCHANGED <<phaseBar, ranBar, answerBar>>
  OBVIOUS
<1>1. CASE ReadLink
  BY <1>1, ReadLinkMaps DEF Service!SNext
<1>2. CASE HandleFrame
  BY <1>2, HandleFrameMaps DEF Service!SNext
<1>3. CASE Fail
  <2>1. inflight.busy /\ UNCHANGED <<asked, runs>>
        /\ \E src : Reply(inflight.peer, inflight.peer_id, "failed", src)
    BY <1>3 DEF Fail, Nack
  <2> QED
    BY <2>1, InFlightAnswers DEF Service!SNext
<1>4. CASE \E p \in Peers : \E kind \in KindsOf(p) : Ask(p, kind)
  BY <1>4, AskSubmits DEF Service!SNext
<1>5. CASE RunRequest
  BY <1>5, RunRuns DEF Service!SNext
<1>6. CASE LeaveLink \/ SkipPipe \/ ReadPipe \/ Resend \/ NoTimeout
  <2>1. UNCHANGED <<asked, runs, verdict>>
    BY <1>6 DEF LeaveLink, SkipPipe, ReadPipe, Resend, NoTimeout, peerVars, history
  <2> QED
    BY <2>1, ServiceStutters
<1>7. CASE \E p \in Peers : Receive(p) \/ GiveUp(p)
  <2>1. UNCHANGED <<asked, runs, verdict>>
    BY <1>7 DEF Receive, GiveUp, history
  <2> QED
    BY <2>1, ServiceStutters
<1>8. CASE AnswerRaw \/ PushFrame \/ Lose
  <2>1. UNCHANGED <<asked, runs, verdict>>
    BY <1>8 DEF AnswerRaw, PushFrame, Lose, peerVars, history
  <2> QED
    BY <2>1, ServiceStutters
<1>9. CASE UNCHANGED vars
  <2>1. UNCHANGED <<asked, runs, verdict>>
    BY <1>9 DEF vars, peerVars, history
  <2> QED
    BY <2>1, ServiceStutters
<1> QED
  BY <1>1, <1>2, <1>3, <1>4, <1>5, <1>6, <1>7, <1>8, <1>9
     DEF Next, BrokerStep, PeerStep, LineStep

LEMMA InitMaps == Init => Service!SInit
<1> SUFFICES ASSUME Init PROVE Service!SInit
  OBVIOUS
<1>1. \A r \in Requests : ~Asked(r)
  BY DEF Init, Requests, Ids, Asked
<1>2. phaseBar = [r \in Requests |-> "new"]
  BY <1>1 DEF phaseBar
<1>3. \A r \in Requests : runs[r] = 0 /\ verdict[r] = "none"
  BY DEF Init
<1>4. ranBar = {}
  BY <1>3 DEF ranBar
<1>5. answerBar = [r \in Requests |-> "none"]
  BY <1>3 DEF answerBar, Local
<1> QED
  BY <1>2, <1>4, <1>5 DEF Service!SInit

(***************************************************************************)
(* The broker, the line and the board together keep the promise of         *)
(* RequestService: an answer of the board means the board ran the request, *)
(* an answer of the broker's own means it never will.                      *)
(***************************************************************************)
THEOREM BrokerImplementsService == Spec => ServiceSpec
<1>1. []IInv /\ [][Next]_vars => [][Service!SNext]_<<phaseBar, ranBar, answerBar>>
  BY NextMaps, PTL
<1> QED
  BY <1>1, InitMaps, BrokerInvariant, PTL
     DEF Spec, ServiceSpec, Service!SSpec, Service!svars
=============================================================================
