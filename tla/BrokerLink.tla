----------------------------- MODULE BrokerLink -----------------------------
(***************************************************************************)
(* The wapp tg-broker: one task that owns the serial line to the STM32 and *)
(* carries the requests of its peers over it, one at a time.  A peer is    *)
(* another wapp, joined by a pair of named pipes; the board is the server  *)
(* task of the STM32.                                                      *)
(*                                                                         *)
(* A frame is one element of a sequence.  The bytes of a frame, the parser *)
(* and its idle timeout are the subject of FrameParser; here a damaged     *)
(* frame is a lost one.  A frame enters a pipe of this module when the     *)
(* last chunk of it can be read.                                           *)
(*                                                                         *)
(* The broker is one task, thus its loop is a program counter: pump_link,  *)
(* pump_peers with one turn for each peer, check_timeout.  The peers, the  *)
(* board and the line take their steps between any two of its steps.       *)
(***************************************************************************)
EXTENDS Integers, Sequences

CONSTANTS NPeers,       \* g_npeers
          MaxReqs,      \* bound: the requests one peer writes
          Once,         \* bound: the peers that write one request
          REPLY_TRIES,  \* how often a request goes on the line
          LINK_IDS,     \* 2^16 in the code; small here, so that it wraps
          RspCap,       \* frames a response pipe holds
          LineCap,      \* frames one direction of the line holds
          MaxPush,      \* bound: frames the board sends that nothing asked for
          RawPeers,     \* the peers that use raw mode (tg-ota, tg-probe)
          Impatient,    \* the peers that may stop waiting for an answer
          Slow,         \* the peers that may leave their pipe full
          Followers     \* the peers that follow the opcode of a push

Peers    == 1 .. NPeers
Ids      == 1 .. MaxReqs
Requests == Peers \X Ids

ASSUME BrokerAssumption ==
    /\ NPeers \in Nat \ {0} /\ MaxReqs \in Nat \ {0}
    /\ REPLY_TRIES \in Nat \ {0}
    /\ LINK_IDS \in Nat /\ LINK_IDS > 2
    /\ RspCap \in Nat \ {0} /\ LineCap \in Nat \ {0}
    /\ MaxPush \in Nat
    /\ Once \subseteq Peers /\ RawPeers \subseteq Peers /\ Impatient \subseteq Peers
    /\ Slow \subseteq Peers /\ Followers \subseteq Peers

VARIABLES
    pipe,      \* the request pipe of each peer
    rsp,       \* the response pipe of each peer
    asked,     \* how many requests a peer wrote; its next identifier is one more
    want,      \* the identifier a peer waits for, or 0
    pc, turn,  \* where the loop of the broker is, and the peer it reads
    left,      \* frames of the chunk just read that the broker has yet to handle
    inflight,  \* g_inflight
    next_id,   \* g_next_id
    raw,       \* g_raw: the peer that holds raw mode, or 0
    down, up,  \* the line, towards the board and back
    pushes,    \* how many pushes the board sent
    runs,      \* history: how often the board ran each request
    verdict,   \* history: the last answer the broker gave to each request
    answers    \* history: how many answers it gave

peerVars == <<pipe, rsp, asked, want>>
loopVars == <<pc, turn, left>>
linkVars == <<inflight, next_id, raw>>
lineVars == <<down, up, pushes>>
history  == <<runs, verdict, answers>>
vars     == <<peerVars, loopVars, linkVars, lineVars, history>>

-----------------------------------------------------------------------------
Kinds    == {"op", "raw_on", "raw_off", "raw_data"}
Verdicts == {"none", "reply", "failed", "busy", "bad", "ack"}

\* The answers the broker gives for itself, without the board.
Local    == {"busy", "bad", "ack"}

LinkIds  == 1 .. LINK_IDS - 1
Request  == [id : Ids, kind : Kinds]
Inflight == [busy : BOOLEAN, link_id : 0 .. LINK_IDS - 1,
             peer : Peers, peer_id : 0 .. MaxReqs, tries : 0 .. REPLY_TRIES]

\* A frame on the line.  "src" is the request it belongs to; the code knows
\* only link_id, thus src is read by the board model and by the properties.
LineFrame == [kind : {"op", "push", "raw"}, link_id : 0 .. LINK_IDS - 1, src : Requests]

\* A frame in a response pipe: the identifier of the peer, what it says, and
\* the request whose execution it reports.
RspFrame == [corr : 0 .. MaxReqs, says : Verdicts \cup {"push", "raw"},
             src : Requests]

TypeOK ==
    /\ pipe \in [Peers -> Seq(Request)]
    /\ rsp \in [Peers -> Seq(RspFrame)]
    /\ asked \in [Peers -> 0 .. MaxReqs]
    /\ want \in [Peers -> 0 .. MaxReqs]
    /\ pc \in {"link", "peers", "frames", "timers"}
    /\ turn \in Peers
    /\ left \in Nat
    /\ inflight \in Inflight
    /\ next_id \in LinkIds
    /\ raw \in 0 .. NPeers
    /\ down \in Seq(LineFrame)
    /\ up \in Seq(LineFrame)
    /\ pushes \in 0 .. MaxPush
    /\ runs \in [Requests -> Nat]
    /\ verdict \in [Requests -> Verdicts]
    /\ answers \in [Requests -> Nat]

Init ==
    /\ pipe = [p \in Peers |-> <<>>]
    /\ rsp = [p \in Peers |-> <<>>]
    /\ asked = [p \in Peers |-> 0]
    /\ want = [p \in Peers |-> 0]
    /\ pc = "link" /\ turn = 1 /\ left = 0
    /\ inflight = [busy |-> FALSE, link_id |-> 0, peer |-> 1,
                   peer_id |-> 0, tries |-> 0]
    /\ next_id = 1
    /\ raw = 0
    /\ down = <<>> /\ up = <<>> /\ pushes = 0
    /\ runs = [r \in Requests |-> 0]
    /\ verdict = [r \in Requests |-> "none"]
    /\ answers = [r \in Requests |-> 0]

-----------------------------------------------------------------------------
(* write_all to a response pipe.  The broker waits while the pipe is full; *)
(* it discards the frame of a peer that leaves it full for too long.       *)

Room(p) == Len(rsp[p]) < RspCap

ToPeers(S, f) ==
    /\ \A p \in S : Room(p) \/ p \in Slow
    /\ rsp' = [p \in Peers |-> IF p \in S /\ Room(p) THEN Append(rsp[p], f)
                                                     ELSE rsp[p]]

\* to_peer with the answer "v" to the request "i" of the peer "p".
Reply(p, i, v, src) ==
    /\ ToPeers({p}, [corr |-> i, says |-> v, src |-> src])
    /\ verdict' = [verdict EXCEPT ![<<p, i>>] = v]
    /\ answers' = [answers EXCEPT ![<<p, i>>] = @ + 1]

Nack(p, i, v) == Reply(p, i, v, <<p, i>>)

\* A full line refuses the frame; the broker counts the attempt all the same.
Put(line, f) == IF Len(line) < LineCap THEN Append(line, f) ELSE line

-----------------------------------------------------------------------------
(* The peers.                                                              *)

KindsOf(p) == IF p \in RawPeers THEN Kinds ELSE {"op"}

\* RAW_DATA takes no answer, thus its writer waits for none.
Ask(p, kind) ==
    /\ want[p] = 0
    /\ asked[p] < MaxReqs
    /\ p \in Once => asked[p] = 0
    /\ asked' = [asked EXCEPT ![p] = @ + 1]
    /\ pipe' = [pipe EXCEPT ![p] = Append(@, [id |-> asked[p] + 1, kind |-> kind])]
    /\ want' = [want EXCEPT ![p] = IF kind = "raw_data" THEN 0 ELSE asked[p] + 1]
    /\ UNCHANGED <<rsp, loopVars, linkVars, lineVars, history>>

\* A peer takes a frame; the identifier tells it whether its wait is over.
Receive(p) ==
    /\ rsp[p] # <<>>
    /\ rsp' = [rsp EXCEPT ![p] = Tail(@)]
    /\ want' = [want EXCEPT ![p] = IF Head(rsp[p]).corr = @ THEN 0 ELSE @]
    /\ UNCHANGED <<pipe, asked, loopVars, linkVars, lineVars, history>>

\* The time limit of a peer ends before the broker answers.
GiveUp(p) ==
    /\ p \in Impatient
    /\ want[p] # 0
    /\ want' = [want EXCEPT ![p] = 0]
    /\ UNCHANGED <<pipe, rsp, asked, loopVars, linkVars, lineVars, history>>

-----------------------------------------------------------------------------
(* pump_link.                                                              *)

StaysBusy == inflight
Idle == [inflight EXCEPT !.busy = FALSE]

AnyWhileBusy(f) == inflight.busy
Matches(f) == inflight.busy /\ f.link_id = inflight.link_id

OnReply(f) ==
    IF Matches(f)
    THEN /\ Reply(inflight.peer, inflight.peer_id, "reply", f.src)
         /\ inflight' = Idle
    ELSE UNCHANGED <<rsp, verdict, answers, inflight>>

DemuxPush(f) ==
    /\ ToPeers(Followers, [corr |-> 0, says |-> "push", src |-> f.src])
    /\ UNCHANGED <<verdict, answers, inflight>>

\* In raw mode the holder takes what the line holds; otherwise the parser
\* takes it, which drops bytes that are no frame.
OnLinkFrame(f) ==
    CASE raw # 0         -> /\ ToPeers({raw}, [corr |-> 0, says |-> "raw", src |-> f.src])
                            /\ UNCHANGED <<verdict, answers, inflight>>
      [] raw = 0 /\ f.kind = "raw"  -> UNCHANGED <<rsp, verdict, answers, inflight>>
      [] raw = 0 /\ f.kind = "push" -> DemuxPush(f)
      [] raw = 0 /\ f.kind = "op"   -> OnReply(f)

ReadLink ==
    /\ pc = "link"
    /\ up # <<>>
    /\ up' = Tail(up)
    /\ OnLinkFrame(Head(up))
    /\ UNCHANGED <<pipe, asked, want, loopVars, next_id, raw, down, pushes, runs>>

\* A request in flight stops the reading of every pipe.
LeaveLink ==
    /\ pc = "link"
    /\ pc' = IF inflight.busy THEN "timers" ELSE "peers"
    /\ turn' = 1
    /\ UNCHANGED <<peerVars, left, linkVars, lineVars, history>>

-----------------------------------------------------------------------------
(* pump_peers.  One turn reads a chunk of one pipe and handles every frame *)
(* in it; inflight.busy is read before the first turn alone.               *)

NextTurn ==
    IF turn = NPeers THEN pc' = "timers" /\ turn' = 1
                     ELSE pc' = "peers" /\ turn' = turn + 1

SkipPipe ==
    /\ pc = "peers"
    /\ pipe[turn] = <<>>
    /\ NextTurn
    /\ UNCHANGED <<peerVars, left, linkVars, lineVars, history>>

ReadPipe ==
    /\ pc = "peers"
    /\ pipe[turn] # <<>>
    /\ left' \in 1 .. Len(pipe[turn])
    /\ pc' = "frames"
    /\ UNCHANGED <<peerVars, turn, linkVars, lineVars, history>>

\* The line forgets frames whose identifier comes up again: that takes 65535
\* requests in the code, and no frame lives so long.
Aged(line) == IF \E k \in DOMAIN line : line[k].link_id = next_id THEN <<>> ELSE line

\* g_next_id is a u16; the identifier 0 is that of a push.
NextId == IF next_id + 1 = LINK_IDS THEN 1 ELSE next_id + 1

StartRequest(p, r) ==
    /\ inflight' = [busy |-> TRUE, link_id |-> next_id, peer |-> p,
                    peer_id |-> r.id, tries |-> 1]
    /\ next_id' = NextId
    /\ down' = Put(Aged(down), [kind |-> "op", link_id |-> next_id, src |-> <<p, r.id>>])
    /\ up' = Aged(up)
    /\ UNCHANGED <<raw, rsp, verdict, answers>>

\* The guards of on_raw, in their order.
TakesBusyLine(p, r) == raw # 0 /\ raw # p
RawRefused(p, r) == \/ raw # 0 /\ raw # p
                    \/ r.kind = "raw_on" /\ inflight.busy

\* set_line may fail.  When it does not, the driver drops its receive buffer
\* and the parser starts again; what is still on the wire arrives later.
OnRaw(p, r) ==
    \/ /\ RawRefused(p, r)
       /\ Nack(p, r.id, "busy")
       /\ UNCHANGED <<raw, up>>
    \/ /\ ~RawRefused(p, r)
       /\ Nack(p, r.id, "bad")
       /\ UNCHANGED <<raw, up>>
    \/ /\ ~RawRefused(p, r)
       /\ raw' = IF r.kind = "raw_off" THEN 0 ELSE p
       /\ up' \in {up, <<>>}
       /\ Nack(p, r.id, "ack")

OnRawData(p, r) ==
    IF raw # p
    THEN Nack(p, r.id, "busy") /\ UNCHANGED down
    ELSE /\ down' = Put(down, [kind |-> "raw", link_id |-> 0, src |-> <<p, r.id>>])
         /\ UNCHANGED <<rsp, verdict, answers>>

OpRefused == raw # 0 \/ inflight.busy

SilentWhenRefused(p, r) ==
    IF OpRefused
    THEN UNCHANGED <<rsp, verdict, answers, inflight, next_id, raw, down, up>>
    ELSE StartRequest(p, r)

SendsWhenRefused(p, r) ==
    IF OpRefused
    THEN /\ Nack(p, r.id, "busy")
         /\ down' = Put(down, [kind |-> "op", link_id |-> next_id, src |-> <<p, r.id>>])
         /\ UNCHANGED <<inflight, next_id, raw, up>>
    ELSE StartRequest(p, r)

OnOp(p, r) ==
    IF OpRefused
    THEN Nack(p, r.id, "busy") /\ UNCHANGED <<inflight, next_id, raw, down, up>>
    ELSE StartRequest(p, r)

OnPeerFrame(p, r) ==
    \/ /\ r.kind \in {"raw_on", "raw_off"}
       /\ OnRaw(p, r)
       /\ UNCHANGED <<inflight, next_id, down>>
    \/ /\ r.kind = "raw_data"
       /\ OnRawData(p, r)
       /\ UNCHANGED <<inflight, next_id, raw, up>>
    \/ /\ r.kind = "op"
       /\ OnOp(p, r)

HandleFrame ==
    /\ pc = "frames"
    /\ OnPeerFrame(turn, Head(pipe[turn]))
    /\ pipe' = [pipe EXCEPT ![turn] = Tail(@)]
    /\ left' = left - 1
    /\ IF left = 1 THEN NextTurn ELSE UNCHANGED <<pc, turn>>
    /\ UNCHANGED <<asked, want, pushes, runs>>

-----------------------------------------------------------------------------
(* check_timeout.  The board may be slow without bound, thus the 200 ms of *)
(* a request in flight may be over at any pass.                            *)

OneTooMany == inflight.tries <= REPLY_TRIES
TriesLeft  == inflight.tries < REPLY_TRIES

Resend ==
    /\ pc = "timers"
    /\ inflight.busy /\ TriesLeft
    /\ down' = Put(down, [kind |-> "op", link_id |-> inflight.link_id,
                          src |-> <<inflight.peer, inflight.peer_id>>])
    /\ inflight' = [inflight EXCEPT !.tries = @ + 1]
    /\ pc' = "link"
    /\ UNCHANGED <<peerVars, turn, left, next_id, raw, up, pushes, history>>

Fail ==
    /\ pc = "timers"
    /\ inflight.busy /\ ~TriesLeft
    /\ Nack(inflight.peer, inflight.peer_id, "failed")
    /\ inflight' = Idle
    /\ pc' = "link"
    /\ UNCHANGED <<pipe, asked, want, turn, left, next_id, raw, lineVars, runs>>

NoTimeout ==
    /\ pc = "timers"
    /\ pc' = "link"
    /\ UNCHANGED <<peerVars, turn, left, linkVars, lineVars, history>>

-----------------------------------------------------------------------------
(* The board and the line.                                                 *)

\* The server handles one frame and answers it with the identifier it came
\* with.  A full line drops the answer.
RunRequest ==
    /\ down # <<>> /\ Head(down).kind = "op"
    /\ runs' = [runs EXCEPT ![Head(down).src] = @ + 1]
    /\ up' = Put(up, Head(down))
    /\ down' = Tail(down)
    /\ UNCHANGED <<peerVars, loopVars, linkVars, pushes, verdict, answers>>

\* The bootloader of the board answers raw bytes with raw bytes.
AnswerRaw ==
    /\ down # <<>> /\ Head(down).kind = "raw"
    /\ up' = Put(up, Head(down))
    /\ down' = Tail(down)
    /\ UNCHANGED <<peerVars, loopVars, linkVars, pushes, history>>

PushFrame ==
    /\ pushes < MaxPush
    /\ pushes' = pushes + 1
    /\ up' = Put(up, [kind |-> "push", link_id |-> 0, src |-> <<1, 1>>])
    /\ UNCHANGED <<peerVars, loopVars, linkVars, down, history>>

\* The line loses or damages a frame, or a reset of the board drops what the
\* board had received.
Lose ==
    /\ \/ down # <<>> /\ down' = Tail(down) /\ UNCHANGED up
       \/ up # <<>> /\ up' = Tail(up) /\ UNCHANGED down
    /\ UNCHANGED <<peerVars, loopVars, linkVars, pushes, history>>

-----------------------------------------------------------------------------
BrokerStep == \/ ReadLink \/ LeaveLink
              \/ SkipPipe \/ ReadPipe \/ HandleFrame
              \/ Resend \/ Fail \/ NoTimeout

PeerStep(p) == (\E kind \in KindsOf(p) : Ask(p, kind)) \/ Receive(p) \/ GiveUp(p)

LineStep == RunRequest \/ AnswerRaw \/ PushFrame \/ Lose

Next == BrokerStep \/ (\E p \in Peers : PeerStep(p)) \/ LineStep

\* The broker loops for ever, and the 200 ms of a request in flight end after
\* a number of passes.  A peer that is not slow reads its pipe.  Nothing is
\* asked of the board or of the line.
Fairness == /\ WF_vars(BrokerStep)
            /\ SF_vars(Resend \/ Fail)
            /\ \A p \in Peers \ Slow : WF_vars(Receive(p))

Spec == Init /\ [][Next]_vars

FairSpec == Spec /\ Fairness

-----------------------------------------------------------------------------
(* What the broker owes its peers.                                         *)

Frames(q) == {q[k] : k \in DOMAIN q}

OnLine(r) == \E f \in Frames(down) : f.kind = "op" /\ f.src = r

\* The reply a peer finds under an identifier reports the request that this
\* peer wrote under that identifier, and the board ran it: a late or repeated
\* reply never ends up with the request that came after (on_link_frame).
ReplyIsOwn ==
    \A p \in Peers : \A f \in Frames(rsp[p]) :
        f.says = "reply" => f.src = <<p, f.corr>> /\ runs[f.src] > 0

\* No request takes two answers, whatever the order of late replies, attempts
\* and the last timeout (on_link_frame, check_timeout).
OneAnswer == \A r \in Requests : answers[r] <= 1

\* A peer that is told BUSY may write its request again (ask_until of tg-ota
\* does): the board never runs a request that the broker refused.
RefusedNeverRuns ==
    \A r \in Requests : verdict[r] \in Local => runs[r] = 0 /\ ~OnLine(r)

\* The board runs a request as often as it goes on the line, at most
\* REPLY_TRIES times, whatever is lost (check_timeout).
RunsBounded == \A r \in Requests : runs[r] <= REPLY_TRIES

\* While a peer holds raw mode the broker puts that peer's bytes on the line
\* and nothing else, no late attempt of an earlier request included, and no
\* other peer ends the mode (on_raw, on_peer_frame, check_timeout).
RawOwnership ==
    [][raw # 0 =>
         /\ Len(down') > Len(down) =>
                down'[Len(down')].kind = "raw" /\ down'[Len(down')].src[1] = raw
         /\ raw' # raw => turn = raw /\ pc = "frames"]_vars

\* Every peer that waits for an answer and reads its pipe takes one, whatever
\* the line loses and whoever holds raw mode (the main loop).
EveryPeerAnswered ==
    \A p \in Peers \ (Slow \cup Impatient) : want[p] # 0 ~> want[p] = 0

\* docs/broker.md:37-42 has the requests of the other peers stay in their
\* pipes while one request waits, and BUSY for the second of two requests of
\* one peer alone: a peer that waits for each answer meets BUSY in raw mode
\* only.  pump_peers reads inflight.busy once for all the turns of a pass.
BusyIsForRawMode ==
    [][\A p \in Peers \ Impatient, i \in Ids :
           verdict'[<<p, i>>] = "busy" /\ verdict[<<p, i>>] # "busy" => raw # 0]_vars

-----------------------------------------------------------------------------
(* The inductive invariant.  The identifiers of a peer rise by one, thus   *)
(* the broker took the first Taken(p) of them out of the pipe, and the     *)
(* requests after those are untouched.                                     *)

Taken(p) == asked[p] - Len(pipe[p])

Untouched(r) == r[2] > Taken(r[1])

Current == <<inflight.peer, inflight.peer_id>>

PipeOK == \A p \in Peers :
              /\ Taken(p) \in Nat
              /\ \A k \in 1 .. Len(pipe[p]) : pipe[p][k].id = Taken(p) + k

LoopOK == pc = "frames" => left \in 1 .. Len(pipe[turn])

RequestOK == \A r \in Requests :
                 /\ answers[r] = IF verdict[r] = "none" THEN 0 ELSE 1
                 /\ Untouched(r) => verdict[r] = "none" /\ runs[r] = 0
                 /\ verdict[r] \in Local => runs[r] = 0
                 /\ verdict[r] = "reply" => runs[r] > 0

\* The request in flight has no answer yet, and nobody holds raw mode.
BusyOK == inflight.busy => /\ inflight.peer_id \in Ids
                           /\ ~Untouched(Current)
                           /\ verdict[Current] = "none"
                           /\ raw = 0

\* A frame on the line belongs to a request the broker took from a pipe and
\* did not refuse, and the identifier of the request in flight is its own.
FrameOK(f) == f.kind = "op" =>
                  /\ ~Untouched(f.src)
                  /\ verdict[f.src] \notin Local
                  /\ f.link_id = inflight.link_id => f.src = Current

LineOK == /\ \A f \in Frames(down) : FrameOK(f)
          /\ \A f \in Frames(up) : FrameOK(f) /\ (f.kind = "op" => runs[f.src] > 0)

IInv == /\ TypeOK /\ PipeOK /\ LoopOK /\ RequestOK /\ BusyOK /\ LineOK
        /\ ReplyIsOwn

-----------------------------------------------------------------------------
(* The broker implements RequestService.  Only requests for the board are  *)
(* requests there: raw mode is the broker's own, RAW_DATA takes no answer. *)

Asked(r) == r[2] <= asked[r[1]]

phaseBar  == [r \in Requests |-> IF ~Asked(r) THEN "new"
                                 ELSE IF verdict[r] = "none" THEN "open" ELSE "closed"]
ranBar    == {r \in Requests : runs[r] > 0}
answerBar == [r \in Requests |-> CASE verdict[r] = "none"   -> "none"
                                   [] verdict[r] = "reply"  -> "board"
                                   [] verdict[r] = "failed" -> "gave_up"
                                   [] verdict[r] \in Local  -> "local"]

Service == INSTANCE RequestService
               WITH phase <- phaseBar, ran <- ranBar, answer <- answerBar

ServiceSpec == Service!SSpec
=============================================================================
