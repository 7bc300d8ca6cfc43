------------------------------ MODULE UsbStream -----------------------------
(***************************************************************************)
(* Bytes from an HTTP client to a serial device on the USB port of the     *)
(* board: the wapp tg-usb gives each write of a channel a sequence number, *)
(* the broker sends the request again when no reply comes, and the board   *)
(* drops a repeat of the last write it took.                               *)
(*                                                                         *)
(* BrokerLink has the whole of the broker; here it is the part that one    *)
(* peer sees.  The line keeps the order of its frames and loses some.  A   *)
(* frame is the request it belongs to, the identifier and the sequence.    *)
(***************************************************************************)
EXTENDS Integers, Sequences

CONSTANTS Channels,        \* the serial devices of the port
          SEQ_MOD,         \* 256 in the code
          REPLY_TRIES,     \* how often the broker sends one request
          MaxOps,          \* bound: the writes and subscribes of the clients
          MaxAsks,         \* bound: the requests tg-usb makes of them
          CallersRepeat,   \* a client repeats a write until it succeeds
          Resubscribes,    \* a client subscribes to a channel it wrote to
          LongBodies,      \* a client writes more than one frame holds
          Hasty,           \* the 3 s of tg-usb may end before the broker answers
          MayRestart       \* tg-usb may restart

ASSUME UsbAssumption ==
    /\ Channels # {}
    /\ SEQ_MOD \in Nat /\ SEQ_MOD > 1
    /\ REPLY_TRIES \in Nat \ {0} /\ MaxOps \in Nat /\ MaxAsks \in Nat
    /\ CallersRepeat \in BOOLEAN /\ Resubscribes \in BOOLEAN
    /\ LongBodies \in BOOLEAN /\ Hasty \in BOOLEAN /\ MayRestart \in BOOLEAN

VARIABLES
    ops,      \* what the clients asked for, in order
    said,     \* what they were told of each
    waiting,  \* ask() waits for a reply to the last of ops
    asks,     \* the identifier of the last request
    chseq,    \* ch->seq of each channel
    req, rsp, \* the pipes of tg-usb
    flight,   \* the request the broker has in flight, or none
    tries,    \* its attempts
    down, up, \* the line
    opened,   \* the channels the board has open, with a reader
    chan,     \* g_usb_chan and g_usb_fd: the one of the last request
    last,     \* g_usb_seq
    valid,    \* g_usb_seq_valid
    stream,   \* what each device took
    takes     \* history: how often the board took each request whole

clientVars == <<ops, said>>
wappVars   == <<waiting, asks, chseq>>
brokerVars == <<flight, tries>>
boardVars  == <<opened, chan, last, valid, stream, takes>>
vars == <<clientVars, wappVars, req, rsp, brokerVars, down, up, boardVars>>

-----------------------------------------------------------------------------
Ops    == 1 .. MaxOps
Kinds  == {"write", "follow", "stop"}
Seqs   == 0 .. SEQ_MOD - 1
Frame  == [id : 1 .. MaxAsks, op : Ops, seq : Seqs]
Answer == [id : 1 .. MaxAsks, ok : BOOLEAN]
Piece  == [op : Ops, whole : BOOLEAN]   \* what a device took of a write
None   == "none"

TypeOK ==
    /\ ops \in Seq([kind : Kinds, chan : Channels, fits : BOOLEAN])
    /\ Len(ops) <= MaxOps
    /\ said \in [Ops -> {"none", "ok", "failed"}]
    /\ waiting \in BOOLEAN
    /\ asks \in 0 .. MaxAsks
    /\ chseq \in [Channels -> Seqs]
    /\ req \in Seq(Frame) /\ rsp \in Seq(Answer)
    /\ flight \in Seq(Frame) /\ Len(flight) <= 1
    /\ tries \in 0 .. REPLY_TRIES
    /\ down \in Seq(Frame) /\ up \in Seq(Answer)
    /\ opened \in SUBSET Channels
    /\ chan \in Channels \cup {None}
    /\ last \in Seqs /\ valid \in BOOLEAN
    /\ stream \in [Channels -> Seq(Piece)]
    /\ takes \in [1 .. MaxAsks -> Nat]

Init ==
    /\ ops = <<>> /\ said = [n \in Ops |-> "none"]
    /\ waiting = FALSE /\ asks = 0 /\ chseq = [c \in Channels |-> 0]
    /\ req = <<>> /\ rsp = <<>> /\ flight = <<>> /\ tries = 0
    /\ down = <<>> /\ up = <<>>
    /\ opened = {} /\ chan = None /\ last = 0 /\ valid = FALSE
    /\ stream = [c \in Channels |-> <<>>]
    /\ takes = [i \in 1 .. MaxAsks |-> 0]

-----------------------------------------------------------------------------
(* tg-usb: one client at a time, one request for each.                     *)

Unresolved == ops # <<>> /\ ops[Len(ops)].kind = "write" /\ said[Len(ops)] = "failed"

\* ask(): the reply that ends the wait is whatever comes next.
SendAsk(op, seq) ==
    /\ asks < MaxAsks
    /\ asks' = asks + 1
    /\ req' = Append(req, [id |-> asks + 1, op |-> op, seq |-> seq])
    /\ waiting' = TRUE

NewOp(kind, c, fits) ==
    /\ ~waiting
    /\ Len(ops) < MaxOps
    /\ CallersRepeat => ~Unresolved
    /\ ops' = Append(ops, [kind |-> kind, chan |-> c, fits |-> fits])
    /\ SendAsk(Len(ops) + 1, chseq[c])
    /\ UNCHANGED <<said, chseq, rsp, brokerVars, down, up, boardVars>>

\* route_write cuts the body to what one frame holds.
Write(c) == \E fits \in {TRUE, ~LongBodies} : NewOp("write", c, fits)

WrittenTo(c) == \E n \in DOMAIN ops : ops[n].kind = "write" /\ ops[n].chan = c

Subscribe(c) == /\ Resubscribes \/ ~WrittenTo(c)
                /\ \E kind \in {"follow", "stop"} : NewOp(kind, c, TRUE)

Repeat ==
    /\ ~waiting
    /\ Unresolved
    /\ SendAsk(Len(ops), chseq[ops[Len(ops)].chan])
    /\ UNCHANGED <<clientVars, chseq, rsp, brokerVars, down, up, boardVars>>

\* ch->seq counts a write the board took; a subscribe sets it back.
SeqAfter(op, ok) ==
    [chseq EXCEPT ![op.chan] = IF ~ok THEN @
                               ELSE IF op.kind = "write" THEN (@ + 1) % SEQ_MOD ELSE 0]

TakeReply ==
    /\ waiting
    /\ rsp # <<>>
    /\ rsp' = Tail(rsp)
    /\ waiting' = FALSE
    /\ said' = [said EXCEPT ![Len(ops)] = IF Head(rsp).ok THEN "ok" ELSE "failed"]
    /\ chseq' = SeqAfter(ops[Len(ops)], Head(rsp).ok)
    /\ UNCHANGED <<ops, asks, req, brokerVars, down, up, boardVars>>

GiveUp ==
    /\ Hasty
    /\ waiting
    /\ waiting' = FALSE
    /\ said' = [said EXCEPT ![Len(ops)] = "failed"]
    /\ UNCHANGED <<ops, asks, chseq, req, rsp, brokerVars, down, up, boardVars>>

\* The main loop reads the pipe between two clients; what is no push is lost.
Drain ==
    /\ ~waiting
    /\ rsp # <<>>
    /\ rsp' = Tail(rsp)
    /\ UNCHANGED <<clientVars, wappVars, req, brokerVars, down, up, boardVars>>

\* A restart in a request leaves a late answer, as GiveUp does.
Restart ==
    /\ MayRestart
    /\ ~waiting
    /\ chseq' = [c \in Channels |-> 0]
    /\ UNCHANGED <<clientVars, waiting, asks, req, rsp, brokerVars, down, up, boardVars>>

-----------------------------------------------------------------------------
(* The broker, as one peer sees it.                                        *)

Start ==
    /\ flight = <<>> /\ req # <<>>
    /\ flight' = <<Head(req)>> /\ tries' = 1
    /\ req' = Tail(req)
    /\ down' = Append(down, Head(req))
    /\ UNCHANGED <<clientVars, wappVars, rsp, up, boardVars>>

\* BUSY, for another peer's request or for raw mode.
Refuse ==
    /\ flight = <<>> /\ req # <<>>
    /\ req' = Tail(req)
    /\ rsp' = Append(rsp, [id |-> Head(req).id, ok |-> FALSE])
    /\ UNCHANGED <<clientVars, wappVars, brokerVars, down, up, boardVars>>

Attempt ==
    /\ flight # <<>> /\ tries < REPLY_TRIES
    /\ tries' = tries + 1
    /\ down' = Append(down, flight[1])
    /\ UNCHANGED <<clientVars, wappVars, req, rsp, flight, up, boardVars>>

BrokerFails ==
    /\ flight # <<>> /\ tries = REPLY_TRIES
    /\ rsp' = Append(rsp, [id |-> flight[1].id, ok |-> FALSE])
    /\ flight' = <<>>
    /\ UNCHANGED <<clientVars, wappVars, req, tries, down, up, boardVars>>

OnReply ==
    /\ up # <<>>
    /\ up' = Tail(up)
    /\ IF flight # <<>> /\ flight[1].id = Head(up).id
       THEN rsp' = Append(rsp, Head(up)) /\ flight' = <<>>
       ELSE UNCHANGED <<rsp, flight>>
    /\ UNCHANGED <<clientVars, wappVars, req, tries, down, boardVars>>

Lose ==
    /\ \/ down # <<>> /\ down' = Tail(down) /\ UNCHANGED up
       \/ up # <<>> /\ up' = Tail(up) /\ UNCHANGED down
    /\ UNCHANGED <<clientVars, wappVars, req, rsp, brokerVars, boardVars>>

-----------------------------------------------------------------------------
(* The board.  One task takes the frames in the order they come.           *)

\* ipc_usb_open.  The sequence names no write of another device.
Select(c) == opened' = opened \cup {c} /\ chan' = c
Open(c)   == Select(c) /\ valid' = (valid /\ chan = c)

\* The path has no device, or the reader does not start.
OpenFails(c) == c \notin opened /\ UNCHANGED boardVars

NeverRepeat(f, c) == FALSE
AnyChannel(f, c) == valid /\ last = f.seq
IsRepeat(f, c) == valid /\ chan = c /\ last = f.seq

DropRepeat(f, c) ==
    /\ IsRepeat(f, c)
    /\ Open(c)
    /\ UNCHANGED <<last, stream, takes>>

Gains(c, op, whole) ==
    stream' = [stream EXCEPT ![c] = Append(@, [op |-> op, whole |-> whole])]

TakeWrite(f, c) ==
    /\ ~IsRepeat(f, c)
    /\ Select(c)
    /\ last' = f.seq /\ valid' = TRUE
    /\ Gains(c, f.op, ops[f.op].fits)
    /\ takes' = [takes EXCEPT ![f.id] = @ + 1]

\* The device takes nothing, or a part.
WriteFails(f, c) ==
    /\ ~IsRepeat(f, c)
    /\ Open(c)
    /\ UNCHANGED <<last, takes>>
    /\ UNCHANGED stream \/ Gains(c, f.op, FALSE)

OnWrite(f, c, ok) == \/ ok /\ (DropRepeat(f, c) \/ TakeWrite(f, c))
                     \/ ~ok /\ (OpenFails(c) \/ WriteFails(f, c))

\* A stop opens nothing, and the device stays open.
OnSubscribe(kind, c, ok) ==
    \/ ok /\ kind = "stop" /\ UNCHANGED boardVars
    \/ ok /\ kind = "follow" /\ Open(c) /\ UNCHANGED <<last, stream, takes>>
    \/ ~ok /\ kind = "follow" /\ OpenFails(c)

Board ==
    /\ down # <<>>
    /\ down' = Tail(down)
    /\ \E ok \in BOOLEAN :
         LET f  == Head(down)
             op == ops[f.op] IN
         /\ up' = Append(up, [id |-> f.id, ok |-> ok])
         /\ \/ op.kind = "write" /\ OnWrite(f, op.chan, ok)
            \/ op.kind # "write" /\ OnSubscribe(op.kind, op.chan, ok)
    /\ UNCHANGED <<clientVars, wappVars, req, rsp, brokerVars>>

-----------------------------------------------------------------------------
Next == \/ \E c \in Channels : Write(c) \/ Subscribe(c)
        \/ Repeat \/ TakeReply \/ GiveUp \/ Drain \/ Restart
        \/ Start \/ Refuse \/ Attempt \/ BrokerFails \/ OnReply
        \/ Lose \/ Board

Spec == Init /\ [][Next]_vars

-----------------------------------------------------------------------------
Elems(q) == {q[k] : k \in DOMAIN q}

IsWrite(n) == n \in DOMAIN ops /\ ops[n].kind = "write"

Has(c, n, whole) == [op |-> n, whole |-> whole] \in Elems(stream[c])

Taken(n) == Has(ops[n].chan, n, TRUE)

\* A client that is told of success has its bytes in the stream of the device,
\* all of them, whatever the line lost and whatever was sent again (route_write,
\* check_timeout of the broker, ipc_usb_write).
AckedWriteReached == \A n \in Ops : IsWrite(n) /\ said[n] = "ok" => Taken(n)

\* The attempts of one request give its bytes to the device once, whatever the
\* clients and tg-usb do meanwhile (ipc_usb_write and its sequence).
AttemptsTakeOnce == \A i \in 1 .. MaxAsks : takes[i] <= 1

-----------------------------------------------------------------------------
(* The inductive invariant, for clients that repeat a write until it       *)
(* succeeds, and for a tg-usb that waits for its answer.  Cur is the       *)
(* request tg-usb works on.                                                *)

Careful == CallersRepeat /\ ~Resubscribes /\ ~LongBodies /\ ~Hasty /\ ~MayRestart

Cur == Len(ops)

\* The request tg-usb made last is in its pipe, in flight or answered, and its
\* frame carries the sequence of its channel.
PlaceOK == /\ ~waiting => req = <<>> /\ flight = <<>> /\ rsp = <<>>
           /\ waiting => /\ Cur > 0 /\ said[Cur] # "ok"
                         /\ Len(req) + Len(flight) + Len(rsp) = 1
           /\ \A f \in Elems(req) \cup Elems(flight) :
                  f.id = asks /\ f.op = Cur /\ f.seq = chseq[ops[Cur].chan]

\* A write is followed by another request when it succeeded.
DoneOK == \A n \in Ops : /\ n < Cur /\ IsWrite(n) => said[n] = "ok"
                         /\ n > Cur => said[n] = "none"
                         /\ n = Cur /\ ~waiting => said[n] # "none"

\* The copies on the line stand in the order of the requests, and nothing of a
\* later request reached a device.
LineOK ==
    /\ \A i, j \in DOMAIN down : i < j => down[i].op <= down[j].op
    /\ \A f \in Elems(down) :
           /\ f.op \in DOMAIN ops /\ f.id <= asks
           /\ f.id = asks => f.op = Cur
           /\ f.op = Cur /\ IsWrite(Cur) /\ said[Cur] # "ok"
                  => f.seq = chseq[ops[Cur].chan]
           /\ \A c \in Channels : \A p \in Elems(stream[c]) : p.op <= f.op

\* A piece in a stream is of a write to that channel.
StreamOK == \A c \in Channels : \A p \in Elems(stream[c]) :
                IsWrite(p.op) /\ ops[p.op].chan = c

\* The board knows a copy of a write it took, and takes no new write for one.
Seen(f, c) == valid /\ chan = c /\ last = f.seq

CopiesOK == \A f \in Elems(down) :
                IsWrite(f.op) => (Taken(f.op) <=> Seen(f, ops[f.op].chan))

Pending(c) == IsWrite(Cur) /\ ops[Cur].chan = c /\ said[Cur] # "ok"

\* The sequence of a channel is the one of the write the board took last, as
\* long as tg-usb waits to hear of it, and the next one after that.
SequenceOK ==
    /\ valid => WrittenTo(chan)
    /\ \A c \in Channels :
           IF Pending(c) /\ Taken(Cur)
           THEN valid /\ chan = c /\ last = chseq[c]
           ELSE valid /\ chan = c => chseq[c] = (last + 1) % SEQ_MOD

\* A subscribe sets back the sequence of a channel that has none.
SubscribeOK == /\ \A c \in Channels : ~WrittenTo(c) => chseq[c] = 0
               /\ \A n \in DOMAIN ops : ops[n].kind # "write" =>
                      \A m \in 1 .. n : IsWrite(m) => ops[m].chan # ops[n].chan

\* An answer of success to the request tg-usb waits for is true.
AnswersOK ==
    /\ \A a \in Elems(up) : a.id <= asks
    /\ \A a \in Elems(up) : a.ok /\ a.id = asks /\ IsWrite(Cur) => Taken(Cur)
    /\ \A a \in Elems(rsp) : a.ok /\ IsWrite(Cur) => Taken(Cur)

AllFit == \A n \in DOMAIN ops : ops[n].fits

IInv == /\ TypeOK /\ PlaceOK /\ DoneOK /\ LineOK /\ StreamOK /\ CopiesOK
        /\ SequenceOK /\ SubscribeOK /\ AnswersOK /\ AllFit
        /\ AckedWriteReached

-----------------------------------------------------------------------------
(* A channel implements DeviceStream.                                      *)

toldBar == {n \in Ops : IsWrite(n) /\ said[n] = "ok"}

Device == INSTANCE DeviceStream WITH told <- toldBar

DeviceSpec == Device!DSpec
=============================================================================
