----------------------------- MODULE UsbFollow ------------------------------
(***************************************************************************)
(* Bytes from a serial device on the USB port to an HTTP client.  A task   *)
(* of the board for each open channel reads its device and, for the        *)
(* followed channel, puts the bytes in a ring; the server of the protocol  *)
(* empties the ring into push frames; tg-usb keeps what a push brings in   *)
(* the buffer of its channel until a client reads it.                      *)
(*                                                                         *)
(* The ring has no lock: every store to it and to its indexes is a step.   *)
(***************************************************************************)
EXTENDS Integers, Sequences

CONSTANTS Channels,     \* the serial devices of the port
          RING,         \* IPC_CHAN_RING, one slot of which stays free
          CHUNK,        \* IPC_CHAN_CHUNK, what one read of a device gives
          READ_MAX,     \* IPC_USB_READ_MAX, the bytes of one push
          DRAIN,        \* IPC_CHAN_DRAIN, the pushes between two requests
          CHANNEL_BUF,  \* the buffer of tg-usb
          MaxBytes,     \* bound: the bytes the devices send
          MaxAsks,      \* bound: the requests of tg-usb
          REPLY_TRIES,  \* how often the broker sends one request
          LINE          \* bound: the frames from the board to tg-usb

ASSUME FollowAssumption ==
    /\ Channels # {}
    /\ RING \in Nat /\ RING > 1
    /\ CHUNK \in Nat \ {0} /\ READ_MAX \in Nat \ {0} /\ DRAIN \in Nat
    /\ CHANNEL_BUF \in Nat /\ MaxBytes \in Nat /\ MaxAsks \in Nat
    /\ REPLY_TRIES \in Nat \ {0} /\ LINE \in Nat

VARIABLES
    given,            \* how many bytes the devices sent
    rpc, rbuf,        \* where the reader of a channel is, and what it read
    ring, head, tail, \* g_chan_ring, g_chan_head, g_chan_tail
    readers,          \* g_usb_reader
    sub, chan,        \* g_usb_sub, g_usb_chan
    spc, left, part,  \* the server: its pushes left, the payload it fills
    down, up,         \* the line
    asks, waiting,    \* tg-usb: the last request, and ask() waits for its reply
    tries,            \* the attempts of the broker
    subscribed, buf, dropped,  \* the channels of tg-usb
    filled, got       \* history: what came since the last read, what clients read

deviceVars == <<given, rpc, rbuf>>
ringVars   == <<ring, head, tail>>
boardVars  == <<readers, sub, chan>>
serverVars == <<spc, left, part>>
wappVars   == <<asks, waiting, tries, subscribed, buf, dropped, filled, got>>
vars == <<deviceVars, ringVars, boardVars, serverVars, down, up, wappVars>>

-----------------------------------------------------------------------------
Byte    == [chan : Channels, n : 1 .. MaxBytes]
Slots   == 0 .. RING - 1
Kinds   == {"follow", "stop", "write"}
Request == [id : 1 .. MaxAsks, kind : Kinds, chan : Channels]
Reply   == [op : {"ack", "nack"}, id : 1 .. MaxAsks]
Push    == [op : {"push"}, chan : Channels, data : Seq(Byte)]
None    == "none"
NoByte  == [chan |-> None, n |-> 0]

TypeOK ==
    /\ given \in 0 .. MaxBytes
    /\ rpc \in [Channels -> {"read", "sub", "chan", "put", "publish"}]
    /\ rbuf \in [Channels -> Seq(Byte)]
    /\ ring \in [Slots -> Byte \cup {NoByte}]
    /\ head \in Slots /\ tail \in Slots
    /\ readers \in SUBSET Channels
    /\ sub \in BOOLEAN /\ chan \in Channels \cup {None}
    /\ spc \in {"link", "drain", "fetch", "advance"}
    /\ left \in 0 .. DRAIN /\ part \in Seq(Byte)
    /\ down \in Seq(Request) /\ up \in Seq(Reply \cup Push)
    /\ asks \in 0 .. MaxAsks /\ waiting \in Seq(Request) /\ tries \in 0 .. REPLY_TRIES
    /\ subscribed \in [Channels -> BOOLEAN]
    /\ buf \in [Channels -> Seq(Byte)] /\ dropped \in [Channels -> Nat]
    /\ filled \in [Channels -> Seq(Byte)] /\ got \in [Channels -> Seq(Byte)]

Init ==
    /\ given = 0
    /\ rpc = [c \in Channels |-> "read"] /\ rbuf = [c \in Channels |-> <<>>]
    /\ ring = [s \in Slots |-> NoByte] /\ head = 0 /\ tail = 0
    /\ readers = {} /\ sub = FALSE /\ chan = None
    /\ spc = "link" /\ left = 0 /\ part = <<>>
    /\ down = <<>> /\ up = <<>>
    /\ asks = 0 /\ waiting = <<>> /\ tries = 0
    /\ subscribed = [c \in Channels |-> FALSE]
    /\ buf = [c \in Channels |-> <<>>] /\ dropped = [c \in Channels |-> 0]
    /\ filled = [c \in Channels |-> <<>>] /\ got = [c \in Channels |-> <<>>]

-----------------------------------------------------------------------------
(* The readers.  They have one priority and no time slice: a reader runs   *)
(* until it waits in its read, and only the server runs in between.        *)

NextSlot(at) == (at + 1) % RING

At(c, from, to) == rpc[c] = from /\ rpc' = [rpc EXCEPT ![c] = to]

Runs(c) == /\ c \in readers
           /\ \A d \in Channels \ {c} : rpc[d] = "read"
           /\ UNCHANGED <<boardVars, serverVars, down, up, wappVars>>

Read(c) ==
    /\ Runs(c) /\ At(c, "read", "sub")
    /\ \E k \in 1 .. CHUNK :
         /\ given + k <= MaxBytes
         /\ given' = given + k
         /\ rbuf' = [rbuf EXCEPT ![c] = [i \in 1 .. k |-> [chan |-> c, n |-> given + i]]]
    /\ UNCHANGED ringVars

\* The bytes of a channel that no one follows end here.
Discard(c) == At(c, rpc[c], "read") /\ rbuf' = [rbuf EXCEPT ![c] = <<>>]

CheckSub(c) ==
    /\ Runs(c) /\ rpc[c] = "sub"
    /\ \/ sub /\ At(c, "sub", "chan") /\ UNCHANGED rbuf
       \/ ~sub /\ Discard(c)
    /\ UNCHANGED <<given, ringVars>>

CheckChan(c) ==
    /\ Runs(c) /\ rpc[c] = "chan"
    /\ \/ chan = c /\ At(c, "chan", "put") /\ UNCHANGED rbuf
       \/ chan # c /\ Discard(c)
    /\ UNCHANGED <<given, ringVars>>

\* ipc_chan_put: the rest of the chunk is lost when the ring is full.
NeverFull == FALSE
Full == NextSlot(head) = tail

Store(c) ==
    /\ Runs(c) /\ rpc[c] = "put"
    /\ \/ /\ rbuf[c] # <<>> /\ ~Full
          /\ ring' = [ring EXCEPT ![head] = Head(rbuf[c])]
          /\ At(c, "put", "publish") /\ UNCHANGED rbuf
       \/ /\ rbuf[c] = <<>> \/ Full
          /\ Discard(c) /\ UNCHANGED ring
    /\ UNCHANGED <<given, head, tail>>

Publish(c) ==
    /\ Runs(c) /\ At(c, "publish", "put")
    /\ head' = NextSlot(head)
    /\ rbuf' = [rbuf EXCEPT ![c] = Tail(@)]
    /\ UNCHANGED <<given, ring, tail>>

-----------------------------------------------------------------------------
(* The server: the link first, then the pushes of the followed channel.    *)

\* ipc_usb_open.
Open(c) == readers' = readers \cup {c} /\ chan' = c

\* There is no device, or no reader for it.
OpenFails(c) == c \notin readers /\ UNCHANGED boardVars

OnSub(r, ok) ==
    \/ r.kind = "stop" /\ ok /\ sub' = FALSE /\ UNCHANGED <<readers, chan>>
    \/ r.kind = "follow" /\ ok /\ Open(r.chan) /\ sub' = TRUE
    \/ r.kind = "follow" /\ ~ok /\ OpenFails(r.chan)

\* The write itself is in UsbStream; it opens its channel, which the board then
\* has for its followed one.
OnWrite(r, ok) == /\ r.kind = "write"
                  /\ \/ Open(r.chan) /\ UNCHANGED sub
                     \/ ~ok /\ OpenFails(r.chan)

Send(f) == Len(up) < LINE /\ up' = Append(up, f)

\* One read of the link may hold several requests.
ToDrain == IF sub' THEN spc' = "drain" /\ left' = DRAIN ELSE UNCHANGED <<spc, left>>

OnFrame ==
    /\ spc = "link" /\ down # <<>>
    /\ down' = Tail(down)
    /\ LET r == Head(down) IN \E ok \in BOOLEAN :
         /\ OnSub(r, ok) \/ OnWrite(r, ok)
         /\ Send([op |-> IF ok THEN "ack" ELSE "nack", id |-> r.id])
    /\ ToDrain \/ (down' # <<>> /\ UNCHANGED <<spc, left>>)
    /\ UNCHANGED <<deviceVars, ringVars, part, wappVars>>

WaitsForLink == FALSE

\* The 20 ms of a followed channel are over.
Timeout ==
    /\ spc = "link" /\ sub
    /\ spc' = "drain" /\ left' = DRAIN
    /\ UNCHANGED <<deviceVars, ringVars, boardVars, part, down, up, wappVars>>

ServerOnly == UNCHANGED <<deviceVars, ring, head, boardVars, down, wappVars>>

Drain ==
    /\ spc = "drain"
    /\ \/ left > 0 /\ head # tail /\ spc' = "fetch" /\ left' = left - 1
       \/ (left = 0 \/ head = tail) /\ spc' = "link" /\ UNCHANGED left
    /\ UNCHANGED <<tail, part, up>> /\ ServerOnly

MoreToTake == Len(part) < READ_MAX /\ tail # head

\* ipc_chan_take.
Fetch ==
    /\ spc = "fetch" /\ MoreToTake
    /\ part' = Append(part, ring[tail])
    /\ spc' = "advance"
    /\ UNCHANGED <<left, tail, up>> /\ ServerOnly

Advance ==
    /\ spc = "advance"
    /\ tail' = NextSlot(tail)
    /\ spc' = "fetch"
    /\ UNCHANGED <<left, part, up>> /\ ServerOnly

\* ipc_usb_push takes the name of the channel when it sends.
SendPush ==
    /\ spc = "fetch" /\ ~MoreToTake
    /\ Send([op |-> "push", chan |-> chan, data |-> part])
    /\ part' = <<>> /\ spc' = "drain"
    /\ UNCHANGED <<left, tail>> /\ ServerOnly

-----------------------------------------------------------------------------
(* The line and the broker, as tg-usb sees them.                           *)

Ask(kind, c) ==
    /\ waiting = <<>> /\ asks < MaxAsks
    /\ asks' = asks + 1 /\ tries' = 1
    /\ waiting' = <<[id |-> asks + 1, kind |-> kind, chan |-> c]>>
    /\ down' = down \o waiting'
    /\ UNCHANGED <<subscribed, buf, dropped, filled, got>>
    /\ UNCHANGED <<deviceVars, ringVars, boardVars, serverVars, up>>

\* The broker sends the request again.
Attempt ==
    /\ waiting # <<>> /\ tries < REPLY_TRIES
    /\ tries' = tries + 1
    /\ down' = down \o waiting
    /\ UNCHANGED <<asks, waiting, subscribed, buf, dropped, filled, got>>
    /\ UNCHANGED <<deviceVars, ringVars, boardVars, serverVars, up>>

\* The broker reports a failure, or 3 s are over.
GiveUp ==
    /\ waiting # <<>> /\ waiting' = <<>> /\ tries' = 0
    /\ UNCHANGED <<asks, subscribed, buf, dropped, filled, got>>
    /\ UNCHANGED <<deviceVars, ringVars, boardVars, serverVars, down, up>>

Lose ==
    /\ \/ down # <<>> /\ down' = Tail(down) /\ UNCHANGED up
       \/ up # <<>> /\ up' = Tail(up) /\ UNCHANGED down
    /\ UNCHANGED <<deviceVars, ringVars, boardVars, serverVars, wappVars>>

-----------------------------------------------------------------------------
(* tg-usb.                                                                 *)

Newest(q, len) == SubSeq(q, Len(q) - len + 1, Len(q))

\* channel_fill: the oldest go first when the buffer is full.
Over(c, data) == IF Len(buf[c]) + Len(data) > CHANNEL_BUF
                 THEN Len(buf[c]) + Len(data) - CHANNEL_BUF ELSE 0

KeepsOldest(c, data) == SubSeq(buf[c] \o data, 1, Len(buf[c]) + Len(data) - Over(c, data))

Kept(c, data) == IF Len(data) >= CHANNEL_BUF
                 THEN Newest(data, CHANNEL_BUF)
                 ELSE Newest(buf[c], Len(buf[c]) - Over(c, data)) \o data

Fill(c, data) ==
    /\ buf' = [buf EXCEPT ![c] = Kept(c, data)]
    /\ dropped' = [dropped EXCEPT ![c] = @ + Over(c, data)]
    /\ filled' = [filled EXCEPT ![c] = @ \o data]
    /\ UNCHANGED <<waiting, tries, subscribed>>

Clear(c) ==
    /\ buf' = [buf EXCEPT ![c] = <<>>]
    /\ dropped' = [dropped EXCEPT ![c] = 0]
    /\ filled' = [filled EXCEPT ![c] = <<>>]

\* The broker keeps the answers of an earlier request to itself.
IsAnswer(f) == f.op # "push" /\ waiting # <<>> /\ waiting[1].id = f.id

TakeReply(f) ==
    /\ waiting' = <<>> /\ tries' = 0
    /\ IF f.op = "ack" /\ waiting[1].kind # "write"
       THEN /\ subscribed' = [subscribed EXCEPT ![waiting[1].chan] = waiting[1].kind = "follow"]
            /\ Clear(waiting[1].chan)
       ELSE UNCHANGED <<subscribed, buf, dropped, filled>>

Pump ==
    /\ up # <<>> /\ up' = Tail(up)
    /\ LET f == Head(up) IN
       \/ f.op = "push" /\ Fill(f.chan, f.data)
       \/ IsAnswer(f) /\ TakeReply(f)
       \/ f.op # "push" /\ ~IsAnswer(f)
          /\ UNCHANGED <<waiting, tries, subscribed, buf, dropped, filled>>
    /\ UNCHANGED <<asks, got, deviceVars, ringVars, boardVars, serverVars, down>>

KeepsBuffer(c) ==
    /\ waiting = <<>>
    /\ subscribed[c] \/ buf[c] # <<>>
    /\ got' = [got EXCEPT ![c] = @ \o buf[c]]
    /\ UNCHANGED <<asks, waiting, tries, subscribed, buf, dropped, filled>>
    /\ UNCHANGED <<deviceVars, ringVars, boardVars, serverVars, down, up>>

\* route_read: a read empties the buffer.
ReadChannel(c) ==
    /\ waiting = <<>>
    /\ subscribed[c] \/ buf[c] # <<>>
    /\ got' = [got EXCEPT ![c] = @ \o buf[c]]
    /\ Clear(c)
    /\ UNCHANGED <<asks, waiting, tries, subscribed>>
    /\ UNCHANGED <<deviceVars, ringVars, boardVars, serverVars, down, up>>

-----------------------------------------------------------------------------
Server == OnFrame \/ Timeout \/ Drain \/ Fetch \/ Advance \/ SendPush

Next == \/ Server \/ Attempt \/ GiveUp \/ Lose \/ Pump
        \/ \E c \in Channels :
              \/ Read(c) \/ CheckSub(c) \/ CheckChan(c) \/ Store(c) \/ Publish(c)
              \/ ReadChannel(c)
              \/ \E kind \in Kinds : Ask(kind, c)

Spec == Init /\ [][Next]_vars

\* The loops of the server and of tg-usb never stop.
FairSpec == Spec /\ WF_vars(Server) /\ WF_vars(Pump)

-----------------------------------------------------------------------------
Elems(q) == {q[k] : k \in DOMAIN q}

\* A client reads the bytes of a device in the order the device gave them, and
\* no byte twice: not across two pushes, two reads, two sessions or the buffers
\* of two channels (ipc_chan_put, ipc_chan_take, channel_fill, route_read).
BytesOnceInOrder ==
    /\ \A c \in Channels : \A i, j \in DOMAIN got[c] :
           i < j /\ got[c][i].chan = got[c][j].chan => got[c][i].n < got[c][j].n
    /\ \A c, d \in Channels : c # d => Elems(got[c]) \cap Elems(got[d]) = {}

\* What a client may read is the newest part of what the pushes brought, and
\* X-Telegraph-Dropped counts the rest (channel_fill).
BufferIsNewest ==
    \A c \in Channels :
        /\ Len(buf[c]) <= CHANNEL_BUF
        /\ Len(buf[c]) + dropped[c] = Len(filled[c])
        /\ dropped[c] > 0 => Len(buf[c]) = CHANNEL_BUF
        /\ buf[c] = Newest(filled[c], Len(buf[c]))

\* Bytes under the name of a channel are bytes of that channel.
PushIsOfChannel == \A c \in Channels : \A b \in Elems(got[c]) : b.chan = c

\* The ring does not hold bytes of a followed channel for ever.
RingDrains == sub /\ head # tail ~> ~sub \/ head = tail

-----------------------------------------------------------------------------
(* The ring implements FrameQueue.  A byte the server has copied is out of *)
(* the queue, although its slot is not free yet.                           *)

Count(from, to) == IF from <= to THEN to - from ELSE to + RING - from

SlotOf(from, k) == IF from + k - 1 < RING THEN from + k - 1 ELSE from + k - 1 - RING

Bytes(slots, from, to) == [k \in 1 .. Count(from, to) |-> slots[SlotOf(from, k)]]

First == IF spc = "advance" THEN NextSlot(tail) ELSE tail

queueBar == Bytes(ring, First, head)

Queue == INSTANCE FrameQueue WITH queue <- queueBar, CAPACITY <- RING - 1

QueueSpec == Queue!QSpec

-----------------------------------------------------------------------------
(* The inductive invariant.                                                *)

\* One reader runs at a time, and a byte that waits for its index is in the ring.
ReaderOK == \A c \in Channels :
    /\ \A d \in Channels : rpc[c] # "read" /\ rpc[d] # "read" => c = d
    /\ rpc[c] = "publish" => rbuf[c] # <<>> /\ ~Full /\ ring[head] = Head(rbuf[c])

\* No slot is sent that no reader filled.
SlotsOK == queueBar \in Seq(Byte)

\* The server follows a channel as long as it empties the ring, and has
\* something for each push.
ServerOK ==
    /\ sub \/ spc # "link" => chan \in Channels
    /\ spc \in {"link", "drain"} => part = <<>>
    /\ spc = "fetch" /\ part = <<>> => tail # head
    /\ spc = "advance" => tail # head /\ part # <<>>
    /\ Len(part) <= READ_MAX

IInv == TypeOK /\ ReaderOK /\ SlotsOK /\ ServerOK
=============================================================================
