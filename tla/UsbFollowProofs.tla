-------------------------- MODULE UsbFollowProofs ---------------------------
(***************************************************************************)
(* Proofs about UsbFollow, for every number of channels and every size of  *)
(* the ring, of a read, of a push and of the buffer of tg-usb.             *)
(***************************************************************************)
EXTENDS UsbFollow, SequenceTheorems, TLAPS

USE FollowAssumption

-----------------------------------------------------------------------------
(* The indexes of the ring.                                                *)

LEMMA NextSlotIs ==
    ASSUME NEW at \in Slots
    PROVE  NextSlot(at) = IF at + 1 = RING THEN 0 ELSE at + 1
BY DEF NextSlot, Slots

LEMMA NextSlotType ==
    ASSUME NEW at \in Slots
    PROVE  NextSlot(at) \in Slots
BY NextSlotIs DEF Slots

LEMMA NextSlotInjective ==
    ASSUME NEW a \in Slots, NEW b \in Slots, NextSlot(a) = NextSlot(b)
    PROVE  a = b
BY NextSlotIs DEF Slots

LEMMA CountType ==
    ASSUME NEW from \in Slots, NEW to \in Slots
    PROVE  /\ Count(from, to) \in 0 .. RING - 1
           /\ Count(from, to) = 0 <=> from = to
           /\ \A k \in 1 .. RING - 1 : SlotOf(from, k) \in Slots
BY DEF Count, SlotOf, Slots

\* Every slot but the one at the head may hold a byte that waits.
LEMMA HeadIsFree ==
    ASSUME NEW from \in Slots, NEW to \in Slots
    PROVE  /\ \A k \in 1 .. Count(from, to) : SlotOf(from, k) # to
           /\ SlotOf(from, Count(from, to) + 1) = to
BY DEF Count, SlotOf, Slots

LEMMA CountPut ==
    ASSUME NEW from \in Slots, NEW to \in Slots, NextSlot(to) # from
    PROVE  /\ Count(from, NextSlot(to)) = Count(from, to) + 1
           /\ Count(from, to) < RING - 1
BY NextSlotIs DEF Count, Slots

LEMMA CountTake ==
    ASSUME NEW from \in Slots, NEW to \in Slots, from # to
    PROVE  /\ Count(NextSlot(from), to) = Count(from, to) - 1
           /\ SlotOf(from, 1) = from
           /\ \A k \in 1 .. RING - 2 : SlotOf(NextSlot(from), k) = SlotOf(from, k + 1)
BY NextSlotIs DEF Count, SlotOf, Slots

-----------------------------------------------------------------------------
(* The bytes of the ring as a sequence.                                    *)

Slot == Byte \cup {NoByte}

LEMMA BytesType ==
    ASSUME NEW slots \in [Slots -> Slot], NEW from \in Slots, NEW to \in Slots
    PROVE  /\ Bytes(slots, from, to) \in Seq(Slot)
           /\ Len(Bytes(slots, from, to)) = Count(from, to)
           /\ \A k \in 1 .. Count(from, to) :
                  Bytes(slots, from, to)[k] = slots[SlotOf(from, k)]
<1>1. /\ Count(from, to) \in Nat /\ Count(from, to) <= RING - 1
      /\ \A k \in 1 .. Count(from, to) : slots[SlotOf(from, k)] \in Slot
  BY CountType
<1>2. Bytes(slots, from, to) \in [1 .. Count(from, to) -> Slot]
  BY <1>1 DEF Bytes
<1> QED
  BY <1>1, <1>2 DEF Bytes

\* A ring whose indices meet is empty.
LEMMA NoBytes ==
    ASSUME NEW slots \in [Slots -> Slot], NEW from \in Slots
    PROVE  Bytes(slots, from, from) \in Seq(Slot) /\ Len(Bytes(slots, from, from)) = 0
<1>1. Count(from, from) = 0
  BY CountType
<1> QED
  BY <1>1, BytesType

LEMMA BytesPut ==
    ASSUME NEW slots \in [Slots -> Slot], NEW from \in Slots, NEW to \in Slots,
           NextSlot(to) # from
    PROVE  Bytes(slots, from, NextSlot(to)) = Append(Bytes(slots, from, to), slots[to])
<1> DEFINE s == Bytes(slots, from, to)
           t == Bytes(slots, from, NextSlot(to))
           n == Count(from, to)
<1>1. /\ n \in Nat /\ Count(from, NextSlot(to)) = n + 1 /\ NextSlot(to) \in Slots
      /\ SlotOf(from, n + 1) = to /\ slots[to] \in Slot
  BY CountType, CountPut, NextSlotType, HeadIsFree
<1>2. /\ s \in Seq(Slot) /\ Len(s) = n
      /\ \A k \in 1 .. n : s[k] = slots[SlotOf(from, k)]
  BY BytesType
<1>3. /\ t \in Seq(Slot) /\ Len(t) = n + 1
      /\ \A k \in 1 .. n + 1 : t[k] = slots[SlotOf(from, k)]
  <2> DEFINE next == NextSlot(to)
  <2>1. next \in Slots /\ Count(from, next) = n + 1
    BY <1>1
  <2> HIDE DEF next, n
  <2>2. /\ Bytes(slots, from, next) \in Seq(Slot)
        /\ Len(Bytes(slots, from, next)) = Count(from, next)
        /\ \A k \in 1 .. Count(from, next) : Bytes(slots, from, next)[k] = slots[SlotOf(from, k)]
    BY <2>1, BytesType
  <2> QED
    BY <2>1, <2>2 DEF next
<1> HIDE DEF s, t, n
<1>4. /\ Append(s, slots[to]) \in Seq(Slot)
      /\ Len(Append(s, slots[to])) = n + 1
      /\ \A k \in 1 .. n : Append(s, slots[to])[k] = s[k]
      /\ Append(s, slots[to])[n + 1] = slots[to]
  BY <1>1, <1>2, AppendProperties
<1>5. \A k \in 1 .. n + 1 : t[k] = Append(s, slots[to])[k]
  BY <1>1, <1>2, <1>3, <1>4
<1>6. t = Append(s, slots[to])
  BY <1>3, <1>4, <1>5, SeqEqual
<1> QED
  BY <1>6 DEF s, t

LEMMA BytesTake ==
    ASSUME NEW slots \in [Slots -> Slot], NEW from \in Slots, NEW to \in Slots,
           from # to
    PROVE  /\ Bytes(slots, from, to) # <<>>
           /\ Head(Bytes(slots, from, to)) = slots[from]
           /\ Bytes(slots, NextSlot(from), to) = Tail(Bytes(slots, from, to))
<1> DEFINE s == Bytes(slots, from, to)
           t == Bytes(slots, NextSlot(from), to)
           n == Count(from, to)
<1>1. /\ n \in 1 .. RING - 1 /\ Count(NextSlot(from), to) = n - 1 /\ NextSlot(from) \in Slots
      /\ SlotOf(from, 1) = from
      /\ \A k \in 1 .. RING - 2 : SlotOf(NextSlot(from), k) = SlotOf(from, k + 1)
  BY CountType, CountTake, NextSlotType
<1>2. /\ s \in Seq(Slot) /\ Len(s) = n
      /\ \A k \in 1 .. n : s[k] = slots[SlotOf(from, k)]
  BY BytesType
<1>3. /\ t \in Seq(Slot) /\ Len(t) = n - 1
      /\ \A k \in 1 .. n - 1 : t[k] = slots[SlotOf(NextSlot(from), k)]
  <2>1. NextSlot(from) \in Slots /\ Count(NextSlot(from), to) = n - 1
    BY <1>1
  <2>2. /\ t \in Seq(Slot) /\ Len(t) = Count(NextSlot(from), to)
        /\ \A k \in 1 .. Count(NextSlot(from), to) :
              t[k] = slots[SlotOf(NextSlot(from), k)]
    BY <2>1, BytesType
  <2> QED
    BY <2>1, <2>2
<1> HIDE DEF s, t, n
<1>4. s # <<>> /\ Head(s) = s[1]
  BY <1>1, <1>2
<1>5. /\ Tail(s) \in Seq(Slot) /\ Len(Tail(s)) = n - 1
      /\ \A k \in 1 .. n - 1 : Tail(s)[k] = s[k + 1]
  BY <1>1, <1>2, <1>4, HeadTailProperties
<1>6. \A k \in 1 .. n - 1 : t[k] = Tail(s)[k]
  BY <1>1, <1>2, <1>3, <1>5
<1>7. t = Tail(s)
  BY <1>3, <1>5, <1>6, SeqEqual
<1> QED
  BY <1>1, <1>2, <1>4, <1>7 DEF s, t

LEMMA BytesStore ==
    ASSUME NEW slots \in [Slots -> Slot], NEW from \in Slots, NEW to \in Slots,
           NEW stored, \A at \in Slots \ {to} : stored[at] = slots[at]
    PROVE  Bytes(stored, from, to) = Bytes(slots, from, to)
<1>1. \A k \in 1 .. Count(from, to) : SlotOf(from, k) \in Slots /\ SlotOf(from, k) # to
  BY CountType, HeadIsFree
<1> QED
  BY <1>1 DEF Bytes

-----------------------------------------------------------------------------
(* What a step does to the queue.                                          *)

LEMMA FirstType ==
    ASSUME TypeOK
    PROVE  /\ First \in Slots /\ head \in Slots /\ tail \in Slots
           /\ ring \in [Slots -> Slot]
           /\ NextSlot(tail) \in Slots /\ NextSlot(head) \in Slots
BY NextSlotType DEF TypeOK, First, Slot

LEMMA NothingQueued ==
    ASSUME First = head, ring \in [Slots -> Slot], head \in Slots
    PROVE  Len(queueBar) = 0 /\ queueBar \in Seq(Slot)
BY NoBytes DEF queueBar

\* Not one of the four steps that touch the ring.
LEMMA QueueStays ==
    ASSUME UNCHANGED <<ring, head, tail>>, spc # "advance", spc' # "advance"
    PROVE  queueBar' = queueBar
BY DEF queueBar, First

LEMMA StoreQueue ==
    ASSUME IInv, NEW c \in Channels, Store(c)
    PROVE  queueBar' = queueBar
<1>1. First' = First /\ head' = head
  BY DEF Store, Runs, serverVars, First
<1>2. CASE ring' = [ring EXCEPT ![head] = Head(rbuf[c])]
  <2>1. \A at \in Slots \ {head} : ring'[at] = ring[at]
    BY <1>2, FirstType DEF IInv
  <2>2. Bytes(ring', First, head) = Bytes(ring, First, head)
    BY <2>1, FirstType, BytesStore DEF IInv
  <2> QED
    BY <1>1, <2>2 DEF queueBar
<1>3. CASE ring' = ring
  BY <1>1, <1>3 DEF queueBar
<1> QED
  BY <1>2, <1>3 DEF Store

LEMMA PublishQueue ==
    ASSUME IInv, NEW c \in Channels, Publish(c)
    PROVE  /\ queueBar' = Append(queueBar, ring[head])
           /\ ring[head] \in Byte
           /\ Len(queueBar) < RING - 1
<1>1. First' = First /\ head' = NextSlot(head) /\ ring' = ring
  BY DEF Publish, Runs, serverVars, First
<1>2. /\ rbuf[c] # <<>> /\ rbuf[c] \in Seq(Byte)
      /\ NextSlot(head) # tail /\ ring[head] = Head(rbuf[c])
  BY DEF IInv, ReaderOK, Publish, At, Full, TypeOK
<1>3. NextSlot(head) # First
  <2>1. CASE spc = "advance"
    BY <1>2, <2>1, FirstType, NextSlotInjective DEF IInv, ServerOK, First
  <2>2. CASE spc # "advance"
    BY <1>2, <2>2 DEF First
  <2> QED
    BY <2>1, <2>2
<1>4. First \in Slots /\ head \in Slots /\ ring \in [Slots -> Slot]
  BY FirstType DEF IInv
<1>5. queueBar' = Append(queueBar, ring[head])
  BY <1>1, <1>3, <1>4, BytesPut DEF queueBar
<1>6. Len(queueBar) < RING - 1
  <2>1. Len(Bytes(ring, First, head)) = Count(First, head)
    BY <1>4, BytesType
  <2>2. Count(First, head) < RING - 1
    BY <1>3, <1>4, CountPut
  <2> QED
    BY <2>1, <2>2 DEF queueBar
<1> QED
  BY <1>2, <1>5, <1>6

LEMMA FetchQueue ==
    ASSUME IInv, Fetch
    PROVE  /\ queueBar # <<>> /\ Len(part) < READ_MAX
           /\ queueBar' = Tail(queueBar)
           /\ part' = Append(part, Head(queueBar))
<1>1. First = tail /\ First' = NextSlot(tail) /\ head' = head /\ ring' = ring
  BY DEF Fetch, First, ServerOnly
<1>2. tail # head /\ Len(part) < READ_MAX /\ part' = Append(part, ring[tail])
  BY DEF Fetch, MoreToTake
<1> QED
  BY <1>1, <1>2, FirstType, BytesTake DEF IInv, queueBar

LEMMA AdvanceQueue ==
    ASSUME Advance
    PROVE  queueBar' = queueBar
<1>1. First' = First /\ head' = head /\ ring' = ring
  BY DEF Advance, First, ServerOnly
<1> QED
  BY <1>1 DEF queueBar

-----------------------------------------------------------------------------
(* Types.                                                                  *)

LEMMA NewestType ==
    ASSUME NEW S, NEW q \in Seq(S), NEW len \in Int, len <= Len(q)
    PROVE  /\ Newest(q, len) \in Seq(S)
           /\ len >= 0 => Len(Newest(q, len)) = len
           /\ \A i \in 1 .. len : Newest(q, len)[i] = q[Len(q) - len + i]
<1>1. /\ Len(q) - len + 1 \in Int /\ Len(q) \in Int
      /\ \A i \in Len(q) - len + 1 .. Len(q) : q[i] \in S
  OBVIOUS
<1> QED
  BY <1>1, SubSeqProperties DEF Newest

LEMMA KeptType ==
    ASSUME TypeOK, NEW c \in Channels, NEW data \in Seq(Byte)
    PROVE  Over(c, data) \in Nat /\ Kept(c, data) \in Seq(Byte)
<1>1. buf[c] \in Seq(Byte) /\ Over(c, data) \in Nat
  <2>1. buf[c] \in Seq(Byte)
    BY DEF TypeOK
  <2>2. Len(buf[c]) \in Nat /\ Len(data) \in Nat
    BY <2>1
  <2> QED
    BY <2>1, <2>2 DEF Over
<1>2. Newest(buf[c], Len(buf[c]) - Over(c, data)) \in Seq(Byte)
  <2>1. /\ Len(buf[c]) - Over(c, data) \in Int
        /\ Len(buf[c]) - Over(c, data) <= Len(buf[c])
    BY <1>1
  <2> QED
    BY <1>1, <2>1, NewestType
<1>3. Len(data) >= CHANNEL_BUF => Newest(data, CHANNEL_BUF) \in Seq(Byte)
  BY NewestType
<1>4. Newest(buf[c], Len(buf[c]) - Over(c, data)) \o data \in Seq(Byte)
  BY <1>2, ConcatProperties
<1> QED
  BY <1>1, <1>3, <1>4 DEF Kept

DeviceTypes ==
    /\ given \in 0 .. MaxBytes
    /\ rpc \in [Channels -> {"read", "sub", "chan", "put", "publish"}]
    /\ rbuf \in [Channels -> Seq(Byte)]
RingTypes ==
    ring \in [Slots -> Slot] /\ head \in Slots /\ tail \in Slots
BoardTypes ==
    /\ readers \in SUBSET Channels
    /\ sub \in BOOLEAN /\ chan \in Channels \cup {None}
ServerTypes ==
    /\ spc \in {"link", "drain", "fetch", "advance"}
    /\ left \in 0 .. DRAIN /\ part \in Seq(Byte)
LineTypes == down \in Seq(Request) /\ up \in Seq(Reply \cup Push)
WappTypes ==
    /\ asks \in 0 .. MaxAsks /\ waiting \in Seq(Request) /\ tries \in 0 .. REPLY_TRIES
    /\ subscribed \in [Channels -> BOOLEAN]
    /\ buf \in [Channels -> Seq(Byte)] /\ dropped \in [Channels -> Nat]
    /\ filled \in [Channels -> Seq(Byte)] /\ got \in [Channels -> Seq(Byte)]

LEMMA TypesAre ==
    TypeOK <=> /\ DeviceTypes /\ RingTypes /\ BoardTypes
               /\ ServerTypes /\ LineTypes /\ WappTypes
BY DEF TypeOK, DeviceTypes, RingTypes, BoardTypes, ServerTypes, LineTypes, WappTypes, Slot
LEMMA ChunkType ==
    ASSUME NEW c \in Channels, NEW k \in Nat, NEW from \in Nat, from + k <= MaxBytes
    PROVE  [i \in 1 .. k |-> [chan |-> c, n |-> from + i]] \in Seq(Byte)
<1> DEFINE q == [i \in 1 .. k |-> [chan |-> c, n |-> from + i]]
<1>1. \A i \in 1 .. k : from + i \in 1 .. MaxBytes
  OBVIOUS
<1>2. \A i \in 1 .. k : [chan |-> c, n |-> from + i] \in Byte
  BY <1>1 DEF Byte
<1>3. q \in [1 .. k -> Byte]
  BY <1>2
<1> QED
  BY <1>3

LEMMA DeviceTypesStep ==
    ASSUME TypeOK, ReaderOK, Next
    PROVE  DeviceTypes'
<1>1. ASSUME NEW c \in Channels, Read(c)
      PROVE  DeviceTypes'
  <2> DEFINE chunk(k) == [i \in 1 .. k |-> [chan |-> c, n |-> given + i]]
  <2>1. PICK k \in 1 .. CHUNK : given + k <= MaxBytes /\ given' = given + k
                                /\ rbuf' = [rbuf EXCEPT ![c] = chunk(k)]
    BY <1>1 DEF Read
  <2>2. k \in Nat /\ given \in Nat
    BY DEF TypeOK
  <2>3. chunk(k) \in Seq(Byte)
    BY <1>1, <2>1, <2>2, ChunkType
  <2> HIDE DEF chunk
  <2>4. rbuf' \in [Channels -> Seq(Byte)]
    BY <2>1, <2>3 DEF TypeOK
  <2>5. given' \in 0 .. MaxBytes
    BY <2>1, <2>2
  <2>6. rpc' \in [Channels -> {"read", "sub", "chan", "put", "publish"}]
    <3>1. rpc' = [rpc EXCEPT ![c] = "sub"]
      BY <1>1 DEF Read, At
    <3> QED
      BY <3>1 DEF TypeOK
  <2> QED
    BY <2>4, <2>5, <2>6 DEF DeviceTypes
<1>2. ASSUME NEW c \in Channels, Discard(c), given' = given
      PROVE  DeviceTypes'
  <2>1. /\ rpc' = [rpc EXCEPT ![c] = "read"] /\ rbuf' = [rbuf EXCEPT ![c] = <<>>]
        /\ given \in 0 .. MaxBytes /\ rbuf \in [Channels -> Seq(Byte)]
        /\ rpc \in [Channels -> {"read", "sub", "chan", "put", "publish"}]
    BY <1>2 DEF Discard, At, TypeOK
  <2>2. <<>> \in Seq(Byte)
    BY EmptySeq
  <2>3. rbuf' \in [Channels -> Seq(Byte)]
    BY <2>1, <2>2
  <2>4. rpc' \in [Channels -> {"read", "sub", "chan", "put", "publish"}]
    BY <2>1
  <2> QED
    BY <1>2, <2>1, <2>3, <2>4 DEF DeviceTypes
<1>3. ASSUME NEW c \in Channels, CheckSub(c) \/ CheckChan(c) \/ Store(c)
      PROVE  DeviceTypes'
  <2>1. given' = given
    BY <1>3 DEF CheckSub, CheckChan, Store
  <2>2. \/ Discard(c)
        \/ rbuf' = rbuf /\ At(c, "sub", "chan")
        \/ rbuf' = rbuf /\ At(c, "chan", "put")
        \/ rbuf' = rbuf /\ At(c, "put", "publish")
    BY <1>3 DEF CheckSub, CheckChan, Store
  <2>3. ASSUME NEW to \in {"chan", "put", "publish"},
               rbuf' = rbuf, rpc' = [rpc EXCEPT ![c] = to]
        PROVE  DeviceTypes'
    BY <2>1, <2>3 DEF TypeOK, DeviceTypes
  <2> QED
    BY <1>2, <2>1, <2>2, <2>3 DEF At
<1>4. ASSUME NEW c \in Channels, Publish(c), ReaderOK
      PROVE  DeviceTypes'
  <2>1. rbuf[c] # <<>> /\ rbuf[c] \in Seq(Byte)
    BY <1>4 DEF Publish, At, TypeOK, ReaderOK
  <2>2. Tail(rbuf[c]) \in Seq(Byte)
    BY <2>1, HeadTailProperties
  <2>3. rbuf' = [rbuf EXCEPT ![c] = Tail(rbuf[c])]
        /\ rpc' = [rpc EXCEPT ![c] = "put"] /\ given' = given
    BY <1>4 DEF Publish, At
  <2>4. rbuf' \in [Channels -> Seq(Byte)]
    BY <2>2, <2>3 DEF TypeOK
  <2> QED
    BY <2>3, <2>4 DEF TypeOK, DeviceTypes
<1>5. CASE Server
  BY <1>5 DEF Server, OnFrame, Timeout, Drain, Fetch, Advance, SendPush, ServerOnly,
              deviceVars, TypeOK, DeviceTypes
<1>6. CASE Attempt \/ GiveUp \/ Lose \/ Pump
  BY <1>6 DEF Attempt, GiveUp, Lose, Pump, deviceVars, TypeOK, DeviceTypes
<1>7. CASE \E c \in Channels : ReadChannel(c) \/ \E kind \in Kinds : Ask(kind, c)
  BY <1>7 DEF ReadChannel, Ask, deviceVars, TypeOK, DeviceTypes
<1> QED
  BY <1>1, <1>3, <1>4, <1>5, <1>6, <1>7 DEF Next

LEMMA RingTypesStep ==
    ASSUME IInv, Next
    PROVE  RingTypes'
<1>1. ASSUME NEW c \in Channels, Store(c)
      PROVE  RingTypes'
  <2>1. CASE ring' = ring
    BY <1>1, <2>1, FirstType DEF Store, IInv, RingTypes
  <2>2. CASE rbuf[c] # <<>> /\ ring' = [ring EXCEPT ![head] = Head(rbuf[c])]
    <3>1. rbuf[c] \in Seq(Byte)
      BY DEF IInv, TypeOK
    <3>2. Head(rbuf[c]) \in Slot
      BY <2>2, <3>1 DEF Slot
    <3> QED
      BY <1>1, <2>2, <3>2, FirstType DEF Store, IInv, RingTypes
  <2> QED
    BY <1>1, <2>1, <2>2 DEF Store
<1>2. ASSUME NEW c \in Channels, Publish(c)
      PROVE  RingTypes'
  BY <1>2, FirstType DEF Publish, IInv, RingTypes
<1>3. CASE Advance
  BY <1>3, FirstType DEF Advance, ServerOnly, IInv, RingTypes
<1>4. CASE OnFrame \/ Timeout \/ Drain \/ Fetch \/ SendPush
  BY <1>4, FirstType DEF OnFrame, Timeout, Drain, Fetch, SendPush, ServerOnly,
              ringVars, IInv, RingTypes
<1>5. CASE Attempt \/ GiveUp \/ Lose \/ Pump
  BY <1>5, FirstType DEF Attempt, GiveUp, Lose, Pump, ringVars, IInv, RingTypes
<1>6. CASE \E c \in Channels : \/ Read(c) \/ CheckSub(c) \/ CheckChan(c) \/ ReadChannel(c)
                               \/ \E kind \in Kinds : Ask(kind, c)
  BY <1>6, FirstType DEF Read, CheckSub, CheckChan, ReadChannel, Ask, ringVars, IInv, RingTypes
<1> QED
  BY <1>1, <1>2, <1>3, <1>4, <1>5, <1>6 DEF Next, Server

\* The parts of an OnFrame.
LEMMA OnFrameBoard ==
    ASSUME TypeOK, OnFrame
    PROVE  /\ Head(down) \in Request /\ Tail(down) \in Seq(Request)
           /\ BoardTypes'
           /\ sub' => sub \/ chan' \in Channels
           /\ chan' \in Channels \/ chan' = chan
<1>1. Head(down) \in Request /\ Tail(down) \in Seq(Request)
  BY DEF OnFrame, TypeOK
<1>2. PICK ok \in BOOLEAN : OnSub(Head(down), ok) \/ OnWrite(Head(down), ok)
  BY DEF OnFrame
<1>3. Head(down).chan \in Channels
  BY <1>1 DEF Request
<1> DEFINE c == Head(down).chan
<1>4. \/ readers' = readers /\ chan' = chan /\ (sub' = FALSE \/ sub' = sub)
      \/ readers' = readers \cup {c} /\ chan' = c /\ (sub' = TRUE \/ sub' = sub)
  BY <1>2 DEF OnSub, OnWrite, Open, OpenFails, boardVars
<1>5. BoardTypes'
  BY <1>3, <1>4 DEF BoardTypes, TypeOK
<1> QED
  BY <1>1, <1>3, <1>4, <1>5

LEMMA BoardTypesStep ==
    ASSUME TypeOK, Next
    PROVE  BoardTypes'
<1>1. CASE OnFrame
  BY <1>1, OnFrameBoard
<1>2. CASE Timeout \/ Drain \/ Fetch \/ Advance \/ SendPush
  BY <1>2 DEF Timeout, Drain, Fetch, Advance, SendPush, ServerOnly,
              boardVars, TypeOK, BoardTypes
<1>3. CASE Attempt \/ GiveUp \/ Lose \/ Pump
  BY <1>3 DEF Attempt, GiveUp, Lose, Pump, boardVars, TypeOK, BoardTypes
<1>4. CASE \E c \in Channels : \/ Read(c) \/ CheckSub(c) \/ CheckChan(c) \/ ReadChannel(c)
                               \/ Store(c) \/ Publish(c)
                               \/ \E kind \in Kinds : Ask(kind, c)
  <2>1. UNCHANGED boardVars
    <3>1. CASE \E c \in Channels : \/ Read(c) \/ CheckSub(c) \/ CheckChan(c) \/ Store(c)
                                   \/ Publish(c)
      BY <3>1 DEF Read, CheckSub, CheckChan, Store, Publish, Runs
    <3>2. CASE \E c \in Channels : ReadChannel(c) \/ \E kind \in Kinds : Ask(kind, c)
      BY <3>2 DEF ReadChannel, Ask
    <3> QED
      BY <1>4, <3>1, <3>2
  <2> QED
    BY <2>1 DEF boardVars, TypeOK, BoardTypes
<1> QED
  BY <1>1, <1>2, <1>3, <1>4 DEF Next, Server

LEMMA ServerTypesStep ==
    ASSUME IInv, Next
    PROVE  ServerTypes'
<1>0. /\ TypeOK
      /\ spc \in {"link", "drain", "fetch", "advance"}
      /\ left \in 0 .. DRAIN /\ DRAIN \in 0 .. DRAIN /\ part \in Seq(Byte)
  <2>1. TypeOK
    BY DEF IInv
  <2>2. /\ spc \in {"link", "drain", "fetch", "advance"}
        /\ left \in 0 .. DRAIN /\ part \in Seq(Byte)
    BY <2>1 DEF TypeOK
  <2>3. DRAIN \in 0 .. DRAIN
    BY FollowAssumption
  <2> QED
    BY <2>1, <2>2, <2>3
<1>1. CASE OnFrame
  <2>1. \/ spc' = "drain" /\ left' = DRAIN
        \/ spc' = spc /\ left' = left
    BY <1>1 DEF OnFrame, ToDrain
  <2>2. part' = part
    BY <1>1 DEF OnFrame
  <2> QED
    BY <1>0, <2>1, <2>2 DEF ServerTypes
<1>2. CASE Timeout
  BY <1>0, <1>2 DEF Timeout, ServerTypes
<1>3. CASE Drain
  <2>1. left > 0 => left - 1 \in 0 .. DRAIN
    BY <1>0
  <2> QED
    BY <1>0, <1>3, <2>1 DEF Drain, ServerTypes
<1>4. CASE Fetch
  <2>1. queueBar # <<>> /\ queueBar \in Seq(Byte)
    BY <1>4, FetchQueue DEF IInv, SlotsOK
  <2>2. Head(queueBar) \in Byte
    BY <2>1, HeadTailProperties
  <2>3. part' \in Seq(Byte)
    BY <1>0, <1>4, <2>2, FetchQueue, AppendProperties
  <2> QED
    BY <1>0, <1>4, <2>3 DEF Fetch, ServerTypes
<1>5. CASE Advance
  BY <1>0, <1>5 DEF Advance, ServerTypes
<1>6. CASE SendPush
  <2>1. part' \in Seq(Byte) /\ spc' = "drain" /\ left' = left
    BY <1>6 DEF SendPush
  <2> QED
    BY <1>0, <2>1 DEF ServerTypes
<1>7. CASE Attempt \/ GiveUp \/ Lose \/ Pump
  BY <1>0, <1>7 DEF Attempt, GiveUp, Lose, Pump, serverVars, ServerTypes
<1>8. CASE \E c \in Channels : \/ Read(c) \/ CheckSub(c) \/ CheckChan(c) \/ ReadChannel(c)
                               \/ Store(c) \/ Publish(c)
                               \/ \E kind \in Kinds : Ask(kind, c)
  BY <1>0, <1>8 DEF Read, CheckSub, CheckChan, Store, Publish, Runs, ReadChannel, Ask,
              serverVars, ServerTypes
<1> QED
  BY <1>1, <1>2, <1>3, <1>4, <1>5, <1>6, <1>7, <1>8 DEF Next, Server

LEMMA AskTypes ==
    ASSUME TypeOK, NEW c \in Channels, NEW kind \in Kinds, Ask(kind, c)
    PROVE  /\ asks' \in 0 .. MaxAsks /\ waiting' \in Seq(Request)
           /\ down' \in Seq(Request) /\ up' = up
<1>1. asks + 1 \in 1 .. MaxAsks
  BY DEF Ask, TypeOK
<1>2. [id |-> asks + 1, kind |-> kind, chan |-> c] \in Request
  BY <1>1 DEF Request
<1>3. waiting' \in Seq(Request) /\ down' = down \o waiting' /\ up' = up /\ asks' = asks + 1
  BY <1>2 DEF Ask
<1>4. down' \in Seq(Request)
  BY <1>3, ConcatProperties DEF TypeOK
<1> QED
  BY <1>1, <1>3, <1>4

LEMMA LineTypesStep ==
    ASSUME TypeOK, ServerOK, Next
    PROVE  LineTypes'
<1>0. down \in Seq(Request) /\ up \in Seq(Reply \cup Push) /\ waiting \in Seq(Request)
  BY DEF TypeOK
<1>1. CASE OnFrame
  <2>1. PICK ok \in BOOLEAN :
          up' = Append(up, [op |-> IF ok THEN "ack" ELSE "nack", id |-> Head(down).id])
    BY <1>1 DEF OnFrame, Send
  <2>2. Head(down).id \in 1 .. MaxAsks
    BY <1>1, OnFrameBoard DEF Request
  <2>3. [op |-> IF ok THEN "ack" ELSE "nack", id |-> Head(down).id] \in Reply
    BY <2>2 DEF Reply
  <2>4. up' \in Seq(Reply \cup Push)
    BY <1>0, <2>1, <2>3
  <2>5. down' \in Seq(Request)
    BY <1>1, OnFrameBoard DEF OnFrame
  <2> QED
    BY <2>4, <2>5 DEF LineTypes
<1>2. CASE SendPush
  <2>1. up' = Append(up, [op |-> "push", chan |-> chan, data |-> part]) /\ down' = down
    BY <1>2 DEF SendPush, Send, ServerOnly
  <2>2. chan \in Channels /\ part \in Seq(Byte)
    BY <1>2 DEF SendPush, ServerOK, TypeOK
  <2>3. [op |-> "push", chan |-> chan, data |-> part] \in Push
    BY <2>2 DEF Push
  <2> QED
    BY <1>0, <2>1, <2>3 DEF LineTypes
<1>3. CASE Timeout \/ Drain \/ Fetch \/ Advance
  BY <1>0, <1>3 DEF Timeout, Drain, Fetch, Advance, ServerOnly, LineTypes
<1>4. CASE Attempt
  BY <1>0, <1>4 DEF Attempt, LineTypes
<1>5. CASE GiveUp
  BY <1>0, <1>5 DEF GiveUp, LineTypes
<1>6. CASE Lose \/ Pump
  <2>1. /\ \/ down' = down
           \/ down' = Tail(down) /\ down # <<>>
        /\ \/ up' = up
           \/ up' = Tail(up) /\ up # <<>>
    BY <1>6 DEF Lose, Pump
  <2>2. down' \in Seq(Request)
    BY <1>0, <2>1, HeadTailProperties
  <2>3. up' \in Seq(Reply \cup Push)
    BY <1>0, <2>1, HeadTailProperties
  <2> QED
    BY <2>2, <2>3 DEF LineTypes
<1>7. ASSUME NEW c \in Channels, NEW kind \in Kinds, Ask(kind, c)
      PROVE  LineTypes'
  BY <1>0, <1>7, AskTypes DEF LineTypes
<1>8. CASE \E c \in Channels : \/ Read(c) \/ CheckSub(c) \/ CheckChan(c) \/ ReadChannel(c)
                               \/ Store(c) \/ Publish(c)
  BY <1>0, <1>8 DEF Read, CheckSub, CheckChan, Store, Publish, Runs, ReadChannel, LineTypes
<1> QED
  BY <1>1, <1>2, <1>3, <1>4, <1>5, <1>6, <1>7, <1>8 DEF Next, Server

LEMMA ClearTypes ==
    ASSUME WappTypes, NEW c, Clear(c)
    PROVE  /\ buf' \in [Channels -> Seq(Byte)] /\ filled' \in [Channels -> Seq(Byte)]
           /\ dropped' \in [Channels -> Nat]
<1>1. <<>> \in Seq(Byte)
  OBVIOUS
<1>2. buf' = [buf EXCEPT ![c] = <<>>] /\ buf \in [Channels -> Seq(Byte)]
  BY DEF Clear, WappTypes
<1>3. filled' = [filled EXCEPT ![c] = <<>>] /\ filled \in [Channels -> Seq(Byte)]
  BY DEF Clear, WappTypes
<1>4. dropped' = [dropped EXCEPT ![c] = 0] /\ dropped \in [Channels -> Nat]
  BY DEF Clear, WappTypes
<1> QED
  BY <1>1, <1>2, <1>3, <1>4

LEMMA PumpTypes ==
    ASSUME TypeOK, Pump
    PROVE  WappTypes'
<1>1. up \in Seq(Reply \cup Push) /\ up # <<>>
  BY DEF TypeOK, Pump
<1>2. Head(up) \in Reply \cup Push
  BY <1>1, HeadTailProperties
<1>3. asks' = asks /\ tries' \in 0 .. REPLY_TRIES /\ got' = got
  <2>1. asks' = asks /\ got' = got
    BY DEF Pump
  <2>2. tries' = tries \/ tries' = 0
    BY DEF Pump, Fill, TakeReply
  <2>3. tries \in 0 .. REPLY_TRIES
    BY DEF TypeOK
  <2> QED
    BY <2>1, <2>2, <2>3
<1>4. WappTypes
  BY TypesAre
<1>5. ASSUME NEW c \in Channels, NEW data \in Seq(Byte), Fill(c, data)
      PROVE  WappTypes'
  <2>1. Over(c, data) \in Nat /\ Kept(c, data) \in Seq(Byte)
    BY KeptType
  <2>2. buf' \in [Channels -> Seq(Byte)]
    BY <1>4, <1>5, <2>1 DEF Fill, WappTypes
  <2>3. dropped' \in [Channels -> Nat]
    <3>1. dropped[c] + Over(c, data) \in Nat
      BY <1>4, <2>1 DEF WappTypes
    <3> QED
      BY <1>4, <1>5, <3>1 DEF Fill, WappTypes
  <2>4. filled' \in [Channels -> Seq(Byte)]
    <3>1. filled[c] \o data \in Seq(Byte)
      BY <1>4, ConcatProperties DEF WappTypes
    <3> QED
      BY <1>4, <1>5, <3>1 DEF Fill, WappTypes
  <2> QED
    BY <1>3, <1>4, <1>5, <2>2, <2>3, <2>4 DEF Fill, WappTypes
<1>6. CASE Head(up).op = "push" /\ Fill(Head(up).chan, Head(up).data)
  <2>1. Head(up) \in Push
    BY <1>2, <1>6 DEF Reply
  <2> QED
    BY <1>5, <1>6, <2>1 DEF Push
<1>7. CASE TakeReply(Head(up))
  <2>1. CASE UNCHANGED <<subscribed, buf, dropped, filled>>
    BY <1>3, <1>4, <1>7, <2>1 DEF TakeReply, WappTypes
  <2>2. CASE /\ subscribed' = [subscribed EXCEPT ![waiting[1].chan] = waiting[1].kind = "follow"]
             /\ Clear(waiting[1].chan)
    <3>1. subscribed' \in [Channels -> BOOLEAN]
      <4>1. \A b \in BOOLEAN : [subscribed EXCEPT ![waiting[1].chan] = b] \in [Channels -> BOOLEAN]
        BY <1>4 DEF WappTypes
      <4>2. \E b \in BOOLEAN : subscribed' = [subscribed EXCEPT ![waiting[1].chan] = b]
        <5>1. CASE waiting[1].kind = "follow"
          <6>1. subscribed' = [subscribed EXCEPT ![waiting[1].chan] = TRUE]
            BY <2>2, <5>1
          <6> QED
            BY <6>1
        <5>2. CASE waiting[1].kind # "follow"
          <6>1. subscribed' = [subscribed EXCEPT ![waiting[1].chan] = FALSE]
            BY <2>2, <5>2
          <6> QED
            BY <6>1
        <5> QED
          BY <5>1, <5>2
      <4> QED
        BY <4>1, <4>2
    <3>2. /\ buf' \in [Channels -> Seq(Byte)] /\ filled' \in [Channels -> Seq(Byte)]
          /\ dropped' \in [Channels -> Nat]
      BY <1>4, <2>2, ClearTypes
    <3>3. waiting' \in Seq(Request)
      BY <1>7 DEF TakeReply
    <3> QED
      BY <1>3, <1>4, <3>1, <3>2, <3>3 DEF WappTypes
  <2> QED
    BY <1>7, <2>1, <2>2 DEF TakeReply
<1>8. CASE UNCHANGED <<waiting, subscribed, buf, dropped, filled>>
  BY <1>3, <1>4, <1>8 DEF WappTypes
<1> QED
  BY <1>6, <1>7, <1>8 DEF Pump

LEMMA WappTypesStep ==
    ASSUME TypeOK, Next
    PROVE  WappTypes'
<1>0. WappTypes
  BY TypesAre
<1>1. CASE Pump
  BY <1>1, PumpTypes
<1>2. CASE Attempt
  BY <1>0, <1>2 DEF Attempt, WappTypes
<1>3. CASE GiveUp
  BY <1>0, <1>3 DEF GiveUp, WappTypes
<1>4. ASSUME NEW c \in Channels, NEW kind \in Kinds, Ask(kind, c)
      PROVE  WappTypes'
  <2>1. asks' \in 0 .. MaxAsks /\ waiting' \in Seq(Request)
    BY <1>4, AskTypes
  <2>2. tries' \in 0 .. REPLY_TRIES
    BY <1>4 DEF Ask
  <2> QED
    BY <1>0, <1>4, <2>1, <2>2 DEF Ask, WappTypes
<1>5. ASSUME NEW c \in Channels, ReadChannel(c)
      PROVE  WappTypes'
  <2>1. got' \in [Channels -> Seq(Byte)]
    <3>1. got[c] \o buf[c] \in Seq(Byte)
      BY <1>0, ConcatProperties DEF WappTypes
    <3> QED
      BY <1>0, <1>5, <3>1 DEF ReadChannel, WappTypes
  <2>2. /\ buf' \in [Channels -> Seq(Byte)] /\ filled' \in [Channels -> Seq(Byte)]
        /\ dropped' \in [Channels -> Nat]
    BY <1>0, <1>5, ClearTypes DEF ReadChannel
  <2> QED
    BY <1>0, <1>5, <2>1, <2>2 DEF ReadChannel, WappTypes
<1>6. CASE UNCHANGED wappVars
  BY <1>0, <1>6 DEF wappVars, WappTypes
<1>7. Server \/ Lose => UNCHANGED wappVars
  BY DEF Server, OnFrame, Timeout, Drain, Fetch, Advance, SendPush, ServerOnly, Lose
<1>8. \A c \in Channels :
        Read(c) \/ CheckSub(c) \/ CheckChan(c) \/ Store(c) \/ Publish(c) => UNCHANGED wappVars
  BY DEF Read, CheckSub, CheckChan, Store, Publish, Runs
<1> QED
  BY <1>1, <1>2, <1>3, <1>4, <1>5, <1>6, <1>7, <1>8 DEF Next

-----------------------------------------------------------------------------
(* The inductive invariant.                                                *)

LEMMA TypeStep ==
    ASSUME IInv, Next
    PROVE  TypeOK'
<1>1. /\ DeviceTypes' /\ RingTypes' /\ BoardTypes'
      /\ ServerTypes' /\ LineTypes' /\ WappTypes'
  BY DeviceTypesStep, RingTypesStep, BoardTypesStep, ServerTypesStep, LineTypesStep,
     WappTypesStep DEF IInv
<1> QED
  BY <1>1 DEF TypeOK, DeviceTypes, RingTypes, BoardTypes, ServerTypes, LineTypes, WappTypes, Slot

\* The steps of the queue, for an invariant and for the refinement.
LEMMA QueueStep ==
    ASSUME IInv, Next
    PROVE  \/ Fetch \/ \E c \in Channels : Publish(c)
           \/ queueBar' = queueBar
<1>1. CASE Advance
  BY <1>1, AdvanceQueue
<1>2. ASSUME NEW c \in Channels, Store(c)
      PROVE  queueBar' = queueBar
  BY <1>2, StoreQueue
<1>3. CASE UNCHANGED <<ring, head, tail, spc>>
  BY <1>3 DEF queueBar, First
<1>4. CASE OnFrame \/ Timeout \/ Drain \/ SendPush
  <2>1. UNCHANGED <<ring, head, tail>> /\ spc # "advance" /\ spc' # "advance"
    BY <1>4 DEF OnFrame, ToDrain, Timeout, Drain, SendPush, ServerOnly, ringVars
  <2> QED
    BY <2>1, QueueStays
<1>5. Attempt \/ GiveUp \/ Lose \/ Pump => UNCHANGED <<ring, head, tail, spc>>
  BY DEF Attempt, GiveUp, Lose, Pump, ringVars, serverVars
<1>6. ASSUME NEW c \in Channels,
             \/ Read(c) \/ CheckSub(c) \/ CheckChan(c) \/ ReadChannel(c)
             \/ \E kind \in Kinds : Ask(kind, c)
      PROVE  UNCHANGED <<ring, head, tail, spc>>
  BY <1>6 DEF Read, CheckSub, CheckChan, Runs, ReadChannel, Ask, ringVars, serverVars
<1> QED
  BY <1>1, <1>2, <1>3, <1>4, <1>5, <1>6 DEF Next, Server

LEMMA SlotsStep ==
    ASSUME IInv, Next
    PROVE  SlotsOK'
<1>1. queueBar \in Seq(Byte)
  BY DEF IInv, SlotsOK
<1>2. CASE Fetch
  BY <1>1, <1>2, FetchQueue, HeadTailProperties DEF SlotsOK
<1>3. ASSUME NEW c \in Channels, Publish(c)
      PROVE  SlotsOK'
  BY <1>1, <1>3, PublishQueue, AppendProperties DEF SlotsOK
<1>4. CASE queueBar' = queueBar
  BY <1>1, <1>4 DEF SlotsOK
<1> QED
  BY <1>2, <1>3, <1>4, QueueStep

LEMMA ServerStep ==
    ASSUME IInv, Next
    PROVE  ServerOK'
<1>0. /\ sub \/ spc # "link" => chan \in Channels
      /\ spc \in {"link", "drain"} => part = <<>>
      /\ spc = "fetch" /\ part = <<>> => tail # head
      /\ spc = "advance" => tail # head /\ part # <<>>
      /\ Len(part) <= READ_MAX
      /\ part \in Seq(Byte) /\ spc \in {"link", "drain", "fetch", "advance"}
      /\ READ_MAX >= 1
  BY DEF IInv, ServerOK, TypeOK
<1>1. CASE OnFrame
  <2>1. /\ spc = "link" /\ part' = part /\ UNCHANGED <<head, tail>>
        /\ \/ spc' = "link"
           \/ spc' = "drain" /\ sub'
    BY <1>1 DEF OnFrame, ToDrain, ringVars
  <2>2. sub' => chan' \in Channels
    BY <1>0, <1>1, OnFrameBoard DEF IInv
  <2> QED
    BY <1>0, <2>1, <2>2 DEF ServerOK
<1>2. CASE Timeout
  BY <1>0, <1>2 DEF Timeout, ringVars, boardVars, ServerOK
<1>3. CASE Drain
  BY <1>0, <1>3 DEF Drain, ServerOnly, boardVars, ServerOK
<1>4. CASE Fetch
  <2>1. part' # <<>> /\ Len(part') <= READ_MAX
    <3>1. part' = Append(part, ring[tail]) /\ Len(part) < READ_MAX
      BY <1>4 DEF Fetch, MoreToTake
    <3>2. ring[tail] \in Slot
      BY FirstType DEF IInv
    <3>3. part \in Seq(Slot)
      BY <1>0, SeqMonotonic DEF Slot
    <3> QED
      BY <3>1, <3>2, <3>3, AppendProperties
  <2> QED
    BY <1>0, <1>4, <2>1 DEF Fetch, MoreToTake, ServerOnly, boardVars, ServerOK
<1>5. CASE Advance
  BY <1>0, <1>5 DEF Advance, ServerOnly, boardVars, ServerOK
<1>6. CASE SendPush
  BY <1>0, <1>6 DEF SendPush, ServerOnly, boardVars, ServerOK
<1>7. ASSUME NEW c \in Channels, Publish(c)
      PROVE  ServerOK'
  <2>1. head' # tail
    BY <1>7 DEF Publish, At, IInv, ReaderOK, Full
  <2> QED
    BY <1>0, <1>7, <2>1 DEF Publish, Runs, boardVars, serverVars, ServerOK
<1>8. CASE UNCHANGED <<boardVars, serverVars, head, tail>>
  BY <1>0, <1>8 DEF boardVars, serverVars, ServerOK
<1>9. Attempt \/ GiveUp \/ Lose \/ Pump => UNCHANGED <<boardVars, serverVars, head, tail>>
  BY DEF Attempt, GiveUp, Lose, Pump, ringVars
<1>10. ASSUME NEW c \in Channels,
              \/ Read(c) \/ CheckSub(c) \/ CheckChan(c) \/ Store(c) \/ ReadChannel(c)
              \/ \E kind \in Kinds : Ask(kind, c)
       PROVE  UNCHANGED <<boardVars, serverVars, head, tail>>
  BY <1>10 DEF Read, CheckSub, CheckChan, Store, Runs, ReadChannel, Ask, ringVars
<1> QED
  BY <1>1, <1>2, <1>3, <1>4, <1>5, <1>6, <1>7, <1>8, <1>9, <1>10 DEF Next, Server

LEMMA ReaderStep ==
    ASSUME IInv, Next
    PROVE  ReaderOK'
<1>0. /\ rpc \in [Channels -> {"read", "sub", "chan", "put", "publish"}]
      /\ \A c, d \in Channels : rpc[c] # "read" /\ rpc[d] # "read" => c = d
      /\ \A c \in Channels : rpc[c] = "publish" =>
            rbuf[c] # <<>> /\ ~Full /\ ring[head] = Head(rbuf[c])
      /\ head \in Slots /\ tail \in Slots
  BY DEF IInv, ReaderOK, TypeOK
<1>1. ASSUME NEW c \in Channels, NEW to \in {"read", "sub", "chan", "put"},
             rpc' = [rpc EXCEPT ![c] = to], \A d \in Channels \ {c} : rpc[d] = "read"
      PROVE  ReaderOK'
  BY <1>0, <1>1 DEF ReaderOK
<1>2. ASSUME NEW c \in Channels, Read(c) \/ CheckSub(c) \/ CheckChan(c) \/ Publish(c)
      PROVE  ReaderOK'
  <2>1. \A d \in Channels \ {c} : rpc[d] = "read"
    BY <1>2 DEF Read, CheckSub, CheckChan, Publish, Runs
  <2>2. \/ rpc' = [rpc EXCEPT ![c] = "sub"] \/ rpc' = [rpc EXCEPT ![c] = "chan"]
        \/ rpc' = [rpc EXCEPT ![c] = "put"] \/ rpc' = [rpc EXCEPT ![c] = "read"]
    BY <1>2 DEF Read, CheckSub, CheckChan, Publish, Discard, At
  <2> QED
    BY <1>1, <2>1, <2>2
<1>3. ASSUME NEW c \in Channels, Store(c)
      PROVE  ReaderOK'
  <2>1. \A d \in Channels \ {c} : rpc[d] = "read"
    BY <1>3 DEF Store, Runs
  <2>2. CASE Discard(c)
    BY <1>1, <2>1, <2>2 DEF Discard, At
  <2>3. CASE /\ rbuf[c] # <<>> /\ ~Full
             /\ ring' = [ring EXCEPT ![head] = Head(rbuf[c])]
             /\ At(c, "put", "publish") /\ UNCHANGED rbuf
    <3>1. head' = head /\ ~Full'
      BY <1>3, <2>3 DEF Store, Full
    <3>2. ring'[head] = Head(rbuf[c])
      BY <2>3, FirstType DEF IInv
    <3>3. rpc'[c] = "publish" /\ \A d \in Channels \ {c} : rpc'[d] = "read"
      BY <1>0, <2>1, <2>3 DEF At
    <3> QED
      BY <2>3, <3>1, <3>2, <3>3 DEF ReaderOK
  <2> QED
    BY <1>3, <2>2, <2>3 DEF Store
<1>4. CASE Advance
  <2>1. tail' = NextSlot(tail) /\ UNCHANGED <<rpc, rbuf, ring, head>>
    BY <1>4 DEF Advance, ServerOnly, deviceVars
  <2>2. tail # head
    BY <1>4 DEF Advance, IInv, ServerOK
  <2>3. ~Full'
    BY <1>0, <2>1, <2>2, NextSlotInjective DEF Full
  <2> QED
    BY <1>0, <2>1, <2>3 DEF ReaderOK
<1>5. CASE UNCHANGED <<rpc, rbuf, ring, head, tail>>
  BY <1>0, <1>5 DEF ReaderOK, Full
<1>6. OnFrame \/ Timeout \/ Drain \/ Fetch \/ SendPush => UNCHANGED <<rpc, rbuf, ring, head, tail>>
  BY DEF OnFrame, Timeout, Drain, Fetch, SendPush, ServerOnly, deviceVars, ringVars
<1>7. Attempt \/ GiveUp \/ Lose \/ Pump => UNCHANGED <<rpc, rbuf, ring, head, tail>>
  BY DEF Attempt, GiveUp, Lose, Pump, deviceVars, ringVars
<1>8. ASSUME NEW c \in Channels, ReadChannel(c) \/ \E kind \in Kinds : Ask(kind, c)
      PROVE  UNCHANGED <<rpc, rbuf, ring, head, tail>>
  BY <1>8 DEF ReadChannel, Ask, deviceVars, ringVars
<1> QED
  BY <1>2, <1>3, <1>4, <1>5, <1>6, <1>7, <1>8 DEF Next, Server

LEMMA InitIInv == ASSUME Init PROVE IInv
<1>1. TypeOK
  <2>1. DeviceTypes
    BY DEF Init, DeviceTypes
  <2>2. RingTypes /\ BoardTypes
    <3>1. [at \in Slots |-> NoByte] \in [Slots -> Slot] /\ 0 \in Slots
      BY DEF Slots, Slot
    <3> QED
      BY <3>1 DEF Init, RingTypes, BoardTypes
  <2>3. ServerTypes /\ LineTypes
    BY DEF Init, ServerTypes, LineTypes
  <2>4. WappTypes
    BY DEF Init, WappTypes
  <2> QED
    BY <2>1, <2>2, <2>3, <2>4, TypesAre
<1>2. ReaderOK /\ ServerOK
  BY DEF Init, ReaderOK, ServerOK
<1>3. queueBar = <<>>
  <2>1. First = 0 /\ head = 0
    BY DEF Init, First
  <2>2. Len(queueBar) = 0 /\ queueBar \in Seq(Slot)
    BY <1>1, <2>1, FirstType, BytesType DEF queueBar, Count
  <2> QED
    BY <2>2, EmptySeq
<1> QED
  BY <1>1, <1>2, <1>3 DEF IInv, SlotsOK

\* The ring that the readers and the server share without a lock keeps its
\* bytes: a reader has stored a byte before the server may take it, and one
\* reader runs at a time (ipc_chan_put, ipc_chan_take).
THEOREM RingHoldsBytes == Spec => []IInv
<1>1. IInv /\ [Next]_vars => IInv'
  <2> SUFFICES ASSUME IInv, [Next]_vars
               PROVE  IInv'
    OBVIOUS
  <2>1. CASE Next
    BY <2>1, TypeStep, ReaderStep, SlotsStep, ServerStep DEF IInv
  <2>2. CASE UNCHANGED vars
    BY <2>2 DEF vars, deviceVars, ringVars, boardVars, serverVars, wappVars, IInv, TypeOK,
                ReaderOK, Full, SlotsOK, queueBar, First, ServerOK
  <2> QED
    BY <2>1, <2>2
<1> QED
  BY <1>1, InitIInv, PTL DEF Spec

\* The indexes stay inside the ring, whatever the readers and the server do, and
\* the line carries well-formed frames (ipc_chan_next, ipc_usb_push).
THEOREM FollowTypeOK == Spec => []TypeOK
BY RingHoldsBytes, PTL DEF IInv

-----------------------------------------------------------------------------
(* The refinement.                                                         *)

LEMMA NextRefines ==
    ASSUME IInv, Next
    PROVE  [Queue!QNext]_(Queue!qvars)
<1>1. CASE Fetch
  BY <1>1, FetchQueue DEF Queue!QNext, Queue!Take
<1>2. ASSUME NEW c \in Channels, Publish(c)
      PROVE  Queue!QNext
  <2>1. part' = part
    BY <1>2 DEF Publish, Runs, serverVars
  <2>2. Queue!Put(ring[head])
    BY <1>2, <2>1, PublishQueue DEF Queue!Put
  <2> QED
    BY <1>2, <2>2, PublishQueue DEF Queue!QNext
<1>3. CASE queueBar' = queueBar
  <2>1. CASE SendPush
    <3>1. part # <<>>
      BY <2>1 DEF SendPush, MoreToTake, IInv, ServerOK
    <3>2. Queue!SendPart
      BY <1>3, <2>1, <3>1 DEF Queue!SendPart, SendPush
    <3> QED
      BY <3>2 DEF Queue!QNext
  <2>2. CASE Fetch
    BY <1>1, <2>2
  <2>3. CASE part' = part
    BY <1>3, <2>3 DEF Queue!qvars
  <2>4. OnFrame \/ Timeout \/ Drain \/ Advance \/ Attempt \/ GiveUp \/ Lose \/ Pump
          => part' = part
    BY DEF OnFrame, Timeout, Drain, Advance, Attempt, GiveUp, Lose, Pump, serverVars
  <2>5. ASSUME NEW c \in Channels,
               \/ Read(c) \/ CheckSub(c) \/ CheckChan(c) \/ Store(c) \/ Publish(c)
               \/ ReadChannel(c) \/ \E kind \in Kinds : Ask(kind, c)
        PROVE  part' = part
    BY <2>5 DEF Read, CheckSub, CheckChan, Store, Publish, Runs, ReadChannel, Ask, serverVars
  <2> QED
    BY <2>1, <2>2, <2>3, <2>4, <2>5 DEF Next, Server
<1> QED
  BY <1>1, <1>2, <1>3, QueueStep

\* Then the server takes each byte that a reader put into the ring, once and in
\* order, at most READ_MAX to a push, and the ring never holds RING bytes
\* (FrameQueue; ipc_chan_put, ipc_chan_take, ipc_usb_push).
THEOREM RingImplementsQueue == Spec => QueueSpec
<1>1. Init => Queue!QInit
  <2> SUFFICES ASSUME Init
               PROVE  Queue!QInit
    OBVIOUS
  <2>1. part = <<>> /\ First = head /\ ring \in [Slots -> Slot] /\ head \in Slots
    BY InitIInv, FirstType DEF Init, IInv, First
  <2>2. Len(queueBar) = 0 /\ queueBar \in Seq(Slot)
    BY <2>1, NothingQueued
  <2>3. queueBar = <<>>
    BY <2>2, EmptySeq
  <2> QED
    BY <2>1, <2>3 DEF Queue!QInit
<1>2. IInv /\ [Next]_vars => [Queue!QNext]_(Queue!qvars)
  <2>1. UNCHANGED vars => UNCHANGED Queue!qvars
    BY DEF vars, ringVars, serverVars, queueBar, First, Queue!qvars
  <2> QED
    BY <2>1, NextRefines
<1> QED
  BY <1>1, <1>2, RingHoldsBytes, PTL DEF Spec, QueueSpec, Queue!QSpec

-----------------------------------------------------------------------------
(* The buffer of tg-usb.                                                   *)

LEMMA NewestIs ==
    ASSUME NEW S, NEW q \in Seq(S), NEW len \in Nat, len <= Len(q)
    PROVE  /\ Newest(q, len) \in Seq(S)
           /\ Len(Newest(q, len)) = len
           /\ \A i \in 1 .. len : Newest(q, len)[i] = q[Len(q) - len + i]
BY NewestType

LEMMA NewestOfNewest ==
    ASSUME NEW S, NEW q \in Seq(S), NEW m \in Nat, NEW len \in Nat, m <= len, len <= Len(q)
    PROVE  Newest(Newest(q, len), m) = Newest(q, m)
<1> DEFINE s == Newest(q, len)
           t == Newest(s, m)
           u == Newest(q, m)
<1>1. /\ s \in Seq(S) /\ Len(s) = len
      /\ \A i \in 1 .. len : s[i] = q[Len(q) - len + i]
  BY NewestIs
<1> HIDE DEF s
<1>2. /\ t \in Seq(S) /\ Len(t) = m
      /\ \A i \in 1 .. m : t[i] = s[len - m + i]
  <2>1. s \in Seq(S) /\ m <= Len(s)
    BY <1>1
  <2>2. /\ t \in Seq(S) /\ Len(t) = m
        /\ \A i \in 1 .. m : t[i] = s[Len(s) - m + i]
    BY <2>1, NewestIs
  <2> QED
    BY <1>1, <2>2
<1>3. Len(q) \in Nat /\ m <= Len(q)
  OBVIOUS
<1>4. /\ u \in Seq(S) /\ Len(u) = m
      /\ \A i \in 1 .. m : u[i] = q[Len(q) - m + i]
  BY <1>3, NewestIs
<1> HIDE DEF t, u
<1>5. ASSUME NEW i \in 1 .. m
      PROVE  t[i] = u[i]
  <2>1. len - m + i \in 1 .. len /\ Len(q) - len + (len - m + i) = Len(q) - m + i
    <3> DEFINE l == Len(q)
    <3>1. l \in Nat
      BY <1>3
    <3> HIDE DEF l
    <3>2. len - m + i \in 1 .. len /\ l - len + (len - m + i) = l - m + i
      BY <3>1
    <3> QED
      BY <3>2 DEF l
  <2>2. t[i] = s[len - m + i]
    BY <1>2
  <2>3. s[len - m + i] = q[Len(q) - m + i]
    <3>1. PICK j \in 1 .. len : j = len - m + i /\ Len(q) - len + j = Len(q) - m + i
      BY <2>1
    <3>2. s[j] = q[Len(q) - len + j]
      BY <1>1
    <3> QED
      BY <3>1, <3>2
  <2>4. u[i] = q[Len(q) - m + i]
    BY <1>4
  <2> QED
    BY <2>2, <2>3, <2>4
<1>6. t = u
  BY <1>2, <1>4, <1>5, SeqEqual
<1> QED
  BY <1>6 DEF s, t, u

LEMMA NewestOfLast ==
    ASSUME NEW S, NEW q \in Seq(S), NEW data \in Seq(S), NEW len \in Nat, len <= Len(data)
    PROVE  Newest(q \o data, len) = Newest(data, len)
<1> DEFINE all == q \o data
           t == Newest(all, len)
           u == Newest(data, len)
<1>1. Len(q) \in Nat /\ Len(data) \in Nat
  OBVIOUS
<1>2. /\ all \in Seq(S) /\ Len(all) = Len(q) + Len(data)
      /\ \A i \in 1 .. Len(q) + Len(data) :
            all[i] = IF i <= Len(q) THEN q[i] ELSE data[i - Len(q)]
  BY ConcatProperties
<1> HIDE DEF all
<1>3. len <= Len(all)
  BY <1>1, <1>2
<1>4. /\ t \in Seq(S) /\ Len(t) = len
      /\ \A i \in 1 .. len : t[i] = all[Len(all) - len + i]
  <2>1. all \in Seq(S) /\ len \in Nat /\ len <= Len(all)
    BY <1>2, <1>3
  <2> QED
    BY <2>1, NewestIs
<1>5. /\ u \in Seq(S) /\ Len(u) = len
      /\ \A i \in 1 .. len : u[i] = data[Len(data) - len + i]
  BY NewestIs
<1> HIDE DEF t, u
<1>6. ASSUME NEW i \in 1 .. len
      PROVE  t[i] = u[i]
  <2> DEFINE j == Len(all) - len + i
  <2>1. /\ j \in 1 .. Len(q) + Len(data) /\ ~(j <= Len(q))
        /\ j - Len(q) = Len(data) - len + i
    BY <1>1, <1>2
  <2> HIDE DEF j
  <2>2. all[j] = data[Len(data) - len + i]
    BY <1>2, <2>1
  <2> QED
    BY <1>4, <1>5, <2>2 DEF j
<1>7. t = u
  BY <1>4, <1>5, <1>6, SeqEqual
<1> QED
  BY <1>7 DEF all, t, u

LEMMA NewestOfMore ==
    ASSUME NEW S, NEW q \in Seq(S), NEW data \in Seq(S), NEW len \in Nat, len <= Len(q)
    PROVE  Newest(q \o data, len + Len(data)) = Newest(q, len) \o data
<1> DEFINE all == q \o data
           n == len + Len(data)
           r == Newest(q, len)
           t == Newest(all, n)
           u == r \o data
<1>1. Len(q) \in Nat /\ Len(data) \in Nat /\ n \in Nat
  OBVIOUS
<1>2. /\ all \in Seq(S) /\ Len(all) = Len(q) + Len(data)
      /\ \A i \in 1 .. Len(q) + Len(data) :
            all[i] = IF i <= Len(q) THEN q[i] ELSE data[i - Len(q)]
  BY ConcatProperties
<1> HIDE DEF all
<1>3. n <= Len(all)
  BY <1>1, <1>2
<1>4. /\ r \in Seq(S) /\ Len(r) = len
      /\ \A i \in 1 .. len : r[i] = q[Len(q) - len + i]
  BY NewestIs
<1> HIDE DEF r, n
<1>5. /\ t \in Seq(S) /\ Len(t) = n
      /\ \A i \in 1 .. n : t[i] = all[Len(all) - n + i]
  <2>1. all \in Seq(S) /\ n \in Nat /\ n <= Len(all)
    BY <1>1, <1>2, <1>3
  <2> QED
    BY <2>1, NewestIs
<1>6. /\ u \in Seq(S) /\ Len(u) = n
      /\ \A i \in 1 .. n : u[i] = IF i <= len THEN r[i] ELSE data[i - len]
  <2>1. r \in Seq(S) /\ Len(r) = len /\ n = Len(r) + Len(data)
    BY <1>4 DEF n
  <2>2. /\ u \in Seq(S) /\ Len(u) = Len(r) + Len(data)
        /\ \A i \in 1 .. Len(r) + Len(data) :
              u[i] = IF i <= Len(r) THEN r[i] ELSE data[i - Len(r)]
    BY <2>1, ConcatProperties
  <2> QED
    BY <2>1, <2>2
<1> HIDE DEF t, u
<1>7. ASSUME NEW i \in 1 .. n
      PROVE  t[i] = u[i]
  <2> DEFINE j == Len(all) - n + i
  <2>1. /\ i \in Int /\ 1 <= i /\ i <= len + Len(data)
        /\ j = Len(q) - len + i
    BY <1>1, <1>2 DEF n
  <2>2. t[i] = all[j]
    BY <1>5
  <2> HIDE DEF j
  <2>3. CASE i <= len
    <3>1. j \in 1 .. Len(q) + Len(data) /\ j <= Len(q)
      BY <1>1, <2>1, <2>3
    <3>2. all[j] = q[Len(q) - len + i]
      BY <1>2, <2>1, <3>1
    <3>3. u[i] = r[i] /\ r[i] = q[Len(q) - len + i]
      BY <1>4, <1>6, <2>1, <2>3
    <3> QED
      BY <2>2, <3>2, <3>3
  <2>4. CASE ~(i <= len)
    <3>1. j \in 1 .. Len(q) + Len(data) /\ ~(j <= Len(q)) /\ j - Len(q) = i - len
      BY <1>1, <2>1, <2>4
    <3>2. all[j] = data[i - len]
      BY <1>2, <3>1
    <3>3. u[i] = data[i - len]
      BY <1>6, <2>4
    <3> QED
      BY <2>2, <3>2, <3>3
  <2> QED
    BY <2>3, <2>4
<1>8. t = u
  BY <1>5, <1>6, <1>7, SeqEqual
<1> QED
  BY <1>8 DEF all, n, r, t, u

NewestOf(c) ==
    /\ Len(buf[c]) <= CHANNEL_BUF
    /\ Len(buf[c]) + dropped[c] = Len(filled[c])
    /\ dropped[c] > 0 => Len(buf[c]) = CHANNEL_BUF
    /\ buf[c] = Newest(filled[c], Len(buf[c]))

LEMMA KeptIsNewest ==
    ASSUME TypeOK, NEW c \in Channels, NEW data \in Seq(Byte), NewestOf(c)
    PROVE  /\ Len(Kept(c, data)) <= CHANNEL_BUF
           /\ Len(Kept(c, data)) + (dropped[c] + Over(c, data)) = Len(filled[c] \o data)
           /\ dropped[c] + Over(c, data) > 0 => Len(Kept(c, data)) = CHANNEL_BUF
           /\ Kept(c, data) = Newest(filled[c] \o data, Len(Kept(c, data)))
<1> DEFINE old  == buf[c]
           all  == filled[c]
           kept == Kept(c, data)
           over == Over(c, data)
           gone == dropped[c]
<1>1. /\ old \in Seq(Byte) /\ all \in Seq(Byte) /\ gone \in Nat
      /\ Len(old) <= CHANNEL_BUF /\ Len(old) + gone = Len(all)
      /\ gone > 0 => Len(old) = CHANNEL_BUF
      /\ old = Newest(all, Len(old))
  BY DEF TypeOK, NewestOf
<1>2. /\ Len(data) >= CHANNEL_BUF => kept = Newest(data, CHANNEL_BUF)
      /\ ~(Len(data) >= CHANNEL_BUF) => kept = Newest(old, Len(old) - over) \o data
  BY DEF Kept
<1>3. over = IF Len(old) + Len(data) > CHANNEL_BUF
             THEN Len(old) + Len(data) - CHANNEL_BUF ELSE 0
  BY DEF Over
<1> HIDE DEF old, all, kept, over, gone
<1>4. Len(old) \in Nat /\ Len(all) \in Nat /\ Len(data) \in Nat /\ Len(old) <= Len(all)
      /\ Len(all \o data) = Len(all) + Len(data) /\ CHANNEL_BUF \in Nat
  BY <1>1, ConcatProperties
<1>5. CASE Len(data) >= CHANNEL_BUF
  <2>0. kept = Newest(data, CHANNEL_BUF) /\ CHANNEL_BUF \in Nat /\ CHANNEL_BUF <= Len(data)
    BY <1>2, <1>4, <1>5
  <2>1. Len(kept) = CHANNEL_BUF
    <3>1. Len(Newest(data, CHANNEL_BUF)) = CHANNEL_BUF
      BY <2>0, NewestIs
    <3> QED
      BY <2>0, <3>1
  <2>2. kept = Newest(all \o data, CHANNEL_BUF)
    <3>1. Newest(all \o data, CHANNEL_BUF) = Newest(data, CHANNEL_BUF)
      BY <1>1, <2>0, NewestOfLast
    <3> QED
      BY <2>0, <3>1
  <2>3. Len(kept) + (gone + over) = Len(all \o data)
    <3> DEFINE x == Len(old)
               y == Len(data)
               z == Len(all)
    <3>1. /\ x \in Nat /\ y \in Nat /\ z \in Nat /\ gone \in Nat /\ x + gone = z
          /\ over = IF x + y > CHANNEL_BUF THEN x + y - CHANNEL_BUF ELSE 0
          /\ Len(all \o data) = z + y /\ y >= CHANNEL_BUF /\ CHANNEL_BUF \in Nat
      BY <1>1, <1>3, <1>4, <1>5
    <3> HIDE DEF x, y, z
    <3>2. over = x + y - CHANNEL_BUF
      BY <3>1
    <3>3. CHANNEL_BUF + (gone + over) = z + y
      BY <3>1, <3>2
    <3> QED
      BY <2>1, <3>1, <3>3
  <2> QED
    BY <1>4, <2>1, <2>2, <2>3 DEF all, kept, over, gone
<1>6. CASE Len(data) < CHANNEL_BUF
  <2> DEFINE len == Len(old) - over
  <2>1. /\ len \in Nat /\ len <= Len(old)
        /\ len + Len(data) <= CHANNEL_BUF
        /\ len + Len(data) + (gone + over) = Len(all) + Len(data)
        /\ gone + over > 0 => len + Len(data) = CHANNEL_BUF
    <3>1. CASE Len(old) + Len(data) > CHANNEL_BUF
      <4> DEFINE x == Len(old)
                 y == Len(data)
                 z == Len(all)
      <4>1. /\ x \in Nat /\ y \in Nat /\ z \in Nat /\ gone \in Nat /\ CHANNEL_BUF \in Nat
            /\ x <= CHANNEL_BUF /\ y < CHANNEL_BUF /\ x + gone = z
        BY <1>1, <1>4, <1>6
      <4>2. over = x + y - CHANNEL_BUF /\ x + y > CHANNEL_BUF /\ len = x - over
        BY <1>3, <3>1
      <4> HIDE DEF x, y, z, len
      <4>3. over \in Nat /\ over <= x /\ len \in Nat /\ len <= x /\ len + y = CHANNEL_BUF
        BY <4>1, <4>2
      <4>4. len + y + (gone + over) = z + y
        BY <4>1, <4>2, <4>3
      <4> QED
        BY <4>3, <4>4 DEF x, y, z
    <3>2. CASE Len(old) + Len(data) <= CHANNEL_BUF
      <4>1. over = 0
        BY <1>3, <1>4, <3>2
      <4>2. len = Len(old) /\ (gone > 0 => Len(data) = 0)
        BY <1>1, <1>4, <3>2, <4>1
      <4> HIDE DEF len
      <4> QED
        BY <1>1, <1>4, <3>2, <4>1, <4>2
    <3> QED
      BY <1>4, <3>1, <3>2
  <2>2. kept = Newest(old, len) \o data
    BY <1>2, <1>4, <1>6
  <2> HIDE DEF len
  <2>3. Newest(old, len) = Newest(all, len)
    BY <1>1, <1>4, <2>1, NewestOfNewest
  <2>4. len <= Len(all)
    BY <1>4, <2>1
  <2>5. Newest(all, len) \in Seq(Byte) /\ Len(Newest(all, len)) = len
    BY <1>1, <2>1, <2>4, NewestIs
  <2>6. Len(kept) = len + Len(data)
    BY <2>2, <2>3, <2>5, ConcatProperties
  <2>7. kept = Newest(all \o data, len + Len(data))
    <3>1. Newest(all \o data, len + Len(data)) = Newest(all, len) \o data
      BY <1>1, <2>1, <2>4, NewestOfMore
    <3> QED
      BY <2>2, <2>3, <3>1
  <2> QED
    BY <1>4, <2>1, <2>6, <2>7 DEF all, kept, over, gone
<1> QED
  BY <1>4, <1>5, <1>6

LEMMA FillNewest ==
    ASSUME TypeOK, BufferIsNewest, NEW c \in Channels, NEW data \in Seq(Byte), Fill(c, data)
    PROVE  BufferIsNewest'
<1>1. /\ buf' = [buf EXCEPT ![c] = Kept(c, data)]
      /\ dropped' = [dropped EXCEPT ![c] = dropped[c] + Over(c, data)]
      /\ filled' = [filled EXCEPT ![c] = filled[c] \o data]
      /\ buf \in [Channels -> Seq(Byte)] /\ filled \in [Channels -> Seq(Byte)]
      /\ dropped \in [Channels -> Nat]
  BY DEF Fill, TypeOK
<1>2. /\ buf'[c] = Kept(c, data) /\ dropped'[c] = dropped[c] + Over(c, data)
      /\ filled'[c] = filled[c] \o data
      /\ \A d \in Channels \ {c} :
            buf'[d] = buf[d] /\ dropped'[d] = dropped[d] /\ filled'[d] = filled[d]
  BY <1>1
<1>3. \A d \in Channels : NewestOf(d)
  BY DEF BufferIsNewest, NewestOf
<1>4. /\ Len(buf'[c]) <= CHANNEL_BUF
      /\ Len(buf'[c]) + dropped'[c] = Len(filled'[c])
      /\ dropped'[c] > 0 => Len(buf'[c]) = CHANNEL_BUF
      /\ buf'[c] = Newest(filled'[c], Len(buf'[c]))
  BY <1>2, <1>3, KeptIsNewest
<1>5. \A d \in Channels \ {c} :
        /\ Len(buf'[d]) <= CHANNEL_BUF
        /\ Len(buf'[d]) + dropped'[d] = Len(filled'[d])
        /\ dropped'[d] > 0 => Len(buf'[d]) = CHANNEL_BUF
        /\ buf'[d] = Newest(filled'[d], Len(buf'[d]))
  BY <1>2, <1>3 DEF NewestOf
<1> QED
  BY <1>4, <1>5 DEF BufferIsNewest, Newest

LEMMA ClearNewest ==
    ASSUME TypeOK, BufferIsNewest, NEW c, Clear(c)
    PROVE  BufferIsNewest'
<1>1. /\ buf' = [buf EXCEPT ![c] = <<>>] /\ filled' = [filled EXCEPT ![c] = <<>>]
      /\ dropped' = [dropped EXCEPT ![c] = 0]
      /\ buf \in [Channels -> Seq(Byte)] /\ filled \in [Channels -> Seq(Byte)]
      /\ dropped \in [Channels -> Nat]
  BY DEF Clear, TypeOK
<1>2. ASSUME NEW d \in Channels
      PROVE  /\ Len(buf'[d]) <= CHANNEL_BUF
             /\ Len(buf'[d]) + dropped'[d] = Len(filled'[d])
             /\ dropped'[d] > 0 => Len(buf'[d]) = CHANNEL_BUF
             /\ buf'[d] = Newest(filled'[d], Len(buf'[d]))
  <2>1. CASE c = d
    <3>1. buf'[d] = <<>> /\ dropped'[d] = 0 /\ filled'[d] = <<>>
      BY <1>1, <2>1
    <3>2. Len(<<>>) = 0 /\ Newest(<<>>, 0) = <<>>
      BY SubSeqEmpty DEF Newest
    <3> QED
      BY <3>1, <3>2
  <2>2. CASE c # d
    <3>1. buf'[d] = buf[d] /\ dropped'[d] = dropped[d] /\ filled'[d] = filled[d]
      BY <1>1, <2>2
    <3> QED
      BY <3>1 DEF BufferIsNewest
  <2> QED
    BY <2>1, <2>2
<1> QED
  BY <1>2 DEF BufferIsNewest, Newest

\* What a client may read of a channel is the newest part of what the pushes
\* brought, in order, and the count of dropped bytes is the rest (channel_fill).
THEOREM BufferKeepsNewest == Spec => []BufferIsNewest
<1>1. Init => BufferIsNewest
  <2> SUFFICES ASSUME Init, NEW c \in Channels
               PROVE  NewestOf(c)
    BY DEF BufferIsNewest, NewestOf
  <2>1. buf[c] = <<>> /\ filled[c] = <<>> /\ dropped[c] = 0
    BY DEF Init
  <2>2. Len(<<>>) = 0 /\ Newest(<<>>, 0) = <<>>
    BY SubSeqEmpty DEF Newest
  <2> QED
    BY <2>1, <2>2 DEF NewestOf
<1>2. IInv /\ BufferIsNewest /\ [Next]_vars => BufferIsNewest'
  <2> SUFFICES ASSUME IInv, BufferIsNewest, [Next]_vars
               PROVE  BufferIsNewest'
    OBVIOUS
  <2>1. CASE UNCHANGED <<buf, dropped, filled>>
    BY <2>1 DEF BufferIsNewest
  <2>2. CASE Pump
    <3>1. up \in Seq(Reply \cup Push) /\ up # <<>>
      BY <2>2 DEF IInv, TypeOK, Pump
    <3>2. Head(up) \in Reply \cup Push
      BY <3>1, HeadTailProperties
    <3>3. CASE Head(up).op = "push" /\ Fill(Head(up).chan, Head(up).data)
      <4>1. Head(up) \in Push
        BY <3>2, <3>3 DEF Reply
      <4>2. Head(up).chan \in Channels /\ Head(up).data \in Seq(Byte)
        BY <4>1 DEF Push
      <4> QED
        BY <3>3, <4>2, FillNewest DEF IInv
    <3>4. CASE TakeReply(Head(up))
      BY <2>1, <3>4, ClearNewest DEF TakeReply, IInv
    <3> QED
      BY <2>1, <2>2, <3>3, <3>4 DEF Pump
  <2>3. ASSUME NEW c \in Channels, ReadChannel(c)
        PROVE  BufferIsNewest'
    BY <2>3, ClearNewest DEF ReadChannel, IInv
  <2>4. Server \/ Attempt \/ GiveUp \/ Lose => UNCHANGED <<buf, dropped, filled>>
    BY DEF Server, OnFrame, Timeout, Drain, Fetch, Advance, SendPush, ServerOnly,
           Attempt, GiveUp, Lose, wappVars
  <2>5. ASSUME NEW c \in Channels,
               \/ Read(c) \/ CheckSub(c) \/ CheckChan(c) \/ Store(c) \/ Publish(c)
               \/ \E kind \in Kinds : Ask(kind, c)
        PROVE  UNCHANGED <<buf, dropped, filled>>
    BY <2>5 DEF Read, CheckSub, CheckChan, Store, Publish, Runs, Ask, wappVars
  <2>6. UNCHANGED vars => UNCHANGED <<buf, dropped, filled>>
    BY DEF vars, wappVars
  <2> QED
    BY <2>1, <2>2, <2>3, <2>4, <2>5, <2>6 DEF Next
<1> QED
  BY <1>1, <1>2, RingHoldsBytes, PTL DEF Spec

-----------------------------------------------------------------------------
(* The way of the bytes: from a reader through the ring, a payload and the *)
(* line to a buffer of tg-usb and to a client.  Of one device, what is     *)
(* farther along that way is older.                                        *)

Before(A, B) == \A a \in A, b \in B : a.chan = b.chan => a.n < b.n
Rises(q) == \A i, j \in DOMAIN q : i < j /\ q[i].chan = q[j].chan => q[i].n < q[j].n

Under(c) == Elems(got[c]) \cup Elems(buf[c])
Sent(f)  == IF f.op = "push" THEN Elems(f.data) ELSE {}

AtWapp  == UNION {Under(c) : c \in Channels}
OnLine  == UNION {Sent(up[k]) : k \in DOMAIN up}
OnBoard == Elems(part) \cup Elems(queueBar)
Held    == UNION {Elems(rbuf[c]) : c \in Channels}

\* A push may bring bytes under the name of another channel, but only once.
WappOK == /\ \A c \in Channels : /\ Rises(got[c]) /\ Rises(buf[c])
                                 /\ Before(Elems(got[c]), Elems(buf[c]))
          /\ \A c, d \in Channels : c # d => Under(c) \cap Under(d) = {}

LineOK == /\ \A k \in DOMAIN up : up[k].op = "push" => Rises(up[k].data)
          /\ \A j, k \in DOMAIN up : j < k => Before(Sent(up[j]), Sent(up[k]))

BoardOK == Rises(part) /\ Rises(queueBar) /\ Before(Elems(part), Elems(queueBar))

HeldOK == \A c \in Channels : Rises(rbuf[c]) /\ \A b \in Elems(rbuf[c]) : b.chan = c

WayOK == /\ Before(AtWapp, OnLine)
         /\ Before(AtWapp \cup OnLine, OnBoard)
         /\ Before(AtWapp \cup OnLine \cup OnBoard, Held)

GivenOK == \A b \in AtWapp \cup OnLine \cup OnBoard \cup Held : b.n <= given

PathInv == WappOK /\ LineOK /\ BoardOK /\ HeldOK /\ WayOK /\ GivenOK

LEMMA ElemsOf ==
    /\ Elems(<<>>) = {} /\ Rises(<<>>)
    /\ \A S : \A q \in Seq(S) : Elems(q) \subseteq S
    /\ \A S : \A q \in Seq(S) : \A k \in 1 .. Len(q) : q[k] \in Elems(q)
BY DEF Elems, Rises

LEMMA OfAppend ==
    ASSUME NEW S, NEW q \in Seq(S), NEW x \in S
    PROVE  /\ Elems(Append(q, x)) = Elems(q) \cup {x}
           /\ Rises(q) /\ Before(Elems(q), {x}) => Rises(Append(q, x))
<1> DEFINE s == Append(q, x)
           n == Len(q)
<1>1. /\ n \in Nat /\ DOMAIN q = 1 .. n /\ DOMAIN s = 1 .. n + 1
      /\ \A k \in 1 .. n : s[k] = q[k]
      /\ s[n + 1] = x
  BY AppendProperties
<1> HIDE DEF s, n
<1>2. Elems(s) = Elems(q) \cup {x}
  BY <1>1 DEF Elems
<1>3. ASSUME Rises(q), Before(Elems(q), {x}),
             NEW i \in 1 .. n + 1, NEW j \in 1 .. n + 1, i < j, s[i].chan = s[j].chan
      PROVE  s[i].n < s[j].n
  <2>1. i \in 1 .. n /\ s[i] = q[i] /\ q[i] \in Elems(q)
    BY <1>1, <1>3 DEF Elems
  <2>2. CASE j = n + 1
    BY <1>1, <1>3, <2>1, <2>2 DEF Before
  <2>3. CASE j # n + 1
    <3>1. j \in 1 .. n
      BY <1>1, <2>3
    <3> QED
      BY <1>1, <1>3, <2>1, <3>1 DEF Rises
  <2> QED
    BY <2>2, <2>3
<1>4. Rises(q) /\ Before(Elems(q), {x}) => Rises(s)
  BY <1>1, <1>3 DEF Rises
<1> QED
  BY <1>2, <1>4 DEF s

LEMMA OfTail ==
    ASSUME NEW S, NEW q \in Seq(S), q # <<>>
    PROVE  /\ Head(q) \in Elems(q) /\ Elems(Tail(q)) \subseteq Elems(q)
           /\ Rises(q) => Rises(Tail(q)) /\ Before({Head(q)}, Elems(Tail(q)))
<1> DEFINE s == Tail(q)
           n == Len(q)
<1>1. /\ n \in Nat /\ n # 0 /\ DOMAIN q = 1 .. n /\ DOMAIN s = 1 .. n - 1
      /\ \A k \in 1 .. n - 1 : s[k] = q[k + 1]
      /\ Head(q) = q[1]
  BY HeadTailProperties
<1> HIDE DEF s, n
<1>2. /\ 1 \in 1 .. n
      /\ \A k \in 1 .. n - 1 : k + 1 \in 1 .. n /\ 1 < k + 1
      /\ \A j, k \in 1 .. n - 1 : j < k => j + 1 < k + 1
  BY <1>1
<1>3. Elems(s) \subseteq Elems(q) /\ Head(q) \in Elems(q)
  BY <1>1, <1>2 DEF Elems
<1>4. ASSUME Rises(q), NEW i \in 1 .. n - 1, NEW j \in 1 .. n - 1, i < j, s[i].chan = s[j].chan
      PROVE  s[i].n < s[j].n
  <2>1. i + 1 < j + 1 /\ i + 1 \in 1 .. n /\ j + 1 \in 1 .. n
    BY <1>1, <1>4
  <2>2. s[i] = q[i + 1] /\ s[j] = q[j + 1]
    BY <1>1
  <2> QED
    BY <1>1, <1>4, <2>1, <2>2 DEF Rises
<1>5. Rises(q) => Rises(s)
  BY <1>1, <1>4 DEF Rises
<1>6. ASSUME Rises(q), NEW j \in 1 .. n - 1, q[1].chan = s[j].chan
      PROVE  q[1].n < s[j].n
  <2>1. s[j] = q[j + 1] /\ 1 < j + 1 /\ 1 \in DOMAIN q /\ j + 1 \in DOMAIN q
    BY <1>1, <1>2
  <2> QED
    BY <1>6, <2>1 DEF Rises
<1>7. Rises(q) => Before({Head(q)}, Elems(s))
  BY <1>1, <1>6 DEF Before, Elems
<1> QED
  BY <1>3, <1>5, <1>7 DEF s

LEMMA OfConcat ==
    ASSUME NEW S, NEW p \in Seq(S), NEW q \in Seq(S)
    PROVE  /\ Elems(p \o q) = Elems(p) \cup Elems(q)
           /\ Rises(p) /\ Rises(q) /\ Before(Elems(p), Elems(q)) => Rises(p \o q)
<1> DEFINE s == p \o q
           m == Len(p)
           n == Len(q)
<1>1. /\ m \in Nat /\ n \in Nat
      /\ DOMAIN p = 1 .. m /\ DOMAIN q = 1 .. n /\ DOMAIN s = 1 .. m + n
      /\ \A k \in 1 .. m + n : s[k] = IF k <= m THEN p[k] ELSE q[k - m]
  BY ConcatProperties
<1> HIDE DEF s, m, n
<1>2. /\ \A k \in 1 .. m : s[k] = p[k] /\ k \in 1 .. m + n
      /\ \A k \in 1 .. n : s[k + m] = q[k] /\ k + m \in 1 .. m + n
      /\ \A k \in 1 .. m + n : k \in 1 .. m \/ k - m \in 1 .. n
      /\ \A k \in 1 .. m + n : k - m \in 1 .. n => s[k] = q[k - m]
  <2>1. \A k \in 1 .. m : s[k] = p[k] /\ k \in 1 .. m + n
    BY <1>1
  <2>2. ASSUME NEW k \in 1 .. n
        PROVE  s[k + m] = q[k] /\ k + m \in 1 .. m + n
    <3>1. k + m \in 1 .. m + n /\ ~(k + m <= m) /\ k + m - m = k
      BY <1>1
    <3> QED
      BY <1>1, <3>1
  <2>3. ASSUME NEW k \in 1 .. m + n
        PROVE  /\ k \in 1 .. m \/ k - m \in 1 .. n
               /\ k - m \in 1 .. n => s[k] = q[k - m]
    BY <1>1
  <2> QED
    BY <2>1, <2>2, <2>3
<1>3. Elems(s) = Elems(p) \cup Elems(q)
  <2>1. ASSUME NEW k \in DOMAIN s PROVE s[k] \in Elems(p) \cup Elems(q)
    <3>1. CASE k \in 1 .. m
      BY <1>1, <1>2, <3>1 DEF Elems
    <3>2. CASE k - m \in 1 .. n
      <4>1. s[k] = q[k - m]
        BY <1>1, <1>2, <3>2
      <4> QED
        BY <1>1, <3>2, <4>1 DEF Elems
    <3> QED
      BY <1>1, <1>2, <3>1, <3>2
  <2>2. \A k \in DOMAIN p : p[k] \in Elems(s)
    <3> SUFFICES ASSUME NEW k \in DOMAIN p PROVE p[k] \in Elems(s)
      OBVIOUS
    <3>1. s[k] = p[k] /\ k \in DOMAIN s
      BY <1>1, <1>2
    <3> QED
      BY <3>1 DEF Elems
  <2>3. \A k \in DOMAIN q : q[k] \in Elems(s)
    <3> SUFFICES ASSUME NEW k \in DOMAIN q PROVE q[k] \in Elems(s)
      OBVIOUS
    <3>1. s[k + m] = q[k] /\ k + m \in DOMAIN s
      BY <1>1, <1>2
    <3> QED
      BY <3>1 DEF Elems
  <2> QED
    BY <2>1, <2>2, <2>3 DEF Elems
<1>4. ASSUME Rises(p), Rises(q), Before(Elems(p), Elems(q)),
             NEW i \in 1 .. m + n, NEW j \in 1 .. m + n, i < j, s[i].chan = s[j].chan
      PROVE  s[i].n < s[j].n
  <2>1. CASE i \in 1 .. m /\ j \in 1 .. m
    <3>1. s[i] = p[i] /\ s[j] = p[j] /\ i \in DOMAIN p /\ j \in DOMAIN p
      BY <1>1, <1>2, <2>1
    <3> QED
      BY <1>4, <3>1 DEF Rises
  <2>2. CASE i \in 1 .. m /\ j - m \in 1 .. n
    <3>1. s[i] = p[i] /\ s[j] = q[j - m] /\ p[i] \in Elems(p) /\ q[j - m] \in Elems(q)
      BY <1>1, <1>2, <2>2 DEF Elems
    <3> QED
      BY <1>4, <3>1 DEF Before
  <2>3. CASE i - m \in 1 .. n /\ j - m \in 1 .. n
    <3>1. s[i] = q[i - m] /\ s[j] = q[j - m] /\ i - m \in DOMAIN q /\ j - m \in DOMAIN q
      BY <1>1, <1>2, <2>3
    <3>2. i - m < j - m
      BY <1>1, <1>4
    <3> QED
      BY <1>4, <3>1, <3>2 DEF Rises
  <2>4. ~(i - m \in 1 .. n /\ j \in 1 .. m)
    BY <1>1, <1>4
  <2> QED
    BY <1>2, <2>1, <2>2, <2>3, <2>4
<1>5. Rises(p) /\ Rises(q) /\ Before(Elems(p), Elems(q)) => Rises(s)
  BY <1>1, <1>4 DEF Rises
<1> QED
  BY <1>3, <1>5 DEF s

LEMMA OfNewest ==
    ASSUME NEW S, NEW q \in Seq(S), NEW len \in Int, len <= Len(q)
    PROVE  /\ Elems(Newest(q, len)) \subseteq Elems(q)
           /\ Rises(q) => Rises(Newest(q, len))
<1> DEFINE s == Newest(q, len)
           n == Len(q)
<1>1. /\ n \in Nat /\ DOMAIN q = 1 .. n /\ s \in Seq(S)
      /\ len >= 0 => Len(s) = len
      /\ \A i \in 1 .. len : s[i] = q[n - len + i]
  BY NewestType
<1> HIDE DEF s, n
<1>2. CASE len >= 0
  <2>1. DOMAIN s = 1 .. len
    BY <1>1, <1>2
  <2>2. \A i \in 1 .. len : n - len + i \in 1 .. n
    BY <1>1, <1>2 DEF n
  <2>3. \A i, j \in 1 .. len : i < j => n - len + i < n - len + j
    BY <1>1
  <2>4. Elems(s) \subseteq Elems(q)
    BY <1>1, <2>1, <2>2 DEF Elems
  <2>5. Rises(q) => Rises(s)
    <3> SUFFICES ASSUME Rises(q), NEW i \in 1 .. len, NEW j \in 1 .. len,
                        i < j, s[i].chan = s[j].chan
                 PROVE  s[i].n < s[j].n
      BY <2>1 DEF Rises
    <3>1. s[i] = q[n - len + i] /\ s[j] = q[n - len + j]
      BY <1>1
    <3>2. n - len + i \in DOMAIN q /\ n - len + j \in DOMAIN q /\ n - len + i < n - len + j
      BY <1>1, <2>2, <2>3
    <3> QED
      BY <3>1, <3>2 DEF Rises
  <2> QED
    BY <2>4, <2>5 DEF s
<1>3. CASE len < 0
  <2>1. s = <<>>
    BY <1>1, <1>3, SubSeqProperties DEF s, n, Newest
  <2> QED
    BY <2>1, ElemsOf DEF s
<1> QED
  BY <1>2, <1>3

-----------------------------------------------------------------------------
(* What a step does to the order.                                          *)

LEMMA PlacesType ==
    ASSUME IInv
    PROVE  /\ AtWapp \subseteq Byte /\ OnLine \subseteq Byte
           /\ OnBoard \subseteq Byte /\ Held \subseteq Byte
           /\ given \in 0 .. MaxBytes
           /\ \A c \in Channels : Under(c) \subseteq AtWapp /\ Elems(rbuf[c]) \subseteq Held
           /\ \A k \in DOMAIN up : Sent(up[k]) \subseteq OnLine
<1>1. /\ part \in Seq(Byte) /\ queueBar \in Seq(Byte) /\ up \in Seq(Reply \cup Push)
      /\ \A c \in Channels : got[c] \in Seq(Byte) /\ buf[c] \in Seq(Byte) /\ rbuf[c] \in Seq(Byte)
      /\ given \in 0 .. MaxBytes
  BY DEF IInv, TypeOK, SlotsOK
<1>2. OnBoard \subseteq Byte
  BY <1>1, ElemsOf DEF OnBoard
<1>3. \A c \in Channels : Under(c) \subseteq Byte /\ Elems(rbuf[c]) \subseteq Byte
  BY <1>1, ElemsOf DEF Under
<1>4. ASSUME NEW k \in DOMAIN up PROVE Sent(up[k]) \subseteq Byte
  <2>1. CASE up[k].op = "push"
    <3>1. up[k] \in Push
      BY <1>1, <2>1 DEF Reply
    <3> QED
      BY <2>1, <3>1, ElemsOf DEF Push, Sent
  <2> QED
    BY <2>1 DEF Sent
<1> QED
  BY <1>1, <1>2, <1>3, <1>4 DEF AtWapp, OnLine, Held

\* A byte that goes one place farther, or is lost, keeps the order.
LEMMA WayFetched ==
    ASSUME WayOK, GivenOK, given' = given,
           NEW B, AtWapp' \subseteq AtWapp \cup B, B \subseteq OnLine,
           OnLine' \subseteq OnLine, Before(B, OnLine'),
           OnBoard' \subseteq OnBoard, Held' \subseteq Held
    PROVE  WayOK' /\ GivenOK'
BY DEF WayOK, GivenOK, Before

LEMMA WaySent ==
    ASSUME WayOK, GivenOK, given' = given,
           NEW B, B \subseteq OnBoard, Before(B, OnBoard'),
           AtWapp' \subseteq AtWapp, OnLine' \subseteq OnLine \cup B,
           OnBoard' \subseteq OnBoard, Held' \subseteq Held
    PROVE  WayOK' /\ GivenOK'
BY DEF WayOK, GivenOK, Before

LEMMA WayPut ==
    ASSUME WayOK, GivenOK, given' = given,
           NEW b \in Held, Before({b}, Held'),
           AtWapp' \subseteq AtWapp, OnLine' \subseteq OnLine,
           OnBoard' \subseteq OnBoard \cup {b}, Held' \subseteq Held
    PROVE  WayOK' /\ GivenOK'
BY DEF WayOK, GivenOK, Before

LEMMA WayRead ==
    ASSUME IInv, WayOK, GivenOK, given' \in Int, given <= given',
           NEW B, B \subseteq Byte, \A b \in B : given < b.n /\ b.n <= given',
           AtWapp' \subseteq AtWapp, OnLine' \subseteq OnLine,
           OnBoard' \subseteq OnBoard, Held' \subseteq Held \cup B
    PROVE  WayOK' /\ GivenOK'
<1>1. /\ AtWapp \subseteq Byte /\ OnLine \subseteq Byte /\ OnBoard \subseteq Byte
      /\ Held \subseteq Byte /\ given \in Int
  BY PlacesType
<1>2. \A b \in Byte : b.n \in Int
  BY DEF Byte
<1>3. \A a \in AtWapp \cup OnLine \cup OnBoard \cup Held : a.n <= given' /\ \A b \in B : a.n < b.n
  BY <1>1, <1>2 DEF GivenOK
<1>4. GivenOK'
  BY <1>3 DEF GivenOK
<1>5. Before(AtWapp', OnLine') /\ Before(AtWapp' \cup OnLine', OnBoard')
  BY DEF WayOK, Before
<1>6. Before(AtWapp' \cup OnLine' \cup OnBoard', Held')
  BY <1>3 DEF WayOK, Before
<1> QED
  BY <1>4, <1>5, <1>6 DEF WayOK

\* Nothing moves but what is lost.
LEMMA WayLost ==
    ASSUME WayOK, GivenOK, given' = given,
           AtWapp' \subseteq AtWapp, OnLine' \subseteq OnLine,
           OnBoard' \subseteq OnBoard, Held' \subseteq Held
    PROVE  WayOK' /\ GivenOK'
BY DEF WayOK, GivenOK, Before

-----------------------------------------------------------------------------
(* The places, one by one.                                                 *)

\* The line loses its first frame.
LEMMA LineTail ==
    ASSUME IInv, LineOK, up # <<>>, up' = Tail(up)
    PROVE  LineOK' /\ OnLine' \subseteq OnLine /\ Before(Sent(Head(up)), OnLine')
<1> DEFINE n == Len(up)
<1>1. /\ n \in Nat /\ DOMAIN up = 1 .. n /\ DOMAIN up' = 1 .. n - 1 /\ n # 0
      /\ \A k \in 1 .. n - 1 : up'[k] = up[k + 1]
      /\ Head(up) = up[1]
  BY HeadTailProperties DEF IInv, TypeOK
<1> HIDE DEF n
<1>2. /\ 1 \in DOMAIN up
      /\ \A k \in DOMAIN up' : up'[k] = up[k + 1] /\ k + 1 \in DOMAIN up /\ 1 < k + 1
      /\ \A j, k \in DOMAIN up' : j < k => j + 1 < k + 1
  BY <1>1
<1>3. OnLine' \subseteq OnLine
  BY <1>2 DEF OnLine, Sent
<1>4. ASSUME NEW k \in DOMAIN up', up'[k].op = "push"
      PROVE  Rises(up'[k].data)
  BY <1>2, <1>4 DEF LineOK
<1>5. ASSUME NEW j \in DOMAIN up', NEW k \in DOMAIN up', j < k
      PROVE  Before(Sent(up'[j]), Sent(up'[k]))
  BY <1>2, <1>5 DEF LineOK
<1>6. ASSUME NEW k \in DOMAIN up'
      PROVE  Before(Sent(Head(up)), Sent(up'[k]))
  BY <1>1, <1>2 DEF LineOK
<1>7. Before(Sent(Head(up)), OnLine')
  BY <1>6 DEF Before, OnLine, Sent
<1>8. LineOK'
  BY <1>4, <1>5 DEF LineOK, Sent, Elems, Before, Rises
<1> QED
  BY <1>3, <1>7, <1>8

\* A frame goes to the end of the line.
LEMMA LineAppend ==
    ASSUME IInv, LineOK, NEW f \in Reply \cup Push, up' = Append(up, f),
           f.op = "push" => Rises(f.data), Before(OnLine, Sent(f))
    PROVE  LineOK' /\ OnLine' = OnLine \cup Sent(f)
<1> DEFINE n == Len(up)
<1>1. /\ n \in Nat /\ DOMAIN up = 1 .. n /\ DOMAIN up' = 1 .. n + 1
      /\ \A k \in 1 .. n : up'[k] = up[k]
      /\ up'[n + 1] = f
  BY AppendProperties DEF IInv, TypeOK
<1> HIDE DEF n
<1>2. OnLine' = OnLine \cup Sent(f)
  <2>1. \A k \in DOMAIN up : Sent(up'[k]) = Sent(up[k]) /\ k \in DOMAIN up'
    BY <1>1
  <2>2. \A k \in DOMAIN up' : k \in DOMAIN up \/ up'[k] = f
    BY <1>1
  <2>3. n + 1 \in DOMAIN up' /\ up'[n + 1] = f
    BY <1>1
  <2>4. OnLine' = UNION {Sent(up'[k]) : k \in DOMAIN up'}
    BY DEF OnLine, Sent, Elems
  <2> QED
    BY <2>1, <2>2, <2>3, <2>4 DEF OnLine
<1>3. ASSUME NEW k \in DOMAIN up', up'[k].op = "push"
      PROVE  Rises(up'[k].data)
  <2>1. CASE k = n + 1
    BY <1>1, <1>3, <2>1
  <2>2. CASE k # n + 1
    <3>1. k \in 1 .. n
      BY <1>1, <2>2
    <3> QED
      BY <1>1, <1>3, <3>1 DEF LineOK
  <2> QED
    BY <2>1, <2>2
<1>4. ASSUME NEW j \in DOMAIN up', NEW k \in DOMAIN up', j < k
      PROVE  Before(Sent(up'[j]), Sent(up'[k]))
  <2>0. j \in 1 .. n
    BY <1>1, <1>4
  <2>1. CASE k = n + 1
    <3>1. Sent(up[j]) \subseteq OnLine
      BY <1>1, <2>0 DEF OnLine
    <3> QED
      BY <1>1, <2>0, <2>1, <3>1 DEF Before
  <2>2. CASE k # n + 1
    <3>1. k \in 1 .. n
      BY <1>1, <2>2
    <3> QED
      BY <1>1, <1>4, <2>0, <3>1 DEF LineOK
  <2> QED
    BY <2>1, <2>2
<1>5. LineOK'
  BY <1>3, <1>4 DEF LineOK, Sent, Elems, Before, Rises
<1> QED
  BY <1>2, <1>5

LEMMA Untouched ==
    /\ UNCHANGED <<got, buf>> /\ WappOK => WappOK' /\ AtWapp' = AtWapp
    /\ UNCHANGED up /\ LineOK => LineOK' /\ OnLine' = OnLine
    /\ UNCHANGED <<part, queueBar>> /\ BoardOK => BoardOK' /\ OnBoard' = OnBoard
    /\ UNCHANGED rbuf /\ HeldOK => HeldOK' /\ Held' = Held
<1>1. UNCHANGED <<got, buf>> /\ WappOK => WappOK' /\ AtWapp' = AtWapp
  <2> SUFFICES ASSUME UNCHANGED <<got, buf>>, WappOK
               PROVE  WappOK' /\ AtWapp' = AtWapp
    OBVIOUS
  <2>1. \A c \in Channels : Under(c)' = Under(c)
    BY DEF Under, Elems
  <2>2. AtWapp' = AtWapp
    BY <2>1 DEF AtWapp
  <2>3. \A c, d \in Channels : c # d => Under(c)' \cap Under(d)' = {}
    BY <2>1 DEF WappOK
  <2>4. \A c \in Channels : (/\ Rises(got[c]) /\ Rises(buf[c])
                            /\ Before(Elems(got[c]), Elems(buf[c])))'
    BY DEF WappOK, Rises, Before, Elems
  <2> QED
    BY <2>2, <2>3, <2>4 DEF WappOK
<1>2. UNCHANGED up /\ LineOK => LineOK' /\ OnLine' = OnLine
  BY DEF LineOK, OnLine, Sent, Elems, Rises, Before
<1>3. UNCHANGED <<part, queueBar>> /\ BoardOK => BoardOK' /\ OnBoard' = OnBoard
  BY DEF BoardOK, OnBoard, Elems, Rises, Before
<1>4. UNCHANGED rbuf /\ HeldOK => HeldOK' /\ Held' = Held
  BY DEF HeldOK, Held, Elems, Rises
<1> QED
  BY <1>1, <1>2, <1>3, <1>4

\* A reader has another chunk, or less of it.
LEMMA HeldChunk ==
    ASSUME IInv, HeldOK, NEW c \in Channels, NEW q, rbuf' = [rbuf EXCEPT ![c] = q],
           Rises(q), \A b \in Elems(q) : b.chan = c
    PROVE  /\ HeldOK' /\ Held' \subseteq Held \cup Elems(q)
           /\ \A b \in Held' : b.chan = c => b \in Elems(q)
<1>1. rbuf'[c] = q /\ \A d \in Channels \ {c} : rbuf'[d] = rbuf[d]
  BY DEF IInv, TypeOK
<1>2. \A d \in Channels : Rises(rbuf'[d]) /\ \A b \in Elems(rbuf'[d]) : b.chan = d
  BY <1>1 DEF HeldOK
<1>3. HeldOK'
  BY <1>2 DEF HeldOK, Rises, Elems
<1>4. Held' = UNION {Elems(rbuf'[d]) : d \in Channels}
  BY DEF Held, Elems
<1>5. Held' \subseteq Held \cup Elems(q)
  BY <1>1, <1>4 DEF Held
<1>6. \A b \in Held' : b.chan = c => b \in Elems(q)
  BY <1>1, <1>2, <1>4
<1> QED
  BY <1>3, <1>5, <1>6

LEMMA ReadWay ==
    ASSUME IInv, PathInv, NEW c \in Channels, Read(c)
    PROVE  PathInv'
<1> DEFINE chunk(k) == [i \in 1 .. k |-> [chan |-> c, n |-> given + i]]
<1>1. PICK k \in 1 .. CHUNK : given + k <= MaxBytes /\ given' = given + k
                              /\ rbuf' = [rbuf EXCEPT ![c] = chunk(k)]
  BY DEF Read
<1>2. k \in Nat /\ given \in Nat
  BY DEF IInv, TypeOK
<1>3. chunk(k) \in Seq(Byte)
  BY <1>1, <1>2, ChunkType
<1>4. Rises(chunk(k))
  BY <1>2 DEF Rises
<1>5. \A b \in Elems(chunk(k)) : b.chan = c /\ given < b.n /\ b.n <= given'
  BY <1>1, <1>2 DEF Elems
<1>6. Elems(chunk(k)) \subseteq Byte
  BY <1>3, ElemsOf
<1> DEFINE q == chunk(k)
<1> HIDE DEF q
<1>7. HeldOK' /\ Held' \subseteq Held \cup Elems(q)
  BY <1>1, <1>4, <1>5, HeldChunk DEF PathInv, q
<1>8. UNCHANGED <<got, buf, up, part, queueBar>>
  BY DEF Read, Runs, wappVars, serverVars, ringVars, queueBar, First
<1>9. /\ WappOK' /\ AtWapp' = AtWapp /\ LineOK' /\ OnLine' = OnLine
      /\ BoardOK' /\ OnBoard' = OnBoard
  BY <1>8, Untouched DEF PathInv
<1>10. given' \in Int /\ given <= given'
  BY <1>1, <1>2
<1>11. WayOK' /\ GivenOK'
  <2>1. Elems(q) \subseteq Byte /\ \A b \in Elems(q) : given < b.n /\ b.n <= given'
    BY <1>5, <1>6 DEF q
  <2>2. /\ AtWapp' \subseteq AtWapp /\ OnLine' \subseteq OnLine
        /\ OnBoard' \subseteq OnBoard
    BY <1>9
  <2>3. WayOK /\ GivenOK
    BY DEF PathInv
  <2> QED
    BY <1>7, <1>10, <2>1, <2>2, <2>3, WayRead
<1> QED
  BY <1>7, <1>9, <1>11 DEF PathInv

LEMMA DiscardWay ==
    ASSUME IInv, PathInv, NEW c \in Channels, CheckSub(c) \/ CheckChan(c) \/ Store(c)
    PROVE  PathInv'
<1>1. UNCHANGED <<given, got, buf, up, part>>
  BY DEF CheckSub, CheckChan, Store, Runs, wappVars, serverVars
<1>2. queueBar' = queueBar
  BY StoreQueue DEF CheckSub, CheckChan, Runs, ringVars, serverVars, queueBar, First
<1>3. rbuf' = rbuf \/ rbuf' = [rbuf EXCEPT ![c] = <<>>]
  BY DEF CheckSub, CheckChan, Store, Discard
<1>4. HeldOK' /\ Held' \subseteq Held
  <2>1. CASE rbuf' = rbuf
    BY <2>1, Untouched DEF PathInv
  <2>2. CASE rbuf' = [rbuf EXCEPT ![c] = <<>>]
    <3>1. Elems(<<>>) = {} /\ Rises(<<>>)
      BY ElemsOf
    <3>2. HeldOK' /\ Held' \subseteq Held \cup Elems(<<>>)
      BY <2>2, <3>1, HeldChunk DEF PathInv
    <3> QED
      BY <3>1, <3>2
  <2> QED
    BY <1>3, <2>1, <2>2
<1>5. /\ WappOK' /\ AtWapp' = AtWapp /\ LineOK' /\ OnLine' = OnLine
      /\ BoardOK' /\ OnBoard' = OnBoard
  BY <1>1, <1>2, Untouched DEF PathInv
<1>6. WayOK' /\ GivenOK'
  BY <1>1, <1>4, <1>5, WayLost DEF PathInv
<1> QED
  BY <1>4, <1>5, <1>6 DEF PathInv

LEMMA PublishWay ==
    ASSUME IInv, PathInv, NEW c \in Channels, Publish(c)
    PROVE  PathInv'
<1> DEFINE q == rbuf[c]
           b == Head(rbuf[c])
<1>1. /\ q \in Seq(Byte) /\ q # <<>> /\ ring[head] = b
      /\ rbuf' = [rbuf EXCEPT ![c] = Tail(q)]
  BY DEF IInv, TypeOK, ReaderOK, Publish, At
<1>2. queueBar' = Append(queueBar, b) /\ queueBar \in Seq(Byte) /\ b \in Byte
  BY <1>1, PublishQueue DEF IInv, SlotsOK
<1>3. UNCHANGED <<given, got, buf, up, part>>
  BY DEF Publish, Runs, wappVars, serverVars
<1>4. /\ b \in Elems(q) /\ Elems(Tail(q)) \subseteq Elems(q)
      /\ Rises(Tail(q)) /\ Before({b}, Elems(Tail(q)))
      /\ b.chan = c /\ Elems(q) \subseteq Held
  <2>1. Rises(q) /\ \A x \in Elems(q) : x.chan = c
    BY DEF PathInv, HeldOK
  <2>2. /\ b \in Elems(q) /\ Elems(Tail(q)) \subseteq Elems(q)
        /\ Rises(Tail(q)) /\ Before({b}, Elems(Tail(q)))
    BY <1>1, <2>1, OfTail
  <2> QED
    BY <2>1, <2>2, PlacesType
<1>5. \A x \in Elems(Tail(q)) : x.chan = c
  BY <1>4 DEF PathInv, HeldOK
<1> HIDE DEF q, b
<1>6. /\ HeldOK' /\ Held' \subseteq Held
      /\ \A x \in Held' : x.chan = c => x \in Elems(Tail(q))
  <2>1. /\ HeldOK' /\ Held' \subseteq Held \cup Elems(Tail(q))
        /\ \A x \in Held' : x.chan = c => x \in Elems(Tail(q))
    BY <1>1, <1>4, <1>5, HeldChunk DEF PathInv
  <2> QED
    BY <1>4, <2>1
<1>7. Before({b}, Held') /\ b \in Held
  BY <1>4, <1>6 DEF Before
<1>8. Before(Elems(part) \cup Elems(queueBar), {b})
  BY <1>7 DEF PathInv, WayOK, OnBoard, Before
<1>9. Elems(queueBar') = Elems(queueBar) \cup {b} /\ Rises(queueBar')
  <2>1. Rises(queueBar) /\ Before(Elems(queueBar), {b})
    BY <1>8 DEF PathInv, BoardOK, Before
  <2> QED
    BY <1>2, <2>1, OfAppend
<1>10. Rises(part') /\ Elems(part') = Elems(part)
  BY <1>3 DEF PathInv, BoardOK
<1>11. OnBoard' = OnBoard \cup {b}
  <2>1. OnBoard' = Elems(part') \cup Elems(queueBar')
    BY DEF OnBoard, Elems
  <2> QED
    BY <1>9, <1>10, <2>1 DEF OnBoard
<1>12. BoardOK'
  <2>1. Before(Elems(part'), Elems(queueBar'))
    BY <1>8, <1>9, <1>10 DEF PathInv, BoardOK, Before
  <2> QED
    BY <1>9, <1>10, <2>1 DEF BoardOK, Rises, Before, Elems
<1>13. WappOK' /\ AtWapp' = AtWapp /\ LineOK' /\ OnLine' = OnLine
  BY <1>3, Untouched DEF PathInv
<1>14. WayOK' /\ GivenOK'
  <2>1. /\ AtWapp' \subseteq AtWapp /\ OnLine' \subseteq OnLine
        /\ OnBoard' \subseteq OnBoard \cup {b} /\ Held' \subseteq Held
        /\ WayOK /\ GivenOK /\ given' = given
    BY <1>3, <1>6, <1>11, <1>13 DEF PathInv
  <2> QED
    BY <1>7, <2>1, WayPut
<1> QED
  BY <1>6, <1>12, <1>13, <1>14 DEF PathInv

LEMMA FetchWay ==
    ASSUME IInv, PathInv, Fetch
    PROVE  PathInv'
<1> DEFINE b == Head(queueBar)
<1>1. /\ queueBar \in Seq(Byte) /\ queueBar # <<>> /\ part \in Seq(Byte)
      /\ queueBar' = Tail(queueBar) /\ part' = Append(part, b)
  BY FetchQueue DEF IInv, SlotsOK, TypeOK
<1>2. UNCHANGED <<given, got, buf, up, rbuf>>
  BY DEF Fetch, ServerOnly, wappVars, deviceVars
<1>3. Rises(part) /\ Rises(queueBar) /\ Before(Elems(part), Elems(queueBar))
  BY DEF PathInv, BoardOK
<1>4. /\ b \in Elems(queueBar) /\ Elems(queueBar') \subseteq Elems(queueBar)
      /\ Rises(queueBar') /\ Before({b}, Elems(queueBar')) /\ b \in Byte
  BY <1>1, <1>3, OfTail, ElemsOf
<1> HIDE DEF b
<1>5. Elems(part') = Elems(part) \cup {b} /\ Rises(part')
  <2>1. Before(Elems(part), {b})
    BY <1>3, <1>4 DEF Before
  <2> QED
    BY <1>1, <1>3, <1>4, <2>1, OfAppend
<1>6. Before(Elems(part'), Elems(queueBar'))
  BY <1>3, <1>4, <1>5 DEF Before
<1>7. BoardOK'
  BY <1>4, <1>5, <1>6 DEF BoardOK, Rises, Before, Elems
<1>8. OnBoard' \subseteq OnBoard
  <2>1. OnBoard' = Elems(part') \cup Elems(queueBar')
    BY DEF OnBoard, Elems
  <2> QED
    BY <1>4, <1>5, <2>1 DEF OnBoard
<1>9. /\ WappOK' /\ AtWapp' = AtWapp /\ LineOK' /\ OnLine' = OnLine
      /\ HeldOK' /\ Held' = Held
  BY <1>2, Untouched DEF PathInv
<1>10. WayOK' /\ GivenOK'
  BY <1>2, <1>8, <1>9, WayLost DEF PathInv
<1> QED
  BY <1>7, <1>9, <1>10 DEF PathInv

LEMMA SendPushWay ==
    ASSUME IInv, PathInv, SendPush
    PROVE  PathInv'
<1> DEFINE f == [op |-> "push", chan |-> chan, data |-> part]
           B == Elems(part)
<1>1. /\ up' = Append(up, f) /\ part' = <<>> /\ f \in Push
      /\ queueBar' = queueBar
  <2>1. spc = "fetch" /\ chan \in Channels /\ part \in Seq(Byte)
    BY DEF SendPush, IInv, ServerOK, TypeOK
  <2>2. UNCHANGED <<ring, head, tail>> /\ spc # "advance" /\ spc' # "advance"
    BY DEF SendPush, ServerOnly
  <2> QED
    BY <2>1, <2>2, QueueStays DEF SendPush, Send, Push
<1>2. UNCHANGED <<given, got, buf, rbuf>>
  BY DEF SendPush, ServerOnly, wappVars, deviceVars
<1>3. Sent(f) = B /\ f.op = "push" /\ f.data = part
  BY DEF Sent
<1>4. B \subseteq OnBoard /\ Rises(part) /\ Before(B, Elems(queueBar))
  BY DEF PathInv, BoardOK, OnBoard
<1>5. Before(OnLine, Sent(f))
  BY <1>3, <1>4 DEF PathInv, WayOK, Before
<1> HIDE DEF f, B
<1>6. LineOK' /\ OnLine' = OnLine \cup B
  BY <1>1, <1>3, <1>4, <1>5, LineAppend DEF PathInv
<1>7. Elems(part') = {} /\ Rises(part')
  BY <1>1, ElemsOf
<1>8. OnBoard' = Elems(queueBar)
  <2>1. OnBoard' = Elems(part') \cup Elems(queueBar')
    BY DEF OnBoard, Elems
  <2> QED
    BY <1>1, <1>7, <2>1
<1>9. BoardOK'
  <2>1. Rises(queueBar') /\ Before(Elems(part'), Elems(queueBar'))
    BY <1>1, <1>7 DEF PathInv, BoardOK, Before
  <2> QED
    BY <1>7, <2>1 DEF BoardOK, Rises, Before, Elems
<1>10. WappOK' /\ AtWapp' = AtWapp /\ HeldOK' /\ Held' = Held
  BY <1>2, Untouched DEF PathInv
<1>11. WayOK' /\ GivenOK'
  <2>1. Before(B, OnBoard') /\ OnBoard' \subseteq OnBoard
    BY <1>4, <1>8 DEF OnBoard
  <2> QED
    BY <1>2, <1>4, <1>6, <1>10, <2>1, WaySent DEF PathInv
<1> QED
  BY <1>6, <1>9, <1>10, <1>11 DEF PathInv

\* A buffer or what a client has changes under one name.
LEMMA WappChange ==
    ASSUME IInv, WappOK, NEW c \in Channels, NEW q, NEW g,
           buf' = [buf EXCEPT ![c] = q], got' = [got EXCEPT ![c] = g],
           Rises(q), Rises(g), Before(Elems(g), Elems(q)),
           \A d \in Channels \ {c} : (Elems(g) \cup Elems(q)) \cap Under(d) = {}
    PROVE  WappOK' /\ AtWapp' \subseteq AtWapp \cup Elems(g) \cup Elems(q)
<1>1. /\ buf'[c] = q /\ got'[c] = g
      /\ \A d \in Channels \ {c} : buf'[d] = buf[d] /\ got'[d] = got[d]
  BY DEF IInv, TypeOK
<1> DEFINE there(d) == Elems(got'[d]) \cup Elems(buf'[d])
<1>2. there(c) = Elems(g) \cup Elems(q) /\ \A d \in Channels \ {c} : there(d) = Under(d)
  BY <1>1 DEF Under
<1>3. \A d \in Channels : Under(d)' = there(d)
  BY DEF Under, Elems
<1>4. AtWapp' \subseteq AtWapp \cup Elems(g) \cup Elems(q)
  <2>1. AtWapp' = UNION {there(d) : d \in Channels}
    BY DEF AtWapp, Under, Elems
  <2> HIDE DEF there
  <2> QED
    BY <1>2, <2>1 DEF AtWapp
<1>5. \A d \in Channels : Rises(got'[d]) /\ Rises(buf'[d]) /\ Before(Elems(got'[d]), Elems(buf'[d]))
  BY <1>1 DEF WappOK
<1> HIDE DEF there
<1>6. \A d, e \in Channels : d # e => there(d) \cap there(e) = {}
  BY <1>2 DEF WappOK
<1>7. WappOK'
  <2>1. \A d, e \in Channels : d # e => Under(d)' \cap Under(e)' = {}
    BY <1>3, <1>6
  <2> QED
    BY <1>5, <2>1 DEF WappOK, Under, Rises, Before, Elems
<1> QED
  BY <1>4, <1>7

LEMMA GotSame == ASSUME IInv, NEW c \in Channels PROVE got = [got EXCEPT ![c] = got[c]]
BY DEF IInv, TypeOK

LEMMA WappClears ==
    ASSUME IInv, WappOK, NEW c \in Channels, Clear(c), got' = got
    PROVE  WappOK' /\ AtWapp' \subseteq AtWapp
<1>1. buf' = [buf EXCEPT ![c] = <<>>] /\ got' = [got EXCEPT ![c] = got[c]]
  BY GotSame DEF Clear
<1>2. Elems(<<>>) = {} /\ Rises(<<>>)
  BY ElemsOf
<1>3. Rises(got[c]) /\ Before(Elems(got[c]), Elems(<<>>))
  BY <1>2 DEF WappOK, Before
<1>4. \A d \in Channels \ {c} : (Elems(got[c]) \cup Elems(<<>>)) \cap Under(d) = {}
  BY <1>2 DEF WappOK, Under
<1>5. WappOK' /\ AtWapp' \subseteq AtWapp \cup Elems(got[c]) \cup Elems(<<>>)
  BY <1>1, <1>2, <1>3, <1>4, WappChange
<1>6. Elems(got[c]) \subseteq AtWapp
  BY DEF AtWapp, Under
<1> QED
  BY <1>2, <1>5, <1>6

LEMMA ReadChannelWay ==
    ASSUME IInv, PathInv, NEW c \in Channels, ReadChannel(c)
    PROVE  PathInv'
<1> DEFINE g == got[c] \o buf[c]
<1>1. buf' = [buf EXCEPT ![c] = <<>>] /\ got' = [got EXCEPT ![c] = g]
  BY DEF ReadChannel, Clear
<1>2. Elems(<<>>) = {} /\ Rises(<<>>)
  BY ElemsOf
<1>3. Elems(g) = Under(c) /\ Rises(g)
  <2>1. got[c] \in Seq(Byte) /\ buf[c] \in Seq(Byte)
    BY DEF IInv, TypeOK
  <2>2. Rises(got[c]) /\ Rises(buf[c]) /\ Before(Elems(got[c]), Elems(buf[c]))
    BY DEF PathInv, WappOK
  <2> QED
    BY <2>1, <2>2, OfConcat DEF Under
<1> HIDE DEF g
<1>4. Before(Elems(g), {}) /\ \A d \in Channels \ {c} : Elems(g) \cap Under(d) = {}
  BY <1>3 DEF PathInv, WappOK, Before
<1>5. WappOK' /\ AtWapp' \subseteq AtWapp
  <2>1. WappOK' /\ AtWapp' \subseteq AtWapp \cup Elems(g) \cup Elems(<<>>)
    BY <1>1, <1>2, <1>3, <1>4, WappChange DEF PathInv
  <2>2. Under(c) \subseteq AtWapp
    BY PlacesType
  <2> QED
    BY <1>2, <1>3, <2>1, <2>2
<1>6. UNCHANGED <<given, up, part, queueBar, rbuf>>
  BY DEF ReadChannel, deviceVars, ringVars, serverVars, queueBar, First
<1>7. /\ LineOK' /\ OnLine' = OnLine /\ BoardOK' /\ OnBoard' = OnBoard
      /\ HeldOK' /\ Held' = Held
  BY <1>6, Untouched DEF PathInv
<1>8. WayOK' /\ GivenOK'
  BY <1>5, <1>6, <1>7, WayLost DEF PathInv
<1> QED
  BY <1>5, <1>7, <1>8 DEF PathInv

\* What the buffer keeps of a push and of what it had.
LEMMA KeptRises ==
    ASSUME IInv, NEW c \in Channels, NEW data \in Seq(Byte),
           Rises(buf[c]), Rises(data), Before(Elems(buf[c]), Elems(data))
    PROVE  /\ Elems(Kept(c, data)) \subseteq Elems(buf[c]) \cup Elems(data)
           /\ Rises(Kept(c, data))
<1> DEFINE old == buf[c]
           len == Len(buf[c]) - Over(c, data)
           s   == Newest(old, len)
<1>1. old \in Seq(Byte) /\ Len(old) \in Nat /\ Len(data) \in Nat /\ Over(c, data) \in Nat
  <2>1. old \in Seq(Byte)
    BY DEF IInv, TypeOK
  <2>2. Over(c, data) \in Nat
    BY KeptType DEF IInv
  <2> QED
    BY <2>1, <2>2
<1>2. len \in Int /\ len <= Len(old)
  BY <1>1
<1>3. CASE Len(data) >= CHANNEL_BUF
  BY <1>1, <1>3, OfNewest DEF Kept
<1>4. CASE ~(Len(data) >= CHANNEL_BUF)
  <2>1. Kept(c, data) = s \o data
    BY <1>4 DEF Kept
  <2> HIDE DEF len
  <2>2. s \in Seq(Byte) /\ Elems(s) \subseteq Elems(old) /\ Rises(s)
    BY <1>1, <1>2, NewestType, OfNewest
  <2> HIDE DEF s
  <2>3. Before(Elems(s), Elems(data))
    BY <2>2 DEF Before
  <2>4. Elems(s \o data) = Elems(s) \cup Elems(data) /\ Rises(s \o data)
    BY <2>2, <2>3, OfConcat
  <2> QED
    BY <2>1, <2>2, <2>4
<1> QED
  BY <1>3, <1>4

LEMMA FillWay ==
    ASSUME IInv, PathInv, NEW c \in Channels, NEW data \in Seq(Byte),
           Fill(c, data), got' = got, Rises(data), Before(AtWapp, Elems(data)),
           Elems(data) \subseteq Byte
    PROVE  WappOK' /\ AtWapp' \subseteq AtWapp \cup Elems(data)
<1> DEFINE q == Kept(c, data)
<1>1. buf' = [buf EXCEPT ![c] = q] /\ got' = [got EXCEPT ![c] = got[c]]
  BY GotSame DEF Fill
<1>2. /\ Rises(got[c]) /\ Rises(buf[c]) /\ Before(Elems(got[c]), Elems(buf[c]))
      /\ Under(c) \subseteq AtWapp
  BY PlacesType DEF PathInv, WappOK
<1>3. Before(Elems(buf[c]), Elems(data)) /\ Before(Elems(got[c]), Elems(data))
  BY <1>2 DEF Under, Before
<1>4. Elems(q) \subseteq Elems(buf[c]) \cup Elems(data) /\ Rises(q)
  BY <1>2, <1>3, KeptRises
<1> HIDE DEF q
<1>5. Before(Elems(got[c]), Elems(q))
  BY <1>2, <1>3, <1>4 DEF Before
<1>6. ASSUME NEW d \in Channels \ {c}
      PROVE  (Elems(got[c]) \cup Elems(q)) \cap Under(d) = {}
  <2>1. Under(c) \cap Under(d) = {}
    BY DEF PathInv, WappOK
  <2>2. Elems(data) \cap Under(d) = {}
    <3>1. Under(d) \subseteq AtWapp
      BY PlacesType
    <3>2. \A b \in Byte : b.n \in Int
      BY DEF Byte
    <3> QED
      BY <3>1, <3>2 DEF Before
  <2> QED
    BY <1>4, <2>1, <2>2 DEF Under
<1>7. WappOK' /\ AtWapp' \subseteq AtWapp \cup Elems(got[c]) \cup Elems(q)
  BY <1>1, <1>2, <1>4, <1>5, <1>6, WappChange DEF PathInv
<1>8. Elems(got[c]) \cup Elems(q) \subseteq AtWapp \cup Elems(data)
  BY <1>2, <1>4 DEF Under
<1> QED
  BY <1>7, <1>8

LEMMA PumpWay ==
    ASSUME IInv, PathInv, Pump
    PROVE  PathInv'
<1> DEFINE f == Head(up)
<1>1. up \in Seq(Reply \cup Push) /\ up # <<>> /\ up' = Tail(up)
  BY DEF Pump, IInv, TypeOK
<1>2. f \in Reply \cup Push /\ f = up[1] /\ 1 \in DOMAIN up
  BY <1>1, HeadTailProperties, EmptySeq
<1>3. LineOK' /\ OnLine' \subseteq OnLine /\ Before(Sent(f), OnLine')
  BY <1>1, LineTail DEF PathInv
<1>4. UNCHANGED <<given, got, part, queueBar, rbuf>>
  BY DEF Pump, deviceVars, ringVars, serverVars, queueBar, First
<1>5. BoardOK' /\ OnBoard' = OnBoard /\ HeldOK' /\ Held' = Held
  BY <1>4, Untouched DEF PathInv
<1>6. Sent(f) \subseteq OnLine
  BY <1>2, PlacesType
<1>7. WappOK' /\ AtWapp' \subseteq AtWapp \cup Sent(f)
  <2>1. CASE f.op = "push" /\ Fill(f.chan, f.data)
    <3>1. f.chan \in Channels /\ f.data \in Seq(Byte) /\ Sent(f) = Elems(f.data)
      BY <1>2, <2>1 DEF Reply, Push, Sent
    <3>2. Rises(f.data)
      BY <1>2, <2>1 DEF PathInv, LineOK
    <3>3. Before(AtWapp, Elems(f.data))
      BY <1>6, <3>1 DEF PathInv, WayOK, Before
    <3>4. Elems(f.data) \subseteq Byte
      BY <1>6, <3>1, PlacesType
    <3> HIDE DEF f
    <3> QED
      BY <1>4, <2>1, <3>1, <3>2, <3>3, <3>4, FillWay
  <2>2. CASE buf' = buf
    BY <1>4, <2>2, Untouched DEF PathInv
  <2>3. CASE waiting # <<>> /\ Clear(waiting[1].chan)
    <3>1. waiting[1] \in Request
      BY <2>3, EmptySeq DEF IInv, TypeOK
    <3>2. waiting[1].chan \in Channels
      BY <3>1 DEF Request
    <3> QED
      BY <1>4, <2>3, <3>2, WappClears DEF PathInv
  <2>4. \/ f.op = "push" /\ Fill(f.chan, f.data)
        \/ buf' = buf
        \/ waiting # <<>> /\ Clear(waiting[1].chan)
    BY DEF Pump, IsAnswer, TakeReply
  <2> QED
    BY <2>1, <2>2, <2>3, <2>4
<1>8. WayOK' /\ GivenOK'
  BY <1>3, <1>4, <1>5, <1>6, <1>7, WayFetched DEF PathInv
<1> QED
  BY <1>3, <1>5, <1>7, <1>8 DEF PathInv

\* A reply brings no bytes, and a lost frame takes them away.
LEMMA LineWay ==
    ASSUME IInv, PathInv, OnFrame \/ Lose
    PROVE  PathInv'
<1>1. UNCHANGED <<given, got, buf, part, rbuf>>
  BY DEF OnFrame, Lose, deviceVars, serverVars, wappVars
<1>2. queueBar' = queueBar
  <2>1. CASE OnFrame
    <3>1. UNCHANGED <<ring, head, tail>> /\ spc # "advance" /\ spc' # "advance"
      BY <2>1 DEF OnFrame, ToDrain, ringVars
    <3> QED
      BY <3>1, QueueStays
  <2>2. CASE Lose
    BY <2>2 DEF Lose, ringVars, serverVars, queueBar, First
  <2> QED
    BY <2>1, <2>2
<1>3. LineOK' /\ OnLine' \subseteq OnLine
  <2>1. CASE OnFrame
    <3>1. PICK ok \in BOOLEAN : Send([op |-> IF ok THEN "ack" ELSE "nack", id |-> Head(down).id])
      BY <2>1 DEF OnFrame
    <3>2. PICK op \in {"ack", "nack"} : op = IF ok THEN "ack" ELSE "nack"
      OBVIOUS
    <3> DEFINE f == [op |-> op, id |-> Head(down).id]
    <3>3. Head(down).id \in 1 .. MaxAsks
      BY <2>1, OnFrameBoard DEF IInv, Request
    <3>4. f \in Reply /\ f.op # "push" /\ up' = Append(up, f)
      BY <3>1, <3>2, <3>3 DEF Reply, Send
    <3>5. Sent(f) = {} /\ Before(OnLine, {})
      BY <3>4 DEF Sent, Before
    <3> HIDE DEF f
    <3>6. LineOK' /\ OnLine' = OnLine \cup Sent(f)
      BY <3>4, <3>5, LineAppend DEF PathInv
    <3> QED
      BY <3>5, <3>6
  <2>2. CASE Lose
    BY <2>2, Untouched, LineTail DEF Lose, PathInv
  <2> QED
    BY <2>1, <2>2
<1>4. /\ WappOK' /\ AtWapp' = AtWapp /\ BoardOK' /\ OnBoard' = OnBoard
      /\ HeldOK' /\ Held' = Held
  BY <1>1, <1>2, Untouched DEF PathInv
<1>5. WayOK' /\ GivenOK'
  BY <1>1, <1>3, <1>4, WayLost DEF PathInv
<1> QED
  BY <1>3, <1>4, <1>5 DEF PathInv

LEMMA StillWay ==
    ASSUME PathInv, UNCHANGED <<given, got, buf, up, part, queueBar, rbuf>>
    PROVE  PathInv'
<1>1. /\ WappOK' /\ AtWapp' = AtWapp /\ LineOK' /\ OnLine' = OnLine
      /\ BoardOK' /\ OnBoard' = OnBoard /\ HeldOK' /\ Held' = Held
  BY Untouched DEF PathInv
<1>2. WayOK' /\ GivenOK'
  BY <1>1, WayLost DEF PathInv
<1> QED
  BY <1>1, <1>2 DEF PathInv

LEMMA InitPath == ASSUME Init PROVE PathInv
<1>1. /\ \A c \in Channels : got[c] = <<>> /\ buf[c] = <<>> /\ rbuf[c] = <<>>
      /\ up = <<>> /\ part = <<>>
  BY DEF Init
<1>2. queueBar = <<>>
  <2>1. First = head /\ ring \in [Slots -> Slot] /\ head \in Slots
    BY InitIInv, FirstType DEF Init, IInv, First
  <2>2. Len(queueBar) = 0 /\ queueBar \in Seq(Slot)
    BY <2>1, NothingQueued
  <2> QED
    BY <2>2, EmptySeq
<1>3. Elems(<<>>) = {} /\ Rises(<<>>)
  BY ElemsOf
<1>4. AtWapp = {} /\ OnBoard = {} /\ Held = {} /\ \A c \in Channels : Under(c) = {}
  BY <1>1, <1>2, <1>3 DEF AtWapp, Under, OnBoard, Held
<1>5. OnLine = {} /\ LineOK
  BY <1>1 DEF OnLine, LineOK
<1>6. WappOK /\ BoardOK /\ HeldOK
  BY <1>1, <1>2, <1>3, <1>4 DEF WappOK, BoardOK, HeldOK, Before
<1> QED
  BY <1>4, <1>5, <1>6 DEF PathInv, WayOK, GivenOK, Before

LEMMA PathStep ==
    ASSUME IInv, PathInv, [Next]_vars
    PROVE  PathInv'
<1>1. CASE Timeout \/ Drain \/ Advance \/ Attempt \/ GiveUp
  <2>1. queueBar' = queueBar
    <3>1. CASE Advance
      BY <3>1, AdvanceQueue
    <3>2. CASE Timeout \/ Drain
      <4>1. UNCHANGED <<ring, head, tail>> /\ spc # "advance" /\ spc' # "advance"
        BY <3>2 DEF Timeout, Drain, ServerOnly, ringVars
      <4> QED
        BY <4>1, QueueStays
    <3>3. CASE Attempt \/ GiveUp
      BY <3>3 DEF Attempt, GiveUp, ringVars, serverVars, queueBar, First
    <3> QED
      BY <1>1, <3>1, <3>2, <3>3
  <2>2. UNCHANGED <<given, got, buf, up, part, rbuf>>
    BY <1>1 DEF Timeout, Drain, Advance, Attempt, GiveUp, ServerOnly, deviceVars, serverVars, wappVars
  <2> QED
    BY <2>1, <2>2, StillWay
<1>2. ASSUME NEW c \in Channels, NEW kind \in Kinds, Ask(kind, c)
      PROVE  PathInv'
  <2>1. UNCHANGED <<given, got, buf, up, part, queueBar, rbuf>>
    BY <1>2 DEF Ask, deviceVars, ringVars, serverVars, queueBar, First
  <2> QED
    BY <2>1, StillWay
<1>3. CASE UNCHANGED vars
  <2>1. UNCHANGED <<given, got, buf, up, part, queueBar, rbuf>>
    BY <1>3 DEF vars, deviceVars, ringVars, serverVars, wappVars, queueBar, First
  <2> QED
    BY <2>1, StillWay
<1> QED
  BY <1>1, <1>2, <1>3, ReadWay, DiscardWay, PublishWay, FetchWay, SendPushWay, PumpWay,
     LineWay, ReadChannelWay DEF Next, Server

\* Bytes of a device reach a client in the order the device gave them, and none
\* reaches two reads or two channels (ipc_chan_put, ipc_chan_take, channel_fill,
\* route_read).
THEOREM BytesReachOnceInOrder == Spec => []BytesOnceInOrder
<1>1. Init => PathInv
  BY InitPath
<1>2. IInv /\ PathInv /\ [Next]_vars => PathInv'
  BY PathStep
<1>3. PathInv => BytesOnceInOrder
  BY DEF PathInv, WappOK, BytesOnceInOrder, Rises, Under
<1> QED
  BY <1>1, <1>2, <1>3, RingHoldsBytes, PTL DEF Spec
=============================================================================
