-------------------------------- MODULE OtaProofs ---------------------------
(***************************************************************************)
(* Proofs about Ota, for every length of the image, of a write and of a    *)
(* word, for any number of runs and of resets of the board.                *)
(***************************************************************************)
EXTENDS Ota, SequenceTheorems, WellFoundedInduction, TLAPS

USE OtaAssumption

-----------------------------------------------------------------------------
(* Whole words.                                                            *)

LEMMA Division ==
    ASSUME NEW n \in Nat
    PROVE  /\ n \div WORD \in Nat /\ n % WORD \in 0 .. WORD - 1
           /\ n = WORD * (n \div WORD) + (n % WORD)
OBVIOUS

LEMMA ProductGrows ==
    ASSUME NEW w \in Nat, NEW a \in Nat, NEW b \in Nat, a < b
    PROVE  w * a + w <= w * b
<1> DEFINE d == b - a - 1
<1>1. d \in Nat /\ b = a + 1 + d
  OBVIOUS
<1> HIDE DEF d
<1>2. w * (a + 1 + d) = w * a + w + w * d
  BY <1>1
<1>3. w * d \in Nat
  BY <1>1
<1> QED
  BY <1>1, <1>2, <1>3

LEMMA QuotientIs ==
    ASSUME NEW n \in Nat, NEW q \in Nat, NEW r \in 0 .. WORD - 1, n = WORD * q + r
    PROVE  n \div WORD = q /\ n % WORD = r
<1> DEFINE p == n \div WORD
           s == n % WORD
<1>1. p \in Nat /\ s \in 0 .. WORD - 1 /\ n = WORD * p + s
  BY Division
<1> HIDE DEF p, s
<1>2. ~(p < q)
  <2> SUFFICES ASSUME p < q PROVE FALSE
    OBVIOUS
  <2>1. WORD * p + WORD <= WORD * q
    BY <1>1, ProductGrows
  <2>2. WORD * p \in Nat /\ WORD * q \in Nat
    BY <1>1
  <2> QED
    BY <1>1, <2>1, <2>2
<1>3. ~(q < p)
  <2> SUFFICES ASSUME q < p PROVE FALSE
    OBVIOUS
  <2>1. WORD * q + WORD <= WORD * p
    BY <1>1, ProductGrows
  <2>2. WORD * p \in Nat /\ WORD * q \in Nat
    BY <1>1
  <2> QED
    BY <1>1, <2>1, <2>2
<1>4. p = q
  BY <1>1, <1>2, <1>3
<1>5. s = r
  <2>1. WORD * q \in Nat
    OBVIOUS
  <2> QED
    BY <1>1, <1>4, <2>1
<1> QED
  BY <1>4, <1>5 DEF p, s

\* The next whole word.
LEMMA PaddedIs ==
    ASSUME NEW n \in Nat
    PROVE  /\ Padded(n) \in Nat /\ n <= Padded(n) /\ Padded(n) < n + WORD
           /\ \E q \in Nat : Padded(n) = WORD * q
<1> DEFINE m == n + WORD - 1
           q == m \div WORD
           r == m % WORD
<1>1. m \in Nat /\ n = m + 1 - WORD
  OBVIOUS
<1>2. q \in Nat /\ r \in 0 .. WORD - 1 /\ m = WORD * q + r
  BY <1>1, Division
<1>3. Padded(n) = q * WORD
  BY DEF Padded
<1> HIDE DEF m, q, r
<1>4. q * WORD = WORD * q /\ WORD * q \in Nat
  BY <1>2
<1>5. n <= WORD * q /\ WORD * q < n + WORD
  BY <1>1, <1>2, <1>4
<1> QED
  BY <1>2, <1>3, <1>4, <1>5

\* It is the only one between n and n + WORD.
LEMMA PaddedOnly ==
    ASSUME NEW n \in Nat, NEW q \in Nat, n <= WORD * q, WORD * q < n + WORD
    PROVE  Padded(n) = WORD * q
<1>1. PICK p \in Nat : Padded(n) = WORD * p /\ n <= WORD * p /\ WORD * p < n + WORD
  BY PaddedIs
<1>2. WORD * p \in Nat /\ WORD * q \in Nat
  OBVIOUS
<1>3. ~(p < q)
  <2> SUFFICES ASSUME p < q PROVE FALSE
    OBVIOUS
  <2>1. WORD * p + WORD <= WORD * q
    BY ProductGrows
  <2> QED
    BY <1>1, <1>2, <2>1
<1>4. ~(q < p)
  <2> SUFFICES ASSUME q < p PROVE FALSE
    OBVIOUS
  <2>1. WORD * q + WORD <= WORD * p
    BY ProductGrows
  <2> QED
    BY <1>1, <1>2, <2>1
<1> QED
  BY <1>1, <1>3, <1>4

LEMMA WholeIs ==
    ASSUME NEW n \in Nat
    PROVE  n % WORD = 0 <=> \E q \in Nat : n = WORD * q
<1>1. ASSUME n % WORD = 0
      PROVE  \E q \in Nat : n = WORD * q
  <2> DEFINE q == n \div WORD
  <2>1. q \in Nat /\ n = WORD * q + 0
    BY <1>1, Division
  <2> HIDE DEF q
  <2>2. WORD * q \in Nat
    BY <2>1
  <2> QED
    BY <2>1, <2>2
<1>2. ASSUME NEW q \in Nat, n = WORD * q
      PROVE  n % WORD = 0
  <2>1. n = WORD * q + 0 /\ 0 \in 0 .. WORD - 1
    BY <1>2
  <2> QED
    BY <2>1, QuotientIs
<1> QED
  BY <1>1, <1>2

\* Words before a part are words of the whole.
LEMMA PaddedAfter ==
    ASSUME NEW m \in Nat, m % WORD = 0, NEW n \in Nat
    PROVE  Padded(m + n) = m + Padded(n)
<1>1. PICK p \in Nat : m = WORD * p
  BY WholeIs
<1>2. PICK q \in Nat : Padded(n) = WORD * q /\ n <= WORD * q /\ WORD * q < n + WORD
  BY PaddedIs
<1>3. p + q \in Nat /\ WORD * (p + q) = WORD * p + WORD * q /\ WORD * q \in Nat
  OBVIOUS
<1>4. m + n \in Nat /\ m + n <= WORD * (p + q) /\ WORD * (p + q) < m + n + WORD
  BY <1>1, <1>2, <1>3
<1>5. Padded(m + n) = WORD * (p + q)
  BY <1>3, <1>4, PaddedOnly
<1> QED
  BY <1>1, <1>2, <1>3, <1>5

LEMMA PaddedZero == Padded(0) = 0
<1>1. 0 <= WORD * 0 /\ WORD * 0 < 0 + WORD /\ WORD * 0 = 0
  OBVIOUS
<1> QED
  BY <1>1, PaddedOnly

LEMMA PaddedWhole ==
    ASSUME NEW m \in Nat, m % WORD = 0
    PROVE  Padded(m) = m
BY PaddedZero, PaddedAfter

LEMMA WholeSum ==
    ASSUME NEW m \in Nat, m % WORD = 0, NEW n \in Nat, n % WORD = 0
    PROVE  (m + n) % WORD = 0
<1>1. PICK p \in Nat : m = WORD * p
  BY WholeIs
<1>2. PICK q \in Nat : n = WORD * q
  BY WholeIs
<1>3. p + q \in Nat /\ WORD * (p + q) = WORD * p + WORD * q
  OBVIOUS
<1> QED
  BY <1>1, <1>2, <1>3, WholeIs

LEMMA PaddedBelow ==
    ASSUME NEW m \in Nat, m % WORD = 0, NEW n \in Nat, n <= m
    PROVE  Padded(n) <= m
<1>1. PICK p \in Nat : m = WORD * p
  BY WholeIs
<1>2. PICK q \in Nat : Padded(n) = WORD * q /\ n <= WORD * q /\ WORD * q < n + WORD
  BY PaddedIs
<1>3. ~(p < q)
  <2> SUFFICES ASSUME p < q PROVE FALSE
    OBVIOUS
  <2>1. WORD * p + WORD <= WORD * q
    BY ProductGrows
  <2>2. WORD * p \in Nat /\ WORD * q \in Nat
    OBVIOUS
  <2> QED
    BY <1>1, <1>2, <2>1, <2>2
<1>4. CASE p = q
  BY <1>1, <1>2, <1>4
<1>5. CASE q < p
  <2>1. WORD * q + WORD <= WORD * p /\ WORD * q \in Nat /\ WORD * p \in Nat
    BY <1>5, ProductGrows
  <2> QED
    BY <1>1, <1>2, <2>1
<1> QED
  BY <1>3, <1>4, <1>5

\* What one read of the image puts into a part.
LEMMA PartIs ==
    ASSUME NEW o \in 0 .. LEN, o < LEN, o % WORD = 0,
           NEW k \in 1 .. CHUNK, k <= LEN - o, k = LEN - o \/ k % WORD = 0
    PROVE  /\ Padded(k) \in Nat /\ k <= Padded(k) /\ Padded(k) <= CHUNK
           /\ o + Padded(k) <= SIZE
           /\ o + k < LEN => (o + k) % WORD = 0 /\ o + Padded(k) = o + k
           /\ o + k = LEN => o + Padded(k) = SIZE
           /\ \A i \in 1 .. Padded(k) :
                 /\ o + i \in 1 .. SIZE
                 /\ (IF i <= k THEN o + i ELSE 0) = Image[o + i]
                 /\ (IF i <= k THEN o + i ELSE 0) \in 0 .. LEN
<1>1. o \in Nat /\ k \in Nat /\ o + k \in Nat /\ o + k <= LEN
  OBVIOUS
<1>2. Padded(k) \in Nat /\ k <= Padded(k) /\ Padded(k) <= CHUNK
  <2>1. Padded(k) \in Nat /\ k <= Padded(k)
    BY <1>1, PaddedIs
  <2>2. CHUNK \in Nat /\ CHUNK % WORD = 0 /\ k <= CHUNK
    OBVIOUS
  <2>3. Padded(k) <= CHUNK
    BY <1>1, <2>2, PaddedBelow
  <2> QED
    BY <2>1, <2>3
<1>3. CASE o + k < LEN
  <2>1. k % WORD = 0
    BY <1>1, <1>3
  <2>2. Padded(k) = k /\ (o + k) % WORD = 0
    BY <1>1, <2>1, PaddedWhole, WholeSum
  <2>3. LEN <= SIZE /\ SIZE \in Nat
    BY PaddedIs DEF SIZE
  <2>4. \A i \in 1 .. k : o + i \in 1 .. SIZE /\ o + i <= LEN /\ Image[o + i] = o + i
    BY <1>1, <2>3 DEF Image
  <2> QED
    BY <1>1, <1>2, <1>3, <2>2, <2>3, <2>4
<1>4. CASE o + k = LEN
  <2>1. o + Padded(k) = SIZE
    BY <1>1, <1>4, PaddedAfter DEF SIZE
  <2>2. ASSUME NEW i \in 1 .. Padded(k)
        PROVE  /\ o + i \in 1 .. SIZE
               /\ (IF i <= k THEN o + i ELSE 0) = Image[o + i]
               /\ (IF i <= k THEN o + i ELSE 0) \in 0 .. LEN
    <3>1. o + i \in 1 .. SIZE /\ (i <= k <=> o + i <= LEN)
      BY <1>1, <1>2, <1>4, <2>1
    <3>2. Image[o + i] = IF o + i <= LEN THEN o + i ELSE 0
      BY <3>1 DEF Image
    <3> QED
      BY <1>1, <3>1, <3>2
  <2> QED
    BY <1>1, <1>2, <1>4, <2>1, <2>2
<1> QED
  BY <1>1, <1>3, <1>4
-----------------------------------------------------------------------------
(* The places of a run.                                                    *)

Asks    == {"version", "version?"}
Takes   == {"enter", "enter?"}
Resets  == {"boot0", "nrst0", "nrst1"}
Syncs   == {"sync", "sync?"}
Gets    == {"get", "get?", "id?", "idend?"}
Erases  == {"erase", "erase?", "all", "all?"}
Writes  == {"write", "write?", "addr", "addr?", "data", "data?"}
Ends    == {"leave", "leave?", "recheck", "recheck?", "exit", "off"}
Flashes == Takes \cup Resets \cup Syncs \cup Gets \cup Erases \cup {"read"} \cup Writes

Message == [kind : Messages, at : 0 .. SIZE, bytes : Seq(0 .. LEN)]
Wire    == {"ack", "nack", "id"}
WireOK  == req \in Seq(Message) /\ line \in Seq(Wire)

\* A sync byte is sent while an attempt is left.
LeftOK == pc \in Syncs => left > 0

\* Where the wapp is in the image: whole words before it, and a part that ends
\* at the bytes read.
PlaceOK ==
    /\ pc \in Asks \cup (Flashes \ ({"read"} \cup Writes)) => off = 0 /\ addr = 0
    /\ pc = "read" => IF off < LEN THEN addr = off /\ off % WORD = 0 ELSE addr = SIZE
    /\ pc \in Writes =>
         /\ addr % WORD = 0 /\ addr < off /\ off - addr <= CHUNK
         /\ off < LEN => off % WORD = 0
         /\ Len(part) = Padded(off - addr)
         /\ \A i \in 1 .. Len(part) : part[i] = Image[addr + i]

\* A run has failed until it has written all.
CodeOK == /\ pc \in Flashes => rc = 1
          /\ pc \in Asks \cup {"recheck", "recheck?"} => rc = 0

PinsOK == /\ pc = "nrst1" => nrst = 0
          /\ ~cut /\ "pin" \notin faults =>
               /\ pc \in Asks \cup Takes \cup {"boot0"} \cup Ends => boot0 = 0 /\ nrst = 1 /\ mode = "app"
               /\ pc \in {"run1", "run2"} => boot0 = 0
               /\ pc = "run2" => nrst = 0

RunInv == TypeOK /\ WireOK /\ LeftOK /\ PlaceOK /\ CodeOK /\ PinsOK

-----------------------------------------------------------------------------
(* Types.                                                                  *)

Places == Waits \cup {"off", "version", "enter", "boot0", "nrst0", "nrst1", "sync", "get", "erase", "all",
                      "read", "write", "addr", "data", "run0", "run1", "run2",
                      "leave", "recheck", "exit"}
WappTypes ==
    /\ pc \in Places
    /\ rc \in 0 .. 1 /\ left \in 0 .. SYNC_TRIES + ASK_TRIES
    /\ off \in 0 .. LEN /\ addr \in 0 .. SIZE /\ part \in Seq(0 .. LEN) /\ Len(part) <= CHUNK
PinTypes == boot0 \in 0 .. 1 /\ nrst \in 0 .. 1 /\ mode \in {"app", "rom", "held"}
RomTypes ==
    /\ rom \in {"sync", "command", "all", "addr", "data"} /\ at \in 0 .. SIZE
    /\ flash \in [1 .. SIZE -> 0 .. LEN] /\ old \in BOOLEAN
LinkTypes == versioned \in BOOLEAN /\ ans \in Answers /\ raw \in BOOLEAN
CountTypes == /\ runs \in 0 .. MaxRuns /\ resets \in 0 .. MaxResets
              /\ cut \in BOOLEAN /\ faults \subseteq {"pin", "line"}

LEMMA TypesAre ==
    TypeOK <=> WappTypes /\ PinTypes /\ RomTypes /\ LinkTypes /\ CountTypes
BY DEF TypeOK, WappTypes, PinTypes, RomTypes, LinkTypes, CountTypes, Places

LEMMA SizeIs == SIZE \in Nat /\ LEN <= SIZE /\ LEN \in Nat \ {0} /\ SIZE # 0
<1>1. Padded(LEN) \in Nat /\ LEN <= Padded(LEN)
  BY PaddedIs
<1> QED
  BY <1>1 DEF SIZE

LEMMA ImageType == Image \in [1 .. SIZE -> 0 .. LEN] /\ Blank \in [1 .. SIZE -> 0 .. LEN]
BY SizeIs DEF Image, Blank

\* The bootloader, one message at a time.
LEMMA RomDoes ==
    ASSUME RomTypes, NEW m, Rom(m)
    PROVE  \/ /\ rom = "sync" /\ m.kind = "sync" /\ rom' = "command"
              /\ Says(<<"ack">>) /\ UNCHANGED <<at, flash, old>>
           \/ /\ rom = "command" /\ m.kind = "sync"
              /\ Says(<<"nack">>) /\ UNCHANGED <<rom, at, flash, old>>
           \/ /\ rom = "command" /\ m.kind = "get"
              /\ Says(<<"ack", "id", "ack">>) /\ UNCHANGED <<rom, at, flash, old>>
           \/ /\ rom = "command" /\ m.kind = "erase" /\ rom' = "all"
              /\ Says(<<"ack">>) /\ UNCHANGED <<at, flash, old>>
           \/ /\ rom = "command" /\ m.kind = "write" /\ rom' = "addr"
              /\ Says(<<"ack">>) /\ UNCHANGED <<at, flash, old>>
           \/ /\ rom = "all" /\ m.kind = "all" /\ rom' = "command" /\ UNCHANGED at
              /\ \/ flash' = Blank /\ old' = FALSE /\ Says(<<"ack">>)
                 \/ UNCHANGED <<flash, old>> /\ Says(<<"nack">>)
           \/ /\ rom = "addr" /\ m.kind = "addr" /\ rom' = "data" /\ at' = m.at
              /\ Says(<<"ack">>) /\ UNCHANGED <<flash, old>>
           \/ /\ rom = "data" /\ m.kind = "data" /\ rom' = "command" /\ UNCHANGED <<at, old>>
              /\ \/ /\ flash' = [i \in 1 .. SIZE |-> IF i > at /\ i <= at + Len(m.bytes)
                                                     THEN m.bytes[i - at] ELSE flash[i]]
                    /\ Says(<<"ack">>)
                 \/ UNCHANGED flash /\ Says(<<"nack">>)
           \/ UNCHANGED <<rom, at, flash, old, line>>
<1>1. CASE rom = "sync" /\ m.kind = "sync"
  BY <1>1 DEF Rom
<1>2. CASE rom = "command" /\ m.kind = "sync"
  BY <1>2 DEF Rom
<1>3. CASE rom = "command" /\ m.kind = "get"
  BY <1>3 DEF Rom
<1>4. CASE rom = "command" /\ m.kind = "erase"
  BY <1>4 DEF Rom
<1>5. CASE rom = "command" /\ m.kind = "write"
  BY <1>5 DEF Rom
<1>6. CASE rom = "all" /\ m.kind = "all"
  BY <1>6 DEF Rom
<1>7. CASE rom = "addr" /\ m.kind = "addr"
  BY <1>7 DEF Rom
<1>8. CASE rom = "data" /\ m.kind = "data"
  BY <1>8 DEF Rom
<1>9. CASE /\ ~(rom = "sync" /\ m.kind = "sync")
           /\ ~(rom = "command" /\ m.kind \in {"sync", "get", "erase", "write"})
           /\ ~(rom = "all" /\ m.kind = "all")
           /\ ~(rom = "addr" /\ m.kind = "addr")
           /\ ~(rom = "data" /\ m.kind = "data")
  BY <1>9 DEF Rom
<1> QED
  BY <1>1, <1>2, <1>3, <1>4, <1>5, <1>6, <1>7, <1>8, <1>9


LEMMA SaysType ==
    ASSUME line \in Seq(Wire), NEW bytes \in Seq(Wire), Says(bytes)
    PROVE  line' \in Seq(Wire)
BY ConcatProperties DEF Says

LEMMA BytesAre == /\ <<"ack">> \in Seq(Wire) /\ <<"nack">> \in Seq(Wire)
                  /\ <<"ack", "id", "ack">> \in Seq(Wire) /\ <<>> \in Seq(Wire)
BY DEF Wire

LEMMA RomKeepsTypes ==
    ASSUME RomTypes, line \in Seq(Wire), NEW m \in Message, Rom(m)
    PROVE  RomTypes' /\ line' \in Seq(Wire)
<1>1. line' \in Seq(Wire)
  BY RomDoes, SaysType, BytesAre
<1>2. m.at \in 0 .. SIZE /\ m.bytes \in Seq(0 .. LEN)
  BY DEF Message
<1>3. ASSUME flash' = [i \in 1 .. SIZE |-> IF i > at /\ i <= at + Len(m.bytes)
                                           THEN m.bytes[i - at] ELSE flash[i]]
      PROVE  flash' \in [1 .. SIZE -> 0 .. LEN]
  <2>1. ASSUME NEW i \in 1 .. SIZE, i > at, i <= at + Len(m.bytes)
        PROVE  m.bytes[i - at] \in 0 .. LEN
    <3>1. i - at \in 1 .. Len(m.bytes)
      BY <1>2, <2>1, SizeIs DEF RomTypes
    <3> QED
      BY <1>2, <3>1
  <2> QED
    BY <1>3, <2>1 DEF RomTypes
<1>4. flash' \in [1 .. SIZE -> 0 .. LEN]
  BY <1>3, RomDoes, ImageType DEF RomTypes
<1>5. rom' \in {"sync", "command", "all", "addr", "data"} /\ old' \in BOOLEAN
  BY RomDoes DEF RomTypes
<1>6. at' \in 0 .. SIZE
  BY <1>2, RomDoes DEF RomTypes
<1> QED
  BY <1>1, <1>4, <1>5, <1>6 DEF RomTypes

LEMMA BoardAtKeeps ==
    ASSUME RomTypes, NEW b, NEW n, BoardAt(b, n)
    PROVE  RomTypes' /\ mode' \in {"app", "rom", "held"} /\ line' = <<>>
BY SizeIs DEF BoardAt, RomTypes

-----------------------------------------------------------------------------
(* The steps of the wapp keep the invariant of its run.                    *)

LEMMA PutIs ==
    ASSUME WappTypes, WireOK, NEW kind \in Messages, NEW bytes \in Seq(0 .. LEN), Put(kind, bytes)
    PROVE  req' \in Seq(Message)
<1>1. [kind |-> kind, at |-> addr, bytes |-> bytes] \in Message
  BY DEF Message, WappTypes
<1> QED
  BY <1>1, AppendProperties DEF Put, WireOK

LEMMA TailIs ==
    ASSUME WireOK, line # <<>>
    PROVE  Tail(line) \in Seq(Wire)
BY HeadTailProperties DEF WireOK

LEMMA TypesAfter ==
    TypeOK' <=> WappTypes' /\ PinTypes' /\ RomTypes' /\ LinkTypes' /\ CountTypes'
BY DEF TypeOK, WappTypes, PinTypes, RomTypes, LinkTypes, CountTypes, Places

LEMMA NoBytes == <<>> \in Seq(0 .. LEN)
OBVIOUS

LEMMA AskVersionRun ==
    ASSUME RunInv, AskVersion
    PROVE  RunInv'
<1> USE DEF RunInv, AskVersion, Ask, Told, Untold, Again, Rest, pins, boardVars, wappVars
<1>1. WappTypes /\ PinTypes /\ RomTypes /\ LinkTypes /\ CountTypes
  BY TypesAre
<1>2. WappTypes'
  BY <1>1 DEF WappTypes, Places, Waits
<1>3. PinTypes' /\ RomTypes' /\ LinkTypes' /\ CountTypes'
  <2>1. UNCHANGED <<pins, boardVars, versioned, raw, runs, resets, cut, faults>>
    OBVIOUS
  <2>2. ans' \in Answers
    BY <1>1 DEF LinkTypes, Answers
  <2> QED
    BY <1>1, <2>1, <2>2 DEF PinTypes, RomTypes, LinkTypes, CountTypes
<1>4. WireOK'
  BY <1>1, PutIs, NoBytes, BytesAre DEF WireOK, Messages
<1>5. LeftOK'
  BY <1>1 DEF LeftOK, Syncs, WappTypes
<1>6. PlaceOK'
  BY <1>1, SizeIs DEF PlaceOK, WappTypes, Asks, Takes, Resets, Syncs, Gets, Erases, Writes, Flashes
<1>7. CodeOK'
  BY DEF CodeOK, Asks, Takes, Resets, Syncs, Gets, Erases, Writes, Flashes
<1>8. PinsOK'
  BY <1>1 DEF PinsOK, PinTypes, Asks, Takes, Ends
<1> QED
  BY <1>2, <1>3, <1>4, <1>5, <1>6, <1>7, <1>8, TypesAfter

LEMMA TakeLineRun ==
    ASSUME RunInv, TakeLine
    PROVE  RunInv'
<1> USE DEF RunInv, TakeLine, Ask, Told, Untold, Again, Rest, pins, boardVars, wappVars
<1>1. WappTypes /\ PinTypes /\ RomTypes /\ LinkTypes /\ CountTypes
  BY TypesAre
<1>2. WappTypes'
  BY <1>1 DEF WappTypes, Places, Waits
<1>3. PinTypes' /\ RomTypes' /\ LinkTypes' /\ CountTypes'
  <2>1. UNCHANGED <<pins, boardVars, versioned, raw, runs, resets, cut, faults>>
    OBVIOUS
  <2>2. ans' \in Answers
    BY <1>1 DEF LinkTypes, Answers
  <2> QED
    BY <1>1, <2>1, <2>2 DEF PinTypes, RomTypes, LinkTypes, CountTypes
<1>4. WireOK'
  BY <1>1, PutIs, NoBytes, BytesAre DEF WireOK, Messages
<1>5. LeftOK'
  BY <1>1 DEF LeftOK, Syncs, WappTypes
<1>6. PlaceOK'
  BY <1>1, SizeIs DEF PlaceOK, WappTypes, Asks, Takes, Resets, Syncs, Gets, Erases, Writes, Flashes
<1>7. CodeOK'
  BY DEF CodeOK, Asks, Takes, Resets, Syncs, Gets, Erases, Writes, Flashes
<1>8. PinsOK'
  BY <1>1 DEF PinsOK, PinTypes, Asks, Takes, Ends
<1> QED
  BY <1>2, <1>3, <1>4, <1>5, <1>6, <1>7, <1>8, TypesAfter

LEMMA StartBootloaderRun ==
    ASSUME RunInv, StartBootloader
    PROVE  RunInv'
<1> USE DEF RunInv, StartBootloader, Pin, BoardAt, pins, boardVars, wappVars
<1>1. WappTypes /\ PinTypes /\ RomTypes /\ LinkTypes /\ CountTypes
  BY TypesAre
<1>2. WappTypes'
  BY <1>1 DEF WappTypes, Places, Waits
<1>3. PinTypes' /\ RomTypes' /\ LinkTypes' /\ CountTypes'
  <2>1. PinTypes'
    BY <1>1 DEF PinTypes
  <2>2. RomTypes'
    BY <1>1, SizeIs DEF RomTypes
  <2>3. LinkTypes' /\ CountTypes'
    BY <1>1 DEF LinkTypes, CountTypes
  <2> QED
    BY <2>1, <2>2, <2>3
<1>4. WireOK'
  BY BytesAre DEF WireOK
<1>5. LeftOK'
  BY <1>1 DEF LeftOK, Syncs, WappTypes
<1>6. PlaceOK'
  BY <1>1, SizeIs DEF PlaceOK, WappTypes, Asks, Takes, Resets, Syncs, Gets, Erases, Writes, Flashes
<1>7. CodeOK'
  BY DEF CodeOK, Asks, Takes, Resets, Syncs, Gets, Erases, Writes, Flashes
<1>8. PinsOK'
  BY <1>1 DEF PinsOK, PinTypes, Asks, Takes, Ends
<1> QED
  BY <1>2, <1>3, <1>4, <1>5, <1>6, <1>7, <1>8, TypesAfter

LEMMA SyncRun ==
    ASSUME RunInv, Sync
    PROVE  RunInv'
<1> USE DEF RunInv, Sync, Send, WaitAck, Byte, Fail, Restores, Rest, CountsDown, pins, boardVars, wappVars
<1>1. WappTypes /\ PinTypes /\ RomTypes /\ LinkTypes /\ CountTypes
  BY TypesAre
<1>2. WappTypes'
  BY <1>1 DEF WappTypes, Places, Waits, LeftOK, Syncs
<1>3. PinTypes' /\ RomTypes' /\ LinkTypes' /\ CountTypes'
  <2>1. UNCHANGED <<pins, boardVars, versioned, raw, runs, resets, cut, faults>>
    OBVIOUS
  <2>2. ans' \in Answers
    BY <1>1 DEF LinkTypes, Answers
  <2> QED
    BY <1>1, <2>1, <2>2 DEF PinTypes, RomTypes, LinkTypes, CountTypes
<1>4. WireOK'
  BY <1>1, PutIs, TailIs, NoBytes, BytesAre DEF WireOK, Messages
<1>5. LeftOK'
  BY <1>1 DEF LeftOK, Syncs, WappTypes
<1>6. PlaceOK'
  BY <1>1, SizeIs DEF PlaceOK, WappTypes, Asks, Takes, Resets, Syncs, Gets, Erases, Writes, Flashes
<1>7. CodeOK'
  BY DEF CodeOK, Asks, Takes, Resets, Syncs, Gets, Erases, Writes, Flashes
<1>8. PinsOK'
  BY <1>1 DEF PinsOK, PinTypes, Asks, Takes, Ends
<1> QED
  BY <1>2, <1>3, <1>4, <1>5, <1>6, <1>7, <1>8, TypesAfter

LEMMA GetIdRun ==
    ASSUME RunInv, GetId
    PROVE  RunInv'
<1> USE DEF RunInv, GetId, Send, WaitAck, Byte, Fail, Restores, Rest, pins, boardVars, wappVars
<1>1. WappTypes /\ PinTypes /\ RomTypes /\ LinkTypes /\ CountTypes
  BY TypesAre
<1>2. WappTypes'
  BY <1>1 DEF WappTypes, Places, Waits
<1>3. PinTypes' /\ RomTypes' /\ LinkTypes' /\ CountTypes'
  <2>1. UNCHANGED <<pins, boardVars, versioned, raw, runs, resets, cut, faults>>
    OBVIOUS
  <2>2. ans' \in Answers
    BY <1>1 DEF LinkTypes, Answers
  <2> QED
    BY <1>1, <2>1, <2>2 DEF PinTypes, RomTypes, LinkTypes, CountTypes
<1>4. WireOK'
  BY <1>1, PutIs, TailIs, NoBytes, BytesAre DEF WireOK, Messages
<1>5. LeftOK'
  BY <1>1 DEF LeftOK, Syncs, WappTypes
<1>6. PlaceOK'
  BY <1>1, SizeIs DEF PlaceOK, WappTypes, Asks, Takes, Resets, Syncs, Gets, Erases, Writes, Flashes
<1>7. CodeOK'
  BY DEF CodeOK, Asks, Takes, Resets, Syncs, Gets, Erases, Writes, Flashes
<1>8. PinsOK'
  BY <1>1 DEF PinsOK, PinTypes, Asks, Takes, Ends
<1> QED
  BY <1>2, <1>3, <1>4, <1>5, <1>6, <1>7, <1>8, TypesAfter

LEMMA EraseRun ==
    ASSUME RunInv, Erase
    PROVE  RunInv'
<1> USE DEF RunInv, Erase, Send, WaitAck, Byte, Fail, Restores, Rest, pins, boardVars, wappVars
<1>1. WappTypes /\ PinTypes /\ RomTypes /\ LinkTypes /\ CountTypes
  BY TypesAre
<1>2. WappTypes'
  BY <1>1 DEF WappTypes, Places, Waits
<1>3. PinTypes' /\ RomTypes' /\ LinkTypes' /\ CountTypes'
  <2>1. UNCHANGED <<pins, boardVars, versioned, raw, runs, resets, cut, faults>>
    OBVIOUS
  <2>2. ans' \in Answers
    BY <1>1 DEF LinkTypes, Answers
  <2> QED
    BY <1>1, <2>1, <2>2 DEF PinTypes, RomTypes, LinkTypes, CountTypes
<1>4. WireOK'
  BY <1>1, PutIs, TailIs, NoBytes, BytesAre DEF WireOK, Messages
<1>5. LeftOK'
  BY <1>1 DEF LeftOK, Syncs, WappTypes
<1>6. PlaceOK'
  BY <1>1, SizeIs DEF PlaceOK, WappTypes, Asks, Takes, Resets, Syncs, Gets, Erases, Writes, Flashes
<1>7. CodeOK'
  BY DEF CodeOK, Asks, Takes, Resets, Syncs, Gets, Erases, Writes, Flashes
<1>8. PinsOK'
  BY <1>1 DEF PinsOK, PinTypes, Asks, Takes, Ends
<1> QED
  BY <1>2, <1>3, <1>4, <1>5, <1>6, <1>7, <1>8, TypesAfter

LEMMA StartFirmwareRun ==
    ASSUME RunInv, StartFirmware
    PROVE  RunInv'
<1> USE DEF RunInv, StartFirmware, Pin, BoardAt, pins, boardVars, wappVars
<1>1. WappTypes /\ PinTypes /\ RomTypes /\ LinkTypes /\ CountTypes
  BY TypesAre
<1>2. WappTypes'
  BY <1>1 DEF WappTypes, Places, Waits
<1>3. PinTypes' /\ RomTypes' /\ LinkTypes' /\ CountTypes'
  <2>1. PinTypes'
    BY <1>1 DEF PinTypes
  <2>2. RomTypes'
    BY <1>1, SizeIs DEF RomTypes
  <2>3. LinkTypes' /\ CountTypes'
    BY <1>1 DEF LinkTypes, CountTypes
  <2> QED
    BY <2>1, <2>2, <2>3
<1>4. WireOK'
  BY BytesAre DEF WireOK
<1>5. LeftOK'
  BY <1>1 DEF LeftOK, Syncs, WappTypes
<1>6. PlaceOK'
  BY <1>1, SizeIs DEF PlaceOK, WappTypes, Asks, Takes, Resets, Syncs, Gets, Erases, Writes, Flashes
<1>7. CodeOK'
  BY DEF CodeOK, Asks, Takes, Resets, Syncs, Gets, Erases, Writes, Flashes
<1>8. PinsOK'
  BY <1>1 DEF PinsOK, PinTypes, Asks, Takes, Ends
<1> QED
  BY <1>2, <1>3, <1>4, <1>5, <1>6, <1>7, <1>8, TypesAfter

LEMMA GiveLineBackRun ==
    ASSUME RunInv, GiveLineBack
    PROVE  RunInv'
<1> USE DEF RunInv, GiveLineBack, Ask, Told, Untold, Again, Rest, pins, boardVars, wappVars
<1>1. WappTypes /\ PinTypes /\ RomTypes /\ LinkTypes /\ CountTypes
  BY TypesAre
<1>2. WappTypes'
  BY <1>1 DEF WappTypes, Places, Waits
<1>3. PinTypes' /\ RomTypes' /\ LinkTypes' /\ CountTypes'
  <2>1. UNCHANGED <<pins, boardVars, versioned, raw, runs, resets, cut, faults>>
    OBVIOUS
  <2>2. ans' \in Answers
    BY <1>1 DEF LinkTypes, Answers
  <2> QED
    BY <1>1, <2>1, <2>2 DEF PinTypes, RomTypes, LinkTypes, CountTypes
<1>4. WireOK'
  BY <1>1, PutIs, NoBytes, BytesAre DEF WireOK, Messages
<1>5. LeftOK'
  BY <1>1 DEF LeftOK, Syncs, WappTypes
<1>6. PlaceOK'
  BY <1>1, SizeIs DEF PlaceOK, WappTypes, Asks, Takes, Resets, Syncs, Gets, Erases, Writes, Flashes
<1>7. CodeOK'
  BY DEF CodeOK, Asks, Takes, Resets, Syncs, Gets, Erases, Writes, Flashes
<1>8. PinsOK'
  BY <1>1 DEF PinsOK, PinTypes, Asks, Takes, Ends
<1> QED
  BY <1>2, <1>3, <1>4, <1>5, <1>6, <1>7, <1>8, TypesAfter

LEMMA RecheckRun ==
    ASSUME RunInv, Recheck
    PROVE  RunInv'
<1> USE DEF RunInv, Recheck, Ask, Told, Untold, Again, Rest, pins, boardVars, wappVars
<1>1. WappTypes /\ PinTypes /\ RomTypes /\ LinkTypes /\ CountTypes
  BY TypesAre
<1>2. WappTypes'
  BY <1>1 DEF WappTypes, Places, Waits
<1>3. PinTypes' /\ RomTypes' /\ LinkTypes' /\ CountTypes'
  <2>1. UNCHANGED <<pins, boardVars, versioned, raw, runs, resets, cut, faults>>
    OBVIOUS
  <2>2. ans' \in Answers
    BY <1>1 DEF LinkTypes, Answers
  <2> QED
    BY <1>1, <2>1, <2>2 DEF PinTypes, RomTypes, LinkTypes, CountTypes
<1>4. WireOK'
  BY <1>1, PutIs, NoBytes, BytesAre DEF WireOK, Messages
<1>5. LeftOK'
  BY <1>1 DEF LeftOK, Syncs, WappTypes
<1>6. PlaceOK'
  BY <1>1, SizeIs DEF PlaceOK, WappTypes, Asks, Takes, Resets, Syncs, Gets, Erases, Writes, Flashes
<1>7. CodeOK'
  BY DEF CodeOK, Asks, Takes, Resets, Syncs, Gets, Erases, Writes, Flashes
<1>8. PinsOK'
  BY <1>1 DEF PinsOK, PinTypes, Asks, Takes, Ends
<1> QED
  BY <1>2, <1>3, <1>4, <1>5, <1>6, <1>7, <1>8, TypesAfter

\* A part ends where the image was read to, or at the end of the last word.
LEMMA PartEnds ==
    ASSUME WappTypes, PlaceOK, pc \in Writes
    PROVE  /\ addr + Len(part) = IF off < LEN THEN off ELSE SIZE
           /\ addr + Len(part) \in 0 .. SIZE /\ Len(part) \in Nat
           /\ addr < LEN /\ addr < addr + Len(part)
<1>1. /\ addr \in Nat /\ addr % WORD = 0 /\ addr < off /\ off \in 0 .. LEN
      /\ off < LEN => off % WORD = 0
      /\ Len(part) = Padded(off - addr)
  BY SizeIs DEF WappTypes, PlaceOK
<1> DEFINE n == off - addr
<1>2. n \in Nat /\ n # 0 /\ addr + n = off
  BY <1>1, SizeIs
<1>3. Padded(off) = addr + Padded(n)
  BY <1>1, <1>2, PaddedAfter
<1>4. Padded(n) \in Nat /\ n <= Padded(n)
  BY <1>2, PaddedIs
<1>5. off < LEN => Padded(off) = off
  BY <1>1, PaddedWhole
<1>6. off = LEN => Padded(off) = SIZE
  BY DEF SIZE
<1>7. SIZE \in Nat /\ LEN <= SIZE /\ LEN \in Nat
  BY SizeIs
<1> HIDE DEF n
<1>8. Len(part) = Padded(n)
  BY <1>1 DEF n
<1> QED
  BY <1>1, <1>2, <1>3, <1>4, <1>5, <1>6, <1>7, <1>8

LEMMA ReadImageRun ==
    ASSUME RunInv, ReadImage
    PROVE  RunInv'
<1> USE DEF RunInv, ReadImage, Fail, Restores, Rest, pins, boardVars, wappVars
<1>1. WappTypes /\ PinTypes /\ RomTypes /\ LinkTypes /\ CountTypes
  BY TypesAre
<1>2. WappTypes' /\ PlaceOK'
  <2>1. CASE /\ pc = "read" /\ off < LEN /\ pc' = "write"
             /\ \E k \in Reads : off' = off + k /\ part' = FillPart(k)
             /\ UNCHANGED <<rc, left, addr>>
    <3>1. PICK k \in Reads : off' = off + k /\ part' = FillPart(k)
      BY <2>1
    <3>2. k \in 1 .. CHUNK /\ k <= LEN - off /\ (k = LEN - off \/ k % WORD = 0)
      BY <3>1 DEF Reads
    <3>3. addr = off /\ off % WORD = 0 /\ off \in 0 .. LEN /\ addr \in 0 .. SIZE
      BY <1>1, <2>1 DEF PlaceOK, WappTypes
    <3>4. /\ Padded(k) \in Nat /\ k <= Padded(k) /\ Padded(k) <= CHUNK
          /\ off + k < LEN => (off + k) % WORD = 0
          /\ \A i \in 1 .. Padded(k) :
                /\ (IF i <= k THEN off + i ELSE 0) = Image[off + i]
                /\ (IF i <= k THEN off + i ELSE 0) \in 0 .. LEN
      BY <2>1, <3>2, <3>3, PartIs
    <3>5. part' = [i \in 1 .. Padded(k) |-> IF i <= k THEN off + i ELSE 0]
      BY <3>1 DEF FillPart
    <3>6. /\ part' \in Seq(0 .. LEN) /\ Len(part') = Padded(k)
          /\ \A i \in 1 .. Len(part') : part'[i] = Image[off + i]
      <4>1. part' \in [1 .. Padded(k) -> 0 .. LEN]
        BY <3>4, <3>5
      <4>2. part' \in Seq(0 .. LEN) /\ Len(part') = Padded(k)
        BY <3>4, <4>1, IsASeq, LenProperties
      <4> QED
        BY <3>4, <3>5, <4>2
    <3>7. /\ off + k \in 0 .. LEN /\ off + k - off = k /\ off < off + k /\ k <= CHUNK
      BY <3>2, <3>3, SizeIs
    <3>8. addr' = off /\ off' = off + k /\ off' - addr' = k
      <4>1. addr' = addr /\ addr = off /\ off' = off + k
        BY <2>1, <3>1, <3>3
      <4> QED
        BY <3>2, <3>3, <3>7, <4>1
    <3>9. WappTypes'
      BY <1>1, <2>1, <3>4, <3>6, <3>7, <3>8 DEF WappTypes, Places
    <3>10. PlaceOK'
      <4>1. pc' = "write" /\ pc' \in Writes
        BY <2>1 DEF Writes
      <4>2. addr' % WORD = 0 /\ addr' < off' /\ off' - addr' <= CHUNK
        BY <3>3, <3>7, <3>8
      <4>3. (off' < LEN => off' % WORD = 0) /\ Len(part') = Padded(off' - addr')
        BY <3>4, <3>6, <3>8
      <4>4. \A i \in 1 .. Len(part') : part'[i] = Image[addr' + i]
        BY <3>6, <3>8
      <4> QED
        BY <4>1, <4>2, <4>3, <4>4 DEF PlaceOK, Asks, Takes, Resets, Syncs, Gets, Erases, Writes, Flashes
    <3> QED
      BY <3>9, <3>10
  <2>2. CASE pc' = "run0" /\ rc' \in {rc, 0} /\ UNCHANGED <<left, off, addr, part>>
    BY <1>1, <2>2 DEF WappTypes, Places, PlaceOK, Asks, Takes, Resets, Syncs, Gets, Erases, Writes, Flashes
  <2> QED
    BY <2>1, <2>2
<1>3. UNCHANGED <<pins, boardVars, versioned, req, ans, line, raw, runs, resets, cut, faults>>
  OBVIOUS
<1>4. PinTypes' /\ RomTypes' /\ LinkTypes' /\ CountTypes' /\ WireOK'
  BY <1>1, <1>3 DEF PinTypes, RomTypes, LinkTypes, CountTypes, WireOK
<1>5. LeftOK'
  BY <1>1 DEF LeftOK, Syncs
<1>6. CodeOK'
  BY DEF CodeOK, Asks, Takes, Resets, Syncs, Gets, Erases, Writes, Flashes
<1>7. PinsOK'
  BY <1>1 DEF PinsOK, Asks, Takes, Ends
<1> QED
  BY <1>2, <1>4, <1>5, <1>6, <1>7, TypesAfter

LEMMA WriteRun ==
    ASSUME RunInv, Write
    PROVE  RunInv'
<1> USE DEF RunInv, Write, Send, WaitAck, Byte, Fail, Restores, Rest, pins, boardVars, wappVars
<1>1. WappTypes /\ PinTypes /\ RomTypes /\ LinkTypes /\ CountTypes
  BY TypesAre
<1>2. WappTypes' /\ PlaceOK'
  <2>1. CASE /\ pc = "data?" /\ pc' = "read" /\ addr' = addr + Len(part) /\ part' = <<>>
             /\ UNCHANGED <<rc, left, off>>
    <3>1. /\ addr + Len(part) = IF off < LEN THEN off ELSE SIZE
          /\ addr + Len(part) \in 0 .. SIZE
      BY <1>1, <2>1, PartEnds DEF Writes
    <3>2. off < LEN => off % WORD = 0
      BY <2>1 DEF PlaceOK, Writes
    <3>3. WappTypes'
      BY <1>1, <2>1, <3>1 DEF WappTypes, Places
    <3> QED
      BY <2>1, <3>1, <3>2, <3>3 DEF PlaceOK, Asks, Takes, Resets, Syncs, Gets, Erases, Writes, Flashes
  <2>2. CASE pc \in Writes /\ pc' \in Writes \cup {"run0"} /\ UNCHANGED <<rc, left, off, addr, part>>
    BY <1>1, <2>2 DEF WappTypes, Places, Waits, PlaceOK, Asks, Takes, Resets, Syncs, Gets, Erases, Writes, Flashes
  <2> QED
    BY <2>1, <2>2 DEF Writes
<1>3. UNCHANGED <<pins, boardVars, versioned, ans, raw, runs, resets, cut, faults>>
  OBVIOUS
<1>4. PinTypes' /\ RomTypes' /\ LinkTypes' /\ CountTypes'
  BY <1>1, <1>3 DEF PinTypes, RomTypes, LinkTypes, CountTypes
<1>5. WireOK'
  <2>1. part \in Seq(0 .. LEN)
    BY <1>1 DEF WappTypes
  <2> QED
    BY <1>1, <2>1, PutIs, TailIs, NoBytes, BytesAre DEF WireOK, Messages
<1>6. LeftOK'
  BY <1>1 DEF LeftOK, Syncs
<1>7. CodeOK'
  BY DEF CodeOK, Asks, Takes, Resets, Syncs, Gets, Erases, Writes, Flashes
<1>8. PinsOK'
  BY <1>1 DEF PinsOK, Asks, Takes, Ends
<1> QED
  BY <1>2, <1>4, <1>5, <1>6, <1>7, <1>8, TypesAfter

-----------------------------------------------------------------------------
(* The steps of the broker, of the board and of the host.                  *)

LEMMA HeadIs ==
    ASSUME WireOK, req # <<>>
    PROVE  Head(req) \in Message /\ Tail(req) \in Seq(Message)
BY HeadTailProperties DEF WireOK

LEMMA BrokerRun ==
    ASSUME RunInv, Broker
    PROVE  RunInv'
<1> USE DEF RunInv
<1>1. WappTypes /\ PinTypes /\ RomTypes /\ LinkTypes /\ CountTypes
  BY TypesAre
<1>2. /\ req # <<>> /\ req' = Tail(req)
      /\ UNCHANGED <<wappVars, pins, versioned, runs, resets, cut>>
  BY DEF Broker
<1> DEFINE m == Head(req)
<1>3. m \in Message /\ req' \in Seq(Message)
  BY <1>2, HeadIs
<1>4. LinkTypes' /\ faults' \subseteq {"pin", "line"} /\ ("pin" \in faults' <=> "pin" \in faults)
  <2>1. Version \in {"refused", "old", "new"}
    BY DEF Version
  <2>2. CASE m.kind \in {"state", "recheck"}
    BY <1>1, <2>1, <2>2 DEF Broker, Answer, LinkTypes, CountTypes, Answers
  <2>3. CASE m.kind = "enter"
    BY <1>1, <2>3 DEF Broker, Answer, LinkTypes, CountTypes, Answers
  <2>4. CASE m.kind = "leave"
    BY <1>1, <2>4 DEF Broker, Answer, LinkTypes, CountTypes, Answers
  <2>5. CASE m.kind \notin {"state", "recheck", "enter", "leave"}
    BY <1>1, <2>5 DEF Broker, LinkTypes, CountTypes
  <2> QED
    BY <2>2, <2>3, <2>4, <2>5
<1>5. UNCHANGED mode /\ (UNCHANGED <<line, boardVars>> \/ Rom(m))
  BY DEF Broker, boardVars
<1> HIDE DEF m
<1>6. RomTypes' /\ line' \in Seq(Wire)
  <2>1. CASE UNCHANGED <<line, boardVars>>
    BY <1>1, <2>1 DEF RomTypes, WireOK, boardVars
  <2>2. CASE Rom(m)
    BY <1>1, <1>3, <2>2, RomKeepsTypes DEF WireOK
  <2> QED
    BY <1>5, <2>1, <2>2
<1>7. WappTypes' /\ PinTypes' /\ CountTypes'
  BY <1>1, <1>2, <1>4, <1>5 DEF WappTypes, PinTypes, CountTypes, wappVars, pins
<1>8. LeftOK' /\ PlaceOK' /\ CodeOK'
  BY <1>2 DEF LeftOK, PlaceOK, CodeOK, wappVars
<1>9. PinsOK'
  BY <1>2, <1>4, <1>5 DEF PinsOK, wappVars, pins
<1> QED
  BY <1>3, <1>4, <1>6, <1>7, <1>8, <1>9, TypesAfter DEF WireOK

\* A reset of the board, or the start of a run, leaves the pins in charge.
LEMMA ResetRun ==
    ASSUME RunInv, Reset
    PROVE  RunInv'
<1> USE DEF RunInv
<1>1. WappTypes /\ PinTypes /\ RomTypes /\ LinkTypes /\ CountTypes
  BY TypesAre
<1>2. /\ resets < MaxResets /\ resets' = resets + 1 /\ BoardAt(boot0, nrst)
      /\ UNCHANGED <<wappVars, pins, versioned, req, ans, raw, runs, cut, faults>>
  BY DEF Reset
<1>3. RomTypes' /\ mode' \in {"app", "rom", "held"} /\ line' = <<>>
  BY <1>1, <1>2, BoardAtKeeps
<1>4. WappTypes' /\ PinTypes' /\ LinkTypes' /\ CountTypes'
  BY <1>1, <1>2, <1>3 DEF WappTypes, PinTypes, LinkTypes, CountTypes, wappVars, pins
<1>5. WireOK' /\ LeftOK' /\ PlaceOK' /\ CodeOK'
  BY <1>2, <1>3, BytesAre DEF WireOK, LeftOK, PlaceOK, CodeOK, wappVars
<1>6. PinsOK'
  BY <1>2 DEF PinsOK, BoardAt, wappVars, pins
<1> QED
  BY <1>3, <1>4, <1>5, <1>6, TypesAfter

LEMMA StartRun ==
    ASSUME RunInv, Start
    PROVE  RunInv'
<1> USE DEF RunInv, Start, BoardAt, boardVars
<1>1. WappTypes /\ PinTypes /\ RomTypes /\ LinkTypes /\ CountTypes
  BY TypesAre
<1>2. WappTypes'
  BY <1>1, SizeIs, NoBytes DEF WappTypes, Places
<1>3. PinTypes' /\ LinkTypes' /\ CountTypes'
  BY <1>1 DEF PinTypes, LinkTypes, CountTypes
<1>4. RomTypes'
  BY <1>1, SizeIs DEF RomTypes
<1>5. WireOK'
  BY BytesAre DEF WireOK
<1>6. LeftOK' /\ PlaceOK' /\ CodeOK'
  BY DEF LeftOK, PlaceOK, CodeOK, Asks, Takes, Resets, Syncs, Gets, Erases, Writes, Flashes
<1>7. PinsOK'
  BY <1>1 DEF PinsOK, Asks, Takes, Ends
<1> QED
  BY <1>2, <1>3, <1>4, <1>5, <1>6, <1>7, TypesAfter

LEMMA StopRun ==
    ASSUME RunInv, Stop
    PROVE  RunInv'
<1> USE DEF RunInv, Stop, boardVars, pins
<1>1. WappTypes /\ PinTypes /\ RomTypes /\ LinkTypes /\ CountTypes
  BY TypesAre
<1>2. WappTypes' /\ PinTypes' /\ RomTypes' /\ LinkTypes' /\ CountTypes'
  BY <1>1 DEF WappTypes, Places, PinTypes, RomTypes, LinkTypes, CountTypes, Answers
<1>3. WireOK'
  BY BytesAre DEF WireOK
<1>4. LeftOK' /\ PlaceOK' /\ CodeOK' /\ PinsOK'
  BY DEF LeftOK, PlaceOK, CodeOK, PinsOK, Asks, Takes, Resets, Syncs, Gets, Erases, Writes, Flashes
<1> QED
  BY <1>2, <1>3, <1>4, TypesAfter

LEMMA InitRun == Init => RunInv
<1> SUFFICES ASSUME Init PROVE RunInv
  OBVIOUS
<1>1. /\ pc = "off" /\ rc = 0 /\ left = 0 /\ off = 0 /\ addr = 0 /\ part = <<>>
      /\ boot0 = 0 /\ nrst = 1 /\ mode = "app" /\ rom = "sync" /\ at = 0
      /\ old \in BOOLEAN /\ flash \in {Blank, Image} /\ versioned \in BOOLEAN
      /\ req = <<>> /\ ans = "none" /\ raw = FALSE /\ line = <<>>
      /\ runs = 0 /\ resets = 0 /\ cut = FALSE /\ faults = {}
  BY DEF Init
<1>2. WappTypes
  BY <1>1, SizeIs, NoBytes DEF WappTypes, Places
<1>3. PinTypes /\ LinkTypes /\ CountTypes
  <2>1. PinTypes
    BY <1>1 DEF PinTypes
  <2>2. LinkTypes
    BY <1>1 DEF LinkTypes, Answers
  <2>3. 0 \in 0 .. MaxRuns /\ 0 \in 0 .. MaxResets
    OBVIOUS
  <2>4. CountTypes
    BY <1>1, <2>3 DEF CountTypes
  <2> QED
    BY <2>1, <2>2, <2>4
<1>4. RomTypes
  <2>1. 0 \in 0 .. SIZE
    BY SizeIs
  <2>2. flash \in [1 .. SIZE -> 0 .. LEN]
    BY <1>1, ImageType
  <2>3. rom \in {"sync", "command", "all", "addr", "data"} /\ at \in 0 .. SIZE /\ old \in BOOLEAN
    BY <1>1, <2>1
  <2> QED
    BY <2>2, <2>3 DEF RomTypes
<1>5. WireOK
  BY <1>1 DEF WireOK
<1>6. LeftOK /\ PlaceOK /\ CodeOK /\ PinsOK
  BY <1>1 DEF LeftOK, PlaceOK, CodeOK, PinsOK, Asks, Takes, Resets, Syncs, Gets, Erases, Writes, Flashes
<1> QED
  BY <1>2, <1>3, <1>4, <1>5, <1>6, TypesAre DEF RunInv

LEMMA StutterRun ==
    ASSUME RunInv, UNCHANGED vars
    PROVE  RunInv'
<1> USE DEF RunInv, vars, wappVars, pins, boardVars
<1>1. WappTypes /\ PinTypes /\ RomTypes /\ LinkTypes /\ CountTypes
  BY TypesAre
<1>2. WappTypes' /\ PinTypes' /\ RomTypes' /\ LinkTypes' /\ CountTypes'
  BY <1>1 DEF WappTypes, PinTypes, RomTypes, LinkTypes, CountTypes
<1>3. WireOK' /\ LeftOK' /\ PlaceOK' /\ CodeOK' /\ PinsOK'
  BY DEF WireOK, LeftOK, PlaceOK, CodeOK, PinsOK
<1> QED
  BY <1>2, <1>3, TypesAfter

LEMMA NextRun == RunInv /\ [Next]_vars => RunInv'
BY AskVersionRun, TakeLineRun, StartBootloaderRun, SyncRun, GetIdRun, EraseRun, ReadImageRun,
   WriteRun, StartFirmwareRun, GiveLineBackRun, RecheckRun, BrokerRun, ResetRun, StartRun, StopRun,
   StutterRun DEF Next, Wapp

LEMMA RunsKeep == Spec => []RunInv
BY InitRun, NextRun, PTL DEF Spec

\* Whatever the length of the image and of a write, however often the board is
\* reset and runs are cut off: the wapp, the pins, the board and the line keep
\* their types, and a run that ends by itself leaves the board with its
\* firmware, out of the bootloader and of reset, unless a pin did not move.
THEOREM OtaInv == Spec => []Inv
<1>1. RunInv => Inv
  BY DEF RunInv, PinsOK, Inv, FirmwareRuns, Ends
<1> QED
  BY <1>1, RunsKeep, PTL

-----------------------------------------------------------------------------
(* What the wapp and the bootloader say to each other.                     *)

IsSent(kind) == req = <<>> \/ (Len(req) = 1 /\ req[1].kind = kind)
OnlySyncs == \A k \in 1 .. Len(req) : req[k].kind = "sync"
NoId == \A k \in 1 .. Len(line) : line[k] # "id"

\* One request at a time until the bootloader runs.
AskOK == /\ pc = "version?" /\ ans \in {"old", "new"} => req = <<>>
         /\ pc \in {"enter"} \cup Resets => req = <<>>
         /\ pc = "enter?" => IsSent("enter") /\ (ans # "none" => req = <<>>)

\* Then late sync bytes, and the answer to the command after them.
SyncOK == /\ pc \in Syncs \cup {"get"} => OnlySyncs /\ NoId
          /\ pc \in {"get?", "id?"} =>
               /\ \A k \in 1 .. Len(req) : req[k].kind = IF k = Len(req) THEN "get" ELSE "sync"
               /\ \A k \in 1 .. Len(line) : line[k] = "id" => Len(line) = k + 1 /\ req = <<>>
          /\ pc = "idend?" => req = <<>> /\ Len(line) <= 1

\* Then one message and one answer at a time.
TurnOK(place, kind) ==
    pc = place => /\ IsSent(kind) /\ Len(line) <= 1
                  /\ req # <<>> => line = <<>> /\ req[1].at = addr
MessageOK == /\ pc \in {"erase", "all", "read", "write", "addr", "data"} => req = <<>> /\ line = <<>>
             /\ TurnOK("erase?", "erase") /\ TurnOK("all?", "all")
             /\ TurnOK("write?", "write") /\ TurnOK("addr?", "addr")
             /\ TurnOK("data?", "data")
             /\ pc = "data?" /\ req # <<>> => req[1].bytes = part

\* The bootloader waits for data only at the address of the part.
RomOK == pc \in Syncs \cup Gets \cup Erases \cup {"read"} \cup Writes /\ rom = "data" =>
             /\ pc \in {"addr?", "data", "data?"} /\ at = addr
             /\ pc = "addr?" => req = <<>>
             /\ pc = "data?" => line = <<>>

\* An order to erase or to write goes to a flash that may be written.
MayWrite == versioned => flash # Image

\* It waits first in the pipe, and no run has ended with success before it.
PendingOK == \A k \in 1 .. Len(req) : req[k].kind \in {"all", "data"} =>
                 /\ k = 1 /\ MayWrite /\ (req[k].kind = "data" => ~old)
                 /\ ~(rc = 0 /\ addr > 0)

Upto(a) == [i \in 1 .. SIZE |-> IF i <= a THEN Image[i] ELSE 0]

\* What the flash holds when the bootloader has said so, and when it may not yet.
FlashOK ==
    /\ old => flash = Blank
    /\ pc = "version?" /\ ans = "old" => flash # Image
    /\ pc \in Flashes \ ({"read"} \cup Writes) => MayWrite
    /\ pc = "all?" /\ line = <<"ack">> => flash = Blank /\ ~old
    /\ pc \in {"read"} \cup Writes => ~old
    /\ pc \in {"read"} \cup (Writes \ {"data?"}) => flash = Upto(addr)
    /\ pc = "data?" => /\ flash = Upto(addr) \/ (req = <<>> /\ flash = Upto(addr + Len(part)))
                       /\ line = <<"ack">> => flash = Upto(addr + Len(part))

\* What a success says.
DoneOK == rc = 0 /\ addr > 0 => flash = Image

TalkInv == AskOK /\ SyncOK /\ MessageOK /\ RomOK /\ PendingOK /\ FlashOK /\ DoneOK

LEMMA PutAfter ==
    ASSUME WireOK, WappTypes, NEW kind \in Messages, NEW bytes \in Seq(0 .. LEN), Put(kind, bytes)
    PROVE  /\ Len(req) \in Nat /\ Len(req') = Len(req) + 1 /\ req' # <<>>
           /\ \A k \in 1 .. Len(req) : req'[k] = req[k]
           /\ LET m == req'[Len(req')] IN m.kind = kind /\ m.at = addr /\ m.bytes = bytes
           /\ req = <<>> => Len(req') = 1
<1> DEFINE m == [kind |-> kind, at |-> addr, bytes |-> bytes]
<1>1. m \in Message /\ req \in Seq(Message) /\ req' = Append(req, m)
  BY DEF Message, WappTypes, Put, WireOK
<1>2. /\ Len(req') = Len(req) + 1 /\ Len(req) \in Nat /\ req'[Len(req) + 1] = m
      /\ \A k \in 1 .. Len(req) : req'[k] = req[k]
  BY <1>1, AppendProperties, LenProperties
<1>3. m.kind = kind /\ m.at = addr /\ m.bytes = bytes
  OBVIOUS
<1> HIDE DEF m
<1>4. req' # <<>>
  <2>1. Len(req') # 0
    BY <1>2
  <2> QED
    BY <2>1, EmptySeq
<1>5. req = <<>> => Len(req') = 1
  BY <1>2, EmptySeq
<1> QED
  BY <1>2, <1>3, <1>4, <1>5

LEMMA TailAfter ==
    ASSUME NEW S, NEW q \in Seq(S), q # <<>>
    PROVE  /\ Len(q) \in Nat \ {0} /\ Head(q) = q[1]
           /\ Len(Tail(q)) = Len(q) - 1 /\ (Tail(q) = <<>> <=> Len(q) = 1)
           /\ \A k \in 1 .. Len(Tail(q)) : Tail(q)[k] = q[k + 1] /\ k + 1 \in 1 .. Len(q) /\ k + 1 # 1
<1>1. Tail(q) \in Seq(S) /\ Len(Tail(q)) = Len(q) - 1 /\ Head(q) = q[1]
  BY HeadTailProperties
<1>2. Len(q) \in Nat \ {0}
  BY EmptySeq, LenProperties
<1>3. \A k \in 1 .. Len(Tail(q)) : Tail(q)[k] = q[k + 1]
  BY <1>1, <1>2, HeadTailProperties
<1>4. Tail(q) = <<>> <=> Len(Tail(q)) = 0
  BY <1>1, EmptySeq
<1> QED
  BY <1>1, <1>2, <1>3, <1>4

LEMMA SaysAfter ==
    ASSUME NEW a, NEW b, NEW c
    PROVE  <<>> \o <<a>> = <<a>> /\ <<>> \o <<a, b, c>> = <<a, b, c>>
OBVIOUS

\* How much of the image the flash holds.
LEMMA UptoIs ==
    /\ Upto(0) = Blank /\ Upto(SIZE) = Image
    /\ \A a \in Nat : a < LEN => Upto(a) # Image
<1>1. Upto(0) = Blank
  BY DEF Upto, Blank
<1>2. Upto(SIZE) = Image
  BY DEF Upto, Image
<1>3. ASSUME NEW a \in Nat, a < LEN
      PROVE  Upto(a) # Image
  <2>1. LEN \in 1 .. SIZE
    BY SizeIs
  <2>2. Upto(a)[LEN] = 0 /\ Image[LEN] = LEN
    BY <1>3, <2>1, SizeIs DEF Upto, Image
  <2> QED
    BY <2>2, SizeIs
<1> QED
  BY <1>1, <1>2, <1>3

LEMMA WrittenIs ==
    ASSUME WappTypes, PlaceOK, pc = "data?", flash = Upto(addr), at = addr,
           flash' = [i \in 1 .. SIZE |-> IF i > at /\ i <= at + Len(part)
                                         THEN part[i - at] ELSE flash[i]]
    PROVE  flash' = Upto(addr + Len(part))
<1>1. addr \in 0 .. SIZE /\ addr + Len(part) \in 0 .. SIZE /\ Len(part) \in Nat
  BY PartEnds DEF WappTypes, Writes
<1>2. \A i \in 1 .. Len(part) : part[i] = Image[addr + i]
  BY DEF PlaceOK, Writes
<1>3. ASSUME NEW i \in 1 .. SIZE
      PROVE  flash'[i] = Upto(addr + Len(part))[i]
  <2>1. CASE i > addr /\ i <= addr + Len(part)
    <3>1. i - addr \in 1 .. Len(part) /\ addr + (i - addr) = i
      BY <1>1, <2>1, SizeIs
    <3>2. flash'[i] = part[i - addr]
      BY <1>1, <2>1
    <3>3. part[i - addr] = Image[i]
      BY <1>2, <3>1
    <3> QED
      BY <2>1, <3>2, <3>3 DEF Upto
  <2>2. CASE ~(i > addr /\ i <= addr + Len(part))
    <3>1. flash'[i] = Upto(addr)[i]
      BY <2>2
    <3>2. i <= addr <=> i <= addr + Len(part)
      BY <1>1, <2>2, SizeIs
    <3> QED
      BY <3>1, <3>2 DEF Upto
  <2> QED
    BY <2>1, <2>2
<1> QED
  BY <1>3 DEF Upto

LEMMA PendingKept ==
    ASSUME RunInv, PendingOK, UNCHANGED <<flash, old, versioned>>,
           rc' = 0 /\ addr' > 0 => rc = 0 /\ addr > 0,
           \/ UNCHANGED req
           \/ \E kind \in Messages \ {"all", "data"} : Put(kind, <<>>)
           \/ req = <<>> /\ MayWrite /\ rc = 1 /\ Put("all", <<>>)
           \/ req = <<>> /\ MayWrite /\ rc = 1 /\ ~old /\ Put("data", part)
    PROVE  PendingOK'
<1>1. WireOK /\ WappTypes
  BY TypesAre DEF RunInv
<1>2. CASE UNCHANGED req
  BY <1>2 DEF PendingOK, MayWrite
<1>3. ASSUME NEW kind \in Messages \ {"all", "data"}, Put(kind, <<>>)
      PROVE  PendingOK'
  <2>1. /\ Len(req) \in Nat /\ Len(req') = Len(req) + 1
        /\ \A k \in 1 .. Len(req) : req'[k] = req[k]
        /\ req'[Len(req')].kind = kind
    BY <1>1, <1>3, PutAfter, NoBytes
  <2>2. \A k \in 1 .. Len(req') : k \in 1 .. Len(req) \/ k = Len(req')
    BY <2>1
  <2> QED
    BY <2>1, <2>2 DEF PendingOK, MayWrite
<1>4. CASE req = <<>> /\ MayWrite /\ rc = 1 /\ Put("all", <<>>)
  <2>1. Len(req') = 1 /\ req'[Len(req')].kind = "all"
    BY <1>1, <1>4, PutAfter, NoBytes DEF Messages
  <2> QED
    BY <1>4, <2>1 DEF PendingOK, MayWrite
<1>5. CASE req = <<>> /\ MayWrite /\ rc = 1 /\ ~old /\ Put("data", part)
  <2>1. Len(req') = 1 /\ req'[Len(req')].kind = "data"
    BY <1>1, <1>5, PutAfter DEF Messages, WappTypes
  <2> QED
    BY <1>5, <2>1 DEF PendingOK, MayWrite
<1> QED
  BY <1>2, <1>3, <1>4, <1>5

-----------------------------------------------------------------------------
(* The steps of the wapp keep what is said.                                *)

LEMMA AskVersionTalk ==
    ASSUME RunInv, TalkInv, AskVersion
    PROVE  TalkInv'
<1> USE DEF TalkInv, AskVersion, Ask, Told, Untold, Again, Rest, pins, boardVars, wappVars
<1>1. WappTypes /\ PinTypes /\ RomTypes /\ WireOK /\ PlaceOK /\ CodeOK /\ PinsOK
  BY TypesAre DEF RunInv
<1>2. AskOK'
  BY <1>1 DEF AskOK, Resets, IsSent
<1>3. SyncOK'
  BY <1>1 DEF SyncOK, Syncs
<1>4. MessageOK'
  BY DEF MessageOK, TurnOK
<1>5. RomOK'
  BY DEF RomOK, Asks, Takes, Resets, Syncs, Gets, Erases, Writes, Flashes
<1>6. PendingOK'
  <2>1. rc' = 0 /\ addr' > 0 => rc = 0 /\ addr > 0
    BY <1>1 DEF PlaceOK, CodeOK, Asks, Takes
  <2> QED
    BY <2>1, PendingKept DEF Messages
<1>7. FlashOK' /\ DoneOK'
  BY <1>1 DEF FlashOK, MayWrite, DoneOK, PlaceOK, CodeOK, Asks, Takes, Resets, Syncs, Gets, Erases, Writes, Flashes
<1> QED
  BY <1>2, <1>3, <1>4, <1>5, <1>6, <1>7

LEMMA TakeLineTalk ==
    ASSUME RunInv, TalkInv, TakeLine
    PROVE  TalkInv'
<1> USE DEF TalkInv, TakeLine, Ask, Told, Untold, Again, Rest, pins, boardVars, wappVars
<1>1. WappTypes /\ PinTypes /\ RomTypes /\ WireOK /\ PlaceOK /\ CodeOK /\ PinsOK
  BY TypesAre DEF RunInv
<1>2. AskOK'
  <2>1. CASE Ask("enter", "enter", "enter?")
    <3>1. req = <<>> /\ Put("enter", <<>>) /\ ans' = "none" /\ pc' = "enter?"
      BY <2>1 DEF AskOK
    <3>2. Len(req') = 1 /\ req'[1].kind = "enter"
      BY <1>1, <3>1, PutAfter, NoBytes DEF Messages
    <3> QED
      BY <3>1, <3>2 DEF AskOK, IsSent, Resets
  <2>2. CASE pc = "enter?" /\ UNCHANGED req
             /\ (pc' = "leave" \/ (pc' \in {"enter", "boot0"} /\ ans # "none"))
    BY <2>2 DEF AskOK, Resets
  <2> QED
    BY <2>1, <2>2
<1>3. SyncOK'
  BY <1>1 DEF SyncOK, Syncs
<1>4. MessageOK'
  BY DEF MessageOK, TurnOK
<1>5. RomOK'
  BY DEF RomOK, Asks, Takes, Resets, Syncs, Gets, Erases, Writes, Flashes
<1>6. PendingOK'
  BY PendingKept DEF Messages
<1>7. FlashOK' /\ DoneOK'
  BY <1>1 DEF FlashOK, MayWrite, DoneOK, PlaceOK, CodeOK, Asks, Takes, Resets, Syncs, Gets, Erases, Writes, Flashes
<1> QED
  BY <1>2, <1>3, <1>4, <1>5, <1>6, <1>7

LEMMA StartBootloaderTalk ==
    ASSUME RunInv, TalkInv, StartBootloader
    PROVE  TalkInv'
<1> USE DEF TalkInv, StartBootloader, Pin, BoardAt, pins, boardVars, wappVars
<1>1. WappTypes /\ PinTypes /\ RomTypes /\ WireOK /\ PlaceOK /\ CodeOK /\ PinsOK
  BY TypesAre DEF RunInv
<1>2. AskOK'
  BY <1>1 DEF AskOK, Resets, IsSent
<1>3. SyncOK'
  BY <1>1 DEF SyncOK, OnlySyncs, NoId, PinsOK, AskOK, Resets, Syncs
<1>4. MessageOK'
  BY DEF MessageOK, TurnOK
<1>5. RomOK'
  BY <1>1 DEF RomOK, PinsOK, Asks, Takes, Resets, Syncs, Gets, Erases, Writes, Flashes
<1>6. PendingOK'
  BY PendingKept DEF Messages
<1>7. FlashOK' /\ DoneOK'
  BY <1>1 DEF FlashOK, MayWrite, DoneOK, PlaceOK, CodeOK, Asks, Takes, Resets, Syncs, Gets, Erases, Writes, Flashes
<1> QED
  BY <1>2, <1>3, <1>4, <1>5, <1>6, <1>7

LEMMA StartFirmwareTalk ==
    ASSUME RunInv, TalkInv, StartFirmware
    PROVE  TalkInv'
<1> USE DEF TalkInv, StartFirmware, Pin, BoardAt, pins, boardVars, wappVars
<1>1. WappTypes /\ PinTypes /\ RomTypes /\ WireOK /\ PlaceOK /\ CodeOK /\ PinsOK
  BY TypesAre DEF RunInv
<1>2. AskOK'
  BY <1>1 DEF AskOK, Resets, IsSent
<1>3. SyncOK'
  BY <1>1 DEF SyncOK, Syncs
<1>4. MessageOK'
  BY DEF MessageOK, TurnOK
<1>5. RomOK'
  BY DEF RomOK, Asks, Takes, Resets, Syncs, Gets, Erases, Writes, Flashes
<1>6. PendingOK'
  BY PendingKept DEF Messages
<1>7. FlashOK' /\ DoneOK'
  BY <1>1 DEF FlashOK, MayWrite, DoneOK, PlaceOK, CodeOK, Asks, Takes, Resets, Syncs, Gets, Erases, Writes, Flashes
<1> QED
  BY <1>2, <1>3, <1>4, <1>5, <1>6, <1>7

LEMMA GiveLineBackTalk ==
    ASSUME RunInv, TalkInv, GiveLineBack
    PROVE  TalkInv'
<1> USE DEF TalkInv, GiveLineBack, Ask, Told, Untold, Again, Rest, pins, boardVars, wappVars
<1>1. WappTypes /\ PinTypes /\ RomTypes /\ WireOK /\ PlaceOK /\ CodeOK /\ PinsOK
  BY TypesAre DEF RunInv
<1>2. AskOK'
  BY <1>1 DEF AskOK, Resets, IsSent
<1>3. SyncOK'
  BY <1>1 DEF SyncOK, Syncs
<1>4. MessageOK'
  BY DEF MessageOK, TurnOK
<1>5. RomOK'
  BY DEF RomOK, Asks, Takes, Resets, Syncs, Gets, Erases, Writes, Flashes
<1>6. PendingOK'
  BY PendingKept DEF Messages
<1>7. FlashOK' /\ DoneOK'
  BY <1>1 DEF FlashOK, MayWrite, DoneOK, PlaceOK, CodeOK, Asks, Takes, Resets, Syncs, Gets, Erases, Writes, Flashes
<1> QED
  BY <1>2, <1>3, <1>4, <1>5, <1>6, <1>7

LEMMA RecheckTalk ==
    ASSUME RunInv, TalkInv, Recheck
    PROVE  TalkInv'
<1> USE DEF TalkInv, Recheck, Ask, Told, Untold, Again, Rest, pins, boardVars, wappVars
<1>1. WappTypes /\ PinTypes /\ RomTypes /\ WireOK /\ PlaceOK /\ CodeOK /\ PinsOK
  BY TypesAre DEF RunInv
<1>2. AskOK'
  BY <1>1 DEF AskOK, Resets, IsSent
<1>3. SyncOK'
  BY <1>1 DEF SyncOK, Syncs
<1>4. MessageOK'
  BY DEF MessageOK, TurnOK
<1>5. RomOK'
  BY DEF RomOK, Asks, Takes, Resets, Syncs, Gets, Erases, Writes, Flashes
<1>6. PendingOK'
  <2>1. rc' = 0 /\ addr' > 0 => rc = 0 /\ addr > 0
    BY <1>1 DEF PlaceOK, CodeOK, Asks, Takes
  <2> QED
    BY <2>1, PendingKept DEF Messages
<1>7. FlashOK' /\ DoneOK'
  BY <1>1 DEF FlashOK, MayWrite, DoneOK, PlaceOK, CodeOK, Asks, Takes, Resets, Syncs, Gets, Erases, Writes, Flashes
<1> QED
  BY <1>2, <1>3, <1>4, <1>5, <1>6, <1>7

LEMMA LeaveTalk ==
    ASSUME RunInv, TalkInv, pc \in Syncs \cup Gets \cup Erases \cup {"read"} \cup Writes, pc' = "run0",
           UNCHANGED <<off, addr, part, versioned, flash, old, req, rom>>,
           rc' \in {rc, 0}, rc' = 0 => flash = Image /\ req = <<>>
    PROVE  TalkInv'
<1> USE DEF TalkInv
<1>1. AskOK' /\ SyncOK' /\ MessageOK'
  BY DEF AskOK, SyncOK, MessageOK, TurnOK, Resets, Syncs
<1>2. RomOK' /\ PendingOK'
  <2>1. req = <<>> => Len(req') = 0
    OBVIOUS
  <2>2. PendingOK'
    BY <2>1 DEF PendingOK, MayWrite
  <2> QED
    BY <2>2 DEF RomOK, Asks, Takes, Resets, Syncs, Gets, Erases, Writes, Flashes
<1>3. FlashOK' /\ DoneOK'
  BY DEF FlashOK, MayWrite, DoneOK, Asks, Takes, Resets, Syncs, Gets, Erases, Writes, Flashes
<1> QED
  BY <1>1, <1>2, <1>3

LEMMA ReadImageTalk ==
    ASSUME RunInv, TalkInv, ReadImage
    PROVE  TalkInv'
<1> USE DEF TalkInv
<1>1. WappTypes /\ PlaceOK /\ pc = "read"
      /\ UNCHANGED <<addr, boardVars, versioned, req, line>>
  BY TypesAre DEF RunInv, ReadImage, Fail, Restores, Rest
<1>2. CASE pc' = "write" /\ UNCHANGED rc
  <2>1. AskOK' /\ SyncOK' /\ MessageOK'
    BY <1>1, <1>2 DEF AskOK, SyncOK, MessageOK, TurnOK, Resets, Syncs
  <2>2. RomOK' /\ PendingOK'
    BY <1>1, <1>2 DEF RomOK, PendingOK, MayWrite, boardVars, CodeOK, RunInv, Asks, Takes, Resets, Syncs, Gets, Erases, Writes, Flashes
  <2>3. FlashOK' /\ DoneOK'
    <3>1. flash = Upto(addr) /\ ~old
      BY <1>1 DEF FlashOK, MayWrite
    <3>2. FlashOK'
      BY <1>1, <1>2, <3>1 DEF FlashOK, MayWrite, Upto, boardVars, Asks, Takes, Resets, Syncs, Gets, Erases, Writes, Flashes
    <3> QED
      BY <1>1, <1>2, <3>2 DEF DoneOK, boardVars
  <2> QED
    BY <2>1, <2>2, <2>3
<1>3. CASE pc' = "run0"
  <2>1. off < LEN \/ addr = SIZE
    BY <1>1 DEF PlaceOK
  <2>2. flash = Upto(addr) /\ (addr = SIZE => flash = Image)
    BY <1>1, UptoIs DEF FlashOK, MayWrite
  <2>3. rc = 1
    BY <1>1 DEF RunInv, CodeOK, Flashes
  <2>4. rc' \in {rc, 0} /\ (rc' = 0 => off >= LEN) /\ UNCHANGED <<off, part>>
    BY <1>1, <1>3, <2>3 DEF ReadImage, Fail, Restores, Rest
  <2>5. rc' = 0 => flash = Image
    BY <1>1, <2>1, <2>2, <2>4, SizeIs DEF WappTypes
  <2>6. req = <<>>
    BY <1>1 DEF MessageOK
  <2> QED
    BY <1>1, <1>3, <2>4, <2>5, <2>6, LeaveTalk DEF boardVars
<1> QED
  BY <1>1, <1>2, <1>3 DEF ReadImage, Fail, Restores

\* One message to the bootloader, and one byte from it.
LEMMA SendTurn ==
    ASSUME RunInv, req = <<>>, line = <<>>, NEW place, NEW kind \in Messages, kind # "sync",
           NEW bytes \in Seq(0 .. LEN), NEW next, Send(place, kind, bytes, next)
    PROVE  /\ pc = place /\ pc' = next /\ line' = <<>>
           /\ req' # <<>> /\ Len(req') = 1 /\ Len(line') <= 1
           /\ req'[1].kind = kind /\ req'[1].at = addr /\ req'[1].bytes = bytes
           /\ UNCHANGED <<rc, off, addr, part, ans, rom, at, versioned, flash, old>>
<1>1. Put(kind, bytes) /\ WireOK /\ WappTypes
  BY TypesAre DEF RunInv, Send
<1>2. /\ req' # <<>> /\ Len(req') = 1 /\ req'[1].kind = kind
      /\ req'[1].at = addr /\ req'[1].bytes = bytes
  BY <1>1, PutAfter
<1> QED
  BY <1>2 DEF Send, Rest, boardVars

LEMMA OneByte ==
    ASSUME WireOK, line # <<>>, Len(line) <= 1
    PROVE  line = <<Head(line)>> /\ Tail(line) = <<>>
<1>1. Len(line) = 1 /\ Head(line) = line[1] /\ Tail(line) = <<>>
  BY TailAfter DEF WireOK
<1>2. line = <<line[1]>>
  BY <1>1 DEF WireOK
<1> QED
  BY <1>1, <1>2

LEMMA ByteTurn ==
    ASSUME RunInv, NEW place, NEW kind, TurnOK(place, kind), NEW byte, NEW next, Byte(place, byte, next)
    PROVE  /\ pc = place /\ pc' = next /\ line = <<byte>> /\ line' = <<>> /\ Len(line') = 0
           /\ req = <<>> /\ req' = <<>>
           /\ UNCHANGED <<rc, off, addr, part, ans, rom, at, versioned, flash, old>>
<1>1. pc = place /\ line # <<>> /\ Head(line) = byte /\ line' = Tail(line) /\ pc' = next
  BY DEF Byte
<1>2. Len(line) <= 1 /\ req = <<>>
  BY <1>1 DEF TurnOK
<1>3. line = <<byte>> /\ line' = <<>>
  BY <1>1, <1>2, OneByte DEF RunInv
<1>4. UNCHANGED <<rc, off, addr, part, ans, req, rom, at, versioned, flash, old>>
  BY DEF Byte, Rest, boardVars
<1> QED
  BY <1>1, <1>2, <1>3, <1>4

LEMMA FailTalk ==
    ASSUME RunInv, TalkInv, NEW place \in Syncs \cup Gets \cup Erases \cup {"read"} \cup Writes,
           Fail(place) \/ Byte(place, "nack", "run0")
    PROVE  TalkInv'
<1>1. /\ pc = place /\ pc' = "run0" /\ UNCHANGED <<rc, off, addr, part, versioned, flash, old, req, rom>>
  BY DEF Fail, Restores, Byte, Rest, boardVars
<1>2. rc = 1
  BY <1>1 DEF RunInv, CodeOK, Flashes
<1> QED
  BY <1>1, <1>2, LeaveTalk

LEMMA EraseTalk ==
    ASSUME RunInv, TalkInv, Erase
    PROVE  TalkInv'
<1> USE DEF TalkInv
<1>1. WappTypes /\ PlaceOK
  BY TypesAre DEF RunInv
<1>2. CASE Send("erase", "erase", <<>>, "erase?")
  <2>1. req = <<>> /\ line = <<>>
    BY <1>2 DEF MessageOK, Send
  <2>2. /\ pc = "erase" /\ pc' = "erase?" /\ line' = <<>>
        /\ req' # <<>> /\ Len(req') = 1 /\ Len(line') <= 1
        /\ req'[1].kind = "erase" /\ req'[1].at = addr
        /\ UNCHANGED <<rc, off, addr, part, ans, rom, at, versioned, flash, old>>
    BY <1>2, <2>1, SendTurn, NoBytes DEF Messages
  <2>3. PendingOK'
    BY <1>2, <2>2, PendingKept DEF Send, Rest, Messages
  <2>4. AskOK' /\ SyncOK' /\ MessageOK'
    BY <2>2 DEF AskOK, SyncOK, MessageOK, TurnOK, IsSent, Resets, Syncs
  <2>5. RomOK' /\ FlashOK' /\ DoneOK'
    BY <2>2 DEF RomOK, FlashOK, MayWrite, DoneOK, Asks, Takes, Resets, Syncs, Gets, Erases, Writes, Flashes
  <2> QED
    BY <2>3, <2>4, <2>5
<1>3. CASE Send("all", "all", <<>>, "all?")
  <2>1. req = <<>> /\ line = <<>>
    BY <1>3 DEF MessageOK, Send
  <2>2. /\ pc = "all" /\ pc' = "all?" /\ line' = <<>>
        /\ req' # <<>> /\ Len(req') = 1 /\ Len(line') <= 1
        /\ req'[1].kind = "all" /\ req'[1].at = addr
        /\ UNCHANGED <<rc, off, addr, part, ans, rom, at, versioned, flash, old>>
    BY <1>3, <2>1, SendTurn, NoBytes DEF Messages
  <2>3. MayWrite /\ rc = 1
    BY <2>2 DEF FlashOK, RunInv, CodeOK, Erases, Writes, Flashes
  <2>4. PendingOK'
    BY <1>3, <2>1, <2>2, <2>3, PendingKept DEF Send, Rest
  <2>5. AskOK' /\ SyncOK' /\ MessageOK'
    BY <2>2 DEF AskOK, SyncOK, MessageOK, TurnOK, IsSent, Resets, Syncs
  <2>6. line' # <<"ack">>
    BY <2>2
  <2>7. RomOK' /\ FlashOK' /\ DoneOK'
    BY <2>2, <2>6 DEF RomOK, FlashOK, MayWrite, DoneOK, Asks, Takes, Resets, Syncs, Gets, Erases, Writes, Flashes
  <2> QED
    BY <2>4, <2>5, <2>7
<1>4. ASSUME NEW place \in {"erase?", "all?"}, NEW next, NEW byte,
             \/ place = "erase?" /\ byte = "ack" /\ next = "all"
             \/ place = "all?" /\ byte = "ack" /\ next = "read"
             \/ byte = "id" /\ next = place,
             Byte(place, byte, next)
      PROVE  TalkInv'
  <2>1. \E kind : TurnOK(place, kind)
    BY DEF MessageOK
  <2>2. /\ pc = place /\ pc' = next /\ line = <<byte>> /\ line' = <<>> /\ Len(line') = 0
        /\ req = <<>> /\ req' = <<>>
        /\ UNCHANGED <<rc, off, addr, part, ans, rom, at, versioned, flash, old>>
    BY <1>4, <2>1, ByteTurn
  <2>3. AskOK' /\ SyncOK' /\ MessageOK' /\ PendingOK'
    BY <1>4, <2>2 DEF AskOK, SyncOK, MessageOK, TurnOK, IsSent, PendingOK, MayWrite, Resets, Syncs
  <2>4. next = "read" => flash = Blank /\ ~old /\ addr = 0
    BY <1>1, <1>4, <2>2 DEF FlashOK, MayWrite, PlaceOK, Asks, Takes, Resets, Syncs, Gets, Erases, Writes, Flashes
  <2>5. line' # <<"ack">>
    BY <2>2
  <2>6. RomOK' /\ DoneOK'
    BY <1>4, <2>2 DEF RomOK, DoneOK, Syncs, Gets, Erases, Writes
  <2>7. FlashOK'
    <3>1. next = "read" => flash' = Upto(addr')
      BY <2>2, <2>4, UptoIs
    <3> QED
      BY <1>4, <2>2, <2>4, <2>5, <3>1 DEF FlashOK, MayWrite, Asks, Takes, Resets, Syncs, Gets, Erases, Writes, Flashes
  <2> QED
    BY <2>3, <2>6, <2>7
<1>5. ASSUME NEW place \in {"erase?", "all?"}, Byte(place, "nack", "run0") \/ Fail(place)
      PROVE  TalkInv'
  BY <1>5, FailTalk DEF Erases
<1> QED
  BY <1>2, <1>3, <1>4, <1>5 DEF Erase, WaitAck

LEMMA WriteTalk ==
    ASSUME RunInv, TalkInv, Write
    PROVE  TalkInv'
<1> USE DEF TalkInv
<1>1. WappTypes /\ PlaceOK
  BY TypesAre DEF RunInv
<1>2. CASE Send("write", "write", <<>>, "write?")
  <2>1. req = <<>> /\ line = <<>>
    BY <1>2 DEF MessageOK, Send
  <2>2. <<>> \in Seq(0 .. LEN)
    BY <1>1, NoBytes DEF WappTypes
  <2>3. /\ pc = "write" /\ pc' = "write?" /\ line' = <<>>
        /\ req' # <<>> /\ Len(req') = 1 /\ Len(line') <= 1
        /\ req'[1].kind = "write" /\ req'[1].at = addr /\ req'[1].bytes = <<>>
        /\ UNCHANGED <<rc, off, addr, part, ans, rom, at, versioned, flash, old>>
    BY <1>2, <2>1, <2>2, SendTurn DEF Messages
  <2>4. flash = Upto(addr) /\ ~old
    BY <2>3 DEF FlashOK, MayWrite, Writes
  <2>5. PendingOK'
    BY <1>2, <2>3, PendingKept DEF Send, Rest, Messages
  <2>6. AskOK' /\ SyncOK' /\ MessageOK'
    BY <2>3 DEF AskOK, SyncOK, MessageOK, TurnOK, IsSent, Resets, Syncs
  <2>7. RomOK' /\ DoneOK'
    BY <2>3 DEF RomOK, DoneOK, Syncs, Gets, Erases, Writes
  <2>8. FlashOK'
    <3>1. flash' = Upto(addr') /\ line' # <<"ack">>
      BY <2>3, <2>4
    <3> QED
      BY <2>3, <2>4, <3>1 DEF FlashOK, MayWrite, Asks, Takes, Resets, Syncs, Gets, Erases, Writes, Flashes
  <2> QED
    BY <2>5, <2>6, <2>7, <2>8
<1>3. CASE Send("addr", "addr", <<>>, "addr?")
  <2>1. req = <<>> /\ line = <<>>
    BY <1>3 DEF MessageOK, Send
  <2>2. <<>> \in Seq(0 .. LEN)
    BY <1>1, NoBytes DEF WappTypes
  <2>3. /\ pc = "addr" /\ pc' = "addr?" /\ line' = <<>>
        /\ req' # <<>> /\ Len(req') = 1 /\ Len(line') <= 1
        /\ req'[1].kind = "addr" /\ req'[1].at = addr /\ req'[1].bytes = <<>>
        /\ UNCHANGED <<rc, off, addr, part, ans, rom, at, versioned, flash, old>>
    BY <1>3, <2>1, <2>2, SendTurn DEF Messages
  <2>4. flash = Upto(addr) /\ ~old
    BY <2>3 DEF FlashOK, MayWrite, Writes
  <2>5. PendingOK'
    BY <1>3, <2>3, PendingKept DEF Send, Rest, Messages
  <2>6. AskOK' /\ SyncOK' /\ MessageOK'
    BY <2>3 DEF AskOK, SyncOK, MessageOK, TurnOK, IsSent, Resets, Syncs
  <2>7. RomOK' /\ DoneOK'
    BY <2>3 DEF RomOK, DoneOK, Syncs, Gets, Erases, Writes
  <2>8. FlashOK'
    <3>1. flash' = Upto(addr') /\ line' # <<"ack">>
      BY <2>3, <2>4
    <3> QED
      BY <2>3, <2>4, <3>1 DEF FlashOK, MayWrite, Asks, Takes, Resets, Syncs, Gets, Erases, Writes, Flashes
  <2> QED
    BY <2>5, <2>6, <2>7, <2>8
<1>4. CASE Send("data", "data", part, "data?")
  <2>1. req = <<>> /\ line = <<>>
    BY <1>4 DEF MessageOK, Send
  <2>2. part \in Seq(0 .. LEN)
    BY <1>1, NoBytes DEF WappTypes
  <2>3. /\ pc = "data" /\ pc' = "data?" /\ line' = <<>>
        /\ req' # <<>> /\ Len(req') = 1 /\ Len(line') <= 1
        /\ req'[1].kind = "data" /\ req'[1].at = addr /\ req'[1].bytes = part
        /\ UNCHANGED <<rc, off, addr, part, ans, rom, at, versioned, flash, old>>
    BY <1>4, <2>1, <2>2, SendTurn DEF Messages
  <2>4. flash = Upto(addr) /\ ~old
    BY <2>3 DEF FlashOK, MayWrite, Writes
  <2>5. PendingOK'
    <3>1. addr \in Nat /\ addr < LEN
      BY <1>1, <2>3, PartEnds, SizeIs DEF WappTypes, Writes
    <3>2. MayWrite /\ rc = 1
      BY <2>3, <2>4, <3>1, UptoIs DEF MayWrite, RunInv, CodeOK, Writes, Flashes
    <3> QED
      BY <1>4, <2>1, <2>3, <2>4, <3>2, PendingKept DEF Send
  <2>6. AskOK' /\ SyncOK' /\ MessageOK'
    BY <2>3 DEF AskOK, SyncOK, MessageOK, TurnOK, IsSent, Resets, Syncs
  <2>7. RomOK' /\ DoneOK'
    BY <2>3 DEF RomOK, DoneOK, Syncs, Gets, Erases, Writes
  <2>8. FlashOK'
    <3>1. flash' = Upto(addr') /\ line' # <<"ack">>
      BY <2>3, <2>4
    <3> QED
      BY <2>3, <2>4, <3>1 DEF FlashOK, MayWrite, Asks, Takes, Resets, Syncs, Gets, Erases, Writes, Flashes
  <2> QED
    BY <2>5, <2>6, <2>7, <2>8
<1>5. ASSUME NEW place \in {"write?", "addr?"}, NEW next, NEW byte,
             \/ place = "write?" /\ byte = "ack" /\ next = "addr"
             \/ place = "addr?" /\ byte = "ack" /\ next = "data"
             \/ byte = "id" /\ next = place,
             Byte(place, byte, next)
      PROVE  TalkInv'
  <2>1. \E kind : TurnOK(place, kind)
    BY DEF MessageOK
  <2>2. /\ pc = place /\ pc' = next /\ line = <<byte>> /\ line' = <<>> /\ Len(line') = 0
        /\ req = <<>> /\ req' = <<>>
        /\ UNCHANGED <<rc, off, addr, part, ans, rom, at, versioned, flash, old>>
    BY <1>5, <2>1, ByteTurn
  <2>3. AskOK' /\ SyncOK' /\ MessageOK' /\ PendingOK'
    BY <1>5, <2>2 DEF AskOK, SyncOK, MessageOK, TurnOK, IsSent, PendingOK, MayWrite, Resets, Syncs
  <2>4. RomOK' /\ DoneOK'
    BY <1>5, <2>2 DEF RomOK, DoneOK, Syncs, Gets, Erases, Writes
  <2>5. FlashOK'
    <3>1. flash = Upto(addr) /\ ~old
      BY <1>5, <2>2 DEF FlashOK, MayWrite, Writes
    <3>2. flash' = Upto(addr') /\ ~old'
      BY <2>2, <3>1
    <3> QED
      BY <1>5, <2>2, <3>2 DEF FlashOK, MayWrite, Asks, Takes, Resets, Syncs, Gets, Erases, Writes, Flashes
  <2> QED
    BY <2>3, <2>4, <2>5
<1>6. CASE pc = "data?" /\ line # <<>> /\ Accepted /\ line' = Tail(line)
           /\ pc' = "read" /\ addr' = addr + Len(part) /\ part' = <<>>
           /\ UNCHANGED <<rc, left, off, pins, req, ans, faults>> /\ Rest
  <2>1. Len(line) <= 1 /\ req = <<>>
    BY <1>6 DEF MessageOK, TurnOK
  <2>2. line = <<"ack">> /\ line' = <<>>
    BY <1>6, <2>1, OneByte DEF RunInv, Accepted
  <2>3. flash = Upto(addr + Len(part)) /\ ~old
    BY <1>6, <2>2 DEF FlashOK, MayWrite, Writes
  <2>4. /\ pc = "data?" /\ pc' = "read" /\ req' = <<>> /\ flash' = Upto(addr') /\ ~old'
        /\ UNCHANGED <<rc, off, rom, at, ans>>
    BY <1>6, <2>1, <2>3 DEF Rest, boardVars
  <2>5. AskOK' /\ SyncOK' /\ MessageOK' /\ PendingOK'
    BY <2>2, <2>4 DEF AskOK, SyncOK, MessageOK, TurnOK, IsSent, PendingOK, MayWrite, Resets, Syncs
  <2>6. RomOK'
    BY <2>2, <2>4 DEF RomOK, Writes
  <2>7. FlashOK'
    BY <2>2, <2>4 DEF FlashOK, MayWrite, Asks, Takes, Resets, Syncs, Gets, Erases, Writes, Flashes
  <2>8. DoneOK'
    <3>1. rc = 1
      BY <2>4 DEF RunInv, CodeOK, Writes, Flashes
    <3> QED
      BY <2>4, <3>1 DEF DoneOK
  <2> QED
    BY <2>5, <2>6, <2>7, <2>8
<1>7. CASE Byte("data?", "id", "data?")
  <2>1. /\ pc = "data?" /\ pc' = "data?" /\ line = <<"id">> /\ line' = <<>> /\ Len(line') = 0
        /\ req = <<>> /\ req' = <<>>
        /\ UNCHANGED <<rc, off, addr, part, ans, rom, at, versioned, flash, old>>
    BY <1>7, ByteTurn DEF MessageOK
  <2>2. AskOK' /\ SyncOK' /\ MessageOK' /\ PendingOK'
    BY <2>1 DEF AskOK, SyncOK, MessageOK, TurnOK, IsSent, PendingOK, MayWrite, Resets, Syncs
  <2>3. RomOK' /\ DoneOK'
    BY <2>1 DEF RomOK, DoneOK, Writes
  <2>4. FlashOK'
    <3>1. (flash = Upto(addr) \/ flash = Upto(addr + Len(part))) /\ ~old
      BY <2>1 DEF FlashOK, MayWrite, Writes
    <3>2. (flash' = Upto(addr') \/ flash' = Upto(addr' + Len(part'))) /\ ~old' /\ line' # <<"ack">>
      BY <2>1, <3>1
    <3> QED
      BY <2>1, <3>2 DEF FlashOK, MayWrite, Asks, Takes, Resets, Syncs, Gets, Erases, Writes, Flashes
  <2> QED
    BY <2>2, <2>3, <2>4
<1>8. ASSUME NEW place \in {"write?", "addr?", "data?"}, Byte(place, "nack", "run0") \/ Fail(place)
      PROVE  TalkInv'
  BY <1>8, FailTalk DEF Writes
<1> QED
  BY <1>2, <1>3, <1>4, <1>5, <1>6, <1>7, <1>8 DEF Write, WaitAck

\* A step between the first sync byte and the command to erase: what remains
\* to be shown is about the pipe and the line.
LEMMA EarlyTalk ==
    ASSUME RunInv, TalkInv, pc \in Syncs \cup Gets, pc' \in Syncs \cup Gets \cup {"erase"},
           UNCHANGED <<rc, addr, versioned, flash, old, rom>>,
           UNCHANGED req \/ (\E kind \in {"sync", "get"} : Put(kind, <<>>)),
           pc' = "erase" => req' = <<>> /\ line' = <<>>,
           SyncOK'
    PROVE  TalkInv'
<1> USE DEF TalkInv
<1>1. AskOK' /\ MessageOK'
  BY DEF AskOK, MessageOK, TurnOK, Resets, Syncs, Gets
<1>2. PendingOK'
  BY PendingKept DEF Messages
<1>3. RomOK'
  BY DEF RomOK, Syncs, Gets, Erases, Writes
<1>4. FlashOK' /\ DoneOK'
  BY DEF FlashOK, MayWrite, DoneOK, Asks, Takes, Resets, Syncs, Gets, Erases, Writes, Flashes
<1> QED
  BY <1>1, <1>2, <1>3, <1>4

LEMMA SyncTalk ==
    ASSUME RunInv, TalkInv, Sync
    PROVE  TalkInv'
<1> USE DEF TalkInv
<1>1. WappTypes /\ WireOK
  BY TypesAre DEF RunInv
<1>2. pc \in Syncs /\ OnlySyncs /\ NoId
  BY DEF Sync, Send, Byte, Syncs, SyncOK
<1>3. CASE Send("sync", "sync", <<>>, "sync?")
  <2>1. pc' = "sync?" /\ Put("sync", <<>>) /\ line' = <<>> /\ UNCHANGED <<rc, addr, versioned, flash, old, rom>>
    BY <1>3 DEF Send, Rest, boardVars
  <2>2. /\ Len(req) \in Nat /\ Len(req') = Len(req) + 1
        /\ \A k \in 1 .. Len(req) : req'[k] = req[k]
        /\ req'[Len(req')].kind = "sync"
    BY <1>1, <2>1, PutAfter, NoBytes DEF Messages
  <2>3. \A k \in 1 .. Len(req') : k \in 1 .. Len(req) \/ k = Len(req')
    BY <2>2
  <2>4. OnlySyncs' /\ NoId'
    BY <1>2, <2>1, <2>2, <2>3 DEF OnlySyncs, NoId
  <2>5. SyncOK'
    BY <2>1, <2>4 DEF SyncOK
  <2> QED
    BY <1>2, <2>1, <2>5, EarlyTalk DEF Syncs
<1>4. ASSUME NEW byte, NEW next \in {"get", "sync?"}, Byte("sync?", byte, next)
      PROVE  TalkInv'
  <2>1. pc' = next /\ line # <<>> /\ line' = Tail(line) /\ UNCHANGED <<req, rc, addr, versioned, flash, old, rom>>
    BY <1>4 DEF Byte, Rest, boardVars
  <2>2. /\ Len(line) \in Nat \ {0} /\ Len(line') = Len(line) - 1
        /\ \A k \in 1 .. Len(line') : line'[k] = line[k + 1] /\ k + 1 \in 1 .. Len(line)
    BY <1>1, <2>1, TailAfter DEF WireOK
  <2>3. OnlySyncs' /\ NoId'
    BY <1>2, <2>1, <2>2 DEF OnlySyncs, NoId
  <2>4. SyncOK'
    BY <2>1, <2>3 DEF SyncOK
  <2> QED
    BY <1>2, <1>4, <2>1, <2>4, EarlyTalk DEF Syncs, Gets
<1>5. CASE pc' \in {"sync", "run0"} /\ UNCHANGED <<req, line, rc, off, addr, part, versioned, flash, old, rom>>
  <2>1. CASE pc' = "sync"
    <3>1. SyncOK'
      BY <1>2, <1>5, <2>1 DEF SyncOK, OnlySyncs, NoId
    <3> QED
      BY <1>2, <1>5, <2>1, <3>1, EarlyTalk DEF Syncs
  <2>2. CASE pc' = "run0"
    <3>1. rc = 1
      BY <1>2 DEF RunInv, CodeOK, Flashes
    <3> QED
      BY <1>2, <1>5, <2>2, <3>1, LeaveTalk
  <2> QED
    BY <1>5, <2>1, <2>2
<1>6. CASE /\ pc = "sync?" /\ left' = CountsDown(left) /\ pc' = IF left' > 0 THEN "sync" ELSE "run0"
           /\ UNCHANGED <<rc, off, addr, part, pins, req, ans, line, faults>> /\ Rest
  BY <1>5, <1>6 DEF Rest, boardVars
<1> QED
  BY <1>3, <1>4, <1>6 DEF Sync

LEMMA GetIdTalk ==
    ASSUME RunInv, TalkInv, GetId
    PROVE  TalkInv'
<1> USE DEF TalkInv
<1>1. WappTypes /\ WireOK
  BY TypesAre DEF RunInv
<1>2. CASE Send("get", "get", <<>>, "get?")
  <2>1. /\ pc = "get" /\ pc' = "get?" /\ Put("get", <<>>) /\ line' = line
        /\ UNCHANGED <<rc, addr, versioned, flash, old, rom>>
    BY <1>2 DEF Send, Rest, boardVars
  <2>2. /\ Len(req) \in Nat /\ Len(req') = Len(req) + 1
        /\ \A k \in 1 .. Len(req) : req'[k] = req[k]
        /\ req'[Len(req')].kind = "get"
    BY <1>1, <2>1, PutAfter, NoBytes DEF Messages
  <2>3. \A k \in 1 .. Len(req') : (k \in 1 .. Len(req) /\ k # Len(req')) \/ k = Len(req')
    BY <2>2
  <2>4. OnlySyncs /\ NoId
    BY <2>1 DEF SyncOK
  <2>5. \A k \in 1 .. Len(req') : req'[k].kind = IF k = Len(req') THEN "get" ELSE "sync"
    BY <2>2, <2>3, <2>4 DEF OnlySyncs
  <2>6. SyncOK'
    BY <2>1, <2>4, <2>5 DEF SyncOK, NoId, Syncs
  <2> QED
    BY <2>1, <2>6, EarlyTalk DEF Gets
<1>3. ASSUME NEW byte, NEW next,
             \/ Byte("get?", byte, next) /\ next \in {"get?", "id?"}
             \/ Byte("id?", byte, next) /\ byte = "id" /\ next = "idend?"
             \/ Byte("idend?", byte, next) /\ next \in {"idend?", "erase"}
      PROVE  TalkInv'
  <2>1. /\ pc \in {"get?", "id?", "idend?"} /\ pc' = next /\ line # <<>> /\ Head(line) = byte
        /\ line' = Tail(line) /\ UNCHANGED <<req, rc, addr, versioned, flash, old, rom>>
    BY <1>3 DEF Byte, Rest, boardVars
  <2>2. /\ Len(line) \in Nat \ {0} /\ Len(line') = Len(line) - 1 /\ line[1] = byte
        /\ \A k \in 1 .. Len(line') : line'[k] = line[k + 1] /\ k + 1 \in 1 .. Len(line)
        /\ line' = <<>> <=> Len(line) = 1
    BY <1>1, <2>1, TailAfter DEF WireOK
  <2>3. CASE pc = "get?"
    <3>1. /\ \A k \in 1 .. Len(req) : req[k].kind = IF k = Len(req) THEN "get" ELSE "sync"
          /\ \A k \in 1 .. Len(line) : line[k] = "id" => Len(line) = k + 1 /\ req = <<>>
      BY <2>3 DEF SyncOK
    <3>2. \A k \in 1 .. Len(line') : line'[k] = "id" => Len(line') = k + 1 /\ req = <<>>
      BY <2>2, <3>1
    <3>3. next \in {"get?", "id?"}
      BY <1>3, <2>3 DEF Byte
    <3>4. SyncOK'
      BY <2>1, <3>1, <3>2, <3>3 DEF SyncOK, Syncs
    <3> QED
      BY <2>1, <2>3, <3>3, <3>4, EarlyTalk DEF Gets
  <2>4. CASE pc = "id?"
    <3>1. next = "idend?" /\ byte = "id"
      BY <1>3, <2>4 DEF Byte
    <3>2. Len(line) = 2 /\ req = <<>>
      BY <2>2, <2>4, <3>1 DEF SyncOK
    <3>3. SyncOK'
      BY <2>1, <2>2, <3>1, <3>2 DEF SyncOK, Syncs
    <3> QED
      BY <2>1, <2>4, <3>1, <3>3, EarlyTalk DEF Gets
  <2>5. CASE pc = "idend?"
    <3>1. next \in {"idend?", "erase"} /\ req = <<>> /\ line' = <<>> /\ Len(line') = 0
      BY <1>3, <2>2, <2>5 DEF Byte, SyncOK
    <3>2. SyncOK'
      BY <2>1, <3>1 DEF SyncOK, Syncs
    <3> QED
      BY <2>1, <2>5, <3>1, <3>2, EarlyTalk DEF Gets
  <2> QED
    BY <2>1, <2>3, <2>4, <2>5
<1>4. ASSUME NEW place \in {"get?", "id?", "idend?"}, Byte(place, "nack", "run0") \/ Fail(place)
      PROVE  TalkInv'
  BY <1>4, FailTalk DEF Gets
<1> QED
  BY <1>2, <1>3, <1>4 DEF GetId, WaitAck

-----------------------------------------------------------------------------
(* The broker, the board and the host keep what is said.                   *)

LEMMA WordsAre ==
    /\ Len(<<"ack">>) = 1 /\ Len(<<"nack">>) = 1 /\ Len(<<>>) = 0
    /\ <<"nack">> # <<"ack">> /\ <<>> # <<"ack">>
    /\ <<>> \o <<"ack">> = <<"ack">> /\ <<>> \o <<"nack">> = <<"nack">>
<1>1. Len(<<"ack">>) = 1 /\ Len(<<"nack">>) = 1
  OBVIOUS
<1>2. Len(<<>>) = 0
  OBVIOUS
<1>3. <<"nack">> # <<"ack">>
  <2>1. <<"nack">>[1] = "nack" /\ <<"ack">>[1] = "ack"
    OBVIOUS
  <2> QED
    BY <2>1
<1>4. <<>> # <<"ack">>
  OBVIOUS
<1> QED
  BY <1>1, <1>2, <1>3, <1>4, SaysAfter

\* What one message of the pipe may change on the board and on the line.
LEMMA BrokerDoes ==
    ASSUME RunInv, Broker, NEW m, m = Head(req)
    PROVE  /\ m.kind \notin {"all", "data"} => UNCHANGED <<flash, old>>
           /\ m.kind = "all" =>
                \/ UNCHANGED <<flash, old>> /\ line' \in {line, line \o <<"nack">>}
                \/ flash' = Blank /\ ~old' /\ line' \in {line, line \o <<"ack">>}
           /\ m.kind = "data" =>
                /\ old' = old
                /\ \/ UNCHANGED flash /\ line' \in {line, line \o <<"nack">>}
                   \/ /\ rom = "data" /\ line' \in {line, line \o <<"ack">>}
                      /\ flash' = [i \in 1 .. SIZE |-> IF i > at /\ i <= at + Len(m.bytes)
                                                       THEN m.bytes[i - at] ELSE flash[i]]
           /\ \/ line' \in {line, line \o <<"ack">>, line \o <<"nack">>}
              \/ m.kind = "get" /\ line' = line \o <<"ack", "id", "ack">>
           /\ \/ UNCHANGED <<rom, at, line>>
              \/ rom' # "data"
              \/ m.kind = "addr" /\ rom' = "data" /\ at' = m.at
           /\ \/ ans' = ans
              \/ pc = "version?" /\ Tail(req) = <<>> /\ (ans' = "old" => old)
              \/ pc \in {"enter?", "leave?", "recheck?"}
<1>1. RomTypes
  BY TypesAre DEF RunInv
<1>2. CASE m.kind \in {"state", "recheck"}
  <2>1. UNCHANGED <<line, boardVars>>
    BY <1>2 DEF Broker
  <2>2. \/ ans' = ans
        \/ pc = "version?" /\ Tail(req) = <<>> /\ (ans' = "old" => old)
        \/ pc = "recheck?"
    <3>1. PICK a \in (IF raw THEN {"busy"} ELSE {"busy", "refused", Version}) :
             Answer(IF m.kind = "state" THEN "version?" ELSE "recheck?", a)
      BY <1>2 DEF Broker
    <3>2. a = "old" => Version = "old"
      BY <3>1
    <3>3. Version = "old" => old
      BY DEF Version
    <3> QED
      BY <3>1, <3>2, <3>3 DEF Answer
  <2> QED
    BY <1>2, <2>1, <2>2 DEF boardVars
<1>3. CASE m.kind \in {"enter", "leave"}
  BY <1>3 DEF Broker, Answer, boardVars
<1>4. CASE m.kind \notin {"state", "recheck", "enter", "leave"}
  <2>1. ans' = ans
    BY <1>4 DEF Broker
  <2>2. CASE UNCHANGED <<line, boardVars>>
    BY <1>4, <2>1, <2>2 DEF boardVars
  <2>3. CASE Rom(m)
    BY <1>1, <1>4, <2>1, <2>3, RomDoes DEF Says
  <2> QED
    BY <1>4, <2>2, <2>3 DEF Broker
<1> QED
  BY <1>2, <1>3, <1>4

LEMMA BrokerTalk ==
    ASSUME RunInv, TalkInv, Broker
    PROVE  TalkInv'
<1> USE DEF TalkInv
<1>1. WappTypes /\ PlaceOK /\ WireOK
  BY TypesAre DEF RunInv
<1>2. req # <<>> /\ req' = Tail(req) /\ UNCHANGED <<pc, rc, off, addr, part, versioned>>
  BY DEF Broker, wappVars
<1>3. PICK m : m = Head(req)
  OBVIOUS
<1>4. /\ Len(req) \in Nat \ {0} /\ m = req[1] /\ Len(req') = Len(req) - 1
      /\ req' = <<>> <=> Len(req) = 1
      /\ \A k \in 1 .. Len(req') : req'[k] = req[k + 1] /\ k + 1 \in 1 .. Len(req) /\ k + 1 # 1
  BY <1>1, <1>2, <1>3, TailAfter DEF WireOK
<1>5. m.kind \in {"all", "data"} => /\ MayWrite /\ (m.kind = "data" => ~old)
                                     /\ ~(rc = 0 /\ addr > 0)
  BY <1>4 DEF PendingOK, MayWrite
<1>6. /\ m.kind \notin {"all", "data"} => UNCHANGED <<flash, old>>
      /\ m.kind = "all" =>
           \/ UNCHANGED <<flash, old>> /\ line' \in {line, line \o <<"nack">>}
           \/ flash' = Blank /\ ~old' /\ line' \in {line, line \o <<"ack">>}
      /\ m.kind = "data" =>
           /\ old' = old
           /\ \/ UNCHANGED flash /\ line' \in {line, line \o <<"nack">>}
              \/ /\ rom = "data" /\ line' \in {line, line \o <<"ack">>}
                 /\ flash' = [i \in 1 .. SIZE |-> IF i > at /\ i <= at + Len(m.bytes)
                                                  THEN m.bytes[i - at] ELSE flash[i]]
      /\ \/ line' \in {line, line \o <<"ack">>, line \o <<"nack">>}
         \/ m.kind = "get" /\ line' = line \o <<"ack", "id", "ack">>
      /\ \/ UNCHANGED <<rom, at, line>>
         \/ rom' # "data"
         \/ m.kind = "addr" /\ rom' = "data" /\ at' = m.at
  BY <1>3, BrokerDoes
<1>7. \/ ans' = ans
      \/ pc = "version?" /\ Tail(req) = <<>> /\ (ans' = "old" => old)
      \/ pc \in {"enter?", "leave?", "recheck?"}
  BY <1>3, BrokerDoes
<1>8. PendingOK'
  BY <1>4 DEF PendingOK, MayWrite
<1>9. (old' => flash' = Blank) /\ DoneOK'
  BY <1>2, <1>5, <1>6 DEF FlashOK, MayWrite, DoneOK
<1>10. AskOK'
  BY <1>2, <1>4, <1>7 DEF AskOK, IsSent
<1>11. CASE pc \in Syncs \cup {"get"}
  <2>1. m.kind = "sync" /\ OnlySyncs'
    <3>1. \A k \in 1 .. Len(req) : req[k].kind = "sync"
      BY <1>11 DEF SyncOK, OnlySyncs
    <3>2. m.kind = "sync"
      BY <1>4, <3>1
    <3>3. \A k \in 1 .. Len(req') : req'[k].kind = "sync"
      BY <1>4, <3>1
    <3> QED
      BY <3>2, <3>3 DEF OnlySyncs
  <2>2. NoId'
    <3>1. line \in Seq(Wire) /\ NoId
      BY <1>1, <1>11 DEF SyncOK, WireOK
    <3>2. \A b \in {"ack", "nack"} : /\ Len(line \o <<b>>) = Len(line) + 1
                                     /\ \A k \in 1 .. Len(line) + 1 : (line \o <<b>>)[k] = IF k <= Len(line) THEN line[k] ELSE b
      BY <3>1
    <3>3. line' \in {line, line \o <<"ack">>, line \o <<"nack">>}
      BY <1>6, <2>1
    <3>4. Len(line) \in Nat
      BY <3>1
    <3>5. CASE line' = line
      BY <3>1, <3>5 DEF NoId
    <3>6. CASE line' = line \o <<"ack">>
      BY <3>1, <3>2, <3>4, <3>6 DEF NoId
    <3>7. CASE line' = line \o <<"nack">>
      BY <3>1, <3>2, <3>4, <3>7 DEF NoId
    <3> QED
      BY <3>3, <3>5, <3>6, <3>7
  <2>3. SyncOK'
    BY <1>2, <1>11, <2>1, <2>2 DEF SyncOK, Syncs
  <2>4. MessageOK' /\ RomOK'
    BY <1>2, <1>6, <1>11, <2>1 DEF MessageOK, TurnOK, RomOK, Syncs, Gets, Erases, Writes
  <2>5. FlashOK'
    BY <1>2, <1>6, <1>9, <1>11, <2>1 DEF FlashOK, MayWrite, Asks, Takes, Resets, Syncs, Gets, Erases, Writes, Flashes
  <2> QED
    BY <1>8, <1>9, <1>10, <2>3, <2>4, <2>5
<1>12. CASE pc \in {"get?", "id?"}
  <2>1. \A k \in 1 .. Len(req) : req[k].kind = IF k = Len(req) THEN "get" ELSE "sync"
    BY <1>12 DEF SyncOK
  <2>2. m.kind \in {"get", "sync"} /\ (m.kind = "get" => Len(req) = 1)
    BY <1>4, <2>1
  <2>3. \A k \in 1 .. Len(req') : req'[k].kind = IF k = Len(req') THEN "get" ELSE "sync"
    BY <1>4, <2>1
  <2>4. \A k \in 1 .. Len(line) : line[k] # "id"
    BY <1>2, <1>12 DEF SyncOK
  <2>5. \A k \in 1 .. Len(line') : line'[k] = "id" => Len(line') = k + 1 /\ req' = <<>>
    <3>1. line \in Seq(Wire) /\ Len(line) \in Nat
      BY <1>1 DEF WireOK
    <3>2. \A b \in {"ack", "nack"} : /\ Len(line \o <<b>>) = Len(line) + 1
                                     /\ \A k \in 1 .. Len(line) + 1 : (line \o <<b>>)[k] = IF k <= Len(line) THEN line[k] ELSE b
      BY <3>1
    <3>3. /\ Len(line \o <<"ack", "id", "ack">>) = Len(line) + 3
          /\ \A k \in 1 .. Len(line) + 3 : (line \o <<"ack", "id", "ack">>)[k] =
                IF k <= Len(line) THEN line[k] ELSE IF k = Len(line) + 2 THEN "id" ELSE "ack"
      BY <3>1
    <3>4. CASE line' = line
      BY <2>4, <3>4
    <3>5. CASE line' = line \o <<"ack">>
      BY <2>4, <3>1, <3>2, <3>5
    <3>6. CASE line' = line \o <<"nack">>
      BY <2>4, <3>1, <3>2, <3>6
    <3>7. CASE m.kind = "get" /\ line' = line \o <<"ack", "id", "ack">>
      <4>1. req' = <<>>
        BY <1>4, <2>2, <3>7
      <4>2. Len(line') = Len(line) + 3
        BY <3>3, <3>7
      <4>3. \A k \in 1 .. Len(line') : line'[k] = "id" => k = Len(line) + 2
        BY <2>4, <3>1, <3>3, <3>7, <4>2
      <4> QED
        BY <3>1, <4>1, <4>2, <4>3
    <3> QED
      BY <1>6, <3>4, <3>5, <3>6, <3>7
  <2>6. SyncOK'
    BY <1>2, <1>12, <2>3, <2>5 DEF SyncOK, Syncs
  <2>7. MessageOK' /\ RomOK'
    BY <1>2, <1>6, <1>12, <2>2 DEF MessageOK, TurnOK, RomOK, Syncs, Gets, Erases, Writes
  <2>8. FlashOK'
    BY <1>2, <1>6, <1>9, <1>12, <2>2 DEF FlashOK, MayWrite, Asks, Takes, Resets, Syncs, Gets, Erases, Writes, Flashes
  <2> QED
    BY <1>8, <1>9, <1>10, <2>6, <2>7, <2>8
<1>13. CASE pc \in {"erase?", "all?", "write?", "addr?", "data?"}
  <2>1. /\ Len(req) = 1 /\ req' = <<>> /\ line = <<>> /\ m.at = addr
        /\ pc = "erase?" <=> m.kind = "erase"
        /\ pc = "all?" <=> m.kind = "all"
        /\ pc = "write?" <=> m.kind = "write"
        /\ pc = "addr?" <=> m.kind = "addr"
        /\ pc = "data?" <=> m.kind = "data"
        /\ m.kind \in {"erase", "all", "write", "addr", "data"}
        /\ pc = "data?" => m.bytes = part
    BY <1>2, <1>4, <1>13 DEF MessageOK, TurnOK, IsSent
  <2>2. line' \in {<<>>, <<"ack">>, <<"nack">>}
    BY <1>6, <2>1, WordsAre
  <2>3. Len(line') <= 1
    <3>1. CASE line' = <<>>
      BY <3>1, WordsAre
    <3>2. CASE line' = <<"ack">>
      BY <3>2, WordsAre
    <3>3. CASE line' = <<"nack">>
      BY <3>3, WordsAre
    <3> QED
      BY <2>2, <3>1, <3>2, <3>3
  <2>4. SyncOK' /\ MessageOK'
    BY <1>2, <1>13, <2>1, <2>3 DEF SyncOK, MessageOK, TurnOK, IsSent, Syncs
  <2>5. RomOK'
    BY <1>2, <1>6, <1>13, <2>1 DEF RomOK, Syncs, Gets, Erases, Writes
  <2>6. FlashOK'
    <3>1. CASE pc \in {"erase?", "write?", "addr?"}
      BY <1>2, <1>6, <1>9, <2>1, <3>1 DEF FlashOK, MayWrite, Asks, Takes, Resets, Syncs, Gets, Erases, Writes, Flashes
    <3>2. CASE pc = "all?"
      <4>1. \/ UNCHANGED <<flash, old>> /\ line' # <<"ack">>
            \/ flash' = Blank /\ ~old'
        BY <1>6, <2>1, <3>2, WordsAre
      <4>2. MayWrite'
        BY <1>2, <1>5, <2>1, <3>2, <4>1, UptoIs, SizeIs DEF MayWrite
      <4> QED
        BY <1>2, <1>9, <3>2, <4>1, <4>2 DEF FlashOK, Asks, Takes, Resets, Syncs, Gets, Erases, Writes, Flashes
    <3>3. CASE pc = "data?"
      <4>1. flash = Upto(addr) /\ ~old
        BY <1>2, <3>3 DEF FlashOK, MayWrite, Writes
      <4>2. \/ UNCHANGED flash /\ line' # <<"ack">>
            \/ /\ rom = "data"
               /\ flash' = [i \in 1 .. SIZE |-> IF i > at /\ i <= at + Len(part)
                                                THEN part[i - at] ELSE flash[i]]
        <5>1. m.kind = "data" /\ m.bytes = part
          BY <2>1, <3>3
        <5>2. \/ UNCHANGED flash /\ line' \in {line, line \o <<"nack">>}
              \/ /\ rom = "data"
                 /\ flash' = [i \in 1 .. SIZE |-> IF i > at /\ i <= at + Len(m.bytes)
                                                  THEN m.bytes[i - at] ELSE flash[i]]
          BY <1>6, <5>1
        <5>3. CASE UNCHANGED flash /\ line' \in {line, line \o <<"nack">>}
          BY <2>1, <5>3, WordsAre
        <5> QED
          BY <5>1, <5>2, <5>3
      <4>3. rom = "data" => at = addr
        BY <3>3 DEF RomOK, Writes
      <4>4. (flash' = Upto(addr) /\ line' # <<"ack">>) \/ flash' = Upto(addr + Len(part))
        BY <1>1, <3>3, <4>1, <4>2, <4>3, WrittenIs
      <4>5. ~old'
        BY <1>6, <2>1, <3>3, <4>1
      <4> QED
        BY <1>2, <2>1, <3>3, <4>4, <4>5 DEF FlashOK, MayWrite, Asks, Takes, Resets, Syncs, Gets, Erases, Writes, Flashes
    <3> QED
      BY <1>13, <3>1, <3>2, <3>3
  <2> QED
    BY <1>8, <1>9, <1>10, <2>4, <2>5, <2>6
<1>14. CASE pc \notin Syncs \cup Gets \cup Erases \cup {"read"} \cup Writes
  <2>1. SyncOK' /\ MessageOK' /\ RomOK'
    BY <1>2, <1>14 DEF SyncOK, MessageOK, TurnOK, RomOK, Syncs, Gets, Erases, Writes
  <2>2. CASE pc \in Takes \cup Resets
    <3>1. m.kind = "enter"
      BY <1>2, <1>4, <2>2 DEF AskOK, IsSent, Takes, Resets
    <3> QED
      BY <1>2, <1>6, <1>8, <1>9, <1>10, <2>1, <2>2, <3>1
         DEF FlashOK, MayWrite, Asks, Takes, Resets, Syncs, Gets, Erases, Writes, Flashes
  <2>3. CASE pc \notin Takes \cup Resets
    <3>1. pc = "version?" /\ ans' = "old" => flash' # Image
      <4> SUFFICES ASSUME pc = "version?", ans' = "old" PROVE flash' # Image
        OBVIOUS
      <4>1. ans # "old"
        BY <1>2 DEF AskOK
      <4>2. old
        BY <1>7, <4>1
      <4>3. old' \/ flash' = Blank
        BY <1>5, <1>6, <4>2
      <4> QED
        BY <1>9, <4>3, UptoIs, SizeIs
    <3>2. FlashOK'
      BY <1>2, <1>9, <1>14, <2>3, <3>1
         DEF FlashOK, MayWrite, Asks, Takes, Resets, Syncs, Gets, Erases, Writes, Flashes
    <3> QED
      BY <1>8, <1>9, <1>10, <2>1, <3>2
  <2> QED
    BY <2>2, <2>3
<1>15. pc \notin {"idend?", "erase", "all", "read", "write", "addr", "data"}
  BY <1>2 DEF SyncOK, MessageOK
<1> QED
  BY <1>11, <1>12, <1>13, <1>14, <1>15 DEF Syncs, Gets, Erases, Writes

LEMMA ResetTalk ==
    ASSUME RunInv, TalkInv, Reset
    PROVE  TalkInv'
<1> USE DEF TalkInv
<1>1. /\ line' = <<>> /\ rom' = "sync" /\ UNCHANGED <<pc, rc, off, addr, part, req, ans, versioned, flash, old>>
  BY DEF Reset, BoardAt, wappVars
<1>2. Len(line') = 0 /\ line' # <<"ack">>
  BY <1>1, WordsAre
<1>3. AskOK' /\ PendingOK' /\ DoneOK'
  BY <1>1 DEF AskOK, IsSent, PendingOK, MayWrite, DoneOK
<1>4. SyncOK'
  BY <1>1, <1>2 DEF SyncOK, OnlySyncs, NoId
<1>5. MessageOK'
  BY <1>1, <1>2 DEF MessageOK, TurnOK, IsSent
<1>6. RomOK'
  BY <1>1 DEF RomOK
<1>7. FlashOK'
  BY <1>1, <1>2 DEF FlashOK, MayWrite
<1> QED
  BY <1>3, <1>4, <1>5, <1>6, <1>7

\* A new run, or the end of one, waits for nothing of what was said before.
LEMMA BetweenTalk ==
    ASSUME RunInv, TalkInv, pc' \in {"version", "off"}, UNCHANGED <<req, versioned, flash, old>>,
           rc' = 0 /\ addr' > 0 => rc = 0 /\ addr > 0
    PROVE  TalkInv'
<1> USE DEF TalkInv
<1>1. AskOK' /\ SyncOK' /\ MessageOK'
  BY DEF AskOK, SyncOK, MessageOK, TurnOK, Resets, Syncs
<1>2. RomOK' /\ PendingOK' /\ DoneOK'
  BY DEF RomOK, PendingOK, MayWrite, DoneOK, Syncs, Gets, Erases, Writes
<1>3. FlashOK'
  BY DEF FlashOK, MayWrite, Asks, Takes, Resets, Syncs, Gets, Erases, Writes, Flashes
<1> QED
  BY <1>1, <1>2, <1>3

LEMMA StartTalk ==
    ASSUME RunInv, TalkInv, Start
    PROVE  TalkInv'
<1>1. pc' = "version" /\ addr' = 0 /\ UNCHANGED <<req, versioned, flash, old>>
  BY DEF Start, BoardAt, boardVars
<1> QED
  BY <1>1, BetweenTalk

LEMMA StopTalk ==
    ASSUME RunInv, TalkInv, Stop
    PROVE  TalkInv'
<1>1. pc' = "off" /\ UNCHANGED <<rc, addr, req, versioned, flash, old>>
  BY DEF Stop, boardVars
<1> QED
  BY <1>1, BetweenTalk

LEMMA StutterTalk ==
    ASSUME TalkInv, UNCHANGED vars
    PROVE  TalkInv'
<1> USE DEF TalkInv, vars, wappVars, boardVars
<1>1. AskOK' /\ SyncOK' /\ MessageOK'
  BY DEF AskOK, SyncOK, OnlySyncs, NoId, MessageOK, TurnOK, IsSent
<1>2. RomOK' /\ PendingOK' /\ FlashOK' /\ DoneOK'
  BY DEF RomOK, PendingOK, FlashOK, MayWrite, DoneOK
<1> QED
  BY <1>1, <1>2

LEMMA InitTalk == Init => TalkInv
<1> SUFFICES ASSUME Init PROVE TalkInv
  OBVIOUS
<1>1. /\ pc = "off" /\ addr = 0 /\ req = <<>> /\ (old => flash = Blank) /\ Len(req) = 0
  BY WordsAre DEF Init
<1>2. AskOK /\ SyncOK /\ MessageOK
  BY <1>1 DEF AskOK, SyncOK, MessageOK, TurnOK, Resets, Syncs
<1>3. RomOK /\ PendingOK /\ DoneOK
  BY <1>1 DEF RomOK, PendingOK, MayWrite, DoneOK, Syncs, Gets, Erases, Writes
<1>4. FlashOK
  BY <1>1 DEF FlashOK, MayWrite, Asks, Takes, Resets, Syncs, Gets, Erases, Writes, Flashes
<1> QED
  BY <1>2, <1>3, <1>4 DEF TalkInv

LEMMA NextTalk == RunInv /\ TalkInv /\ [Next]_vars => TalkInv'
BY AskVersionTalk, TakeLineTalk, StartBootloaderTalk, SyncTalk, GetIdTalk, EraseTalk, ReadImageTalk,
   WriteTalk, StartFirmwareTalk, GiveLineBackTalk, RecheckTalk, BrokerTalk, ResetTalk, StartTalk,
   StopTalk, StutterTalk DEF Next, Wapp

LEMMA TalksKeep == Spec => []TalkInv
BY InitTalk, NextTalk, RunsKeep, PTL DEF Spec

-----------------------------------------------------------------------------

\* A run that wrote and ends with success has put the whole image into the
\* flash: the answers of the bootloader are taken one for one, although those
\* to sync bytes may be late or lost, other runs may have left messages in the
\* pipe, and a read of the image may be short (write_image, an_write).
THEOREM SuccessIsWholeAlways == Spec => []SuccessIsWhole
<1>1. TalkInv => SuccessIsWhole
  BY DEF TalkInv, DoneOK, SuccessIsWhole
<1> QED
  BY <1>1, TalksKeep, PTL

\* A flash that holds an image with a version is never written again: no order
\* to erase or to write is sent for it, and none is left in the pipe (main,
\* flash).  An image without a version is written at every start.
THEOREM ImageIsKept == Spec => ImageStays
<1>1. RunInv /\ TalkInv /\ [Next]_vars => (versioned /\ flash = Image => flash' = Image)
  <2> SUFFICES ASSUME RunInv, TalkInv, [Next]_vars, versioned, flash = Image
               PROVE  flash' = Image
    OBVIOUS
  <2>1. CASE Broker
    <3>1. req # <<>> /\ WireOK
      BY <2>1 DEF Broker, RunInv
    <3>2. PICK m : m = Head(req)
      OBVIOUS
    <3>3. m = req[1] /\ Len(req) \in Nat \ {0}
      BY <3>1, <3>2, TailAfter DEF WireOK
    <3>4. m.kind \notin {"all", "data"}
      BY <3>3 DEF TalkInv, PendingOK, MayWrite
    <3> QED
      BY <2>1, <3>2, <3>4, BrokerDoes
  <2>2. CASE Wapp
    <3>1. UNCHANGED flash
      BY <2>2 DEF Wapp, AskVersion, TakeLine, StartBootloader, Sync, GetId, Erase, ReadImage, Write,
         StartFirmware, GiveLineBack, Recheck, Ask, Told, Untold, Again, Pin, BoardAt, Send, WaitAck,
         Byte, Fail, Rest, boardVars
    <3> QED
      BY <3>1
  <2>3. CASE Reset \/ Start \/ Stop \/ UNCHANGED vars
    BY <2>3 DEF Reset, Start, Stop, BoardAt, boardVars, vars
  <2> QED
    BY <2>1, <2>2, <2>3 DEF Next
<1>2. RunInv /\ TalkInv /\ [Next]_vars => [versioned /\ flash = Image => flash' = Image]_vars
  BY <1>1
<1> QED
  BY <1>2, RunsKeep, TalksKeep, PTL DEF Spec, ImageStays
-----------------------------------------------------------------------------
(* A run goes forward.                                                     *)

\* What a run has before it, the next thing last: a run goes from one stage to
\* a later one; within a stage it reads on in the image, or has one attempt
\* less, or goes to the next place.
StageOf(p) ==
    IF p = "off" THEN 0 ELSE IF p = "exit" THEN 1
    ELSE IF p \in {"recheck", "recheck?"} THEN 2
    ELSE IF p \in {"leave", "leave?"} THEN 3
    ELSE IF p = "run2" THEN 4 ELSE IF p = "run1" THEN 5 ELSE IF p = "run0" THEN 6
    ELSE IF p \in {"read"} \cup Writes THEN 7
    ELSE IF p \in Gets \cup Erases THEN 8
    ELSE IF p \in Syncs THEN 9
    ELSE IF p = "nrst1" THEN 10 ELSE IF p = "nrst0" THEN 11 ELSE IF p = "boot0" THEN 12
    ELSE IF p \in Takes THEN 13
    ELSE 14

PlaceOf(p) ==
    IF p \in {"version", "enter", "sync", "recheck", "leave", "data?", "all?"} THEN 1
    ELSE IF p \in {"data", "all"} THEN 2
    ELSE IF p \in {"addr?", "erase?"} THEN 3
    ELSE IF p \in {"addr", "erase"} THEN 4
    ELSE IF p \in {"write?", "idend?"} THEN 5
    ELSE IF p \in {"write", "id?"} THEN 6
    ELSE IF p = "get?" THEN 7
    ELSE IF p = "get" THEN 8
    ELSE 0

\* A message in the pipe makes at most three bytes of the line.
OnWay == 4 * Len(req) + Len(line)

Measure == <<StageOf(pc), LEN - off, left, PlaceOf(pc), OnWay>>

Less   == {ss \in Nat \X Nat : ss[1] < ss[2]}
Before == LexProductOrdering(Less, Nat, 5)

\* No sequence of measures goes down without end.
LEMMA BeforeEnds == IsWellFoundedOn(Before, [1 .. 5 -> Nat])
<1>1. Less = OpToRel(<, Nat)
  BY DEF OpToRel, Less
<1>2. IsWellFoundedOn(Less, Nat)
  BY <1>1, NatLessThanWellFounded
<1> QED
  BY <1>2, WFLexProductOrdering DEF Before

LEMMA BeforeIs ==
    ASSUME NEW u \in [1 .. 5 -> Nat], NEW v \in [1 .. 5 -> Nat],
           NEW j \in 1 .. 5, u[j] < v[j], \A i \in 1 .. j - 1 : u[i] = v[i]
    PROVE  <<u, v>> \in Before
<1>1. <<u[j], v[j]>> \in Less
  BY DEF Less
<1> QED
  BY <1>1 DEF Before, LexProductOrdering

LEMMA FiveAre ==
    ASSUME NEW a \in Nat, NEW b \in Nat, NEW c \in Nat, NEW d \in Nat, NEW e \in Nat
    PROVE  /\ <<a, b, c, d, e>> \in [1 .. 5 -> Nat]
           /\ <<a, b, c, d, e>>[1] = a /\ <<a, b, c, d, e>>[2] = b
           /\ <<a, b, c, d, e>>[3] = c /\ <<a, b, c, d, e>>[4] = d
           /\ <<a, b, c, d, e>>[5] = e
OBVIOUS

LEMMA StagesAre ==
    /\ StageOf("off") = 0 /\ StageOf("exit") = 1
    /\ StageOf("recheck") = 2 /\ StageOf("recheck?") = 2
    /\ StageOf("leave") = 3 /\ StageOf("leave?") = 3
    /\ StageOf("run2") = 4 /\ StageOf("run1") = 5 /\ StageOf("run0") = 6
    /\ StageOf("read") = 7 /\ \A p \in Writes : StageOf(p) = 7
    /\ \A p \in Gets \cup Erases : StageOf(p) = 8
    /\ StageOf("sync") = 9 /\ StageOf("sync?") = 9
    /\ StageOf("nrst1") = 10 /\ StageOf("nrst0") = 11 /\ StageOf("boot0") = 12
    /\ StageOf("enter") = 13 /\ StageOf("enter?") = 13
    /\ StageOf("version") = 14 /\ StageOf("version?") = 14
<1> USE DEF StageOf, Writes, Gets, Erases, Syncs, Takes
<1>1. StageOf("off") = 0 /\ StageOf("exit") = 1 /\ StageOf("recheck") = 2 /\ StageOf("recheck?") = 2
  OBVIOUS
<1>2. StageOf("leave") = 3 /\ StageOf("leave?") = 3
  OBVIOUS
<1>3. StageOf("run2") = 4 /\ StageOf("run1") = 5 /\ StageOf("run0") = 6
  OBVIOUS
<1>4. StageOf("read") = 7 /\ \A p \in Writes : StageOf(p) = 7
  OBVIOUS
<1>5. \A p \in Gets \cup Erases : StageOf(p) = 8
  OBVIOUS
<1>6. StageOf("sync") = 9 /\ StageOf("sync?") = 9
  OBVIOUS
<1>7. StageOf("nrst1") = 10 /\ StageOf("nrst0") = 11 /\ StageOf("boot0") = 12
  OBVIOUS
<1>8. StageOf("enter") = 13 /\ StageOf("enter?") = 13
  OBVIOUS
<1>9. StageOf("version") = 14 /\ StageOf("version?") = 14
  OBVIOUS
<1> HIDE DEF StageOf
<1> QED
  BY <1>1, <1>2, <1>3, <1>4, <1>5, <1>6, <1>7, <1>8, <1>9

LEMMA StagesCount == \A p : StageOf(p) \in Nat /\ PlaceOf(p) \in Nat
BY DEF StageOf, PlaceOf

LEMMA PlacesAre ==
    /\ PlaceOf("version") = 1 /\ PlaceOf("enter") = 1 /\ PlaceOf("sync") = 1
    /\ PlaceOf("recheck") = 1 /\ PlaceOf("leave") = 1
    /\ PlaceOf("version?") = 0 /\ PlaceOf("enter?") = 0 /\ PlaceOf("sync?") = 0
    /\ PlaceOf("recheck?") = 0 /\ PlaceOf("leave?") = 0 /\ PlaceOf("read") = 0
    /\ PlaceOf("data?") = 1 /\ PlaceOf("data") = 2 /\ PlaceOf("addr?") = 3
    /\ PlaceOf("addr") = 4 /\ PlaceOf("write?") = 5 /\ PlaceOf("write") = 6
    /\ PlaceOf("all?") = 1 /\ PlaceOf("all") = 2 /\ PlaceOf("erase?") = 3
    /\ PlaceOf("erase") = 4 /\ PlaceOf("idend?") = 5 /\ PlaceOf("id?") = 6
    /\ PlaceOf("get?") = 7 /\ PlaceOf("get") = 8
<1>1. /\ PlaceOf("version") = 1 /\ PlaceOf("enter") = 1 /\ PlaceOf("sync") = 1
      /\ PlaceOf("recheck") = 1 /\ PlaceOf("leave") = 1
  BY DEF PlaceOf
<1>2. /\ PlaceOf("version?") = 0 /\ PlaceOf("enter?") = 0 /\ PlaceOf("sync?") = 0
      /\ PlaceOf("recheck?") = 0 /\ PlaceOf("leave?") = 0 /\ PlaceOf("read") = 0
  BY DEF PlaceOf
<1>3. /\ PlaceOf("data?") = 1 /\ PlaceOf("data") = 2 /\ PlaceOf("addr?") = 3
      /\ PlaceOf("addr") = 4 /\ PlaceOf("write?") = 5 /\ PlaceOf("write") = 6
  BY DEF PlaceOf
<1>4. /\ PlaceOf("all?") = 1 /\ PlaceOf("all") = 2 /\ PlaceOf("erase?") = 3
      /\ PlaceOf("erase") = 4 /\ PlaceOf("idend?") = 5 /\ PlaceOf("id?") = 6
      /\ PlaceOf("get?") = 7 /\ PlaceOf("get") = 8
  BY DEF PlaceOf
<1> QED
  BY <1>1, <1>2, <1>3, <1>4

\* A step forward: to a later stage, or on within the stage.
Onward == /\ StageOf(pc') = StageOf(pc) /\ off' = off
          /\ \/ left' < left
             \/ left' = left /\ PlaceOf(pc') < PlaceOf(pc)
             \/ left' = left /\ pc' = pc /\ OnWay' < OnWay
Forward == \/ StageOf(pc') < StageOf(pc)
           \/ StageOf(pc') = StageOf(pc) /\ off' > off
           \/ Onward

LEMMA MeasureType ==
    ASSUME RunInv
    PROVE  /\ LEN \in Nat /\ off \in 0 .. LEN /\ left \in Nat /\ OnWay \in Nat
           /\ StageOf(pc) \in Nat /\ PlaceOf(pc) \in Nat
           /\ Len(req) \in Nat /\ Len(line) \in Nat
<1>1. off \in 0 .. LEN /\ left \in Nat /\ LEN \in Nat
  BY DEF RunInv, TypeOK
<1>2. Len(req) \in Nat /\ Len(line) \in Nat
  BY LenProperties DEF RunInv, WireOK
<1>3. OnWay \in Nat
  BY <1>2 DEF OnWay
<1> QED
  BY <1>1, <1>2, <1>3, StagesCount

LEMMA MeasureAfter ==
    ASSUME RunInv'
    PROVE  /\ off' \in 0 .. LEN /\ left' \in Nat /\ OnWay' \in Nat
           /\ StageOf(pc') \in Nat /\ PlaceOf(pc') \in Nat
<1>1. off' \in 0 .. LEN /\ left' \in Nat
  BY DEF RunInv, TypeOK
<1>2. Len(req') \in Nat /\ Len(line') \in Nat
  BY LenProperties DEF RunInv, WireOK
<1>3. OnWay' \in Nat
  BY <1>2 DEF OnWay
<1> QED
  BY <1>1, <1>3, StagesCount

LEMMA LessIsLeft ==
    ASSUME NEW l \in Nat, NEW m \in 0 .. l, NEW n \in 0 .. l, n > m
    PROVE  l - n < l - m
OBVIOUS

LEMMA ForwardIsBefore ==
    ASSUME RunInv, RunInv', Forward
    PROVE  <<Measure', Measure>> \in Before
<1> DEFINE a == StageOf(pc)
           b == LEN - off
           d == PlaceOf(pc)
<1>1. /\ a \in Nat /\ b \in Nat /\ left \in Nat /\ d \in Nat /\ OnWay \in Nat
      /\ Measure = <<a, b, left, d, OnWay>>
  BY MeasureType DEF Measure
<1>2. PICK x \in Nat, y \in Nat, z \in Nat, w \in Nat, o \in Nat :
          /\ x = StageOf(pc') /\ y = LEN - off' /\ z = left' /\ w = PlaceOf(pc') /\ o = OnWay'
          /\ Measure' = <<x, y, z, w, o>>
  <2>1. LEN - off' \in Nat
    BY MeasureType, MeasureAfter
  <2> QED
    BY <2>1, MeasureAfter DEF Measure
<1>3. \/ x < a
      \/ x = a /\ y < b
      \/ x = a /\ y = b /\ z < left
      \/ x = a /\ y = b /\ z = left /\ w < d
      \/ x = a /\ y = b /\ z = left /\ w = d /\ o < OnWay
  <2>1. off' > off => LEN - off' < LEN - off
    BY MeasureType, MeasureAfter, LessIsLeft
  <2>2. off' > off => y < b
    BY <1>2, <2>1
  <2>3. off' = off => y = b
    BY <1>2
  <2> QED
    BY <1>2, <2>2, <2>3 DEF Forward, Onward
<1> HIDE DEF a, b, d
<1>4. /\ Measure \in [1 .. 5 -> Nat] /\ Measure[1] = a /\ Measure[2] = b /\ Measure[3] = left
      /\ Measure[4] = d /\ Measure[5] = OnWay
  BY <1>1, FiveAre
<1>5. PICK u \in [1 .. 5 -> Nat] :
          u = Measure' /\ u[1] = x /\ u[2] = y /\ u[3] = z /\ u[4] = w /\ u[5] = o
  <2> DEFINE m == <<x, y, z, w, o>>
  <2>1. /\ m \in [1 .. 5 -> Nat] /\ m[1] = x /\ m[2] = y /\ m[3] = z /\ m[4] = w /\ m[5] = o
    BY FiveAre
  <2>2. Measure' = m
    BY <1>2
  <2> HIDE DEF m
  <2> QED
    BY <2>1, <2>2
<1>6. \E j \in 1 .. 5 : u[j] < Measure[j] /\ \A i \in 1 .. j - 1 : u[i] = Measure[i]
  <2>1. CASE x < a
    BY <1>4, <1>5, <2>1
  <2>2. CASE x = a /\ y < b
    BY <1>4, <1>5, <2>2
  <2>3. CASE x = a /\ y = b /\ z < left
    <3>1. \A i \in 1 .. 3 - 1 : i = 1 \/ i = 2
      OBVIOUS
    <3> QED
      BY <1>4, <1>5, <2>3, <3>1
  <2>4. CASE x = a /\ y = b /\ z = left /\ w < d
    <3>1. \A i \in 1 .. 4 - 1 : i = 1 \/ i = 2 \/ i = 3
      OBVIOUS
    <3> QED
      BY <1>4, <1>5, <2>4, <3>1
  <2>5. CASE x = a /\ y = b /\ z = left /\ w = d /\ o < OnWay
    <3>1. \A i \in 1 .. 5 - 1 : i = 1 \/ i = 2 \/ i = 3 \/ i = 4
      OBVIOUS
    <3> QED
      BY <1>4, <1>5, <2>5, <3>1
  <2> QED
    BY <1>3, <2>1, <2>2, <2>3, <2>4, <2>5
<1> QED
  BY <1>4, <1>5, <1>6, BeforeIs
LEMMA AskForward ==
    ASSUME NEW place, NEW kind, NEW next, Ask(place, kind, next),
           StageOf(next) = StageOf(place), PlaceOf(next) < PlaceOf(place)
    PROVE  Forward
BY DEF Ask, Forward, Onward

LEMMA ToldForward ==
    ASSUME NEW place, NEW a, NEW next, NEW code,
           Told(place, a, next, code) \/ Untold(place, next, code), StageOf(next) < StageOf(place)
    PROVE  Forward
BY DEF Told, Untold, Forward

LEMMA AgainForward ==
    ASSUME RunInv, NEW place, NEW asks, NEW next, NEW code, Again(place, asks, next, code),
           StageOf(asks) = StageOf(place), StageOf(next) < StageOf(place)
    PROVE  Forward
<1>1. left \in Nat
  BY MeasureType
<1>2. CASE left > 0
  BY <1>1, <1>2 DEF Again, Forward, Onward
<1>3. CASE ~(left > 0)
  BY <1>3 DEF Again, Forward
<1> QED
  BY <1>2, <1>3

LEMMA SendForward ==
    ASSUME NEW place, NEW kind, NEW bytes, NEW next, Send(place, kind, bytes, next),
           StageOf(next) = StageOf(place), PlaceOf(next) < PlaceOf(place)
    PROVE  Forward
BY DEF Send, Forward, Onward

\* A byte that leaves the wapp where it is leaves the line.
LEMMA ByteForward ==
    ASSUME RunInv, NEW place, NEW byte, NEW next, Byte(place, byte, next),
           \/ StageOf(next) < StageOf(place)
           \/ StageOf(next) = StageOf(place) /\ PlaceOf(next) < PlaceOf(place)
           \/ next = place
    PROVE  Forward
<1>1. /\ pc = place /\ pc' = next /\ off' = off /\ left' = left /\ req' = req
      /\ line # <<>> /\ line' = Tail(line)
  BY DEF Byte
<1>2. CASE next = place
  <2>1. line \in Seq(Wire) /\ Len(line) \in Nat /\ Len(req) \in Nat
    BY MeasureType DEF RunInv, WireOK
  <2>2. Len(line') = Len(line) - 1
    BY <1>1, <2>1, HeadTailProperties
  <2> DEFINE l == Len(line)
             q == Len(req)
  <2>3. OnWay = 4 * q + l /\ OnWay' = 4 * q + (l - 1) /\ l \in Nat /\ q \in Nat
    BY <1>1, <2>1, <2>2 DEF OnWay
  <2> HIDE DEF l, q
  <2>4. OnWay' < OnWay
    BY <2>3
  <2> QED
    BY <1>1, <1>2, <2>4 DEF Forward, Onward
<1>3. CASE StageOf(next) < StageOf(place)
  BY <1>1, <1>3 DEF Forward
<1>4. CASE StageOf(next) = StageOf(place) /\ PlaceOf(next) < PlaceOf(place)
  BY <1>1, <1>4 DEF Forward, Onward
<1> QED
  BY <1>2, <1>3, <1>4

LEMMA WaitForward ==
    ASSUME RunInv, NEW place, NEW next, WaitAck(place, next),
           \/ StageOf(next) < StageOf(place)
           \/ StageOf(next) = StageOf(place) /\ PlaceOf(next) < PlaceOf(place),
           StageOf("run0") < StageOf(place)
    PROVE  Forward
<1>1. CASE Byte(place, "ack", next)
  BY <1>1, ByteForward
<1>2. CASE Byte(place, "nack", "run0")
  BY <1>2, ByteForward
<1>3. CASE Byte(place, "id", place)
  BY <1>3, ByteForward
<1>4. CASE Fail(place)
  BY <1>4 DEF Fail, Restores, Forward
<1> QED
  BY <1>1, <1>2, <1>3, <1>4 DEF WaitAck

LEMMA PinForward ==
    ASSUME NEW place, NEW b, NEW n, NEW next, NEW failed, Pin(place, b, n, next, failed),
           StageOf(next) < StageOf(place), StageOf(failed) < StageOf(place)
    PROVE  Forward
BY DEF Pin, Forward

LEMMA FailForward ==
    ASSUME NEW place, Fail(place), StageOf("run0") < StageOf(place)
    PROVE  Forward
BY DEF Fail, Restores, Forward
LEMMA TalkForward ==
    ASSUME RunInv, AskVersion \/ TakeLine \/ GiveLineBack \/ Recheck
    PROVE  Forward
<1>1. ASSUME AskVersion PROVE Forward
  <2>1. CASE Ask("version", "state", "version?")
    BY <2>1, AskForward, StagesAre, PlacesAre
  <2>2. CASE Again("version?", "version", "exit", 0)
    BY <2>2, AgainForward, StagesAre
  <2>3. CASE \E a \in {"old", "new", "refused"}, next \in {"enter", "exit"}, code \in {0, 1} :
                 Told("version?", a, next, code) \/ Untold("version?", next, code)
    BY <2>3, ToldForward, StagesAre
  <2> QED
    BY <1>1, <2>1, <2>2, <2>3 DEF AskVersion
<1>2. ASSUME TakeLine PROVE Forward
  <2>1. CASE Ask("enter", "enter", "enter?")
    BY <2>1, AskForward, StagesAre, PlacesAre
  <2>2. CASE Again("enter?", "enter", "leave", 1)
    BY <2>2, AgainForward, StagesAre
  <2>3. CASE Told("enter?", "refused", "leave", 1) \/ Untold("enter?", "leave", 1)
    BY <2>3, ToldForward, StagesAre
  <2>4. CASE pc = "enter?" /\ pc' = "boot0"
    BY <2>4, StagesAre DEF Forward
  <2> QED
    BY <1>2, <2>1, <2>2, <2>3, <2>4 DEF TakeLine
<1>3. ASSUME GiveLineBack PROVE Forward
  <2>1. CASE Ask("leave", "leave", "leave?")
    BY <2>1, AskForward, StagesAre, PlacesAre
  <2>2. CASE pc = "leave?" /\ pc' \in {"recheck", "exit"}
    BY <2>2, StagesAre DEF Forward
  <2> QED
    BY <1>3, <2>1, <2>2 DEF GiveLineBack, Told, Untold
<1>4. ASSUME Recheck PROVE Forward
  <2>1. CASE Ask("recheck", "recheck", "recheck?")
    BY <2>1, AskForward, StagesAre, PlacesAre
  <2>2. CASE Again("recheck?", "recheck", "exit", 0)
    BY <2>2, AgainForward, StagesAre
  <2>3. CASE \E a \in {"old", "new", "refused"}, code \in {0, 1} :
                 Told("recheck?", a, "exit", code) \/ Untold("recheck?", "exit", code)
    BY <2>3, ToldForward, StagesAre
  <2> QED
    BY <1>4, <2>1, <2>2, <2>3 DEF Recheck
<1> QED
  BY <1>1, <1>2, <1>3, <1>4

LEMMA PinsForward ==
    ASSUME StartBootloader \/ StartFirmware
    PROVE  Forward
<1>1. CASE Pin("boot0", 1, nrst, "nrst0", "run0")
  BY <1>1, PinForward, StagesAre
<1>2. CASE Pin("nrst0", boot0, 0, "nrst1", "run0")
  BY <1>2, PinForward, StagesAre
<1>3. CASE Pin("nrst1", boot0, 1, "sync", "run0")
  BY <1>3, PinForward, StagesAre
<1>4. CASE Pin("run0", 0, nrst, "run1", "leave")
  BY <1>4, PinForward, StagesAre
<1>5. CASE Pin("run1", boot0, 0, "run2", "leave")
  BY <1>5, PinForward, StagesAre
<1>6. CASE Pin("run2", boot0, 1, "leave", "leave")
  BY <1>6, PinForward, StagesAre
<1> QED
  BY <1>1, <1>2, <1>3, <1>4, <1>5, <1>6 DEF StartBootloader, StartFirmware

LEMMA SyncForward ==
    ASSUME RunInv, Sync
    PROVE  Forward
<1>1. CASE Send("sync", "sync", <<>>, "sync?")
  BY <1>1, SendForward, StagesAre, PlacesAre
<1>2. CASE Byte("sync?", "ack", "get") \/ Byte("sync?", "nack", "get")
  <2>1. StageOf("get") < StageOf("sync?")
    BY StagesAre DEF Gets
  <2> QED
    BY <1>2, <2>1, ByteForward
<1>3. CASE Byte("sync?", "id", "sync?")
  BY <1>3, ByteForward
<1>4. CASE /\ pc = "sync?" /\ left' = CountsDown(left)
           /\ pc' = IF left' > 0 THEN "sync" ELSE "run0"
           /\ UNCHANGED off
  <2>1. left \in Nat /\ left' < left
    BY <1>4, MeasureType DEF CountsDown
  <2>2. CASE pc' = "sync"
    BY <1>4, <2>1, <2>2, StagesAre DEF Forward, Onward
  <2>3. CASE pc' = "run0"
    BY <1>4, <2>3, StagesAre DEF Forward
  <2> QED
    BY <1>4, <2>2, <2>3
<1> QED
  BY <1>1, <1>2, <1>3, <1>4 DEF Sync

LEMMA GetIdForward ==
    ASSUME RunInv, GetId
    PROVE  Forward
<1>1. /\ StageOf("get") = 8 /\ StageOf("get?") = 8 /\ StageOf("id?") = 8 /\ StageOf("idend?") = 8
      /\ StageOf("erase") = 8 /\ StageOf("run0") = 6
  BY StagesAre DEF Gets, Erases
<1>2. CASE Send("get", "get", <<>>, "get?")
  BY <1>1, <1>2, SendForward, PlacesAre
<1>3. CASE WaitAck("get?", "id?") \/ WaitAck("idend?", "erase")
  BY <1>1, <1>3, WaitForward, PlacesAre
<1>4. CASE Byte("id?", "id", "idend?")
  BY <1>1, <1>4, ByteForward, PlacesAre
<1>5. CASE Fail("id?")
  BY <1>1, <1>5, FailForward
<1> QED
  BY <1>2, <1>3, <1>4, <1>5 DEF GetId

LEMMA EraseForward ==
    ASSUME RunInv, Erase
    PROVE  Forward
<1>1. /\ StageOf("erase") = 8 /\ StageOf("erase?") = 8 /\ StageOf("all") = 8 /\ StageOf("all?") = 8
      /\ StageOf("read") = 7 /\ StageOf("run0") = 6
  BY StagesAre DEF Gets, Erases
<1>2. CASE Send("erase", "erase", <<>>, "erase?") \/ Send("all", "all", <<>>, "all?")
  BY <1>1, <1>2, SendForward, PlacesAre
<1>3. CASE WaitAck("erase?", "all") \/ WaitAck("all?", "read")
  BY <1>1, <1>3, WaitForward, PlacesAre
<1> QED
  BY <1>2, <1>3 DEF Erase

LEMMA ReadForward ==
    ASSUME RunInv, ReadImage
    PROVE  Forward
<1>1. StageOf("read") = 7 /\ StageOf("write") = 7 /\ StageOf("run0") = 6
  BY StagesAre DEF Writes
<1>2. CASE pc = "read" /\ pc' = "write" /\ \E k \in Reads : off' = off + k
  <2>1. off \in Nat /\ \A k \in Reads : k \in Nat /\ k > 0
    BY MeasureType DEF Reads
  <2>2. off' > off
    BY <1>2, <2>1
  <2> QED
    BY <1>1, <1>2, <2>2 DEF Forward
<1>3. CASE pc = "read" /\ pc' = "run0"
  BY <1>1, <1>3 DEF Forward
<1> QED
  BY <1>2, <1>3 DEF ReadImage, Fail, Restores

LEMMA WriteForward ==
    ASSUME RunInv, Write
    PROVE  Forward
<1>1. /\ StageOf("write") = 7 /\ StageOf("write?") = 7 /\ StageOf("addr") = 7 /\ StageOf("addr?") = 7
      /\ StageOf("data") = 7 /\ StageOf("data?") = 7 /\ StageOf("read") = 7 /\ StageOf("run0") = 6
  BY StagesAre DEF Writes
<1>2. CASE \/ Send("write", "write", <<>>, "write?") \/ Send("addr", "addr", <<>>, "addr?")
           \/ Send("data", "data", part, "data?")
  BY <1>1, <1>2, SendForward, PlacesAre
<1>3. CASE WaitAck("write?", "addr") \/ WaitAck("addr?", "data")
  BY <1>1, <1>3, WaitForward, PlacesAre
<1>4. CASE pc = "data?" /\ pc' = "read" /\ UNCHANGED <<off, left>>
  BY <1>1, <1>4, PlacesAre DEF Forward, Onward
<1>5. CASE Byte("data?", "nack", "run0") \/ Byte("data?", "id", "data?") \/ Fail("data?")
  BY <1>1, <1>5, ByteForward, FailForward
<1> QED
  BY <1>2, <1>3, <1>4, <1>5 DEF Write

\* The broker takes one message from the pipe, and at most three bytes come of it.
LEMMA BrokerForward ==
    ASSUME RunInv, Broker
    PROVE  Forward
<1>1. /\ req # <<>> /\ req' = Tail(req) /\ pc' = pc /\ off' = off /\ left' = left
      /\ \/ line' = line
         \/ \E bytes \in {<<"ack">>, <<"nack">>, <<"ack", "id", "ack">>} : line' = line \o bytes
  BY DEF Broker, Rom, Says, wappVars, boardVars
<1>2. req \in Seq(Message) /\ line \in Seq(Wire) /\ Len(req) \in Nat /\ Len(line) \in Nat
  BY MeasureType DEF RunInv, WireOK
<1>3. Len(req') = Len(req) - 1 /\ Len(req) # 0
  BY <1>1, <1>2, HeadTailProperties
<1>4. Len(line') \in Nat /\ Len(line') <= Len(line) + 3
  <2>1. ASSUME NEW bytes \in {<<"ack">>, <<"nack">>, <<"ack", "id", "ack">>}, line' = line \o bytes
        PROVE  Len(line') \in Nat /\ Len(line') <= Len(line) + 3
    <3>1. bytes \in Seq(Wire) /\ Len(bytes) \in {1, 3}
      BY BytesAre
    <3>2. Len(line') = Len(line) + Len(bytes)
      BY <1>2, <2>1, <3>1, ConcatProperties
    <3> DEFINE l == Len(line)
               k == Len(bytes)
    <3>3. l \in Nat /\ k \in {1, 3} /\ Len(line') = l + k
      BY <1>2, <3>1, <3>2
    <3> HIDE DEF l, k
    <3>4. l + k \in Nat /\ l + k <= l + 3
      BY <3>3
    <3> QED
      BY <3>3, <3>4 DEF l
  <2> QED
    BY <1>1, <1>2, <2>1
<1>5. OnWay' < OnWay
  <2> DEFINE l == Len(line)
             q == Len(req)
  <2>1. PICK n \in Nat : n = Len(line') /\ n <= l + 3
    BY <1>4
  <2>2. /\ l \in Nat /\ q \in Nat \ {0} /\ OnWay = 4 * q + l
        /\ OnWay' = 4 * (q - 1) + n
    BY <1>2, <1>3, <2>1 DEF OnWay
  <2> HIDE DEF l, q
  <2> QED
    BY <2>1, <2>2
<1> QED
  BY <1>1, <1>5 DEF Forward, Onward

LEMMA StopForward ==
    ASSUME RunInv, Stop
    PROVE  Forward
<1>1. pc \in Places \ {"off", "exit"} /\ pc' = "off"
  BY DEF Stop, RunInv, TypeOK, Places
<1>2. StageOf("off") = 0 /\ StageOf(pc) \in Nat /\ StageOf(pc) # 0
  <2>1. StageOf(pc) # 0
    BY <1>1 DEF StageOf
  <2> QED
    BY <2>1, StagesAre, StagesCount
<1> QED
  BY <1>1, <1>2 DEF Forward
\* The board resets by itself: what the bootloader has said is gone.
LEMMA ResetStays ==
    ASSUME RunInv, Reset
    PROVE  resets' > resets /\ (Forward \/ Measure' = Measure)
<1>1. /\ resets' = resets + 1 /\ pc' = pc /\ off' = off /\ left' = left /\ req' = req
      /\ line' = <<>>
  BY DEF Reset, BoardAt, wappVars
<1>2. resets \in Nat
  BY DEF RunInv, TypeOK
<1>3. line \in Seq(Wire) /\ Len(req) \in Nat /\ Len(line) \in Nat
  BY MeasureType DEF RunInv, WireOK
<1>4. CASE line = <<>>
  <2>1. OnWay' = OnWay
    BY <1>1, <1>4 DEF OnWay
  <2> QED
    BY <1>1, <1>2, <2>1 DEF Measure
<1>5. CASE line # <<>>
  <2>1. Len(line) > 0 /\ Len(line') = 0
    <3>1. Len(line) # 0
      BY <1>3, <1>5, EmptySeq
    <3> QED
      BY <1>1, <1>3, <3>1
  <2> DEFINE l == Len(line)
             q == Len(req)
  <2>2. l \in Nat \ {0} /\ q \in Nat /\ OnWay = 4 * q + l /\ OnWay' = 4 * q + 0
    BY <1>1, <1>3, <2>1 DEF OnWay
  <2> HIDE DEF l, q
  <2>3. OnWay' < OnWay
    BY <2>2
  <2> QED
    BY <1>1, <1>2, <2>3 DEF Forward, Onward
<1> QED
  BY <1>4, <1>5

\* Each step but the start of the next run and a reset of the board.
RunGoesForward ==
    [][runs' = runs => \/ <<Measure', Measure>> \in Before
                       \/ resets' > resets /\ Measure' = Measure]_vars

\* A run has no way around in a circle, whatever the length of the image and
\* whatever is lost, late or refused: each step of the wapp, of the broker and
\* of the bootloader brings its end nearer, by an order without endless
\* descents (BeforeEnds); a reset of the board takes nothing of that back
\* (ask_until, wait_byte and line_byte, which have a time, and write_image).
THEOREM RunsGoForward == Spec => RunGoesForward
<1>1. ASSUME RunInv, RunInv', [Next]_vars
      PROVE  \/ UNCHANGED vars
             \/ runs' = runs => \/ <<Measure', Measure>> \in Before
                                \/ resets' > resets /\ Measure' = Measure
  <2>1. CASE Wapp
    <3>1. Forward
      BY <1>1, <2>1, TalkForward, PinsForward, SyncForward, GetIdForward, EraseForward, ReadForward,
         WriteForward DEF Wapp
    <3> QED
      BY <1>1, <3>1, ForwardIsBefore
  <2>2. CASE Broker \/ Stop
    BY <1>1, <2>2, BrokerForward, StopForward, ForwardIsBefore
  <2>3. CASE Reset
    BY <1>1, <2>3, ResetStays, ForwardIsBefore
  <2>4. CASE Start
    <3>1. runs \in Nat /\ runs' = runs + 1
      BY <1>1, <2>4 DEF Start, RunInv, TypeOK
    <3> QED
      BY <3>1
  <2> QED
    BY <1>1, <2>1, <2>2, <2>3, <2>4 DEF Next
<1>2. RunInv /\ RunInv' /\ [Next]_vars =>
         [runs' = runs => \/ <<Measure', Measure>> \in Before
                          \/ resets' > resets /\ Measure' = Measure]_vars
  BY <1>1
<1> QED
  BY <1>2, RunsKeep, PTL DEF Spec, RunGoesForward
=============================================================================
