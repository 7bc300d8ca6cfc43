----------------------------- MODULE FlashProofs -----------------------------
(***************************************************************************)
(* What the board keeps in its flash: the files of the assets and the      *)
(* settings.                                                               *)
(*                                                                         *)
(* The first part is about the files. AskInv holds the clients, the broker *)
(* and the line together: the one request in flight, its copies on the     *)
(* line and the answer that it may still take. On it rest FileInv, which   *)
(* says of every file how many of its parts the board holds and how many   *)
(* the client knows of, and the invariants of the two pages: ReadOK of a   *)
(* file read piece by piece and ListOK of a directory read by its index.   *)
(*                                                                         *)
(* The second part is about the store of the settings, for every set of    *)
(* fields and levels and every number of saves, on a board whose assets    *)
(* come up: first lemmas about two records, whatever the task does with    *)
(* them, then one lemma for each action.                                   *)
(***************************************************************************)
EXTENDS ConfigStore, Storage, SequenceTheorems, FiniteSetTheorems, TLAPS

-----------------------------------------------------------------------------
(* The invariant of the clients, the broker and the line.                  *)

Operations == {"write", "read", "list", "delete", "mkdir"}
Asked   == [id : Nat, op : Operations, path : Paths \cup {None}, t : Transfers \cup {None},
            part : 0 .. PARTS, at : Nat]
Answers == [ok : BOOLEAN, body : Seq(Piece) \cup Seq(Paths), next : Nat]

\* The types of all fields, with those that FilesTypeOK leaves open.
FileTypes ==
    /\ xfer \in [Transfers -> [path : Paths \cup {None}, sent : 0 .. PARTS, state : States]]
    /\ reader \in [path : Paths \cup {None}, copy : Seq(Piece), state : States, clean : BOOLEAN]
    /\ lister \in [names : Seq(Paths), next : Nat, state : States, clean : BOOLEAN]
    /\ asks \in 0 .. MaxAsks /\ busy \in BOOLEAN /\ tries \in 0 .. REPLY_TRIES
    /\ (asks > 0 => ask \in Asked) /\ down \in Seq(Asked) /\ up \in Seq(Answers)
    /\ dir \in BOOLEAN /\ files \subseteq Paths /\ (files # {} => dir)
    /\ content \in [Paths -> Seq(Piece)] /\ fd \in Paths \cup {None}
    /\ restarts \in 0 .. MaxRestarts /\ mix \in Mixes
    /\ owner \in Transfers \cup {None} /\ latest \in [Paths -> Transfers \cup {None}]
    /\ mixed \subseteq Transfers /\ twice \subseteq Transfers
    /\ (fd = None <=> owner = None)

\* The line keeps the order of the requests; those with the last id are the
\* last request, and nothing else is behind one that has its reply.
QueueOK ==
    /\ busy => asks > 0
    /\ asks > 0 => ask.id = asks
    /\ \A i \in 1 .. Len(down) : down[i].id <= asks /\ (down[i].id = asks => down[i] = ask)
    /\ \A i, j \in 1 .. Len(down) : i < j => down[i].id <= down[j].id
    /\ Len(up) <= (IF busy THEN 1 ELSE 0)
    /\ up # <<>> => \A i \in 1 .. Len(down) : down[i] = ask

\* The copies on the line and the attempts that are left add up.
RoomOK == Len(down) + (IF busy THEN REPLY_TRIES - tries ELSE 0) <= REPLY_TRIES * asks

\* A request that writes is for the file of its transfer.
OfFile(q) == q.op = "write" => /\ q.t \in Transfers /\ q.part # 0
                               /\ q.path # None /\ xfer[q.t].path = q.path

\* The client that waits has asked for what comes next.
ClientsOK ==
    /\ \A t \in Transfers : /\ xfer[t].path = None <=> xfer[t].state = "new"
                            /\ xfer[t].sent = PARTS <=> xfer[t].state = "done"
    /\ \A i \in 1 .. Len(down) : OfFile(down[i])
    /\ busy => /\ OfFile(ask)
               /\ ask.op = "write" => /\ xfer[ask.t].state = "runs"
                                      /\ ask.part = xfer[ask.t].sent + 1
               /\ ask.op = "read" => /\ reader.state = "runs" /\ ask.at = Len(reader.copy)
                                     /\ ask.path = reader.path
               /\ ask.op = "list" => lister.state = "runs" /\ ask.at = lister.next
    /\ reader.path = None <=> reader.state = "new"
    /\ reader.state = "new" => reader.copy = <<>>

\* A reply is of the kind of the request.
AnswerOK ==
    up # <<>> => /\ up[1].ok = FALSE => up[1].body = <<>>
                 /\ ask.op = "read" => up[1].body \in Seq(Piece)
                 /\ ask.op = "list" => up[1].body \in Seq(Paths)

AskInv == FileTypes /\ QueueOK /\ RoomOK /\ ClientsOK /\ AnswerOK

-----------------------------------------------------------------------------
(* Sequences.                                                              *)

LEMMA TailOf ==
    ASSUME NEW S, NEW s \in Seq(S), s # <<>>
    PROVE  /\ Head(s) = s[1] /\ Head(s) \in S /\ Len(s) \in Nat \ {0} /\ 1 \in 1 .. Len(s)
           /\ Tail(s) \in Seq(S) /\ Len(Tail(s)) = Len(s) - 1
           /\ \A k \in 1 .. Len(Tail(s)) : Tail(s)[k] = s[k + 1] /\ k + 1 \in 1 .. Len(s)
BY HeadTailProperties, LenProperties

LEMMA AppendOf ==
    ASSUME NEW S, NEW s \in Seq(S), NEW x \in S
    PROVE  /\ Append(s, x) \in Seq(S) /\ Len(Append(s, x)) = Len(s) + 1 /\ Len(s) \in Nat
           /\ \A k \in 1 .. Len(Append(s, x)) :
                \/ k \in 1 .. Len(s) /\ Append(s, x)[k] = s[k]
                \/ k = Len(s) + 1 /\ Append(s, x)[k] = x
BY AppendProperties, LenProperties

LEMMA OneOf ==
    ASSUME NEW S, NEW x \in S
    PROVE  <<x>> \in Seq(S) /\ Len(<<x>>) = 1 /\ <<x>>[1] = x /\ <<x>> # <<>>
OBVIOUS

LEMMA NoneOf == ASSUME NEW S PROVE <<>> \in Seq(S) /\ Len(<<>>) = 0
OBVIOUS

LEMMA CutOf ==
    ASSUME NEW S, NEW s \in Seq(S), NEW a \in Nat \ {0}, NEW b \in Nat, b <= Len(s)
    PROVE  /\ SubSeq(s, a, b) \in Seq(S)
           /\ Len(SubSeq(s, a, b)) = IF a <= b THEN b - a + 1 ELSE 0
           /\ \A k \in 1 .. Len(SubSeq(s, a, b)) : SubSeq(s, a, b)[k] = s[a + k - 1]
<1>1. Len(s) \in Nat /\ DOMAIN s = 1 .. Len(s)
  BY LenProperties
<1>2. \A i \in a .. b : s[i] \in S
  BY <1>1, ElementOfSeq
<1> QED
  BY <1>1, <1>2, SubSeqProperties

LEMMA ConcatOf ==
    ASSUME NEW S, NEW s \in Seq(S), NEW u \in Seq(S)
    PROVE  /\ s \o u \in Seq(S) /\ Len(s \o u) = Len(s) + Len(u)
           /\ Len(s) \in Nat /\ Len(u) \in Nat
           /\ \A k \in 1 .. Len(s) + Len(u) :
                (s \o u)[k] = IF k <= Len(s) THEN s[k] ELSE u[k - Len(s)]
BY ConcatProperties, LenProperties

LEMMA EmptyIs ==
    ASSUME NEW S, NEW s \in Seq(S)
    PROVE  /\ Len(s) \in Nat /\ (s = <<>> <=> Len(s) = 0)
           /\ \A k \in 1 .. Len(s) : s[k] \in S
BY LenProperties, EmptySeq, ElementOfSeq

-----------------------------------------------------------------------------
(* The directory.                                                          *)

\* A finite set of numbers has an enumeration in its order: each number comes
\* after those below it.
LEMMA InOrder ==
    ASSUME NEW S, S \subseteq Nat, IsFiniteSet(S)
    PROVE  \E s \in [1 .. Cardinality(S) -> S] : \A i, j \in DOMAIN s : i < j => s[i] < s[j]
<1> DEFINE n == Cardinality(S)
           Below(x) == {y \in S : y < x}
           rank == [x \in S |-> Cardinality(Below(x)) + 1]
<1>1. n \in Nat
  BY FS_CardinalityType
<1>2. ASSUME NEW x \in S
      PROVE  IsFiniteSet(Below(x)) /\ Cardinality(Below(x)) \in Nat /\ Cardinality(Below(x)) <= n - 1
  <2>1. IsFiniteSet(S \ {x}) /\ Cardinality(S \ {x}) = n - 1
    BY FS_RemoveElement
  <2>2. Below(x) \in SUBSET (S \ {x})
    OBVIOUS
  <2>3. IsFiniteSet(Below(x)) /\ Cardinality(Below(x)) <= Cardinality(S \ {x})
    BY <2>1, <2>2, FS_Subset
  <2> QED
    BY <2>1, <2>3, FS_CardinalityType
<1>3. ASSUME NEW x \in S, NEW y \in S, x < y
      PROVE  Cardinality(Below(x)) < Cardinality(Below(y))
  <2>1. IsFiniteSet(Below(x) \cup {x}) /\ Cardinality(Below(x) \cup {x}) = Cardinality(Below(x)) + 1
    <3>1. x \notin Below(x)
      <4>1. x \in Nat
        OBVIOUS
      <4> QED
        BY <4>1
    <3> QED
      BY <1>2, <3>1, FS_AddElement
  <2>2. Below(x) \cup {x} \in SUBSET Below(y)
    <3>1. x \in Nat /\ y \in Nat /\ \A z \in S : z \in Nat
      OBVIOUS
    <3>2. \A z \in S : z < x => z < y
      BY <1>3, <3>1
    <3> QED
      BY <1>3, <3>2
  <2> HIDE DEF Below
  <2>3. Cardinality(Below(x) \cup {x}) <= Cardinality(Below(y))
    BY <1>2, <2>2, FS_Subset
  <2> QED
    BY <1>2, <2>1, <2>3
<1> HIDE DEF Below
<1>4. rank \in [S -> 1 .. n]
  BY <1>1, <1>2
<1>5. ASSUME NEW x \in S, NEW y \in S, rank[x] = rank[y] PROVE x = y
  BY <1>2, <1>3, <1>5
<1>6. rank \in Injection(S, 1 .. n)
  BY <1>4, <1>5 DEF Injection, IsInjective
<1>7. rank \in Surjection(S, 1 .. n)
  <2>1. IsFiniteSet(1 .. n) /\ Cardinality(1 .. n) = n
    BY <1>1, FS_Interval
  <2> QED
    BY <1>6, <2>1, FS_Injection
<1>8. ASSUME NEW k \in 1 .. n PROVE \E x \in S : rank[x] = k
  BY <1>7 DEF Surjection
<1> DEFINE s == [k \in 1 .. n |-> CHOOSE x \in S : rank[x] = k]
<1>9. \A k \in 1 .. n : s[k] \in S /\ rank[s[k]] = k
  BY <1>8
<1>10. ASSUME NEW i \in 1 .. n, NEW j \in 1 .. n, i < j PROVE s[i] < s[j]
  <2>1. s[i] \in Nat /\ s[j] \in Nat /\ s[i] \in S /\ s[j] \in S
    BY <1>9
  <2>2. rank[s[i]] < rank[s[j]]
    BY <1>9, <1>10
  <2>3. ~(s[j] < s[i]) /\ s[i] # s[j]
    <3> HIDE DEF s
    <3>1. s[j] < s[i] => rank[s[j]] < rank[s[i]]
      BY <2>1, <1>2, <1>3
    <3> QED
      BY <2>1, <2>2, <3>1, <1>4
  <2> QED
    BY <2>1, <2>3
<1>11. s \in [1 .. n -> S]
  BY <1>9
<1> QED
  BY <1>10, <1>11

\* The entries are a sequence of the files.
LEMMA EntriesType ==
    ASSUME files \subseteq Paths
    PROVE  Entries \in Seq(Paths)
<1>1. files \subseteq Nat /\ IsFiniteSet(files) /\ Cardinality(files) \in Nat
  BY StorageAssumption, FS_Subset, FS_CardinalityType
<1>2. \E s \in [1 .. Cardinality(files) -> files] : \A i, j \in DOMAIN s : i < j => s[i] < s[j]
  BY <1>1, InOrder
<1>3. Entries \in [1 .. Cardinality(files) -> files]
  BY <1>2 DEF Entries
<1>4. Entries \in Seq(files)
  BY <1>1, <1>3
<1> QED
  BY <1>4, SeqMonotonic

\* A page is a part of the directory.
LEMMA PageType ==
    ASSUME files \subseteq Paths, NEW at \in Nat
    PROVE  /\ PageFrom(at).body \in Seq(Paths) /\ PageFrom(at).next \in Nat
           /\ After(at) \in Nat /\ After(at) <= Len(Entries) /\ Len(Entries) \in Nat
<1> DEFINE e == Entries
<1>1. e \in Seq(Paths)
  BY EntriesType
<1>2. Len(e) \in Nat
  BY <1>1, LenProperties
<1>3. After(at) \in Nat /\ After(at) <= Len(e)
  BY <1>2, StorageAssumption DEF After
<1>4. SubSeq(e, at + 1, After(at)) \in Seq(Paths)
  <2> HIDE DEF e
  <2>1. at + 1 \in Nat \ {0}
    OBVIOUS
  <2> QED
    BY <1>1, <1>3, <2>1, CutOf
<1> QED
  BY <1>2, <1>3, <1>4 DEF PageFrom, End

\* A piece of a file is one part, or none behind its end.
LEMMA PieceType ==
    ASSUME content \in [Paths -> Seq(Piece)], NEW p \in Paths, NEW at \in Nat
    PROVE  PieceAt(p, at) \in Seq(Piece)
<1> DEFINE c == content[p]
<1>1. c \in Seq(Piece) /\ Len(c) \in Nat
  BY LenProperties
<1>2. CASE at < Len(c)
  <2>1. at + 1 \in 1 .. Len(c)
    BY <1>1, <1>2
  <2>2. c[at + 1] \in Piece
    BY <1>1, <2>1, EmptyIs
  <2> QED
    BY <1>2, <2>2, OneOf DEF PieceAt
<1>3. CASE ~(at < Len(c))
  BY <1>3, NoneOf DEF PieceAt
<1> QED
  BY <1>2, <1>3

\* A part that is taken goes to the end of a file.
LEMMA WithType ==
    ASSUME NEW old \in [Paths -> Seq(Piece)], NEW p \in Paths, NEW q \in Asked,
           q.t \in Transfers, q.part # 0, NEW whole \in BOOLEAN
    PROVE  /\ With(old, p, q, whole) \in [Paths -> Seq(Piece)]
           /\ \A r \in Paths \ {p} : With(old, p, q, whole)[r] = old[r]
           /\ With(old, p, q, whole)[p] = Append(old[p], [of |-> q.t, part |-> q.part, whole |-> whole])
<1>1. [of |-> q.t, part |-> q.part, whole |-> whole] \in Piece
  BY StorageAssumption DEF Asked, Piece
<1> DEFINE c == Append(old[p], [of |-> q.t, part |-> q.part, whole |-> whole])
<1>2. c \in Seq(Piece)
  BY <1>1, AppendOf
<1>3. With(old, p, q, whole) = [old EXCEPT ![p] = c]
  BY DEF With
<1> HIDE DEF c
<1>4. With(old, p, q, whole)[p] = c
  BY <1>3
<1>5. /\ With(old, p, q, whole) \in [Paths -> Seq(Piece)]
      /\ \A r \in Paths \ {p} : With(old, p, q, whole)[r] = old[r]
  BY <1>2, <1>3
<1> QED
  BY <1>4, <1>5 DEF c

-----------------------------------------------------------------------------
(* The requests and the line.                                              *)

LEMMA FilesInitAsk == FilesInit => AskInv
<1> SUFFICES ASSUME FilesInit PROVE AskInv
  OBVIOUS
<1>1. <<>> \in Seq(Asked) /\ <<>> \in Seq(Answers) /\ <<>> \in Seq(Piece) /\ <<>> \in Seq(Paths)
      /\ Len(<<>>) = 0
  BY NoneOf
<1>2. /\ 0 \in 0 .. MaxAsks /\ 0 \in 0 .. REPLY_TRIES /\ 0 \in 0 .. MaxRestarts
      /\ 0 \in 0 .. PARTS /\ PARTS # 0 /\ REPLY_TRIES * 0 = 0
  BY StorageAssumption
<1>3. FileTypes
  <2>1. "new" \in States
    BY DEF States
  <2>2. /\ [path |-> None, sent |-> 0, state |-> "new"] \in [path : Paths \cup {None}, sent : 0 .. PARTS, state : States]
        /\ reader \in [path : Paths \cup {None}, copy : Seq(Piece), state : States, clean : BOOLEAN]
    BY <1>1, <1>2, <2>1 DEF FilesInit
  <2>3. lister \in [names : Seq(Paths), next : Nat, state : States, clean : BOOLEAN]
    BY <1>1, <1>2, <2>1 DEF FilesInit
  <2>4. xfer \in [Transfers -> [path : Paths \cup {None}, sent : 0 .. PARTS, state : States]]
    BY <2>2 DEF FilesInit
  <2>5. /\ content \in [Paths -> Seq(Piece)] /\ latest \in [Paths -> Transfers \cup {None}]
        /\ mixed \subseteq Transfers /\ twice \subseteq Transfers /\ busy \in BOOLEAN
    BY <1>1 DEF FilesInit
  <2>6. ~(asks > 0)
    BY DEF FilesInit
  <2> QED
    BY <1>1, <1>2, <2>2, <2>3, <2>4, <2>5, <2>6 DEF FilesInit, FileTypes
<1>4. QueueOK /\ RoomOK /\ AnswerOK
  BY <1>1, <1>2 DEF FilesInit, QueueOK, RoomOK, AnswerOK
<1>5. ClientsOK
  BY <1>1, <1>2 DEF FilesInit, ClientsOK
<1> QED
  BY <1>3, <1>4, <1>5 DEF AskInv

\* The last request and the reply to it.
LEMMA LastIs ==
    ASSUME AskInv
    PROVE  /\ asks \in Nat /\ tries \in Nat /\ REPLY_TRIES \in Nat \ {0} /\ PARTS \in Nat \ {0}
           /\ REPLY_TRIES * asks \in Nat
           /\ down \in Seq(Asked) /\ up \in Seq(Answers) /\ Len(down) \in Nat
           /\ \A i \in 1 .. Len(down) : down[i] \in Asked /\ down[i].id \in Nat
           /\ ~busy => up = <<>>
           /\ busy => ask \in Asked /\ asks > 0 /\ ask.id = asks
           /\ up # <<>> => busy /\ Len(up) = 1 /\ up[1] \in Answers /\ up[1].ok \in BOOLEAN
<1>1. down \in Seq(Asked) /\ up \in Seq(Answers) /\ Len(down) \in Nat /\ Len(up) \in Nat
  BY LenProperties DEF AskInv, FileTypes
<1>2. \A i \in 1 .. Len(down) : down[i] \in Asked
  BY <1>1, EmptyIs
<1>3. (up = <<>> <=> Len(up) = 0) /\ \A i \in 1 .. Len(up) : up[i] \in Answers
  BY <1>1, EmptyIs
<1>4. Len(up) <= (IF busy THEN 1 ELSE 0)
  BY DEF AskInv, QueueOK
<1>5. asks \in Nat /\ tries \in Nat /\ REPLY_TRIES \in Nat \ {0} /\ PARTS \in Nat \ {0}
  BY StorageAssumption DEF AskInv, FileTypes
<1>6. REPLY_TRIES * asks \in Nat
  BY <1>5
<1>7. busy => ask \in Asked /\ asks > 0 /\ ask.id = asks
  BY DEF AskInv, FileTypes, QueueOK
<1>8. up # <<>> => busy /\ Len(up) = 1 /\ up[1] \in Answers
  <2> DEFINE most == IF busy THEN 1 ELSE 0
  <2>1. (busy => most = 1) /\ (~busy => most = 0)
    OBVIOUS
  <2>2. Len(up) <= most
    BY <1>4
  <2> HIDE DEF most
  <2>3. ~busy => up = <<>>
    <3>1. most = 0 => Len(up) = 0
      BY <1>1, <2>2
    <3> QED
      BY <1>3, <2>1, <3>1
  <2>4. ASSUME up # <<>>, most = 1 PROVE Len(up) = 1 /\ up[1] \in Answers
    <3> DEFINE n == Len(up)
    <3>1. n \in Nat /\ n # 0 /\ n <= 1 /\ \A i \in 1 .. n : up[i] \in Answers
      BY <1>1, <1>3, <2>2, <2>4
    <3> HIDE DEF n
    <3>2. n = 1 /\ 1 \in 1 .. n
      BY <3>1
    <3>3. up[1] \in Answers
      BY <3>1, <3>2
    <3> QED
      BY <3>2, <3>3 DEF n
  <2> QED
    BY <2>1, <2>3, <2>4
<1>9. \A a \in Answers : a.ok \in BOOLEAN
  BY DEF Answers
<1>10. \A a \in Asked : a.id \in Nat
  BY DEF Asked
<1>11. ~busy => up = <<>>
  BY <1>8
<1>12. up # <<>> => up[1].ok \in BOOLEAN
  BY <1>8, <1>9
<1>13. \A i \in 1 .. Len(down) : down[i] \in Asked /\ down[i].id \in Nat
  BY <1>2, <1>10
<1> QED
  BY <1>1, <1>5, <1>6, <1>7, <1>8, <1>11, <1>12, <1>13

\* The numbers of the line alone.
LEMMA CountsAre ==
    ASSUME AskInv
    PROVE  /\ asks \in Nat /\ tries \in Nat /\ REPLY_TRIES \in Nat \ {0} /\ PARTS \in Nat \ {0}
           /\ REPLY_TRIES * asks \in Nat /\ Len(down) \in Nat
BY LastIs

\* A new request leaves the line as it is.
LEMMA AskQueue ==
    ASSUME AskInv, NEW op \in Operations, NEW path \in Paths \cup {None},
           NEW t \in Transfers \cup {None}, NEW part \in 0 .. PARTS, NEW at \in Nat,
           Ask(op, path, t, part, at)
    PROVE  /\ QueueOK' /\ RoomOK' /\ AnswerOK'
           /\ asks' \in 0 .. MaxAsks /\ ask' \in Asked /\ busy' = TRUE /\ up' = <<>> /\ down' = down
           /\ tries' \in 0 .. REPLY_TRIES /\ up = <<>> /\ ~busy
           /\ ask' = [id |-> asks + 1, op |-> op, path |-> path, t |-> t, part |-> part, at |-> at]
           /\ UNCHANGED <<disk, restarts, history>>
<1>1. /\ ~busy /\ asks < MaxAsks /\ asks' = asks + 1 /\ busy' = TRUE /\ tries' = 0
      /\ ask' = [id |-> asks + 1, op |-> op, path |-> path, t |-> t, part |-> part, at |-> at]
      /\ UNCHANGED <<down, up, disk, restarts, history>>
  BY DEF Ask, Serves
<1>2. up = <<>>
  BY <1>1, LastIs
<1>3. asks + 1 \in 0 .. MaxAsks /\ asks + 1 \in Nat /\ asks + 1 > 0 /\ 0 \in 0 .. REPLY_TRIES
  BY <1>1, LastIs, StorageAssumption
<1>4. ask' \in Asked /\ ask'.id = asks'
  BY <1>1, <1>3 DEF Asked
<1>5. QueueOK'
  <2>1. \A i \in 1 .. Len(down) : down[i].id <= asks' /\ ~(down[i].id = asks')
    <3>1. \A i \in 1 .. Len(down) : down[i].id <= asks /\ down[i].id \in Nat
      BY LastIs DEF AskInv, QueueOK
    <3>2. asks \in Nat /\ asks' = asks + 1
      BY <1>1, CountsAre
    <3> QED
      BY <3>1, <3>2
  <2>2. \A i, j \in 1 .. Len(down) : i < j => down[i].id <= down[j].id
    BY DEF AskInv, QueueOK
  <2> QED
    BY <1>1, <1>2, <1>3, <1>4, <2>1, <2>2, NoneOf DEF QueueOK
<1>6. RoomOK'
  <2>1. Len(down) <= REPLY_TRIES * asks
    BY <1>1, CountsAre DEF AskInv, RoomOK
  <2>2. REPLY_TRIES * (asks + 1) = REPLY_TRIES * asks + REPLY_TRIES
    BY CountsAre
  <2> QED
    BY <1>1, <2>1, <2>2, CountsAre DEF RoomOK
<1> QED
  BY <1>1, <1>2, <1>3, <1>4, <1>5, <1>6 DEF AnswerOK

\* What the types of the board do not depend on.
LEMMA TypesOfBoard ==
    ASSUME AskInv, UNCHANGED <<disk, restarts, history, mix>>
    PROVE  /\ dir' \in BOOLEAN /\ files' \subseteq Paths /\ (files' # {} => dir')
           /\ content' \in [Paths -> Seq(Piece)] /\ fd' \in Paths \cup {None}
           /\ restarts' \in 0 .. MaxRestarts /\ mix' \in Mixes
           /\ owner' \in Transfers \cup {None} /\ latest' \in [Paths -> Transfers \cup {None}]
           /\ mixed' \subseteq Transfers /\ twice' \subseteq Transfers
           /\ (fd' = None <=> owner' = None)
BY DEF AskInv, FileTypes, disk, history

\* The next part of a transfer, or its first part.
LEMMA WritePartIs ==
    ASSUME AskInv, NEW t \in Transfers, WritePart(t)
    PROVE  \E p \in Paths, part \in 1 .. PARTS :
             /\ Ask("write", p, t, part, 0)
             /\ xfer' = [xfer EXCEPT ![t] = [path |-> p, sent |-> part - 1, state |-> "runs"]]
             /\ xfer[t].path = p \/ xfer[t].path = None
             /\ part = 1 \/ part = xfer[t].sent + 1
             /\ UNCHANGED <<reader, lister>>
<1> DEFINE x == xfer[t]
<1>1. x \in [path : Paths \cup {None}, sent : 0 .. PARTS, state : States]
  BY DEF AskInv, FileTypes
<1>2. CASE x.state = "new"
  <2>1. PICK p \in Paths :
          /\ xfer' = [xfer EXCEPT ![t] = [path |-> p, sent |-> 0, state |-> "runs"]]
          /\ Ask("write", p, t, 1, 0) /\ UNCHANGED <<reader, lister>>
    BY <1>2, StorageAssumption DEF WritePart
  <2>2. 1 \in 1 .. PARTS /\ 1 - 1 = 0 /\ xfer[t].path = None
    BY <1>2, LastIs DEF AskInv, ClientsOK
  <2> QED
    BY <2>1, <2>2
<1>3. CASE x.state # "new"
  <2>1. PICK part \in {1, x.sent + 1} :
          /\ x.state \in {"runs", "failed"}
          /\ xfer' = [xfer EXCEPT ![t].sent = part - 1, ![t].state = "runs"]
          /\ Ask("write", x.path, t, part, 0) /\ UNCHANGED <<reader, lister>>
    BY <1>3 DEF WritePart
  <2>2. x.sent # PARTS
    BY <2>1 DEF AskInv, ClientsOK
  <2>3. part \in 1 .. PARTS
    <3>1. x.sent \in 0 .. PARTS /\ part \in {1, x.sent + 1}
      BY <1>1, <2>1
    <3> QED
      BY <2>2, <3>1, CountsAre
  <2>4. x.path \in Paths
    BY <1>1, <1>3 DEF AskInv, ClientsOK
  <2>5. xfer' = [xfer EXCEPT ![t] = [path |-> x.path, sent |-> part - 1, state |-> "runs"]]
    <3>1. xfer \in [Transfers -> [path : Paths \cup {None}, sent : 0 .. PARTS, state : States]]
      BY DEF AskInv, FileTypes
    <3>2. /\ xfer'[t] = [path |-> x.path, sent |-> part - 1, state |-> "runs"]
          /\ DOMAIN xfer' = Transfers /\ \A u \in Transfers \ {t} : xfer'[u] = xfer[u]
          /\ xfer' = [u \in Transfers |-> xfer'[u]]
      BY <2>1, <3>1
    <3> HIDE DEF x
    <3> QED
      BY <3>1, <3>2
  <2> QED
    BY <2>1, <2>3, <2>4, <2>5
<1> QED
  BY <1>2, <1>3

LEMMA WritePartAsk ==
    ASSUME AskInv, NEW t \in Transfers, WritePart(t), UNCHANGED mix
    PROVE  AskInv'
<1>2. PICK p \in Paths, part \in 1 .. PARTS :
         /\ Ask("write", p, t, part, 0)
         /\ xfer' = [xfer EXCEPT ![t] = [path |-> p, sent |-> part - 1, state |-> "runs"]]
         /\ xfer[t].path = p \/ xfer[t].path = None
         /\ UNCHANGED <<reader, lister>>
  BY WritePartIs
<1>3. part \in 0 .. PARTS /\ part - 1 \in 0 .. PARTS /\ part - 1 + 1 = part /\ part # 0 /\ part - 1 # PARTS
  BY <1>2, LastIs
<1>4. /\ QueueOK' /\ RoomOK' /\ AnswerOK'
      /\ asks' \in 0 .. MaxAsks /\ ask' \in Asked /\ busy' = TRUE /\ up' = <<>> /\ down' = down
      /\ tries' \in 0 .. REPLY_TRIES
      /\ ask' = [id |-> asks + 1, op |-> "write", path |-> p, t |-> t, part |-> part, at |-> 0]
      /\ UNCHANGED <<disk, restarts, history>>
  BY <1>2, <1>3, AskQueue DEF Operations
<1>5. FileTypes'
  <2>1. [path |-> p, sent |-> part - 1, state |-> "runs"] \in [path : Paths \cup {None}, sent : 0 .. PARTS, state : States]
    BY <1>2, <1>3 DEF States
  <2>2. xfer' \in [Transfers -> [path : Paths \cup {None}, sent : 0 .. PARTS, state : States]]
    BY <1>2, <2>1 DEF AskInv, FileTypes
  <2>3. up' \in Seq(Answers)
    BY <1>4, NoneOf
  <2> QED
    BY <1>2, <1>4, <2>2, <2>3, TypesOfBoard DEF AskInv, FileTypes
<1>6. ClientsOK'
  <2>1. xfer'[t] = [path |-> p, sent |-> part - 1, state |-> "runs"] /\ \A u \in Transfers \ {t} : xfer'[u] = xfer[u]
    BY <1>2 DEF AskInv, FileTypes
  <2>2. p # None
    BY <1>2, StorageAssumption DEF None
  <2>3. \A u \in Transfers : /\ xfer'[u].path = None <=> xfer'[u].state = "new"
                             /\ xfer'[u].sent = PARTS <=> xfer'[u].state = "done"
    BY <1>3, <2>1, <2>2 DEF AskInv, ClientsOK
  <2>4. ASSUME NEW i \in 1 .. Len(down) PROVE OfFile(down[i])'
    <3>1. OfFile(down[i])
      BY DEF AskInv, ClientsOK
    <3> QED
      BY <1>2, <1>4, <2>1, <3>1 DEF OfFile
  <2>5. OfFile(ask)'
    BY <1>3, <1>4, <2>1, <2>2 DEF OfFile
  <2> QED
    BY <1>2, <1>3, <1>4, <2>1, <2>3, <2>4, <2>5 DEF AskInv, ClientsOK
<1> QED
  BY <1>4, <1>5, <1>6 DEF AskInv

\* A request that writes nothing.
LEMMA NoPartAsk ==
    ASSUME AskInv, NEW op \in Operations, NEW path \in Paths \cup {None}, NEW at \in Nat,
           Ask(op, path, None, 0, at)
    PROVE  /\ QueueOK' /\ RoomOK' /\ AnswerOK'
           /\ asks' \in 0 .. MaxAsks /\ ask' \in Asked /\ busy' = TRUE /\ up' = <<>> /\ down' = down
           /\ tries' \in 0 .. REPLY_TRIES
           /\ ask' = [id |-> asks + 1, op |-> op, path |-> path, t |-> None, part |-> 0, at |-> at]
           /\ UNCHANGED <<disk, restarts, history>>
<1>1. None \in Transfers \cup {None} /\ 0 \in 0 .. PARTS
  BY LastIs
<1> QED
  BY <1>1, AskQueue

\* A request that writes nothing is for its client and touches no file.
LEMMA OtherAsk ==
    ASSUME AskInv, NEW op \in Operations, NEW path \in Paths \cup {None}, NEW at \in Nat,
           Ask(op, path, None, 0, at), op # "write", UNCHANGED <<xfer, mix>>,
           reader' \in [path : Paths \cup {None}, copy : Seq(Piece), state : States, clean : BOOLEAN],
           lister' \in [names : Seq(Paths), next : Nat, state : States, clean : BOOLEAN],
           reader'.path = None <=> reader'.state = "new",
           reader'.state = "new" => reader'.copy = <<>>,
           op = "read" => reader'.state = "runs" /\ at = Len(reader'.copy) /\ path = reader'.path,
           op = "list" => lister'.state = "runs" /\ at = lister'.next
    PROVE  AskInv'
<1>1. /\ QueueOK' /\ RoomOK' /\ AnswerOK'
      /\ asks' \in 0 .. MaxAsks /\ ask' \in Asked /\ busy' = TRUE /\ up' = <<>> /\ down' = down
      /\ tries' \in 0 .. REPLY_TRIES
      /\ ask' = [id |-> asks + 1, op |-> op, path |-> path, t |-> None, part |-> 0, at |-> at]
      /\ UNCHANGED <<disk, restarts, history>>
  BY NoPartAsk
<1>2. FileTypes'
  <2>1. up' \in Seq(Answers)
    BY <1>1, NoneOf
  <2> QED
    BY <1>1, <2>1, TypesOfBoard DEF AskInv, FileTypes
<1>3. ClientsOK'
  <2>1. ASSUME NEW i \in 1 .. Len(down) PROVE OfFile(down[i])'
    <3>1. OfFile(down[i])
      BY DEF AskInv, ClientsOK
    <3> QED
      BY <1>1, <3>1 DEF OfFile
  <2>2. OfFile(ask)' /\ ask'.op = op /\ ask'.at = at /\ ask'.path = path
    BY <1>1 DEF OfFile
  <2>3. \A t \in Transfers : /\ xfer'[t].path = None <=> xfer'[t].state = "new"
                             /\ xfer'[t].sent = PARTS <=> xfer'[t].state = "done"
    BY DEF AskInv, ClientsOK
  <2> QED
    BY <1>1, <2>1, <2>2, <2>3 DEF ClientsOK
<1> QED
  BY <1>1, <1>2, <1>3 DEF AskInv

\* The client that reads, and the one that lists.
LEMMA ReaderIs ==
    ASSUME AskInv
    PROVE  /\ reader \in [path : Paths \cup {None}, copy : Seq(Piece), state : States, clean : BOOLEAN]
           /\ lister \in [names : Seq(Paths), next : Nat, state : States, clean : BOOLEAN]
           /\ Len(reader.copy) \in Nat /\ lister.next \in Nat
           /\ reader.path = None <=> reader.state = "new"
           /\ reader.state = "new" => reader.copy = <<>>
<1>1. /\ reader \in [path : Paths \cup {None}, copy : Seq(Piece), state : States, clean : BOOLEAN]
      /\ lister \in [names : Seq(Paths), next : Nat, state : States, clean : BOOLEAN]
      /\ reader.path = None <=> reader.state = "new"
      /\ reader.state = "new" => reader.copy = <<>>
  BY DEF AskInv, FileTypes, ClientsOK
<1>2. reader.copy \in Seq(Piece) /\ lister.next \in Nat
  BY <1>1
<1> QED
  BY <1>1, <1>2, LenProperties

LEMMA ReadPartAsk ==
    ASSUME AskInv, ReadPart, UNCHANGED mix
    PROVE  AskInv'
<1>1. PICK p \in Paths :
        /\ Ask("read", p, None, 0, Len(reader.copy))
        /\ reader' = [reader EXCEPT !.path = p, !.state = "runs"]
        /\ UNCHANGED <<xfer, lister>>
  <2>1. ASSUME reader.state = "new", NEW p \in Paths, Ask("read", p, None, 0, 0)
        PROVE  Ask("read", p, None, 0, Len(reader.copy))
    BY <2>1, ReaderIs, NoneOf
  <2>2. ASSUME reader.state \in {"runs", "failed"}, reader' = [reader EXCEPT !.state = "runs"]
        PROVE  reader.path \in Paths /\ reader' = [reader EXCEPT !.path = reader.path, !.state = "runs"]
    <3>1. reader.path \in Paths
      BY <2>2, ReaderIs
    <3> QED
      BY <2>2, <3>1, ReaderIs
  <2> QED
    BY <2>1, <2>2, StorageAssumption DEF ReadPart
<1>2. p # None /\ "read" \in Operations /\ "runs" \in States
  BY StorageAssumption DEF None, Operations, States
<1>3. /\ reader' \in [path : Paths \cup {None}, copy : Seq(Piece), state : States, clean : BOOLEAN]
      /\ reader'.path = p /\ reader'.state = "runs" /\ reader'.copy = reader.copy
  BY <1>1, <1>2, ReaderIs
<1>4. lister' \in [names : Seq(Paths), next : Nat, state : States, clean : BOOLEAN]
  BY <1>1, ReaderIs
<1> QED
  BY <1>1, <1>2, <1>3, <1>4, ReaderIs, OtherAsk

LEMMA ListPartAsk ==
    ASSUME AskInv, ListPart, UNCHANGED mix
    PROVE  AskInv'
<1>1. /\ Ask("list", None, None, 0, lister.next)
      /\ lister' = [lister EXCEPT !.state = "runs"] /\ UNCHANGED <<xfer, reader>>
  BY DEF ListPart
<1>2. "list" \in Operations /\ "runs" \in States
  BY DEF Operations, States
<1>3. /\ lister' \in [names : Seq(Paths), next : Nat, state : States, clean : BOOLEAN]
      /\ lister'.next = lister.next /\ lister'.state = "runs"
  BY <1>1, <1>2, ReaderIs
<1> QED
  BY <1>1, <1>2, <1>3, ReaderIs, OtherAsk

LEMMA ChangeAsk ==
    ASSUME AskInv, RemoveEntry \/ MakeDir, UNCHANGED mix
    PROVE  AskInv'
<1>1. PICK op \in {"delete", "mkdir"}, p \in Paths \cup {None} :
        Ask(op, p, None, 0, 0) /\ UNCHANGED clients
  BY StorageAssumption DEF RemoveEntry, MakeDir
<1>2. op \in Operations /\ op \notin {"write", "read", "list"}
  BY DEF Operations
<1>3. UNCHANGED <<xfer, reader, lister>>
  BY <1>1 DEF clients
<1> QED
  BY <1>1, <1>2, <1>3, ReaderIs, OtherAsk

\* The names that the body has room for.
LEMMA CutNamesType ==
    ASSUME NEW body \in Seq(Paths)
    PROVE  CutNames(body) \in Seq(Paths)
<1> DEFINE n == IF Len(body) < BODY_ROOM THEN Len(body) ELSE BODY_ROOM
<1>1. n \in Nat /\ n <= Len(body) /\ 1 \in Nat \ {0}
  BY StorageAssumption, LenProperties
<1> HIDE DEF n
<1>2. SubSeq(body, 1, n) \in Seq(Paths)
  BY <1>1, CutOf
<1> QED
  BY <1>2 DEF CutNames, n

\* What a client is told.
LEMMA TellTypes ==
    ASSUME AskInv, busy, NEW ok \in BOOLEAN, NEW body, NEW next \in Nat, Tell(ok, body, next),
           ask.op = "read" => body \in Seq(Piece), ask.op = "list" => body \in Seq(Paths)
    PROVE  /\ xfer' \in [Transfers -> [path : Paths \cup {None}, sent : 0 .. PARTS, state : States]]
           /\ reader' \in [path : Paths \cup {None}, copy : Seq(Piece), state : States, clean : BOOLEAN]
           /\ lister' \in [names : Seq(Paths), next : Nat, state : States, clean : BOOLEAN]
           /\ \A t \in Transfers : /\ xfer'[t].path = xfer[t].path
                                   /\ xfer'[t].path = None <=> xfer'[t].state = "new"
                                   /\ xfer'[t].sent = PARTS <=> xfer'[t].state = "done"
           /\ reader'.path = None <=> reader'.state = "new"
           /\ reader'.state = "new" => reader'.copy = <<>>
<1>1. /\ xfer \in [Transfers -> [path : Paths \cup {None}, sent : 0 .. PARTS, state : States]]
      /\ \A t \in Transfers : /\ xfer[t].path = None <=> xfer[t].state = "new"
                              /\ xfer[t].sent = PARTS <=> xfer[t].state = "done"
  BY DEF AskInv, FileTypes, ClientsOK
<1>2. CASE ask.op = "write"
  <2> DEFINE t == ask.t
             sent == IF ok THEN ask.part ELSE xfer[t].sent
             state == IF ~ok THEN "failed" ELSE IF ask.part = PARTS THEN "done" ELSE "runs"
  <2>1. t \in Transfers /\ xfer[t].path # None /\ xfer[t].state = "runs" /\ ask.part \in 0 .. PARTS
    BY <1>2, LastIs DEF AskInv, ClientsOK, OfFile, Asked
  <2>2. /\ xfer' = [xfer EXCEPT ![t].sent = sent, ![t].state = state]
        /\ UNCHANGED <<reader, lister>>
    <3>1. xfer' = [xfer EXCEPT
                ![ask.t].sent = IF ok THEN ask.part ELSE @,
                ![ask.t].state = IF ~ok THEN "failed"
                               ELSE IF ask.part = PARTS THEN "done" ELSE "runs"]
          /\ UNCHANGED <<reader, lister>>
      BY <1>2 DEF Tell
    <3> QED
      BY <3>1
  <2>3. sent \in 0 .. PARTS /\ state \in States /\ state # "new"
    BY <1>1, <2>1 DEF States
  <2>4. sent = PARTS <=> state = "done"
    BY <1>1, <2>1
  <2> HIDE DEF t, sent, state
  <2>5. /\ xfer'[t] = [path |-> xfer[t].path, sent |-> sent, state |-> state]
        /\ \A u \in Transfers \ {t} : xfer'[u] = xfer[u]
        /\ xfer' = [u \in Transfers |-> xfer'[u]]
    BY <1>1, <2>1, <2>2
  <2>6. xfer'[t] \in [path : Paths \cup {None}, sent : 0 .. PARTS, state : States]
    BY <1>1, <2>1, <2>3, <2>5
  <2>7. xfer' \in [Transfers -> [path : Paths \cup {None}, sent : 0 .. PARTS, state : States]]
    BY <1>1, <2>5, <2>6
  <2>8. \A u \in Transfers : /\ xfer'[u].path = xfer[u].path
                             /\ xfer'[u].path = None <=> xfer'[u].state = "new"
                             /\ xfer'[u].sent = PARTS <=> xfer'[u].state = "done"
    BY <1>1, <2>1, <2>3, <2>4, <2>5
  <2> QED
    BY <2>2, <2>7, <2>8, ReaderIs
<1>3. CASE ask.op = "read"
  <2>1. /\ reader' = [reader EXCEPT
                !.copy = reader.copy \o body,
                !.state = IF ~ok THEN "failed" ELSE IF body = <<>> THEN "done" ELSE "runs"]
        /\ UNCHANGED <<xfer, lister>>
    BY <1>3 DEF Tell
  <2>2. reader.state = "runs"
    BY <1>3 DEF AskInv, ClientsOK
  <2>3. reader.copy \o body \in Seq(Piece)
    BY <1>3, ReaderIs, ConcatOf
  <2> DEFINE state == IF ~ok THEN "failed" ELSE IF body = <<>> THEN "done" ELSE "runs"
             copy == reader.copy \o body
  <2>4. state \in States /\ state # "new" /\ copy \in Seq(Piece)
        /\ reader' = [reader EXCEPT !.copy = copy, !.state = state]
    BY <2>1, <2>3 DEF States
  <2> HIDE DEF state, copy
  <2>5. /\ reader' \in [path : Paths \cup {None}, copy : Seq(Piece), state : States, clean : BOOLEAN]
        /\ reader'.path = reader.path /\ reader'.state = state
    BY <2>4, ReaderIs
  <2> QED
    BY <1>1, <2>1, <2>2, <2>4, <2>5, ReaderIs
<1>4. CASE ask.op = "list"
  <2> DEFINE state == IF ~ok THEN "failed" ELSE IF next = End THEN "done" ELSE "runs"
             names == lister.names \o CutNames(body)
             to == IF ok THEN next ELSE lister.next
  <2>1. lister' = [lister EXCEPT !.names = names, !.next = to, !.state = state]
        /\ UNCHANGED <<xfer, reader>>
    BY <1>4, ReaderIs DEF Tell
  <2>2. state \in States /\ to \in Nat
    BY ReaderIs DEF States
  <2>3. names \in Seq(Paths)
    BY <1>4, ReaderIs, CutNamesType, ConcatOf
  <2> HIDE DEF state, names, to
  <2>4. lister' \in [names : Seq(Paths), next : Nat, state : States, clean : BOOLEAN]
    BY <2>1, <2>2, <2>3, ReaderIs
  <2> QED
    BY <1>1, <2>1, <2>4, ReaderIs
<1>5. CASE ask.op \notin {"write", "read", "list"}
  <2>1. UNCHANGED <<xfer, reader, lister>>
    BY <1>5 DEF Tell, clients
  <2> QED
    BY <1>1, <2>1, ReaderIs
<1> QED
  BY <1>2, <1>3, <1>4, <1>5

\* The end of a request leaves the line as it is.
LEMMA EndAsk ==
    ASSUME AskInv, busy, NEW ok \in BOOLEAN, NEW body, NEW next \in Nat, Tell(ok, body, next),
           ask.op = "read" => body \in Seq(Piece), ask.op = "list" => body \in Seq(Paths),
           busy' = FALSE, tries' = 0, up' = <<>>,
           UNCHANGED <<asks, ask, down, disk, restarts, history, mix>>
    PROVE  AskInv'
<1>1. up' \in Seq(Answers) /\ Len(up') = 0 /\ tries' \in 0 .. REPLY_TRIES
  BY NoneOf, LastIs
<1>2. QueueOK' /\ AnswerOK'
  BY <1>1, LastIs DEF AskInv, QueueOK, AnswerOK
<1>3. RoomOK'
  <2>1. tries <= REPLY_TRIES
    BY LastIs DEF AskInv, FileTypes
  <2>2. Len(down) + (REPLY_TRIES - tries) <= REPLY_TRIES * asks
    BY DEF AskInv, RoomOK
  <2>3. Len(down) <= REPLY_TRIES * asks
    BY <2>1, <2>2, LastIs
  <2> QED
    BY <2>3, LastIs DEF RoomOK
<1>4. FileTypes'
  BY <1>1, TellTypes, TypesOfBoard DEF AskInv, FileTypes
<1>5. ClientsOK'
  <2>1. ASSUME NEW i \in 1 .. Len(down) PROVE OfFile(down[i])'
    <3>1. OfFile(down[i])
      BY DEF AskInv, ClientsOK
    <3> QED
      BY <3>1, TellTypes DEF OfFile
  <2> QED
    BY <2>1, TellTypes DEF ClientsOK
<1> QED
  BY <1>2, <1>3, <1>4, <1>5 DEF AskInv

LEMMA OnReplyAsk ==
    ASSUME AskInv, OnReply, UNCHANGED mix
    PROVE  AskInv'
<1>1. /\ up[1].ok \in BOOLEAN /\ up[1].next \in Nat /\ busy
      /\ ask.op = "read" => up[1].body \in Seq(Piece)
      /\ ask.op = "list" => up[1].body \in Seq(Paths)
  <2>1. up # <<>>
    BY DEF OnReply
  <2>2. up[1] \in Answers /\ up[1].ok \in BOOLEAN /\ busy
    BY <2>1, LastIs
  <2>3. up[1].next \in Nat
    BY <2>2 DEF Answers
  <2> QED
    BY <2>1, <2>2, <2>3 DEF AskInv, AnswerOK
<1>2. /\ busy' = FALSE /\ tries' = 0 /\ up' = <<>>
      /\ Tell(up[1].ok, up[1].body, up[1].next) \/ Tell(FALSE, <<>>, 0)
      /\ UNCHANGED <<asks, ask, down, disk, restarts, history, mix>>
  BY DEF OnReply
<1>3. CASE Tell(up[1].ok, up[1].body, up[1].next)
  BY <1>1, <1>2, <1>3, EndAsk
<1>4. CASE Tell(FALSE, <<>>, 0)
  <2>1. <<>> \in Seq(Piece) /\ <<>> \in Seq(Paths) /\ FALSE \in BOOLEAN /\ 0 \in Nat
    BY NoneOf
  <2> QED
    BY <1>1, <1>2, <1>4, <2>1, EndAsk
<1> QED
  BY <1>2, <1>3, <1>4

LEMMA GiveUpAsk ==
    ASSUME AskInv, GiveUp, UNCHANGED mix
    PROVE  AskInv'
<1>1. /\ busy /\ busy' = FALSE /\ tries' = 0 /\ up' = <<>> /\ Tell(FALSE, <<>>, 0)
      /\ UNCHANGED <<asks, ask, down, disk, restarts, history, mix>>
  BY DEF GiveUp
<1>2. <<>> \in Seq(Piece) /\ <<>> \in Seq(Paths) /\ FALSE \in BOOLEAN /\ 0 \in Nat
  BY NoneOf
<1> QED
  BY <1>1, <1>2, EndAsk

\* One more attempt.
LEMMA AttemptAsk ==
    ASSUME AskInv, Attempt, UNCHANGED mix
    PROVE  AskInv'
<1>1. /\ busy /\ tries < REPLY_TRIES /\ tries' = tries + 1 /\ down' \in {down, Append(down, ask)}
      /\ UNCHANGED <<xfer, reader, lister, asks, ask, busy, up, disk, restarts, history, mix>>
  BY DEF Attempt, clients
<1>2. ask \in Asked /\ asks > 0 /\ ask.id = asks
  BY <1>1, LastIs
<1>3. /\ down' \in Seq(Asked) /\ Len(down') \in Nat /\ Len(down') <= Len(down) + 1
      /\ Len(down) <= Len(down')
      /\ \A k \in 1 .. Len(down') : \/ k \in 1 .. Len(down) /\ down'[k] = down[k]
                                    \/ k > Len(down) /\ down'[k] = ask
  <2>1. CASE down' = down
    BY <2>1, LastIs
  <2>2. CASE down' = Append(down, ask)
    <3>1. \A k \in 1 .. Len(down') : k \in Nat
      OBVIOUS
    <3> QED
      BY <1>2, <2>2, <3>1, LastIs, AppendOf
  <2> QED
    BY <1>1, <2>1, <2>2
<1>4. FileTypes'
  <2>1. tries' \in 0 .. REPLY_TRIES
    BY <1>1, LastIs
  <2> QED
    BY <1>1, <1>3, <2>1, TypesOfBoard DEF AskInv, FileTypes
<1>5. QueueOK'
  <2>1. /\ \A i \in 1 .. Len(down) : down[i].id <= asks /\ (down[i].id = asks => down[i] = ask)
        /\ \A i, j \in 1 .. Len(down) : i < j => down[i].id <= down[j].id
        /\ up # <<>> => \A i \in 1 .. Len(down) : down[i] = ask
    BY DEF AskInv, QueueOK
  <2>2. ASSUME NEW i \in 1 .. Len(down')
        PROVE  down'[i].id <= asks /\ (down'[i].id = asks => down'[i] = ask)
    <3>1. CASE i \in 1 .. Len(down) /\ down'[i] = down[i]
      BY <2>1, <3>1
    <3>2. CASE down'[i] = ask
      <4>1. asks \in Nat
        BY LastIs
      <4> QED
        BY <1>2, <3>2, <4>1
    <3> QED
      BY <1>3, <3>1, <3>2
  <2>3. ASSUME NEW i \in 1 .. Len(down'), NEW j \in 1 .. Len(down'), i < j
        PROVE  down'[i].id <= down'[j].id
    <3>1. CASE j \in 1 .. Len(down) /\ down'[j] = down[j]
      <4>1. i \in 1 .. Len(down) /\ down'[i] = down[i]
        <5>1. Len(down) \in Nat
          BY LastIs
        <5>2. ~(i > Len(down))
          BY <2>3, <3>1, <5>1
        <5> QED
          BY <1>3, <5>2
      <4> QED
        BY <2>1, <2>3, <3>1, <4>1
    <3>2. CASE down'[j] = ask
      BY <1>2, <2>2, <3>2
    <3> QED
      BY <1>3, <3>1, <3>2
  <2>4. up # <<>> => \A i \in 1 .. Len(down') : down'[i] = ask
    BY <1>3, <2>1
  <2>5. Len(up) <= (IF busy THEN 1 ELSE 0)
    BY DEF AskInv, QueueOK
  <2> QED
    BY <1>1, <1>2, <2>2, <2>3, <2>4, <2>5 DEF QueueOK
<1>6. RoomOK'
  <2>1. Len(down) + (REPLY_TRIES - tries) <= REPLY_TRIES * asks
    BY <1>1 DEF AskInv, RoomOK
  <2>2. Len(down') + (REPLY_TRIES - (tries + 1)) <= REPLY_TRIES * asks
    <3> DEFINE l == Len(down)
               r == REPLY_TRIES * asks
    <3>1. l \in Nat /\ r \in Nat /\ tries \in Nat /\ REPLY_TRIES \in Nat
          /\ l + (REPLY_TRIES - tries) <= r
      BY <2>1, CountsAre
    <3>2. PICK n \in Nat : n = Len(down') /\ n <= l + 1
      BY <1>3
    <3> HIDE DEF l, r
    <3>3. n + (REPLY_TRIES - (tries + 1)) <= r
      BY <3>1, <3>2
    <3> QED
      BY <3>2, <3>3 DEF r
  <2> QED
    BY <1>1, <2>2 DEF RoomOK
<1>7. ClientsOK'
  <2>1. ASSUME NEW i \in 1 .. Len(down') PROVE OfFile(down[i])'
    <3>1. down'[i] = ask \/ \E k \in 1 .. Len(down) : down'[i] = down[k]
      BY <1>3
    <3>2. OfFile(ask) /\ \A k \in 1 .. Len(down) : OfFile(down[k])
      BY <1>1 DEF AskInv, ClientsOK
    <3> QED
      BY <1>1, <3>1, <3>2 DEF OfFile
  <2>2. OfFile(ask)'
    BY <1>1 DEF AskInv, ClientsOK, OfFile
  <2> QED
    BY <1>1, <2>1, <2>2 DEF AskInv, ClientsOK
<1>8. AnswerOK'
  BY <1>1 DEF AskInv, AnswerOK
<1> QED
  BY <1>4, <1>5, <1>6, <1>7, <1>8 DEF AskInv

-----------------------------------------------------------------------------
(* The board.                                                              *)

\* What is ahead on the line.
LEMMA HeadIs ==
    ASSUME AskInv, down # <<>>
    PROVE  /\ Head(down) = down[1] /\ Head(down) \in Asked /\ Head(down).id \in Nat
           /\ 1 \in 1 .. Len(down) /\ Len(down) \in Nat /\ Tail(down) \in Seq(Asked)
           /\ Len(Tail(down)) = Len(down) - 1
           /\ \A k \in 1 .. Len(Tail(down)) : Tail(down)[k] = down[k + 1] /\ k + 1 \in 1 .. Len(down)
           /\ Head(down).op \in Operations /\ Head(down).path \in Paths \cup {None}
           /\ Head(down).t \in Transfers \cup {None} /\ Head(down).part \in 0 .. PARTS
           /\ Head(down).at \in Nat
           /\ Head(down).op = "write" =>
                /\ Head(down).t \in Transfers /\ Head(down).part \in 1 .. PARTS
                /\ Head(down).path \in Paths /\ xfer[Head(down).t].path = Head(down).path
<1> DEFINE q == Head(down)
<1>1. /\ q = down[1] /\ q \in Asked /\ 1 \in 1 .. Len(down) /\ Len(down) \in Nat
      /\ Tail(down) \in Seq(Asked) /\ Len(Tail(down)) = Len(down) - 1
      /\ \A k \in 1 .. Len(Tail(down)) : Tail(down)[k] = down[k + 1] /\ k + 1 \in 1 .. Len(down)
  BY LastIs, TailOf
<1>2. /\ q.id \in Nat /\ q.op \in Operations /\ q.path \in Paths \cup {None}
      /\ q.t \in Transfers \cup {None} /\ q.part \in 0 .. PARTS /\ q.at \in Nat
  BY <1>1 DEF Asked
<1>3. q.op = "write" => /\ q.t \in Transfers /\ q.part # 0 /\ q.path # None
                        /\ xfer[q.t].path = q.path
  BY <1>1 DEF AskInv, ClientsOK, OfFile
<1>4. q.part # 0 => q.part \in 1 .. PARTS
  BY <1>2, LastIs
<1> QED
  BY <1>1, <1>2, <1>3, <1>4

\* The reply of the board reaches the broker that waits for it, or nobody.
LEMMA ReplyIs ==
    ASSUME AskInv, down # <<>>, NEW ok \in BOOLEAN, NEW body \in Seq(Piece) \cup Seq(Paths),
           NEW next \in Nat, Reply(ok, body, next)
    PROVE  /\ down' = Tail(down)
           /\ \/ up' = up
              \/ /\ up = <<>> /\ busy /\ Head(down) = ask /\ Head(down).id = asks
                 /\ up' = <<[ok |-> ok, body |-> body, next |-> next]>>
                 /\ up' \in Seq(Answers) /\ Len(up') = 1
                 /\ up'[1] = [ok |-> ok, body |-> body, next |-> next]
<1> DEFINE a == [ok |-> ok, body |-> body, next |-> next]
<1>1. a \in Answers
  BY DEF Answers
<1> HIDE DEF a
<1>2. down' = Tail(down) /\ (up' = up \/ (Awaited(Head(down)) /\ up' = <<a>>))
  <2> DEFINE new == IF Awaited(Head(down)) THEN {<<a>>} ELSE {}
  <2>1. down' = Tail(down) /\ up' \in {up} \cup new
    BY DEF Reply, a
  <2>2. \A x : x \in new => Awaited(Head(down)) /\ x = <<a>>
    OBVIOUS
  <2> HIDE DEF new
  <2>3. up' = up \/ up' \in new
    BY <2>1
  <2>4. up' \in new => Awaited(Head(down)) /\ up' = <<a>>
    BY <2>2
  <2> QED
    BY <2>1, <2>3, <2>4
<1>3. <<a>> \in Seq(Answers) /\ Len(<<a>>) = 1 /\ <<a>>[1] = a
  BY <1>1, OneOf
<1>4. Head(down).id = asks => Head(down) = ask
  BY HeadIs DEF AskInv, QueueOK
<1>5. up' = <<a>> => up' \in Seq(Answers) /\ Len(up') = 1 /\ up'[1] = a
  BY <1>3
<1> QED
  BY <1>2, <1>4, <1>5 DEF a, Awaited

\* An answer that is not a part of a file or a page of the directory.
LEMMA PlainReply ==
    ASSUME AskInv, down # <<>>, NEW ok \in BOOLEAN, Reply(ok, <<>>, 0)
    PROVE  /\ down' = Tail(down)
           /\ \/ up' = up
              \/ /\ up = <<>> /\ busy /\ Head(down) = ask /\ Head(down).id = asks
                 /\ up' \in Seq(Answers) /\ Len(up') = 1
                 /\ up'[1] = [ok |-> ok, body |-> <<>>, next |-> 0]
<1> DEFINE body == <<>>
           next == 0
<1>1. body \in Seq(Piece) \cup Seq(Paths) /\ next \in Nat /\ Reply(ok, body, next)
  BY NoneOf
<1> HIDE DEF body, next
<1>2. /\ down' = Tail(down)
      /\ \/ up' = up
         \/ /\ up = <<>> /\ busy /\ Head(down) = ask /\ Head(down).id = asks
            /\ up' \in Seq(Answers) /\ Len(up') = 1
            /\ up'[1] = [ok |-> ok, body |-> body, next |-> next]
  BY <1>1, ReplyIs
<1> QED
  BY <1>2 DEF body, next

\* The kinds of reply that the board gives, as far as the queue is concerned.
Replied == down' = Tail(down) /\
           \/ up' = up
           \/ /\ up = <<>> /\ busy /\ Head(down) = ask /\ Head(down).id = asks
              /\ up' \in Seq(Answers) /\ Len(up') = 1
              /\ up'[1].ok = FALSE => up'[1].body = <<>>
              /\ ask.op = "read" => up'[1].body \in Seq(Piece)
              /\ ask.op = "list" => up'[1].body \in Seq(Paths)

LEMMA PlainReplied ==
    ASSUME AskInv, down # <<>>, Ack \/ Nack
    PROVE  Replied
<1>1. PICK ok \in BOOLEAN : Reply(ok, <<>>, 0)
  BY DEF Ack, Nack
<1>2. /\ down' = Tail(down)
      /\ \/ up' = up
         \/ /\ up = <<>> /\ busy /\ Head(down) = ask /\ Head(down).id = asks
            /\ up' \in Seq(Answers) /\ Len(up') = 1
            /\ up'[1] = [ok |-> ok, body |-> <<>>, next |-> 0]
  BY <1>1, PlainReply
<1>3. <<>> \in Seq(Piece) /\ <<>> \in Seq(Paths)
  BY NoneOf
<1>4. [ok |-> ok, body |-> <<>>, next |-> 0].body = <<>>
  OBVIOUS
<1> QED
  BY <1>2, <1>3, <1>4 DEF Replied

\* The files and what is written, of their types.
DiskTypes == /\ dir \in BOOLEAN /\ files \subseteq Paths /\ (files # {} => dir)
             /\ content \in [Paths -> Seq(Piece)] /\ fd \in Paths \cup {None}
             /\ owner \in Transfers \cup {None} /\ latest \in [Paths -> Transfers \cup {None}]
             /\ mixed \subseteq Transfers /\ twice \subseteq Transfers
             /\ (fd = None <=> owner = None)

LEMMA DiskIs == ASSUME AskInv PROVE DiskTypes
BY DEF AskInv, FileTypes, DiskTypes

LEMMA PutTypes ==
    ASSUME AskInv, down # <<>>, NEW p \in Paths, NEW opener \in Transfers,
           NEW old \in [Paths -> Seq(Piece)], Head(down).op = "write",
           Put(p, opener, old, Head(down))
    PROVE  /\ Replied /\ content' \in [Paths -> Seq(Piece)]
           /\ fd' \in Paths \cup {None} /\ owner' \in Transfers \cup {None}
           /\ (fd' = None <=> owner' = None)
<1> DEFINE q == Head(down)
<1>1. /\ With(old, p, q, TRUE) \in [Paths -> Seq(Piece)]
      /\ With(old, p, q, FALSE) \in [Paths -> Seq(Piece)]
  <2>1. q \in Asked /\ q.t \in Transfers /\ q.part # 0
    BY HeadIs
  <2> HIDE DEF q
  <2> QED
    BY <2>1, WithType
<1> HIDE DEF q
<1>2. /\ Ack \/ Nack
      /\ content' \in {old, With(old, p, q, TRUE), With(old, p, q, FALSE)}
      /\ (fd' = p /\ owner' = opener) \/ (fd' = None /\ owner' = None)
  BY DEF Put, TakePart, FailPart, q
<1>3. Replied
  BY <1>2, PlainReplied
<1>4. p # None /\ opener # None
  BY StorageAssumption DEF None
<1> QED
  BY <1>1, <1>2, <1>3, <1>4

LEMMA WriteTypes ==
    ASSUME AskInv, down # <<>>, Head(down).op = "write", OnWrite(Head(down))
    PROVE  Replied /\ DiskTypes'
<1> DEFINE q == Head(down)
<1>1. DiskTypes /\ q.t \in Transfers /\ q.path \in Paths
  BY DiskIs, HeadIs
<1> HIDE DEF q
<1>2. CASE OpensOwn(q)
  <2>1. /\ files' = files \cup {q.path} /\ dir' = TRUE
        /\ latest' = [latest EXCEPT ![q.path] = q.t]
        /\ mixed' = mixed \ {q.t} /\ twice' = twice \ {q.t}
        /\ Put(q.path, q.t, [content EXCEPT ![q.path] = <<>>], Head(down))
    BY <1>2 DEF OpensOwn, q
  <2>2. [content EXCEPT ![q.path] = <<>>] \in [Paths -> Seq(Piece)]
    BY <1>1, NoneOf DEF DiskTypes
  <2>3. /\ Replied /\ content' \in [Paths -> Seq(Piece)]
        /\ fd' \in Paths \cup {None} /\ owner' \in Transfers \cup {None}
        /\ (fd' = None <=> owner' = None)
    BY <1>1, <2>1, <2>2, PutTypes
  <2>4. latest' \in [Paths -> Transfers \cup {None}]
    BY <1>1, <2>1 DEF DiskTypes
  <2>5. mixed' \subseteq Transfers /\ twice' \subseteq Transfers /\ files' \subseteq Paths /\ dir' \in BOOLEAN
        /\ (files' # {} => dir')
    BY <1>1, <2>1 DEF DiskTypes
  <2> QED
    BY <2>3, <2>4, <2>5 DEF DiskTypes
<1>3. CASE CannotOpen
  <2>1. /\ Nack /\ fd' = None /\ owner' = None /\ dir' \in {dir, TRUE}
        /\ UNCHANGED <<files, content, latest, mixed, twice>>
    BY <1>3 DEF CannotOpen
  <2>2. dir' \in BOOLEAN /\ (files # {} => dir')
    <3>1. CASE dir' = dir
      BY <1>1, <3>1 DEF DiskTypes
    <3>2. CASE dir' = TRUE
      BY <3>2
    <3> QED
      BY <2>1, <3>1, <3>2
  <2>3. /\ files' \subseteq Paths /\ (files' # {} => dir')
        /\ content' \in [Paths -> Seq(Piece)] /\ latest' \in [Paths -> Transfers \cup {None}]
        /\ mixed' \subseteq Transfers /\ twice' \subseteq Transfers
    BY <1>1, <2>1, <2>2 DEF DiskTypes
  <2>4. DiskTypes'
    BY <2>1, <2>2, <2>3 DEF DiskTypes
  <2> QED
    BY <2>1, <2>4, PlainReplied
<1>4. CASE OnLater(q)
  <2>1. CASE fd = None
    <3>1. Nack /\ UNCHANGED <<content, fd, owner, mixed, twice, dir, files, latest>>
      BY <1>4, <2>1 DEF OnLater
    <3>2. DiskTypes'
      BY <1>1, <3>1 DEF DiskTypes
    <3> QED
      BY <3>1, <3>2, PlainReplied
  <2>2. CASE fd # None
    <3>1. /\ UNCHANGED <<dir, files, latest>> /\ Put(fd, owner, content, Head(down))
          /\ mixed' \in {mixed, mixed \cup {owner, q.t}}
          /\ twice' \in {twice, twice \cup {q.t}}
      BY <1>4, <2>2 DEF OnLater, q
    <3>2. fd \in Paths /\ owner \in Transfers /\ content \in [Paths -> Seq(Piece)]
      BY <1>1, <2>2 DEF DiskTypes
    <3>3. /\ Replied /\ content' \in [Paths -> Seq(Piece)]
          /\ fd' \in Paths \cup {None} /\ owner' \in Transfers \cup {None}
          /\ (fd' = None <=> owner' = None)
      BY <3>1, <3>2, PutTypes
    <3>4. mixed' \subseteq Transfers /\ twice' \subseteq Transfers
      BY <1>1, <3>1, <3>2 DEF DiskTypes
    <3> QED
      BY <1>1, <3>1, <3>3, <3>4 DEF DiskTypes
  <2> QED
    BY <2>1, <2>2
<1> QED
  BY <1>2, <1>3, <1>4 DEF OnWrite, OnFirst, q

\* A request that only looks at the files.
LEMMA LookTypes ==
    ASSUME AskInv, down # <<>>,
           \/ Head(down).op = "read" /\ OnRead(Head(down))
           \/ Head(down).op = "list" /\ OnList(Head(down))
    PROVE  Replied /\ UNCHANGED <<disk, history>>
<1> DEFINE q == Head(down)
<1>1. CASE Nack /\ UNCHANGED <<disk, history>>
  BY <1>1, PlainReplied
<1>2. CASE q.op = "read" /\ q.path \in files /\ Reply(TRUE, FromOffset(q), 0) /\ UNCHANGED <<disk, history>>
  <2> DEFINE body == FromOffset(q)
  <2>1. body \in Seq(Piece)
    BY <1>2, HeadIs, DiskIs, PieceType DEF FromOffset, DiskTypes
  <2>2. q.op = "read" /\ Reply(TRUE, body, 0) /\ TRUE \in BOOLEAN /\ 0 \in Nat
    BY <1>2
  <2> HIDE DEF body
  <2>3. /\ down' = Tail(down)
        /\ \/ up' = up
           \/ /\ up = <<>> /\ busy /\ Head(down) = ask /\ Head(down).id = asks
              /\ up' \in Seq(Answers) /\ Len(up') = 1
              /\ up'[1] = [ok |-> TRUE, body |-> body, next |-> 0]
    BY <2>1, <2>2, ReplyIs
  <2>4. [ok |-> TRUE, body |-> body, next |-> 0].ok = TRUE /\ [ok |-> TRUE, body |-> body, next |-> 0].body = body
    OBVIOUS
  <2>5. Head(down) = ask => ask.op # "list"
    BY <1>2
  <2> QED
    BY <1>2, <2>1, <2>3, <2>4, <2>5 DEF Replied
<1>3. CASE q.op = "list" /\ Reply(TRUE, PageFrom(q.at).body, PageFrom(q.at).next) /\ UNCHANGED <<disk, history>>
  <2> DEFINE body == PageFrom(q.at).body
             next == PageFrom(q.at).next
  <2>1. body \in Seq(Paths) /\ next \in Nat
    BY HeadIs, DiskIs, PageType DEF DiskTypes
  <2>2. q.op = "list" /\ Reply(TRUE, body, next) /\ TRUE \in BOOLEAN
    BY <1>3
  <2> HIDE DEF body, next
  <2>3. /\ down' = Tail(down)
        /\ \/ up' = up
           \/ /\ up = <<>> /\ busy /\ Head(down) = ask /\ Head(down).id = asks
              /\ up' \in Seq(Answers) /\ Len(up') = 1
              /\ up'[1] = [ok |-> TRUE, body |-> body, next |-> next]
    BY <2>1, <2>2, ReplyIs
  <2>4. [ok |-> TRUE, body |-> body, next |-> next].ok = TRUE
        /\ [ok |-> TRUE, body |-> body, next |-> next].body = body
    OBVIOUS
  <2>5. Head(down) = ask => ask.op # "read"
    BY <1>3
  <2> QED
    BY <1>3, <2>1, <2>3, <2>4, <2>5 DEF Replied
<1> QED
  BY <1>1, <1>2, <1>3 DEF OnRead, OnList

LEMMA ChangeTypes ==
    ASSUME AskInv, down # <<>>, OnDelete(Head(down)) \/ OnMakeDir
    PROVE  Replied /\ DiskTypes'
<1> DEFINE q == Head(down)
<1>1. DiskTypes
  BY DiskIs
<1> HIDE DEF q
<1>2. CASE Nack /\ UNCHANGED <<disk, history>>
  BY <1>1, <1>2, PlainReplied DEF disk, history, DiskTypes
<1>3. CASE /\ q.path \in files /\ Ack
           /\ files' = files \ {q.path}
           /\ latest' = [latest EXCEPT ![q.path] = None]
           /\ UNCHANGED <<dir, content, fd, owner, mixed, twice>>
  <2>1. DiskTypes'
    BY <1>1, <1>3 DEF DiskTypes
  <2> QED
    BY <1>3, <2>1, PlainReplied
<1>4. CASE q.path = None /\ dir /\ files = {} /\ Ack /\ dir' = FALSE /\ UNCHANGED <<files, content, fd, history>>
  <2>1. DiskTypes'
    BY <1>1, <1>4 DEF DiskTypes, history
  <2> QED
    BY <1>4, <2>1, PlainReplied
<1>5. CASE ~dir /\ Ack /\ dir' = TRUE /\ UNCHANGED <<files, content, fd, history>>
  <2>1. DiskTypes'
    BY <1>1, <1>5 DEF DiskTypes, history
  <2> QED
    BY <1>5, <2>1, PlainReplied
<1>6. CASE Nack /\ UNCHANGED <<dir, files, content, fd, history>>
  BY <1>1, <1>6, PlainReplied DEF history, DiskTypes
<1> QED
  BY <1>2, <1>3, <1>4, <1>5, <1>6 DEF OnDelete, OnMakeDir, q

LEMMA WatchTypes ==
    ASSUME AskInv, Watch
    PROVE  /\ reader' \in [path : Paths \cup {None}, copy : Seq(Piece), state : States, clean : BOOLEAN]
           /\ lister' \in [names : Seq(Paths), next : Nat, state : States, clean : BOOLEAN]
           /\ reader'.path = reader.path /\ reader'.copy = reader.copy /\ reader'.state = reader.state
           /\ lister'.names = lister.names /\ lister'.next = lister.next /\ lister'.state = lister.state
           /\ xfer' = xfer
<1>1. PICK b \in BOOLEAN : reader' = [reader EXCEPT !.clean = b]
  <2> DEFINE still == reader.clean /\ (reader.state # "new" =>
            /\ content'[reader.path] = content[reader.path]
            /\ reader.path \in files <=> reader.path \in files')
  <2>1. still \in BOOLEAN /\ reader' = [reader EXCEPT !.clean = still]
    BY DEF Watch
  <2> QED
    BY <2>1
<1>2. PICK w \in BOOLEAN : lister' = [lister EXCEPT !.clean = w]
  <2> DEFINE still == lister.clean /\ (lister.state # "new" => files' = files)
  <2>1. still \in BOOLEAN /\ lister' = [lister EXCEPT !.clean = still]
    BY DEF Watch
  <2> QED
    BY <2>1
<1> QED
  BY <1>1, <1>2, ReaderIs DEF Watch

\* The line after the board has taken one request of it.
LEMMA BoardAsk ==
    ASSUME AskInv, Board, UNCHANGED mix
    PROVE  AskInv'
<1>1. down # <<>> /\ Watch /\ UNCHANGED <<asks, ask, busy, tries, restarts>>
  BY DEF Board, broker
<1>2. Replied /\ DiskTypes'
  <2>1. CASE Head(down).op = "write" /\ OnWrite(Head(down))
    BY <1>1, <2>1, WriteTypes
  <2>2. CASE \/ Head(down).op = "read" /\ OnRead(Head(down))
             \/ Head(down).op = "list" /\ OnList(Head(down))
    BY <1>1, <2>2, LookTypes, DiskIs DEF DiskTypes, disk, history
  <2>3. CASE OnDelete(Head(down)) \/ OnMakeDir
    BY <1>1, <2>3, ChangeTypes
  <2> QED
    BY <2>1, <2>2, <2>3 DEF Board
<1>3. /\ down' = Tail(down) /\ Tail(down) \in Seq(Asked) /\ Len(Tail(down)) = Len(down) - 1
      /\ \A k \in 1 .. Len(Tail(down)) : Tail(down)[k] = down[k + 1] /\ k + 1 \in 1 .. Len(down)
      /\ Len(Tail(down)) \in Nat
  BY <1>1, <1>2, HeadIs, LenProperties DEF Replied
<1>4. \/ up' = up
      \/ /\ up = <<>> /\ busy /\ Head(down) = ask /\ Head(down).id = asks
         /\ up' \in Seq(Answers) /\ Len(up') = 1
         /\ up'[1].ok = FALSE => up'[1].body = <<>>
         /\ ask.op = "read" => up'[1].body \in Seq(Piece)
         /\ ask.op = "list" => up'[1].body \in Seq(Paths)
  BY <1>2 DEF Replied
<1>5. FileTypes'
  <2>1. up' \in Seq(Answers)
    BY <1>4, LastIs
  <2> QED
    BY <1>1, <1>2, <1>3, <2>1, WatchTypes DEF AskInv, FileTypes, DiskTypes
<1>6. QueueOK'
  <2>1. /\ \A i \in 1 .. Len(down) : down[i].id <= asks /\ (down[i].id = asks => down[i] = ask)
        /\ \A i, j \in 1 .. Len(down) : i < j => down[i].id <= down[j].id
        /\ up # <<>> => \A i \in 1 .. Len(down) : down[i] = ask
        /\ busy => asks > 0
        /\ asks > 0 => ask.id = asks
    BY DEF AskInv, QueueOK
  <2>2. \A i \in 1 .. Len(Tail(down)) : /\ Tail(down)[i].id <= asks
                                        /\ Tail(down)[i].id = asks => Tail(down)[i] = ask
    BY <1>3, <2>1
  <2>3. ASSUME NEW i \in 1 .. Len(Tail(down)), NEW j \in 1 .. Len(Tail(down)), i < j
        PROVE  Tail(down)[i].id <= Tail(down)[j].id
    <3>1. i + 1 < j + 1 /\ i + 1 \in 1 .. Len(down) /\ j + 1 \in 1 .. Len(down)
      BY <1>3, <2>3
    <3>2. down[i + 1].id <= down[j + 1].id
      BY <2>1, <3>1
    <3> QED
      BY <1>3, <3>2
  <2>4. ASSUME Head(down).id = asks, NEW i \in 1 .. Len(Tail(down)) PROVE Tail(down)[i] = ask
    <3>1. i + 1 \in 1 .. Len(down) /\ 1 < i + 1 /\ Tail(down)[i] = down[i + 1] /\ 1 \in 1 .. Len(down)
          /\ Head(down) = down[1]
      BY <1>1, <1>3, HeadIs
    <3>2. down[1].id <= down[i + 1].id /\ down[i + 1].id <= asks /\ down[i + 1].id \in Nat /\ asks \in Nat
      BY <2>1, <3>1, LastIs
    <3>3. down[i + 1].id = asks
      BY <2>4, <3>1, <3>2
    <3> QED
      BY <2>1, <3>1, <3>3
  <2>5. up' # <<>> => \A i \in 1 .. Len(Tail(down)) : Tail(down)[i] = ask
    <3>1. CASE up' = up
      BY <1>3, <2>1, <3>1
    <3>2. CASE Head(down).id = asks
      BY <2>4, <3>2
    <3> QED
      BY <1>4, <3>1, <3>2
  <2>6. Len(up') <= (IF busy THEN 1 ELSE 0)
    <3>1. CASE up' = up
      BY <3>1 DEF AskInv, QueueOK
    <3>2. CASE busy /\ Len(up') = 1
      <4> DEFINE n == Len(up')
                 most == IF busy THEN 1 ELSE 0
      <4>1. n = 1 /\ most = 1
        BY <3>2
      <4> HIDE DEF n, most
      <4>2. n <= most
        BY <4>1
      <4> QED
        BY <4>2 DEF n, most
    <3> QED
      BY <1>4, <3>1, <3>2
  <2> QED
    BY <1>1, <1>3, <2>1, <2>2, <2>3, <2>5, <2>6 DEF QueueOK
<1>7. RoomOK'
  <2> DEFINE rest == IF busy THEN REPLY_TRIES - tries ELSE 0
  <2>1. Len(down) + rest <= REPLY_TRIES * asks /\ rest \in Int
    BY LastIs DEF AskInv, RoomOK
  <2>2. rest' = rest
    BY <1>1
  <2> HIDE DEF rest
  <2>3. Len(Tail(down)) + rest <= REPLY_TRIES * asks
    BY <1>3, <2>1, LastIs
  <2> QED
    BY <1>1, <1>3, <2>2, <2>3 DEF RoomOK, rest
<1>8. ClientsOK'
  <2>1. ASSUME NEW i \in 1 .. Len(down') PROVE OfFile(down[i])'
    <3>1. down'[i] = down[i + 1] /\ OfFile(down[i + 1])
      BY <1>3 DEF AskInv, ClientsOK
    <3> QED
      BY <3>1, <1>1, WatchTypes DEF OfFile
  <2>2. busy => /\ OfFile(ask)
                /\ ask.op = "write" => /\ xfer[ask.t].state = "runs"
                                       /\ ask.part = xfer[ask.t].sent + 1
                /\ ask.op = "read" => /\ reader.state = "runs" /\ ask.at = Len(reader.copy)
                                      /\ ask.path = reader.path
                /\ ask.op = "list" => lister.state = "runs" /\ ask.at = lister.next
    BY DEF AskInv, ClientsOK
  <2>3. \A t \in Transfers : /\ xfer[t].path = None <=> xfer[t].state = "new"
                             /\ xfer[t].sent = PARTS <=> xfer[t].state = "done"
    BY DEF AskInv, ClientsOK
  <2>4. OfFile(ask)' <=> OfFile(ask)
    BY <1>1, WatchTypes DEF OfFile
  <2> QED
    BY <1>1, <2>1, <2>2, <2>3, <2>4, ReaderIs, WatchTypes DEF ClientsOK
<1>9. AnswerOK'
  BY <1>1, <1>4 DEF AskInv, AnswerOK
<1> QED
  BY <1>5, <1>6, <1>7, <1>8, <1>9 DEF AskInv

\* A restart empties the line; of the open file a part may be lost.
LEMMA RestartDisk ==
    ASSUME AskInv, Restart
    PROVE  /\ content' \in [Paths -> Seq(Piece)]
           /\ \A p \in Paths : fd # p => content'[p] = content[p]
<1>1. content \in [Paths -> Seq(Piece)] /\ fd \in Paths \cup {None}
  BY DEF AskInv, FileTypes
<1>2. CASE fd = None
  BY <1>1, <1>2 DEF Restart
<1>3. CASE fd # None
  <2>1. PICK k \in 0 .. Len(content[fd]) : content' = [content EXCEPT ![fd] = SubSeq(content[fd], 1, k)]
    BY <1>3 DEF Restart
  <2> DEFINE c == content[fd]
             cut == SubSeq(c, 1, k)
  <2>2. c \in Seq(Piece) /\ k \in Nat /\ k <= Len(c) /\ 1 \in Nat \ {0}
    BY <1>1, <1>3, LenProperties
  <2> HIDE DEF c
  <2>3. cut \in Seq(Piece)
    BY <2>2, CutOf
  <2>4. content' = [content EXCEPT ![fd] = cut]
    BY <2>1 DEF c
  <2> HIDE DEF cut
  <2> QED
    BY <1>1, <1>3, <2>3, <2>4
<1> QED
  BY <1>2, <1>3

LEMMA RestartAsk ==
    ASSUME AskInv, Restart, UNCHANGED mix
    PROVE  AskInv'
<1>1. /\ restarts < MaxRestarts /\ restarts' = restarts + 1 /\ down' = <<>> /\ up' = <<>>
      /\ fd' = None /\ owner' = None /\ Watch
      /\ UNCHANGED <<asks, ask, busy, tries, dir, files, latest, mixed, twice>>
  BY DEF Restart, broker
<1>2. /\ <<>> \in Seq(Asked) /\ <<>> \in Seq(Answers) /\ Len(<<>>) = 0
      /\ restarts' \in 0 .. MaxRestarts
  BY <1>1, NoneOf, StorageAssumption DEF AskInv, FileTypes
<1>3. FileTypes'
  BY <1>1, <1>2, RestartDisk, WatchTypes DEF AskInv, FileTypes
<1>4. QueueOK' /\ AnswerOK'
  <2>1. 0 <= (IF busy THEN 1 ELSE 0)
    <3>1. CASE busy
      BY <3>1
    <3>2. CASE ~busy
      BY <3>2
    <3> QED
      BY <3>1, <3>2
  <2>2. /\ busy => asks > 0
        /\ asks > 0 => ask.id = asks
    BY DEF AskInv, QueueOK
  <2> QED
    BY <1>1, <1>2, <2>1, <2>2 DEF QueueOK, AnswerOK
<1>5. RoomOK'
  <2> DEFINE rest == IF busy THEN REPLY_TRIES - tries ELSE 0
  <2>1. Len(down) + rest <= REPLY_TRIES * asks /\ rest \in Int
    BY LastIs DEF AskInv, RoomOK
  <2>2. rest' = rest
    BY <1>1
  <2> HIDE DEF rest
  <2>3. 0 + rest <= REPLY_TRIES * asks
    BY <2>1, LastIs
  <2> QED
    BY <1>1, <1>2, <2>2, <2>3 DEF RoomOK, rest
<1>6. ClientsOK'
  <2>1. busy => /\ OfFile(ask)
                /\ ask.op = "write" => /\ xfer[ask.t].state = "runs"
                                       /\ ask.part = xfer[ask.t].sent + 1
                /\ ask.op = "read" => /\ reader.state = "runs" /\ ask.at = Len(reader.copy)
                                      /\ ask.path = reader.path
                /\ ask.op = "list" => lister.state = "runs" /\ ask.at = lister.next
    BY DEF AskInv, ClientsOK
  <2>2. \A t \in Transfers : /\ xfer[t].path = None <=> xfer[t].state = "new"
                             /\ xfer[t].sent = PARTS <=> xfer[t].state = "done"
    BY DEF AskInv, ClientsOK
  <2>3. OfFile(ask)' <=> OfFile(ask)
    BY <1>1, WatchTypes DEF OfFile
  <2>4. ~(\E i : i \in 1 .. Len(down'))
    BY <1>1, <1>2
  <2> QED
    BY <1>1, <2>1, <2>2, <2>3, <2>4, ReaderIs, WatchTypes DEF ClientsOK
<1> QED
  BY <1>3, <1>4, <1>5, <1>6 DEF AskInv

LEMMA FilesStepAsk ==
    ASSUME AskInv, [FilesNext]_filesVars
    PROVE  AskInv'
<1>1. CASE UNCHANGED filesVars
  BY <1>1 DEF AskInv, FileTypes, QueueOK, RoomOK, ClientsOK, AnswerOK, OfFile, filesVars, clients,
              broker, disk, history
<1>2. CASE FilesNext
  BY <1>2, WritePartAsk, ReadPartAsk, ListPartAsk, ChangeAsk, AttemptAsk, GiveUpAsk, OnReplyAsk,
     BoardAsk, RestartAsk DEF FilesNext, Route
<1> QED
  BY <1>1, <1>2

LEMMA AskInvIsTypes == AskInv => FilesTypeOK
<1> SUFFICES ASSUME AskInv PROVE FilesTypeOK
  OBVIOUS
<1>1. Len(down) <= REPLY_TRIES * asks
  <2> DEFINE rest == IF busy THEN REPLY_TRIES - tries ELSE 0
  <2>1. rest \in Nat
    BY LastIs DEF AskInv, FileTypes
  <2>2. Len(down) + rest <= REPLY_TRIES * asks
    BY DEF AskInv, RoomOK
  <2> HIDE DEF rest
  <2> QED
    BY <2>1, <2>2, CountsAre
<1>2. Len(up) <= (IF busy THEN 1 ELSE 0)
  BY DEF AskInv, QueueOK
<1>3. \A t \in Transfers : /\ xfer[t].path \in Paths \cup {None}
                           /\ xfer[t].sent \in 0 .. PARTS
                           /\ xfer[t].state \in States
  BY DEF AskInv, FileTypes
<1>4. /\ reader.path \in Paths \cup {None} /\ reader.state \in States
      /\ reader.copy \in Seq(Piece)
      /\ lister.names \in Seq(Paths) /\ lister.state \in States
  BY ReaderIs
<1> QED
  BY <1>1, <1>2, <1>3, <1>4 DEF FilesTypeOK, AskInv, FileTypes

-----------------------------------------------------------------------------
(* What the files hold.                                                    *)

\* The first m parts of t, in their order.
Upto(t, m) == [i \in 1 .. m |-> [of |-> t, part |-> i, whole |-> TRUE]]

PartOf(q, t) == q.op = "write" /\ q.t = t

\* The last part of t that was answered with success, told or still on its way.
Granted(t)  == up # <<>> /\ up[1].ok = TRUE /\ PartOf(ask, t)
Acked(t) == IF Granted(t) THEN ask.part ELSE xfer[t].sent

\* The history has the transfer whose parts the open file takes.
OpenOK ==
    /\ fd # None => xfer[owner].path = fd /\ latest[fd] \in {owner, None}
    /\ \A p \in Paths : latest[p] # None => xfer[latest[p]].path = p

\* Behind a first part there is no other than it and the second; once a part was
\* told, there is no other than it and the next one.
PartsOK ==
    /\ \A i, j \in 1 .. Len(down) :
         i < j /\ down[i].op = "write" /\ PartOf(down[j], down[i].t) /\ down[i].part = 1
            => down[j].part <= 2
    /\ \A t \in Transfers : xfer[t].sent > 0 =>
         \A i \in 1 .. Len(down) : PartOf(down[i], t) => down[i].part \in {xfer[t].sent, xfer[t].sent + 1}

\* No other transfer emptied the file of t or wrote in it, and no part of t was
\* taken twice.
Kept(t) == xfer[t].path # None /\ latest[xfer[t].path] = t /\ t \notin mixed /\ t \notin twice

\* Once the last part was answered with success the file is whole and closed;
\* while it is open it has the first parts, those that were answered with
\* success among them, and none on the line is further than the next one.
FileOf(t) ==
    Kept(t) =>
        /\ Acked(t) = PARTS => content[xfer[t].path] = AllParts(t) /\ fd # xfer[t].path
        /\ fd = xfer[t].path =>
             \E m \in 1 .. PARTS - 1 :
                /\ content[fd] = Upto(t, m) /\ Acked(t) <= m
                /\ \A i \in 1 .. Len(down) : PartOf(down[i], t) => down[i].part <= m + 1

FileInv == OpenOK /\ PartsOK /\ \A t \in Transfers : FileOf(t)

LEMMA AckedIs ==
    ASSUME AskInv, NEW t \in Transfers
    PROVE  /\ Acked(t) \in 0 .. PARTS /\ xfer[t].sent \in 0 .. PARTS /\ xfer[t].sent <= Acked(t)
           /\ xfer[t].path \in Paths \cup {None}
           /\ up = <<>> => Acked(t) = xfer[t].sent
           /\ busy /\ PartOf(ask, t) => /\ ask.part \in 1 .. PARTS /\ ask.part = xfer[t].sent + 1
                                        /\ xfer[t].sent < PARTS /\ xfer[t].state = "runs"
           /\ Granted(t) => busy /\ Acked(t) = ask.part
           /\ ~Granted(t) => Acked(t) = xfer[t].sent
<1>1. xfer[t].sent \in 0 .. PARTS /\ xfer[t].path \in Paths \cup {None}
  BY DEF AskInv, FileTypes
<1>2. ASSUME busy, PartOf(ask, t)
      PROVE  /\ ask.part \in 1 .. PARTS /\ ask.part = xfer[t].sent + 1
             /\ xfer[t].sent < PARTS /\ xfer[t].state = "runs"
  <2>1. /\ ask.t = t /\ ask.part # 0 /\ ask.part = xfer[t].sent + 1 /\ xfer[t].state = "runs"
    BY <1>2 DEF AskInv, ClientsOK, OfFile, PartOf
  <2>2. ask.part \in 0 .. PARTS
    BY <1>2, LastIs DEF Asked
  <2> QED
    BY <1>1, <2>1, <2>2, CountsAre
<1>3. Granted(t) => busy /\ PartOf(ask, t) /\ Acked(t) = ask.part
  BY LastIs DEF Granted, Acked
<1>4. ~Granted(t) => Acked(t) = xfer[t].sent
  BY DEF Acked
<1>5. up = <<>> => ~Granted(t)
  BY DEF Granted
<1>6. CASE Granted(t)
  <2>1. /\ Acked(t) = ask.part /\ ask.part \in 1 .. PARTS /\ ask.part = xfer[t].sent + 1
    BY <1>2, <1>3, <1>6
  <2>2. Acked(t) \in 0 .. PARTS /\ xfer[t].sent <= Acked(t)
    BY <1>1, <2>1, CountsAre
  <2> QED
    BY <1>1, <1>2, <1>3, <1>5, <1>6, <2>2
<1>7. CASE ~Granted(t)
  <2>1. Acked(t) \in 0 .. PARTS /\ xfer[t].sent <= Acked(t)
    BY <1>1, <1>4, <1>7, LastIs
  <2> QED
    BY <1>1, <1>2, <1>4, <1>7, <2>1
<1> QED
  BY <1>6, <1>7

\* A step that leaves the file of t as it is, or closes it.
LEMMA FileStays ==
    ASSUME AskInv, NEW t \in Transfers, FileOf(t), xfer'[t].path = xfer[t].path,
           Kept(t)' => Kept(t), Acked(t)' \in 0 .. Acked(t),
           (fd # xfer[t].path \/ fd' = xfer[t].path) /\ xfer[t].path # None
                => content'[xfer[t].path] = content[xfer[t].path],
           xfer[t].path # None /\ fd' = xfer[t].path => fd = xfer[t].path,
           \A i \in 1 .. Len(down') : PartOf(down[i], t)'
                => \/ down'[i].part \in 0 .. Acked(t) + 1
                   \/ \E k \in 1 .. Len(down) : down'[i] = down[k]
    PROVE  FileOf(t)'
<1> DEFINE p == xfer[t].path
<1> SUFFICES ASSUME Kept(t)'
             PROVE  /\ Acked(t)' = PARTS => content'[p] = AllParts(t) /\ fd' # p
                    /\ fd' = p =>
                         \E m \in 1 .. PARTS - 1 :
                            /\ content'[fd'] = Upto(t, m) /\ Acked(t)' <= m
                            /\ \A i \in 1 .. Len(down') : PartOf(down[i], t)' => down'[i].part <= m + 1
  BY DEF FileOf, AllParts, Upto
<1>1. Kept(t) /\ p # None
  BY DEF Kept
<1>2. /\ Acked(t) \in 0 .. PARTS /\ Acked(t)' \in 0 .. PARTS /\ PARTS \in Nat
  BY AckedIs, LastIs
<1>3. ASSUME Acked(t)' = PARTS PROVE content'[p] = AllParts(t) /\ fd' # p
  <2>1. Acked(t) = PARTS
    BY <1>2, <1>3
  <2>2. content[p] = AllParts(t) /\ fd # p
    BY <1>1, <2>1 DEF FileOf
  <2> QED
    BY <1>1, <2>2
<1>4. ASSUME fd' = p
      PROVE  \E m \in 1 .. PARTS - 1 :
                /\ content'[fd'] = Upto(t, m) /\ Acked(t)' <= m
                /\ \A i \in 1 .. Len(down') : PartOf(down[i], t)' => down'[i].part <= m + 1
  <2>1. fd = p /\ content'[p] = content[p]
    BY <1>1, <1>4
  <2>2. PICK m \in 1 .. PARTS - 1 :
                /\ content[fd] = Upto(t, m) /\ Acked(t) <= m
                /\ \A i \in 1 .. Len(down) : PartOf(down[i], t) => down[i].part <= m + 1
    BY <1>1, <2>1 DEF FileOf
  <2>3. Acked(t)' <= m
    BY <1>2, <2>2
  <2>4. ASSUME NEW i \in 1 .. Len(down'), PartOf(down[i], t)' PROVE down'[i].part <= m + 1
    <3>1. CASE down'[i].part \in 0 .. Acked(t) + 1
      BY <1>2, <2>2, <3>1
    <3>2. CASE \E k \in 1 .. Len(down) : down'[i] = down[k]
      <4>1. PartOf(down'[i], t)
        BY <2>4 DEF PartOf
      <4> QED
        BY <2>2, <3>2, <4>1
    <3> QED
      BY <2>4, <3>1, <3>2
  <2> QED
    BY <1>4, <2>1, <2>2, <2>3, <2>4
<1> QED
  BY <1>3, <1>4

\* A request changes nothing at the board.
LEMMA AskFile ==
    ASSUME AskInv, FileInv, up = <<>>, up' = <<>>, down' = down, UNCHANGED <<disk, history>>,
           \A t \in Transfers : /\ xfer'[t].path = xfer[t].path \/ xfer[t].path = None
                                /\ xfer'[t].path \in Paths \cup {None}
                                /\ xfer'[t].sent = xfer[t].sent \/ xfer'[t].sent = 0
    PROVE  FileInv'
<1>1. /\ UNCHANGED <<content, fd, owner, latest, mixed, twice>> /\ fd \in Paths \cup {None}
      /\ owner \in Transfers \cup {None} /\ latest \in [Paths -> Transfers \cup {None}]
      /\ (fd = None <=> owner = None) /\ None \notin Paths
  BY StorageAssumption DEF disk, history, AskInv, FileTypes, None
<1>2. OpenOK'
  <2>1. fd # None => xfer'[owner].path = fd /\ latest[fd] \in {owner, None}
    BY <1>1 DEF FileInv, OpenOK
  <2>2. ASSUME NEW p \in Paths, latest[p] # None PROVE xfer'[latest[p]].path = p
    <3>1. latest[p] \in Transfers /\ xfer[latest[p]].path = p
      BY <1>1, <2>2 DEF FileInv, OpenOK
    <3> QED
      BY <1>1, <3>1
  <2> QED
    BY <1>1, <2>1, <2>2 DEF OpenOK
<1>3. PartsOK'
  <2>1. ASSUME NEW t \in Transfers, xfer'[t].sent > 0, NEW i \in 1 .. Len(down), PartOf(down[i], t)
        PROVE  down[i].part \in {xfer'[t].sent, xfer'[t].sent + 1}
    <3>1. xfer'[t].sent = xfer[t].sent
      BY <2>1
    <3> QED
      BY <2>1, <3>1 DEF FileInv, PartsOK
  <2>2. \A i, j \in 1 .. Len(down) :
         i < j /\ down[i].op = "write" /\ PartOf(down[j], down[i].t) /\ down[i].part = 1
            => down[j].part <= 2
    BY DEF FileInv, PartsOK
  <2> QED
    BY <2>1, <2>2 DEF PartsOK, PartOf
<1>4. ASSUME NEW t \in Transfers PROVE FileOf(t)'
  <2>1. CASE xfer[t].path = None
    <3>1. SUFFICES ASSUME Kept(t)' PROVE FALSE
      BY DEF FileOf
    <3>2. xfer'[t].path \in Paths /\ latest[xfer'[t].path] = t /\ t # None
      BY <1>1, <3>1, StorageAssumption DEF Kept
    <3>3. xfer[t].path = xfer'[t].path
      BY <3>2 DEF FileInv, OpenOK
    <3> QED
      BY <1>1, <2>1, <3>2, <3>3
  <2>2. CASE xfer[t].path # None
    <3>1. xfer'[t].path = xfer[t].path
      BY <2>2
    <3>2. Kept(t)' => Kept(t)
      BY <1>1, <3>1 DEF Kept
    <3>3. Acked(t)' = xfer'[t].sent
      BY DEF Acked, Granted
    <3>4. Acked(t)' \in 0 .. Acked(t)
      BY <3>3, AckedIs
    <3>5. FileOf(t)
      BY DEF FileInv
    <3>6. \A i \in 1 .. Len(down') : \E k \in 1 .. Len(down) : down'[i] = down[k]
      OBVIOUS
    <3> QED
      BY <1>1, <3>1, <3>2, <3>4, <3>5, <3>6, FileStays
  <2> QED
    BY <2>1, <2>2
<1> QED
  BY <1>2, <1>3, <1>4 DEF FileInv

LEMMA RouteFile ==
    ASSUME AskInv, FileInv, Route
    PROVE  FileInv'
<1>1. ASSUME NEW t \in Transfers, WritePart(t) PROVE FileInv'
  <2>1. PICK p \in Paths, part \in 1 .. PARTS :
         /\ Ask("write", p, t, part, 0)
         /\ xfer' = [xfer EXCEPT ![t] = [path |-> p, sent |-> part - 1, state |-> "runs"]]
         /\ xfer[t].path = p \/ xfer[t].path = None
         /\ part = 1 \/ part = xfer[t].sent + 1
    BY <1>1, WritePartIs
  <2>2. ~busy /\ up' = up /\ down' = down /\ UNCHANGED <<disk, history>>
    BY <2>1 DEF Ask, Serves
  <2>3. up = <<>>
    BY <2>2, LastIs
  <2>4. xfer'[t] = [path |-> p, sent |-> part - 1, state |-> "runs"] /\ \A u \in Transfers \ {t} : xfer'[u] = xfer[u]
    BY <2>1 DEF AskInv, FileTypes
  <2>5. part - 1 = xfer[t].sent \/ part - 1 = 0
    BY <2>1, AckedIs
  <2>6. \A u \in Transfers : xfer[u].path \in Paths \cup {None}
    BY AckedIs
  <2>7. \A u \in Transfers : /\ xfer'[u].path = xfer[u].path \/ xfer[u].path = None
                             /\ xfer'[u].path \in Paths \cup {None}
                             /\ xfer'[u].sent = xfer[u].sent \/ xfer'[u].sent = 0
    BY <2>1, <2>4, <2>5, <2>6
  <2> QED
    BY <2>2, <2>3, <2>7, AskFile
<1>2. CASE ReadPart \/ ListPart \/ RemoveEntry \/ MakeDir
  <2>1. ~busy /\ up' = up /\ down' = down /\ UNCHANGED <<xfer, disk, history>>
    BY <1>2 DEF ReadPart, ListPart, RemoveEntry, MakeDir, Ask, Serves, clients
  <2>2. up = <<>>
    BY <2>1, LastIs
  <2>3. \A u \in Transfers : xfer[u].path \in Paths \cup {None}
    BY AckedIs
  <2> QED
    BY <2>1, <2>2, <2>3, AskFile
<1> QED
  BY <1>1, <1>2 DEF Route

\* What a client is told of its transfer.
LEMMA TellSent ==
    ASSUME AskInv, busy, NEW ok \in BOOLEAN, NEW body, NEW next, Tell(ok, body, next),
           NEW t \in Transfers
    PROVE  /\ xfer'[t].path = xfer[t].path
           /\ ok = TRUE /\ PartOf(ask, t) => xfer'[t].sent = ask.part
           /\ ~(ok = TRUE /\ PartOf(ask, t)) => xfer'[t].sent = xfer[t].sent
<1>1. xfer \in [Transfers -> [path : Paths \cup {None}, sent : 0 .. PARTS, state : States]]
  BY DEF AskInv, FileTypes
<1>2. CASE ask.op = "write"
  <2> DEFINE sent == IF ok THEN ask.part ELSE xfer[ask.t].sent
             state == IF ~ok THEN "failed" ELSE IF ask.part = PARTS THEN "done" ELSE "runs"
  <2>1. xfer' = [xfer EXCEPT ![ask.t].sent = sent, ![ask.t].state = state]
    <3>1. xfer' = [xfer EXCEPT
                ![ask.t].sent = IF ok THEN ask.part ELSE @,
                ![ask.t].state = IF ~ok THEN "failed"
                               ELSE IF ask.part = PARTS THEN "done" ELSE "runs"]
      BY <1>2 DEF Tell
    <3> QED
      BY <3>1
  <2>2. (ok = TRUE => sent = ask.part) /\ (ok # TRUE => sent = xfer[ask.t].sent)
    OBVIOUS
  <2> HIDE DEF sent, state
  <2>3. xfer'[t].path = xfer[t].path /\ xfer'[t].sent = IF ask.t = t THEN sent ELSE xfer[t].sent
    BY <1>1, <2>1
  <2> QED
    BY <1>2, <2>2, <2>3 DEF PartOf
<1>3. CASE ask.op # "write"
  <2>1. xfer' = xfer
    BY <1>3 DEF Tell, clients
  <2> QED
    BY <1>3, <2>1 DEF PartOf
<1> QED
  BY <1>2, <1>3

LEMMA TellFile ==
    ASSUME AskInv, FileInv, busy, NEW ok \in BOOLEAN, NEW body, NEW next, Tell(ok, body, next),
           ok = TRUE => up # <<>> /\ up[1].ok = TRUE,
           up' = <<>>, UNCHANGED <<down, disk, history>>
    PROVE  FileInv'
<1>1. UNCHANGED <<content, fd, owner, latest, mixed, twice>>
  BY DEF disk, history
<1>2. OpenOK'
  <2>1. \A t \in Transfers : xfer'[t].path = xfer[t].path
    BY TellSent
  <2>2. /\ fd # None => owner \in Transfers
        /\ \A p \in Paths : latest[p] # None => latest[p] \in Transfers
    BY DEF AskInv, FileTypes
  <2> QED
    BY <1>1, <2>1, <2>2 DEF FileInv, OpenOK
<1>3. PartsOK'
  <2>1. ASSUME NEW t \in Transfers, xfer'[t].sent > 0, NEW i \in 1 .. Len(down), PartOf(down[i], t)
        PROVE  down[i].part \in {xfer'[t].sent, xfer'[t].sent + 1}
    <3>1. CASE ok = TRUE /\ PartOf(ask, t)
      <4>1. down[i] = ask /\ xfer'[t].sent = ask.part
        BY <3>1, TellSent DEF AskInv, QueueOK
      <4> QED
        BY <4>1
    <3>2. CASE ~(ok = TRUE /\ PartOf(ask, t))
      <4>1. xfer'[t].sent = xfer[t].sent
        BY <3>2, TellSent
      <4> QED
        BY <2>1, <4>1 DEF FileInv, PartsOK
    <3> QED
      BY <3>1, <3>2
  <2>2. \A i, j \in 1 .. Len(down) :
         i < j /\ down[i].op = "write" /\ PartOf(down[j], down[i].t) /\ down[i].part = 1
            => down[j].part <= 2
    BY DEF FileInv, PartsOK
  <2> QED
    BY <2>1, <2>2 DEF PartsOK, PartOf
<1>4. ASSUME NEW t \in Transfers PROVE FileOf(t)'
  <2>1. xfer'[t].path = xfer[t].path
    BY TellSent
  <2>2. Kept(t)' => Kept(t)
    BY <1>1, <2>1 DEF Kept
  <2>3. Acked(t)' = xfer'[t].sent
    BY DEF Acked, Granted
  <2>4. Acked(t)' \in 0 .. Acked(t)
    <3>1. CASE ok = TRUE /\ PartOf(ask, t)
      <4>1. Granted(t) /\ xfer'[t].sent = ask.part
        BY <3>1, TellSent DEF Granted
      <4> QED
        BY <2>3, <4>1, AckedIs
    <3>2. CASE ~(ok = TRUE /\ PartOf(ask, t))
      <4>1. xfer'[t].sent = xfer[t].sent
        BY <3>2, TellSent
      <4> QED
        BY <2>3, <4>1, AckedIs
    <3> QED
      BY <3>1, <3>2
  <2>5. FileOf(t)
    BY DEF FileInv
  <2>6. \A i \in 1 .. Len(down') : \E k \in 1 .. Len(down) : down'[i] = down[k]
    OBVIOUS
  <2> QED
    BY <1>1, <2>1, <2>2, <2>4, <2>5, <2>6, FileStays
<1> QED
  BY <1>2, <1>3, <1>4 DEF FileInv

LEMMA AnswerFile ==
    ASSUME AskInv, FileInv, GiveUp \/ OnReply
    PROVE  FileInv'
<1>1. CASE GiveUp
  <2>1. /\ busy /\ up' = <<>> /\ Tell(FALSE, <<>>, 0) /\ UNCHANGED <<down, disk, history>>
        /\ FALSE \in BOOLEAN /\ FALSE # TRUE
    BY <1>1 DEF GiveUp
  <2> QED
    BY <2>1, TellFile
<1>2. CASE OnReply
  <2>1. /\ up # <<>> /\ up' = <<>> /\ UNCHANGED <<down, disk, history>>
        /\ Tell(up[1].ok, up[1].body, up[1].next) \/ Tell(FALSE, <<>>, 0)
    BY <1>2 DEF OnReply
  <2>2. up[1].ok \in BOOLEAN /\ busy /\ FALSE \in BOOLEAN /\ FALSE # TRUE
    BY <2>1, LastIs
  <2>3. CASE Tell(up[1].ok, up[1].body, up[1].next)
    BY <2>1, <2>2, <2>3, TellFile
  <2>4. CASE Tell(FALSE, <<>>, 0)
    BY <2>1, <2>2, <2>4, TellFile
  <2> QED
    BY <2>1, <2>3, <2>4
<1> QED
  BY <1>1, <1>2

LEMMA AttemptFile ==
    ASSUME AskInv, FileInv, Attempt
    PROVE  FileInv'
<1>1. /\ busy /\ down' \in {down, Append(down, ask)} /\ UNCHANGED <<xfer, ask, up, disk, history>>
  BY DEF Attempt, clients
<1>2. UNCHANGED <<content, fd, owner, latest, mixed, twice>>
  BY <1>1 DEF disk, history
<1>3. /\ Len(down') \in Nat /\ Len(down') <= Len(down) + 1
      /\ \A k \in 1 .. Len(down') : \/ k \in 1 .. Len(down) /\ down'[k] = down[k]
                                    \/ k = Len(down) + 1 /\ down'[k] = ask
  <2>1. CASE down' = down
    BY <2>1, LastIs
  <2>2. CASE down' = Append(down, ask)
    <3>1. ask \in Asked
      BY <1>1, LastIs
    <3> QED
      BY <2>2, <3>1, LastIs, AppendOf
  <2> QED
    BY <1>1, <2>1, <2>2
<1>4. OpenOK'
  BY <1>1, <1>2 DEF FileInv, OpenOK
<1>5. PartsOK'
  <2>1. ASSUME NEW t \in Transfers, xfer[t].sent > 0, NEW i \in 1 .. Len(down'), PartOf(down'[i], t)
        PROVE  down'[i].part \in {xfer[t].sent, xfer[t].sent + 1}
    <3>1. CASE down'[i] = ask
      BY <1>1, <2>1, <3>1, AckedIs
    <3>2. CASE i \in 1 .. Len(down) /\ down'[i] = down[i]
      BY <2>1, <3>2 DEF FileInv, PartsOK
    <3> QED
      BY <1>3, <3>1, <3>2
  <2>2. ASSUME NEW i \in 1 .. Len(down'), NEW j \in 1 .. Len(down'), i < j,
               down'[i].op = "write", PartOf(down'[j], down'[i].t), down'[i].part = 1
        PROVE  down'[j].part <= 2
    <3>1. i \in 1 .. Len(down) /\ down'[i] = down[i]
      BY <1>3, <2>2, LastIs
    <3>2. CASE j \in 1 .. Len(down) /\ down'[j] = down[j]
      BY <2>2, <3>1, <3>2 DEF FileInv, PartsOK
    <3>3. CASE down'[j] = ask
      <4> DEFINE t == down[i].t
      <4>1. PartOf(ask, t) /\ PartOf(down[i], t) /\ t \in Transfers /\ down[i].part = 1
        BY <2>2, <3>1, <3>3 DEF PartOf, AskInv, ClientsOK, OfFile
      <4> HIDE DEF t
      <4>2. ask.part = xfer[t].sent + 1 /\ xfer[t].sent \in 0 .. PARTS
        BY <1>1, <4>1, AckedIs
      <4>3. xfer[t].sent > 0 => 1 \in {xfer[t].sent, xfer[t].sent + 1}
        BY <3>1, <4>1 DEF FileInv, PartsOK
      <4>4. ask.part <= 2
        <5>1. xfer[t].sent \in {0, 1}
          BY <4>2, <4>3
        <5> QED
          BY <4>2, <5>1
      <4> QED
        BY <3>3, <4>4
    <3> QED
      BY <1>3, <3>2, <3>3
  <2> QED
    BY <1>1, <2>1, <2>2 DEF PartsOK, PartOf
<1>6. ASSUME NEW t \in Transfers PROVE FileOf(t)'
  <2>1. Kept(t)' => Kept(t)
    BY <1>1, <1>2 DEF Kept
  <2>2. Acked(t)' = Acked(t)
    BY <1>1 DEF Acked, Granted, PartOf
  <2>3. Acked(t)' \in 0 .. Acked(t)
    BY <2>2, AckedIs
  <2>4. ASSUME NEW i \in 1 .. Len(down'), PartOf(down[i], t)'
        PROVE  \/ down'[i].part \in 0 .. Acked(t) + 1
               \/ \E k \in 1 .. Len(down) : down'[i] = down[k]
    <3>1. CASE down'[i] = ask
      <4>1. PartOf(ask, t)
        BY <2>4, <3>1 DEF PartOf
      <4>2. ask.part \in 1 .. PARTS /\ ask.part = xfer[t].sent + 1 /\ xfer[t].sent <= Acked(t)
            /\ xfer[t].sent \in 0 .. PARTS /\ Acked(t) \in 0 .. PARTS
        BY <1>1, <4>1, AckedIs
      <4>3. ask.part \in 0 .. Acked(t) + 1
        BY <4>2
      <4> QED
        BY <3>1, <4>3
    <3> QED
      BY <1>3, <3>1
  <2>5. FileOf(t)
    BY DEF FileInv
  <2> QED
    BY <1>1, <1>2, <2>1, <2>3, <2>4, <2>5, FileStays
<1> QED
  BY <1>4, <1>5, <1>6 DEF FileInv

\* The board takes one request of the line.
LEMMA TailParts ==
    ASSUME AskInv, PartsOK, down # <<>>, down' = Tail(down), xfer' = xfer
    PROVE  PartsOK'
<1>1. \A i \in 1 .. Len(down') : down'[i] = down[i + 1] /\ i + 1 \in 1 .. Len(down)
  BY HeadIs
<1>2. ASSUME NEW i \in 1 .. Len(down'), NEW j \in 1 .. Len(down'), i < j,
             down'[i].op = "write", PartOf(down'[j], down'[i].t), down'[i].part = 1
      PROVE  down'[j].part <= 2
  <2>1. i + 1 < j + 1
    BY <1>2
  <2> QED
    BY <1>1, <1>2, <2>1 DEF PartsOK
<1>3. ASSUME NEW t \in Transfers, xfer[t].sent > 0, NEW i \in 1 .. Len(down'), PartOf(down'[i], t)
      PROVE  down'[i].part \in {xfer[t].sent, xfer[t].sent + 1}
  BY <1>1, <1>3 DEF PartsOK
<1> QED
  BY <1>2, <1>3 DEF PartsOK, PartOf

\* The answer to what is not a part of t leaves t as it is.
LEMMA OtherAnswer ==
    ASSUME AskInv, down # <<>>, xfer' = xfer, ask' = ask, NEW t \in Transfers,
           up' = up \/ (up = <<>> /\ Head(down) = ask /\ (PartOf(Head(down), t) => ~(up'[1].ok = TRUE)))
    PROVE  Acked(t)' = Acked(t) /\ Acked(t)' \in 0 .. Acked(t)
<1>1. Acked(t)' = Acked(t)
  <2>1. CASE up' = up
    BY <2>1 DEF Acked, Granted, PartOf
  <2>2. CASE up = <<>> /\ Head(down) = ask /\ (PartOf(Head(down), t) => ~(up'[1].ok = TRUE))
    <3>1. ~Granted(t) /\ ~Granted(t)'
      BY <2>2 DEF Granted, PartOf
    <3> QED
      BY <3>1 DEF Acked
  <2> QED
    BY <2>1, <2>2
<1> QED
  BY <1>1, AckedIs

\* A request that does not write: an entry may go, and its file has no transfer.
LEMMA LookFile ==
    ASSUME AskInv, FileInv, down # <<>>, Head(down).op # "write", Replied,
           UNCHANGED <<xfer, ask, content, fd, owner, mixed, twice>>,
           latest' \in [Paths -> Transfers \cup {None}],
           \A p \in Paths : latest'[p] \in {latest[p], None}
    PROVE  FileInv'
<1>1. down' = Tail(down)
  BY DEF Replied
<1>2. OpenOK'
  <2>1. /\ fd \in Paths \cup {None} /\ (fd # None => xfer[owner].path = fd /\ latest[fd] \in {owner, None})
        /\ \A p \in Paths : latest[p] # None => xfer[latest[p]].path = p
    BY DEF AskInv, FileTypes, FileInv, OpenOK
  <2> QED
    BY <2>1 DEF OpenOK
<1>3. PartsOK'
  BY <1>1, TailParts DEF FileInv
<1>4. ASSUME NEW t \in Transfers PROVE FileOf(t)'
  <2>1. Kept(t)' => Kept(t)
    <3>1. xfer[t].path \in Paths \cup {None} /\ t # None
      BY AckedIs, StorageAssumption
    <3> QED
      BY <3>1 DEF Kept
  <2>2. Acked(t)' \in 0 .. Acked(t)
    <3>1. ~PartOf(Head(down), t)
      BY DEF PartOf
    <3>2. up' = up \/ (up = <<>> /\ Head(down) = ask)
      BY DEF Replied
    <3> QED
      BY <3>1, <3>2, OtherAnswer
  <2>3. FileOf(t)
    BY DEF FileInv
  <2>4. \A i \in 1 .. Len(down') : \E k \in 1 .. Len(down) : down'[i] = down[k]
    BY <1>1, HeadIs
  <2> QED
    BY <2>1, <2>2, <2>3, <2>4, FileStays
<1> QED
  BY <1>2, <1>3, <1>4 DEF FileInv

LEMMA RestartFile ==
    ASSUME AskInv, FileInv, Restart
    PROVE  FileInv'
<1>1. /\ down' = <<>> /\ up' = <<>> /\ fd' = None /\ UNCHANGED <<ask, latest, mixed, twice, xfer>>
      /\ Len(down') = 0
  BY NoneOf, WatchTypes DEF Restart, broker
<1>2. OpenOK'
  BY <1>1 DEF FileInv, OpenOK
<1>3. PartsOK'
  <2>1. ~(\E i : i \in 1 .. Len(down'))
    BY <1>1
  <2> QED
    BY <2>1 DEF PartsOK
<1>4. ASSUME NEW t \in Transfers PROVE FileOf(t)'
  <2>1. Kept(t)' => Kept(t)
    BY <1>1 DEF Kept
  <2>2. Acked(t)' = xfer[t].sent
    BY <1>1 DEF Acked, Granted
  <2>3. Acked(t)' \in 0 .. Acked(t)
    BY <2>2, AckedIs
  <2>4. FileOf(t)
    BY DEF FileInv
  <2>5. ~(\E i : i \in 1 .. Len(down'))
    BY <1>1
  <2>6. /\ xfer[t].path \in Paths \cup {None}
        /\ \A p \in Paths : fd # p => content'[p] = content[p]
    BY AckedIs, RestartDisk
  <2> QED
    BY <1>1, <2>1, <2>3, <2>4, <2>5, <2>6, FileStays
<1> QED
  BY <1>2, <1>3, <1>4 DEF FileInv

-----------------------------------------------------------------------------
(* A part that the board takes.                                            *)

\* The first parts of a transfer and the next one are its first parts.
LEMMA UptoNext ==
    ASSUME NEW t \in Transfers, NEW m \in Nat, m < PARTS
    PROVE  /\ Upto(t, m) \in Seq(Piece) /\ Len(Upto(t, m)) = m
           /\ Append(Upto(t, m), [of |-> t, part |-> m + 1, whole |-> TRUE]) = Upto(t, m + 1)
           /\ \A k \in 1 .. m : [of |-> t, part |-> k, whole |-> TRUE] \in ToSet(Upto(t, m))
<1> DEFINE s == Upto(t, m)
           x == [of |-> t, part |-> m + 1, whole |-> TRUE]
           u == Upto(t, m + 1)
<1>1. PARTS \in Nat
  BY StorageAssumption
<1>2. \A k \in 1 .. m + 1 : [of |-> t, part |-> k, whole |-> TRUE] \in Piece
  BY <1>1 DEF Piece
<1>3. s \in Seq(Piece) /\ Len(s) = m /\ \A k \in 1 .. m : s[k] = [of |-> t, part |-> k, whole |-> TRUE]
  BY <1>2 DEF Upto
<1>4. u \in Seq(Piece) /\ Len(u) = m + 1
      /\ \A k \in 1 .. m + 1 : u[k] = [of |-> t, part |-> k, whole |-> TRUE]
  BY <1>2 DEF Upto
<1>5. x \in Piece
  BY <1>2
<1>6. u[m + 1] = x /\ \A k \in 1 .. m : u[k] = s[k]
  BY <1>3, <1>4
<1> HIDE DEF s, x, u
<1>7. Append(s, x) \in Seq(Piece) /\ Len(Append(s, x)) = m + 1
      /\ \A k \in 1 .. m + 1 : Append(s, x)[k] = u[k]
  <2>1. /\ Append(s, x) \in Seq(Piece) /\ Len(Append(s, x)) = Len(s) + 1
        /\ \A k \in 1 .. Len(Append(s, x)) :
                \/ k \in 1 .. Len(s) /\ Append(s, x)[k] = s[k]
                \/ k = Len(s) + 1 /\ Append(s, x)[k] = x
    BY <1>3, <1>5, AppendOf
  <2> QED
    BY <1>3, <1>6, <2>1
<1>8. Append(s, x) = u
  BY <1>4, <1>7, SeqEqual
<1>9. ASSUME NEW k \in 1 .. m PROVE [of |-> t, part |-> k, whole |-> TRUE] \in ToSet(s)
  <2>1. k \in DOMAIN s
    BY <1>3, LenProperties
  <2> QED
    BY <1>3, <2>1 DEF ToSet
<1> QED
  BY <1>3, <1>8, <1>9 DEF s, x, u

\* What the clients may know after the board answered.
LEMMA AckedAfter ==
    ASSUME AskInv, down # <<>>, xfer' = xfer, ask' = ask, Ack \/ Nack, NEW t \in Transfers
    PROVE  /\ ~PartOf(Head(down), t) => Acked(t)' = Acked(t)
           /\ Nack => Acked(t)' = Acked(t)
           /\ Acked(t)' = Acked(t) \/ Acked(t)' = Head(down).part
           /\ down' = Tail(down)
<1>1. PICK ok \in BOOLEAN : Reply(ok, <<>>, 0) /\ (ok = FALSE \/ Ack)
  BY DEF Ack, Nack
<1>2. ASSUME NEW ok2 \in BOOLEAN, Reply(ok2, <<>>, 0)
      PROVE  /\ down' = Tail(down)
             /\ \/ up' = up
                \/ up = <<>> /\ Head(down) = ask /\ up' # <<>> /\ up'[1].ok = ok2
  <2>1. \/ up' = up
        \/ /\ up = <<>> /\ busy /\ Head(down) = ask /\ Head(down).id = asks
           /\ up' \in Seq(Answers) /\ Len(up') = 1
           /\ up'[1] = [ok |-> ok2, body |-> <<>>, next |-> 0]
    BY <1>2, PlainReply
  <2>2. [ok |-> ok2, body |-> <<>>, next |-> 0].ok = ok2
    OBVIOUS
  <2>3. Len(up') = 1 => up' # <<>>
    BY NoneOf
  <2>4. down' = Tail(down)
    BY <1>2, PlainReply
  <2> QED
    BY <2>1, <2>2, <2>3, <2>4
<1>3. down' = Tail(down)
  BY <1>1, <1>2
<1>4. CASE up' = up
  BY <1>3, <1>4 DEF Acked, Granted, PartOf
<1>5. CASE up' # up
  <2>1. up = <<>> /\ Head(down) = ask /\ up' # <<>>
    BY <1>1, <1>2, <1>5
  <2>2. ~Granted(t) /\ Acked(t) = xfer[t].sent
    BY <2>1 DEF Granted, Acked
  <2>3. Granted(t)' => PartOf(Head(down), t) /\ Acked(t)' = Head(down).part
    BY <2>1 DEF Granted, Acked, PartOf
  <2>4. ~Granted(t)' => Acked(t)' = Acked(t)
    BY <2>2 DEF Acked
  <2>5. Nack => ~Granted(t)'
    <3>1. Nack => up'[1].ok = FALSE
      BY <1>2, <1>5 DEF Nack
    <3> QED
      BY <3>1 DEF Granted
  <2> QED
    BY <1>3, <2>3, <2>4, <2>5
<1> QED
  BY <1>4, <1>5

\* A file that the part does not go to stays as it is.
LEMMA OtherFile ==
    ASSUME AskInv, down # <<>>, xfer' = xfer, ask' = ask, Ack \/ Nack, NEW u \in Transfers,
           NEW p \in Paths, FileOf(u), xfer[u].path # p, ~PartOf(Head(down), u),
           fd' \in {p, None}, Kept(u)' => Kept(u),
           \A r \in Paths \ {p} : content'[r] = content[r]
    PROVE  FileOf(u)'
<1>1. Acked(u)' \in 0 .. Acked(u)
  BY AckedAfter, AckedIs
<1>2. \A i \in 1 .. Len(down') : \E k \in 1 .. Len(down) : down'[i] = down[k]
  BY AckedAfter, HeadIs
<1>3. xfer[u].path \in Paths \cup {None}
  BY AckedIs
<1> QED
  BY <1>1, <1>2, <1>3, FileStays

\* The first part opens the file of its transfer, and closes the one before.
LEMMA FirstFile ==
    ASSUME PARTS > 1, AskInv, FileInv, down # <<>>, Head(down).op = "write", Head(down).part = 1,
           OpensOwn(Head(down)), xfer' = xfer, ask' = ask
    PROVE  FileInv'
<1>0. PICK t \in Transfers, p \in Paths : t = Head(down).t /\ p = Head(down).path
  BY HeadIs
<1> DEFINE q == Head(down)
           old == [content EXCEPT ![p] = <<>>]
<1>1. /\ t \in Transfers /\ p \in Paths /\ xfer[t].path = p /\ q \in Asked /\ q.part = 1 /\ q.t = t
      /\ PartOf(q, t) /\ p # None /\ t # None /\ q.path = p
  BY <1>0, HeadIs, StorageAssumption DEF PartOf, None
<1>2. /\ latest' = [latest EXCEPT ![p] = t] /\ mixed' = mixed \ {t} /\ twice' = twice \ {t}
      /\ Put(p, t, old, q)
  BY <1>0 DEF OpensOwn
<1>3. content \in [Paths -> Seq(Piece)] /\ latest \in [Paths -> Transfers \cup {None}]
      /\ <<>> \in Seq(Piece)
  BY NoneOf DEF AskInv, FileTypes
<1>4. old \in [Paths -> Seq(Piece)] /\ old[p] = <<>> /\ \A r \in Paths \ {p} : old[r] = content[r]
  BY <1>1, <1>3
<1> HIDE DEF old
<1>5. ASSUME NEW whole \in BOOLEAN
      PROVE  /\ \A r \in Paths \ {p} : With(old, p, q, whole)[r] = content[r]
             /\ With(old, p, q, whole)[p] = Append(<<>>, [of |-> t, part |-> 1, whole |-> whole])
  <2>1. q.part # 0 /\ q.t \in Transfers
    BY <1>1
  <2> HIDE DEF q
  <2>2. q \in Asked /\ p \in Paths /\ old \in [Paths -> Seq(Piece)]
    BY <1>1, <1>4
  <2>3. /\ \A r \in Paths \ {p} : With(old, p, q, whole)[r] = old[r]
        /\ With(old, p, q, whole)[p] = Append(old[p], [of |-> q.t, part |-> q.part, whole |-> whole])
    BY <2>1, <2>2, WithType
  <2> QED
    BY <1>1, <1>4, <2>3
<1> HIDE DEF q
<1>6. /\ Ack \/ Nack
      /\ content' \in {old, With(old, p, q, TRUE), With(old, p, q, FALSE)}
      /\ (fd' = p /\ owner' = t /\ content' = With(old, p, q, TRUE)) \/ (fd' = None /\ owner' = None)
  BY <1>1, <1>2 DEF Put, TakePart, FailPart
<1>7. \A r \in Paths \ {p} : content'[r] = content[r]
  BY <1>4, <1>5, <1>6
<1>8. down' = Tail(down) /\ Acked(t)' \in {Acked(t), 1}
  BY <1>1, <1>6, AckedAfter DEF q
<1>9. Acked(t) \in {0, 1}
  <2>1. CASE Granted(t)
    <3>1. q = ask
      BY <2>1, HeadIs DEF AskInv, QueueOK, Granted, q
    <3> QED
      BY <1>1, <2>1, <3>1, AckedIs
  <2>2. CASE ~Granted(t)
    <3>1. Acked(t) = xfer[t].sent /\ xfer[t].sent \in 0 .. PARTS
      BY <1>1, <2>2, AckedIs
    <3> DEFINE n == xfer[t].sent
    <3>2. n > 0 => 1 \in {n, n + 1}
      BY <1>1, HeadIs DEF FileInv, PartsOK, q
    <3>3. n \in Nat /\ Acked(t) = n
      BY <3>1, LastIs
    <3> HIDE DEF n
    <3>4. n = 0 \/ n = 1
      BY <3>2, <3>3
    <3> QED
      BY <3>3, <3>4
  <2> QED
    BY <2>1, <2>2
<1>10. OpenOK'
  <2>1. latest'[p] = t /\ \A r \in Paths \ {p} : latest'[r] = latest[r]
    BY <1>1, <1>2, <1>3
  <2>2. \A r \in Paths : latest[r] # None => xfer[latest[r]].path = r
    BY DEF FileInv, OpenOK
  <2>3. \A r \in Paths : latest'[r] # None => xfer[latest'[r]].path = r
    BY <1>1, <2>1, <2>2
  <2>4. fd' # None => xfer[owner'].path = fd' /\ latest'[fd'] \in {owner', None}
    BY <1>1, <1>6, <2>1
  <2> QED
    BY <2>3, <2>4 DEF OpenOK
<1>11. PartsOK'
  BY <1>8, TailParts DEF FileInv
<1>12. FileOf(t)'
  <2>1. ~(Acked(t)' = PARTS)
    BY <1>8, <1>9, LastIs
  <2>2. ASSUME fd' = p
        PROVE  \E m \in 1 .. PARTS - 1 :
                  /\ content'[fd'] = Upto(t, m) /\ Acked(t)' <= m
                  /\ \A i \in 1 .. Len(down') : PartOf(down[i], t)' => down'[i].part <= m + 1
    <3>1. content'[p] = Append(<<>>, [of |-> t, part |-> 1, whole |-> TRUE])
      BY <1>1, <1>5, <1>6, <2>2
    <3>2. Append(<<>>, [of |-> t, part |-> 1, whole |-> TRUE]) = Upto(t, 1)
      <4> DEFINE z == 0
      <4>1. z \in Nat /\ z < PARTS /\ z = 0 /\ z + 1 = 1
        BY LastIs
      <4> HIDE DEF z
      <4>2. /\ Upto(t, z) \in Seq(Piece) /\ Len(Upto(t, z)) = z
            /\ Append(Upto(t, z), [of |-> t, part |-> z + 1, whole |-> TRUE]) = Upto(t, z + 1)
        BY <1>1, <4>1, UptoNext
      <4>3. Upto(t, z) = <<>>
        BY <4>1, <4>2, EmptyIs
      <4> QED
        BY <4>1, <4>2, <4>3
    <3>3. Acked(t)' <= 1
      BY <1>8, <1>9
    <3>4. ASSUME NEW i \in 1 .. Len(down'), PartOf(down[i], t)' PROVE down'[i].part <= 1 + 1
      <4>1. down'[i] = down[i + 1] /\ i + 1 \in 1 .. Len(down) /\ 1 < i + 1 /\ 1 \in 1 .. Len(down) /\ q = down[1]
        BY <1>8, HeadIs DEF q
      <4>2. PartOf(down[i + 1], down[1].t) /\ down[1].op = "write" /\ down[1].part = 1
        BY <1>1, <3>4, <4>1 DEF PartOf
      <4>3. down[i + 1].part <= 2
        BY <4>1, <4>2 DEF FileInv, PartsOK
      <4> QED
        BY <4>1, <4>3
    <3>5. 1 \in 1 .. PARTS - 1
      BY LastIs
    <3> QED
      BY <2>2, <3>1, <3>2, <3>3, <3>4, <3>5
  <2> QED
    BY <1>1, <2>1, <2>2 DEF FileOf
<1>13. ASSUME NEW u \in Transfers \ {t} PROVE FileOf(u)'
  <2>1. CASE xfer[u].path = p
    <3>1. latest'[p] = t
      BY <1>1, <1>2, <1>3
    <3>2. ~Kept(u)'
      BY <2>1, <3>1 DEF Kept
    <3> QED
      BY <3>2 DEF FileOf
  <2>2. CASE xfer[u].path # p
    <3>1. Kept(u)' => Kept(u)
      <4>1. xfer[u].path \in Paths \cup {None}
        BY AckedIs
      <4> QED
        BY <1>1, <1>2, <1>3, <2>2, <4>1 DEF Kept
    <3>2. FileOf(u) /\ ~PartOf(q, u)
      BY <1>1 DEF FileInv, PartOf
    <3> QED
      BY <1>1, <1>6, <1>7, <2>2, <3>1, <3>2, OtherFile DEF q
  <2> QED
    BY <2>1, <2>2
<1> QED
  BY <1>10, <1>11, <1>12, <1>13 DEF FileInv

\* A later part goes to the open file, whatever its own path.
LEMMA LaterFile ==
    ASSUME AskInv, FileInv, down # <<>>, Head(down).op = "write", Head(down).part # 1,
           OnLater(Head(down)), fd # None, xfer' = xfer, ask' = ask
    PROVE  FileInv'
<1>0. PICK t \in Transfers : t = Head(down).t
  BY HeadIs
<1> DEFINE q == Head(down)
           x == [of |-> t, part |-> Head(down).part, whole |-> TRUE]
<1>1. /\ t \in Transfers /\ q \in Asked /\ q.part \in 2 .. PARTS /\ q.t = t /\ PartOf(q, t)
      /\ t # None /\ q.part = Head(down).part
  <2>1. t \in Transfers /\ q \in Asked /\ q.part \in 1 .. PARTS /\ q.part # 1 /\ q.t = t
    BY <1>0, HeadIs
  <2>2. q.part \in 2 .. PARTS
    BY <2>1, CountsAre
  <2> QED
    BY <2>1, <2>2, StorageAssumption DEF PartOf
<1>2. /\ content \in [Paths -> Seq(Piece)] /\ latest \in [Paths -> Transfers \cup {None}]
      /\ fd \in Paths /\ owner \in Transfers /\ fd # None /\ owner # None
      /\ xfer[owner].path = fd /\ latest[fd] \in {owner, None}
  BY StorageAssumption DEF AskInv, FileTypes, FileInv, OpenOK
<1>3. /\ latest' = latest /\ Put(fd, owner, content, q)
      /\ (owner # t => mixed' = mixed \cup {owner, t}) /\ mixed \subseteq mixed'
      /\ twice \subseteq twice' /\ (x \in ToSet(content[fd]) => t \in twice')
  BY <1>0 DEF OnLater
<1>4. ASSUME NEW whole \in BOOLEAN
      PROVE  /\ \A r \in Paths \ {fd} : With(content, fd, q, whole)[r] = content[r]
             /\ With(content, fd, q, whole)[fd] = Append(content[fd], [of |-> t, part |-> q.part, whole |-> whole])
  <2>1. /\ q \in Asked /\ q.t = t /\ q.t \in Transfers /\ q.part # 0
        /\ content \in [Paths -> Seq(Piece)] /\ fd \in Paths
    BY <1>1, <1>2
  <2> HIDE DEF q
  <2>2. /\ \A r \in Paths \ {fd} : With(content, fd, q, whole)[r] = content[r]
        /\ With(content, fd, q, whole)[fd]
             = Append(content[fd], [of |-> q.t, part |-> q.part, whole |-> whole])
    BY <2>1, WithType
  <2> QED
    BY <2>1, <2>2
<1> HIDE DEF q
<1>5. /\ Ack \/ Nack
      /\ content' \in {content, With(content, fd, q, TRUE), With(content, fd, q, FALSE)}
      /\ \/ /\ content' = With(content, fd, q, TRUE)
            /\ fd' = IF q.part = PARTS THEN None ELSE fd
            /\ owner' = IF q.part = PARTS THEN None ELSE owner
         \/ Nack /\ fd' = None /\ owner' = None
  BY <1>3 DEF Put, TakePart, FailPart
<1>6. (\A r \in Paths \ {fd} : content'[r] = content[r]) /\ fd' \in {fd, None} /\ (fd' = fd => owner' = owner)
  BY <1>2, <1>4, <1>5
<1>7. down' = Tail(down) /\ (Nack => Acked(t)' = Acked(t)) /\ Acked(t)' \in {Acked(t), q.part}
  BY <1>1, <1>5, AckedAfter DEF q
<1>8. OpenOK'
  <2>1. \A r \in Paths : latest[r] # None => xfer[latest[r]].path = r
    BY DEF FileInv, OpenOK
  <2> QED
    BY <1>2, <1>3, <1>6, <2>1 DEF OpenOK
<1>9. PartsOK'
  BY <1>7, TailParts DEF FileInv
<1>10. ASSUME NEW u \in Transfers, Kept(u)' PROVE Kept(u)
  BY <1>3, <1>10 DEF Kept
<1>11. FileOf(t)'
  <2>1. CASE ~Kept(t)'
    BY <2>1 DEF FileOf
  <2>2. CASE Kept(t)' /\ owner = t
    <3>1. Kept(t) /\ xfer[t].path = fd
      BY <1>1, <1>2, <1>10, <2>2
    <3>2. PICK m \in 1 .. PARTS - 1 :
            /\ content[fd] = Upto(t, m) /\ Acked(t) <= m
            /\ \A i \in 1 .. Len(down) : PartOf(down[i], t) => down[i].part <= m + 1
      BY <1>1, <3>1 DEF FileInv, FileOf
    <3>3. m \in Nat /\ m < PARTS /\ m + 1 \in Nat /\ m - 1 \in Nat
      BY LastIs
    <3>4. q.part <= m + 1
      BY <1>1, <3>2, HeadIs DEF q
    <3>5. q.part \notin 1 .. m
      <4>1. t \notin twice'
        BY <2>2 DEF Kept
      <4>2. x \notin ToSet(Upto(t, m))
        BY <1>3, <3>2, <4>1
      <4>3. \A k \in 1 .. m : [of |-> t, part |-> k, whole |-> TRUE] \in ToSet(Upto(t, m))
        BY <1>1, <3>3, UptoNext
      <4> QED
        BY <1>1, <4>2, <4>3
    <3>6. q.part = m + 1
      BY <1>1, <3>3, <3>4, <3>5
    <3>7. Acked(t) \in 0 .. m /\ Acked(t)' \in 0 .. m + 1
      <4>1. Acked(t) \in 0 .. PARTS
        BY <1>1, AckedIs
      <4> QED
        BY <1>7, <3>2, <3>3, <3>6, <4>1
    <3>8. CASE /\ content' = With(content, fd, q, TRUE)
               /\ fd' = IF q.part = PARTS THEN None ELSE fd
      <4>1. content'[fd] = Upto(t, m + 1)
        <5>1. content'[fd] = Append(Upto(t, m), [of |-> t, part |-> m + 1, whole |-> TRUE])
          BY <1>4, <3>2, <3>6, <3>8
        <5> QED
          BY <1>1, <3>3, <5>1, UptoNext
      <4>2. CASE m + 1 = PARTS
        <5>1. fd' = None
          BY <3>6, <3>8, <4>2
        <5>2. content'[fd] = AllParts(t)
          BY <4>1, <4>2 DEF AllParts, Upto
        <5> QED
          BY <1>2, <3>1, <5>1, <5>2 DEF FileOf, AllParts
      <4>3. CASE m + 1 # PARTS
        <5>1. fd' = fd
          BY <3>6, <3>8, <4>3
        <5>2. m + 1 \in 1 .. PARTS - 1 /\ m + 1 < PARTS
          BY <3>3, <4>3, CountsAre
        <5>3. Acked(t)' # PARTS /\ Acked(t)' <= m + 1
          BY <3>7, <5>2, CountsAre
        <5>4. ASSUME NEW i \in 1 .. Len(down'), PartOf(down[i], t)' PROVE down'[i].part <= m + 1 + 1
          <6>1. down'[i] = down[i + 1] /\ i + 1 \in 1 .. Len(down) /\ down[i + 1] \in Asked
            BY <1>7, HeadIs, LastIs
          <6>2. PartOf(down[i + 1], t)
            BY <5>4, <6>1 DEF PartOf
          <6>3. down[i + 1].part <= m + 1 /\ down[i + 1].part \in 0 .. PARTS
            BY <3>2, <6>1, <6>2 DEF Asked
          <6>4. down[i + 1].part <= m + 1 + 1
            BY <3>3, <6>3
          <6> QED
            BY <6>1, <6>4
        <5> QED
          BY <3>1, <4>1, <5>1, <5>2, <5>3, <5>4 DEF FileOf
      <4> QED
        BY <4>2, <4>3
    <3>9. CASE Nack /\ fd' = None
      <4>1. Acked(t)' # PARTS
        BY <1>7, <3>3, <3>7, <3>9, CountsAre
      <4> QED
        BY <1>2, <3>1, <3>9, <4>1 DEF FileOf
    <3> QED
      BY <1>5, <3>8, <3>9
  <2>3. CASE Kept(t)' /\ owner # t
    BY <1>1, <1>3, <2>3 DEF Kept
  <2> QED
    BY <2>1, <2>2, <2>3
<1>12. ASSUME NEW u \in Transfers \ {t} PROVE FileOf(u)'
  <2>1. CASE ~Kept(u)'
    BY <2>1 DEF FileOf
  <2>2. CASE Kept(u)'
    <3>1. Kept(u) /\ u \notin mixed'
      BY <1>10, <2>2 DEF Kept
    <3>2. xfer[u].path # fd
      <4>1. SUFFICES ASSUME xfer[u].path = fd PROVE FALSE
        OBVIOUS
      <4>2. latest[fd] = u /\ u # None
        BY <3>1, <4>1, StorageAssumption DEF Kept
      <4>3. u = owner /\ owner # t
        BY <1>2, <4>2
      <4> QED
        BY <1>3, <3>1, <4>3
    <3>3. FileOf(u) /\ ~PartOf(q, u)
      BY <1>1 DEF FileInv, PartOf
    <3> QED
      BY <1>2, <1>5, <1>6, <1>10, <3>2, <3>3, OtherFile DEF q
  <2> QED
    BY <2>1, <2>2
<1> QED
  BY <1>8, <1>9, <1>11, <1>12 DEF FileInv

\* A part that opens no file changes none, but may leave the open one closed.
LEMMA RefusedFile ==
    ASSUME AskInv, FileInv, down # <<>>, Nack, xfer' = xfer, ask' = ask,
           fd' \in {fd, None}, fd' = fd => owner' = owner, UNCHANGED <<content, latest, mixed, twice>>
    PROVE  FileInv'
<1>1. down' = Tail(down)
  BY DEF Nack, Reply
<1>2. OpenOK'
  BY DEF FileInv, OpenOK
<1>3. PartsOK'
  BY <1>1, TailParts DEF FileInv
<1>4. ASSUME NEW t \in Transfers PROVE FileOf(t)'
  <2>1. Acked(t)' \in 0 .. Acked(t)
    BY AckedAfter, AckedIs
  <2>2. \A i \in 1 .. Len(down') : \E k \in 1 .. Len(down) : down'[i] = down[k]
    BY <1>1, HeadIs
  <2>3. FileOf(t) /\ (Kept(t)' => Kept(t)) /\ xfer[t].path \in Paths \cup {None}
    BY AckedIs DEF FileInv, Kept
  <2> QED
    BY <2>1, <2>2, <2>3, FileStays
<1> QED
  BY <1>2, <1>3, <1>4 DEF FileInv

LEMMA BoardFile ==
    ASSUME PARTS > 1, AskInv, FileInv, Board
    PROVE  FileInv'
<1> DEFINE q == Head(down)
<1>1. down # <<>> /\ xfer' = xfer /\ ask' = ask
  BY WatchTypes DEF Board, broker
<1>2. CASE q.op = "write" /\ OnWrite(q)
  <2>1. CASE q.part = 1 /\ OpensOwn(q)
    BY <1>1, <1>2, <2>1, FirstFile
  <2>2. CASE CannotOpen
    <3>1. Nack /\ fd' = None /\ owner' = None /\ UNCHANGED <<content, latest, mixed, twice>>
      BY <2>2 DEF CannotOpen
    <3>2. fd' = fd => owner' = owner
      BY <3>1 DEF AskInv, FileTypes
    <3> QED
      BY <1>1, <3>1, <3>2, RefusedFile
  <2>3. CASE q.part # 1 /\ OnLater(q) /\ fd # None
    BY <1>1, <1>2, <2>3, LaterFile
  <2>4. CASE OnLater(q) /\ fd = None
    BY <1>1, <2>4, RefusedFile DEF OnLater
  <2> QED
    BY <1>2, <2>1, <2>2, <2>3, <2>4 DEF OnWrite, OnFirst
<1>3. CASE \/ q.op = "read" /\ OnRead(q)
           \/ q.op = "list" /\ OnList(q)
  <2>1. Replied /\ UNCHANGED <<disk, history>>
    BY <1>1, <1>3, LookTypes
  <2>2. /\ UNCHANGED <<content, fd, owner, latest, mixed, twice>> /\ q.op # "write"
        /\ latest \in [Paths -> Transfers \cup {None}]
    BY <1>3, <2>1 DEF disk, history, AskInv, FileTypes
  <2> QED
    BY <1>1, <2>1, <2>2, LookFile
<1>4. CASE \/ q.op = "delete" /\ OnDelete(q)
           \/ q.op = "mkdir" /\ OnMakeDir
  <2>1. Replied
    BY <1>1, <1>4, ChangeTypes
  <2>2. latest \in [Paths -> Transfers \cup {None}] /\ q.op # "write"
    BY <1>4 DEF AskInv, FileTypes
  <2>3. /\ UNCHANGED <<content, fd, owner, mixed, twice>>
        /\ latest' = latest \/ latest' = [latest EXCEPT ![q.path] = None]
    BY <1>4 DEF OnDelete, OnMakeDir, disk, history
  <2>4. latest' \in [Paths -> Transfers \cup {None}] /\ \A p \in Paths : latest'[p] \in {latest[p], None}
    BY <2>2, <2>3
  <2> QED
    BY <1>1, <2>1, <2>2, <2>3, <2>4, LookFile
<1> QED
  BY <1>2, <1>3, <1>4 DEF Board

LEMMA FilesInitFile == FilesInit => FileInv
<1> SUFFICES ASSUME FilesInit PROVE FileInv
  OBVIOUS
<1>1. Len(<<>>) = 0
  OBVIOUS
<1>2. OpenOK
  BY DEF FilesInit, OpenOK
<1>3. PartsOK
  BY <1>1 DEF FilesInit, PartsOK
<1>4. \A t \in Transfers : FileOf(t)
  BY DEF FilesInit, FileOf, Kept
<1> QED
  BY <1>2, <1>3, <1>4 DEF FileInv

LEMMA FilesStepFile ==
    ASSUME PARTS > 1, AskInv, FileInv, [FilesNext]_filesVars
    PROVE  FileInv'
<1>1. CASE UNCHANGED filesVars
  BY <1>1 DEF FileInv, OpenOK, PartsOK, PartOf, FileOf, Kept, Acked, Granted, Upto, AllParts,
              filesVars, clients, broker, disk, history
<1>2. CASE FilesNext
  BY <1>2, RouteFile, AnswerFile, AttemptFile, BoardFile, RestartFile DEF FilesNext
<1> QED
  BY <1>1, <1>2

LEMMA FileInvIsWhole == AskInv /\ FileInv => TransferIsFile
<1> SUFFICES ASSUME AskInv, FileInv, NEW t \in Transfers \ twice, Stands(t)
             PROVE  content[xfer[t].path] = AllParts(t)
  BY DEF TransferIsFile
<1>1. xfer[t].state = "done" /\ xfer[t].sent = PARTS /\ xfer[t].path # None
  BY DEF Stands, AskInv, ClientsOK
<1>2. Kept(t)
  BY <1>1 DEF Kept, Stands
<1>3. Acked(t) = PARTS
  BY <1>1, AckedIs, LastIs
<1> QED
  BY <1>2, <1>3 DEF FileInv, FileOf

\* Storage!Inv: the types, and a file that was answered with success holds what
\* was sent, for any number of transfers of more than one part.
THEOREM StorageInv == ASSUME PARTS > 1 PROVE FilesSpec => []Inv
<1>1. FilesInit => AskInv /\ FileInv
  BY FilesInitAsk, FilesInitFile
<1>2. AskInv /\ FileInv /\ [FilesNext]_filesVars => (AskInv /\ FileInv)'
  BY FilesStepAsk, FilesStepFile
<1>3. AskInv /\ FileInv => Inv
  BY AskInvIsTypes, FileInvIsWhole DEF Inv
<1> QED
  BY <1>1, <1>2, <1>3, PTL DEF FilesSpec

-----------------------------------------------------------------------------
(* What a client has read.                                                 *)

\* What the client has is the start of the file, its answer the next part, and
\* it is done when it has all.
ReadOK ==
    reader.state # "new" /\ reader.clean = TRUE =>
        /\ Len(reader.copy) <= Len(content[reader.path])
        /\ reader.copy = SubSeq(content[reader.path], 1, Len(reader.copy))
        /\ reader.state = "done" => Len(reader.copy) = Len(content[reader.path])
        /\ up # <<>> /\ ask.op = "read" /\ up[1].ok = TRUE
             => up[1].body = PieceAt(reader.path, Len(reader.copy))

LEMMA WholeCut ==
    ASSUME NEW S, NEW s \in Seq(S)
    PROVE  SubSeq(s, 1, Len(s)) = s /\ SubSeq(s, 1, 0) = <<>> /\ Len(s) \in Nat
<1>1. Len(s) \in Nat /\ 1 \in Nat \ {0} /\ 0 \in Nat /\ 0 <= Len(s)
  BY LenProperties
<1> DEFINE u == SubSeq(s, 1, Len(s))
           n == Len(s)
<1>2. /\ u \in Seq(S) /\ Len(u) = IF 1 <= n THEN n - 1 + 1 ELSE 0
      /\ \A k \in 1 .. Len(u) : u[k] = s[1 + k - 1]
  BY <1>1, CutOf
<1> HIDE DEF u
<1>3. Len(u) = n
  BY <1>1, <1>2
<1>4. \A k \in 1 .. Len(u) : u[k] = s[k]
  BY <1>1, <1>2, <1>3
<1>5. u = s
  BY <1>2, <1>3, <1>4, SeqEqual
<1>6. SubSeq(s, 1, 0) = <<>>
  <2> DEFINE v == SubSeq(s, 1, 0)
             z == 0
             one == 1
  <2>1. v = SubSeq(s, one, z) /\ one \in Nat \ {0} /\ z \in Nat /\ z <= Len(s) /\ ~(one <= z) /\ z = 0
    BY <1>1
  <2> HIDE DEF v, z, one
  <2>2. v \in Seq(S) /\ Len(v) = IF one <= z THEN z - one + 1 ELSE 0
    BY <2>1, CutOf
  <2>3. Len(v) = 0
    BY <2>1, <2>2
  <2>4. v = <<>>
    BY <2>2, <2>3, EmptyIs
  <2> QED
    BY <2>4 DEF v
<1> QED
  BY <1>1, <1>5, <1>6 DEF u

\* The start of a sequence and what follows it.
LEMMA CutsJoin ==
    ASSUME NEW S, NEW s \in Seq(S), NEW a \in Nat, NEW b \in Nat, a <= b, b <= Len(s)
    PROVE  SubSeq(s, 1, a) \o SubSeq(s, a + 1, b) = SubSeq(s, 1, b)
<1> DEFINE u == SubSeq(s, 1, a)
           v == SubSeq(s, a + 1, b)
           w == SubSeq(s, 1, b)
           one == 1
           c == a + 1
<1>1. Len(s) \in Nat /\ one \in Nat \ {0} /\ c \in Nat \ {0} /\ a <= Len(s) /\ one = 1 /\ c = a + 1
  BY LenProperties
<1>2. u = SubSeq(s, one, a) /\ v = SubSeq(s, c, b) /\ w = SubSeq(s, one, b)
  OBVIOUS
<1> HIDE DEF u, v, w, one, c
<1>3. /\ u \in Seq(S) /\ Len(u) = IF one <= a THEN a - one + 1 ELSE 0
      /\ \A k \in 1 .. Len(u) : u[k] = s[one + k - 1]
  BY <1>1, <1>2, CutOf
<1>4. /\ v \in Seq(S) /\ Len(v) = IF c <= b THEN b - c + 1 ELSE 0
      /\ \A k \in 1 .. Len(v) : v[k] = s[c + k - 1]
  BY <1>1, <1>2, CutOf
<1>5. /\ w \in Seq(S) /\ Len(w) = IF one <= b THEN b - one + 1 ELSE 0
      /\ \A k \in 1 .. Len(w) : w[k] = s[one + k - 1]
  BY <1>1, <1>2, CutOf
<1>6. Len(u) = a /\ Len(v) = b - a /\ Len(w) = b
  BY <1>1, <1>3, <1>4, <1>5
<1>7. /\ \A k \in 1 .. a : u[k] = s[k]
      /\ \A k \in 1 .. b - a : v[k] = s[a + k]
      /\ \A k \in 1 .. b : w[k] = s[k]
  <2>1. \A k \in 1 .. a : u[k] = s[k]
    <3>1. \A k \in 1 .. a : one + k - 1 = k
      BY <1>1
    <3> QED
      BY <1>3, <1>6, <3>1
  <2>2. \A k \in 1 .. b - a : v[k] = s[a + k]
    <3>1. \A k \in 1 .. b - a : c + k - 1 = a + k
      BY <1>1
    <3> QED
      BY <1>4, <1>6, <3>1
  <2>3. \A k \in 1 .. b : w[k] = s[k]
    <3>1. \A k \in 1 .. b : one + k - 1 = k
      BY <1>1
    <3> QED
      BY <1>5, <1>6, <3>1
  <2> QED
    BY <2>1, <2>2, <2>3
<1>8. /\ u \o v \in Seq(S) /\ Len(u \o v) = a + (b - a)
      /\ \A k \in 1 .. a + (b - a) : (u \o v)[k] = IF k <= a THEN u[k] ELSE v[k - a]
  <2>1. /\ u \o v \in Seq(S) /\ Len(u \o v) = Len(u) + Len(v)
        /\ \A k \in 1 .. Len(u) + Len(v) :
             (u \o v)[k] = IF k <= Len(u) THEN u[k] ELSE v[k - Len(u)]
    BY <1>3, <1>4, ConcatOf
  <2> QED
    BY <1>6, <2>1
<1>9. ASSUME NEW k \in 1 .. b PROVE (u \o v)[k] = w[k]
  <2>1. k \in 1 .. a + (b - a) /\ w[k] = s[k]
    BY <1>7
  <2>2. CASE k <= a
    BY <1>7, <1>8, <2>1, <2>2
  <2>3. CASE ~(k <= a)
    <3>1. k - a \in 1 .. b - a /\ a + (k - a) = k
      BY <2>3
    <3>2. v[k - a] = s[k]
      BY <1>7, <3>1
    <3> QED
      BY <1>8, <2>1, <2>3, <3>2
  <2> QED
    BY <2>2, <2>3
<1>10. Len(u \o v) = b
  BY <1>8
<1>11. u \o v = w
  BY <1>5, <1>6, <1>8, <1>9, <1>10, SeqEqual
<1> QED
  BY <1>11 DEF u, v, w

\* One part more of a file.
LEMMA PieceNext ==
    ASSUME content \in [Paths -> Seq(Piece)], NEW p \in Paths, NEW n \in Nat, n <= Len(content[p])
    PROVE  /\ n < Len(content[p]) => /\ SubSeq(content[p], 1, n) \o PieceAt(p, n) = SubSeq(content[p], 1, n + 1)
                                     /\ PieceAt(p, n) # <<>>
           /\ n = Len(content[p]) => PieceAt(p, n) = <<>>
<1> DEFINE s == content[p]
<1>1. s \in Seq(Piece) /\ Len(s) \in Nat
  BY LenProperties
<1>2. ASSUME n < Len(s) PROVE PieceAt(p, n) = SubSeq(s, n + 1, n + 1) /\ PieceAt(p, n) # <<>>
  <2> DEFINE c == n + 1
             x == <<s[c]>>
             y == SubSeq(s, c, c)
  <2>1. c \in Nat \ {0} /\ c <= Len(s) /\ c \in 1 .. Len(s) /\ PieceAt(p, n) = x
    BY <1>1, <1>2 DEF PieceAt
  <2> HIDE DEF c, s
  <2>2. y \in Seq(Piece) /\ Len(y) = (IF c <= c THEN c - c + 1 ELSE 0)
        /\ \A k \in 1 .. Len(y) : y[k] = s[c + k - 1]
    BY <1>1, <2>1, CutOf
  <2>3. x \in Seq(Piece) /\ Len(x) = 1 /\ x[1] = s[c] /\ x # <<>>
    BY <1>1, <2>1, EmptyIs, OneOf
  <2> HIDE DEF x, y
  <2>4. Len(y) = 1
    BY <2>1, <2>2
  <2>5. \A k \in 1 .. Len(y) : y[k] = x[k]
    <3>1. \A k \in 1 .. Len(y) : k = 1 /\ c + k - 1 = c
      BY <2>1, <2>4
    <3> QED
      BY <2>2, <2>3, <3>1
  <2>6. x = y
    BY <2>2, <2>3, <2>4, <2>5, SeqEqual
  <2> QED
    BY <2>1, <2>3, <2>6 DEF y, c
<1>3. ASSUME n < Len(s) PROVE SubSeq(s, 1, n) \o SubSeq(s, n + 1, n + 1) = SubSeq(s, 1, n + 1)
  <2> DEFINE c == n + 1
  <2>1. c \in Nat /\ n <= c /\ c <= Len(s)
    BY <1>1, <1>3
  <2> HIDE DEF c, s
  <2>2. SubSeq(s, 1, n) \o SubSeq(s, n + 1, c) = SubSeq(s, 1, c)
    BY <1>1, <2>1, CutsJoin
  <2> QED
    BY <2>2 DEF c
<1>4. n = Len(s) => PieceAt(p, n) = <<>>
  BY <1>1 DEF PieceAt
<1> QED
  BY <1>2, <1>3, <1>4

\* A step of others: what it changes in the file ends the claim.
LEMMA ReadStays ==
    ASSUME AskInv, ReadOK, reader'.path = reader.path, reader'.copy = reader.copy,
           reader'.state = reader.state,
           reader'.clean = TRUE => /\ reader.clean = TRUE
                                   /\ reader.state # "new" => content'[reader.path] = content[reader.path],
           \/ up' = up /\ ask' = ask
           \/ up' = <<>>
           \/ up'[1].ok = FALSE
           \/ ask'.op # "read"
    PROVE  ReadOK'
BY DEF ReadOK, PieceAt

LEMMA ReadPartRead ==
    ASSUME AskInv, ReadOK, ReadPart
    PROVE  ReadOK'
<1>1. ~busy /\ up' = up /\ UNCHANGED disk
  BY DEF ReadPart, Ask, Serves
<1>2. up' = <<>> /\ content' = content
  BY <1>1, LastIs DEF disk
<1>3. CASE reader.state = "new"
  <2>1. PICK p \in Paths : reader' = [reader EXCEPT !.path = p, !.state = "runs"]
    BY <1>3, StorageAssumption DEF ReadPart
  <2>2. /\ reader'.copy = <<>> /\ reader'.path = p /\ reader'.state = "runs"
        /\ content[p] \in Seq(Piece)
    BY <1>3, <2>1, ReaderIs DEF AskInv, FileTypes
  <2>3. Len(<<>>) = 0 /\ SubSeq(content[p], 1, 0) = <<>> /\ Len(content[p]) \in Nat
    BY <2>2, WholeCut, NoneOf
  <2>4. 0 <= Len(content[p])
    BY <2>3
  <2> QED
    BY <1>2, <2>2, <2>3, <2>4 DEF ReadOK
<1>4. CASE reader.state \in {"runs", "failed"}
  <2>1. reader' = [reader EXCEPT !.state = "runs"]
    BY <1>4 DEF ReadPart
  <2>2. /\ reader'.copy = reader.copy /\ reader'.path = reader.path /\ reader'.state = "runs"
        /\ reader'.clean = reader.clean
    BY <2>1, ReaderIs
  <2> QED
    BY <1>2, <1>4, <2>2 DEF ReadOK
<1> QED
  BY <1>3, <1>4 DEF ReadPart

LEMMA TellRead ==
    ASSUME AskInv, ReadOK, busy, NEW ok \in BOOLEAN, NEW body, NEW next \in Nat,
           Tell(ok, body, next), up' = <<>>, content' = content,
           ask.op = "read" => /\ ok = FALSE => body = <<>>
                              /\ ok = TRUE => up # <<>> /\ up[1].ok = TRUE /\ body = up[1].body
    PROVE  ReadOK'
<1>1. CASE ask.op # "read"
  <2>1. reader' = reader
    BY <1>1 DEF Tell, clients
  <2> QED
    BY <2>1, ReadStays
<1>2. CASE ask.op = "read"
  <2> DEFINE copy == reader.copy \o body
             state == IF ~ok THEN "failed" ELSE IF body = <<>> THEN "done" ELSE "runs"
             n == Len(reader.copy)
             p == reader.path
             c == content[reader.path]
  <2>1. reader' = [reader EXCEPT !.copy = copy, !.state = state] /\ reader.state = "runs"
    <3>1. reader.state = "runs"
      BY <1>2 DEF AskInv, ClientsOK
    <3>2. reader' = [reader EXCEPT
                !.copy = @ \o body,
                !.state = IF ~ok THEN "failed" ELSE IF body = <<>> THEN "done" ELSE "runs"]
      BY <1>2 DEF Tell
    <3> QED
      BY <3>1, <3>2
  <2>2. /\ ok = FALSE => state = "failed"
        /\ ok = TRUE /\ body = <<>> => state = "done"
        /\ ok = TRUE /\ body # <<>> => state = "runs"
    OBVIOUS
  <2> HIDE DEF state
  <2>3. /\ reader'.copy = copy /\ reader'.state = state /\ reader'.path = p
        /\ reader'.clean = reader.clean
    BY <2>1, ReaderIs
  <2>4. p \in Paths /\ content \in [Paths -> Seq(Piece)] /\ c \in Seq(Piece)
        /\ reader.copy \in Seq(Piece) /\ n \in Nat /\ Len(c) \in Nat
    <3>1. p \in Paths /\ content \in [Paths -> Seq(Piece)] /\ reader.copy \in Seq(Piece)
      BY <2>1, ReaderIs DEF AskInv, FileTypes
    <3> QED
      BY <3>1, LenProperties
  <2> SUFFICES ASSUME reader.clean = TRUE
               PROVE  Len(copy) <= Len(c) /\ copy = SubSeq(c, 1, Len(copy))
                      /\ (state = "done" => Len(copy) = Len(c))
    BY <2>3 DEF ReadOK
  <2>5. /\ n <= Len(c) /\ reader.copy = SubSeq(c, 1, n)
        /\ ok = TRUE => body = PieceAt(p, n)
    BY <1>2, <2>1 DEF ReadOK
  <2>6. CASE body = <<>>
    <3>1. copy = reader.copy
      BY <2>4, <2>6, ConcatEmptySeq
    <3>2. ASSUME state = "done" PROVE n = Len(c)
      <4>1. ok = TRUE /\ PieceAt(p, n) = <<>>
        BY <2>2, <2>5, <2>6, <3>2
      <4>2. ~(n < Len(c))
        BY <2>4, <2>5, <4>1, PieceNext
      <4> QED
        BY <2>4, <2>5, <4>2
    <3> QED
      BY <2>5, <3>1, <3>2
  <2>7. CASE body # <<>>
    <3>1. ok = TRUE /\ body = PieceAt(p, n) /\ state = "runs"
      BY <1>2, <2>2, <2>5, <2>7
    <3>2. n < Len(c)
      <4>1. n # Len(c)
        BY <2>4, <2>5, <2>7, <3>1, PieceNext
      <4> QED
        BY <2>4, <2>5, <4>1
    <3>3. copy = SubSeq(c, 1, n + 1)
      <4>1. SubSeq(c, 1, n) \o PieceAt(p, n) = SubSeq(c, 1, n + 1)
        BY <2>4, <2>5, <3>2, PieceNext
      <4> QED
        BY <2>5, <3>1, <4>1
    <3>4. Len(copy) = n + 1
      <4> DEFINE k == n + 1
                 one == 1
      <4>1. one \in Nat \ {0} /\ k \in Nat /\ k <= Len(c) /\ one = 1 /\ k = n + 1 /\ copy = SubSeq(c, one, k)
        BY <2>4, <3>2, <3>3
      <4> HIDE DEF k, one, copy, c, n
      <4>2. Len(SubSeq(c, one, k)) = IF one <= k THEN k - one + 1 ELSE 0
        BY <2>4, <4>1, CutOf
      <4> QED
        BY <2>4, <4>1, <4>2
    <3>5. n + 1 <= Len(c) /\ state # "done"
      BY <2>4, <3>1, <3>2
    <3> QED
      BY <3>3, <3>4, <3>5
  <2> QED
    BY <2>6, <2>7
<1> QED
  BY <1>1, <1>2

\* A change of the file that is read ends the claim.
LEMMA WatchRead ==
    ASSUME AskInv, Watch
    PROVE  /\ reader'.path = reader.path /\ reader'.copy = reader.copy /\ reader'.state = reader.state
           /\ reader'.clean = TRUE => /\ reader.clean = TRUE
                                      /\ reader.state # "new" => content'[reader.path] = content[reader.path]
<1>1. reader'.path = reader.path /\ reader'.copy = reader.copy /\ reader'.state = reader.state
  BY WatchTypes
<1> DEFINE same == reader.state # "new" =>
                      /\ content'[reader.path] = content[reader.path]
                      /\ reader.path \in files <=> reader.path \in files'
           b == reader.clean /\ same
<1>2. reader' = [reader EXCEPT !.clean = b]
  BY DEF Watch
<1>3. reader'.clean = b
  <2> HIDE DEF b
  <2> QED
    BY <1>2, ReaderIs
<1>4. reader.clean \in BOOLEAN
  BY ReaderIs
<1>5. b = TRUE => reader.clean = TRUE /\ same
  BY <1>4
<1> QED
  BY <1>1, <1>3, <1>5

\* A part that the board reads is the next one of the client that waits for it.
LEMMA BoardRead ==
    ASSUME AskInv, ReadOK, Board
    PROVE  ReadOK'
<1> DEFINE q == Head(down)
<1>1. down # <<>> /\ Watch /\ ask' = ask /\ busy' = busy
  BY DEF Board, broker
<1>2. /\ reader'.path = reader.path /\ reader'.copy = reader.copy /\ reader'.state = reader.state
      /\ reader'.clean = TRUE => /\ reader.clean = TRUE
                                 /\ reader.state # "new" => content'[reader.path] = content[reader.path]
  BY <1>1, WatchRead
<1>3. CASE up' = up \/ up' = <<>> \/ up'[1].ok = FALSE \/ ask.op # "read"
  BY <1>1, <1>2, <1>3, ReadStays
<1>4. CASE q.op = "read" /\ q.path \in files /\ Reply(TRUE, FromOffset(q), 0) /\ UNCHANGED <<disk, history>>
  <2> DEFINE body == FromOffset(q)
             next == 0
  <2>1. body \in Seq(Piece) \cup Seq(Paths) /\ TRUE \in BOOLEAN /\ next \in Nat
        /\ Reply(TRUE, body, next) /\ content' = content
    BY <1>1, <1>4, HeadIs, DiskIs, PieceType DEF FromOffset, DiskTypes, disk
  <2> HIDE DEF body, next
  <2>2. \/ up' = up
        \/ up = <<>> /\ busy /\ q = ask /\ up'[1] = [ok |-> TRUE, body |-> body, next |-> next]
    BY <1>1, <2>1, ReplyIs
  <2>3. [ok |-> TRUE, body |-> body, next |-> next].body = body
    OBVIOUS
  <2>4. CASE busy /\ q = ask /\ up'[1] = [ok |-> TRUE, body |-> body, next |-> next]
    <3>1. ask.op = "read" /\ ask.at = Len(reader.copy) /\ ask.path = reader.path
      BY <1>4, <2>4 DEF AskInv, ClientsOK
    <3>2. up'[1].body = PieceAt(reader.path, Len(reader.copy))
      BY <2>3, <2>4, <3>1 DEF body, FromOffset
    <3> QED
      BY <1>1, <1>2, <2>1, <3>2 DEF ReadOK, PieceAt
  <2> QED
    BY <1>1, <1>2, <2>2, <2>4, ReadStays
<1>5. ASSUME q.op # "read" \/ Nack
      PROVE  up' = up \/ up' = <<>> \/ up'[1].ok = FALSE \/ ask.op # "read"
  <2>1. CASE Nack
    <3>1. Reply(FALSE, <<>>, 0) /\ FALSE \in BOOLEAN
      BY <2>1 DEF Nack
    <3>2. up' = up \/ up'[1] = [ok |-> FALSE, body |-> <<>>, next |-> 0]
      BY <1>1, <3>1, PlainReply
    <3> QED
      BY <3>2
  <2>2. CASE q.op # "read"
    <3>1. Replied
      <4>1. CASE q.op = "write" /\ OnWrite(q)
        BY <1>1, <4>1, WriteTypes
      <4>2. CASE q.op = "list" /\ OnList(q)
        BY <1>1, <4>2, LookTypes
      <4>3. CASE OnDelete(q) \/ OnMakeDir
        BY <1>1, <4>3, ChangeTypes
      <4> QED
        BY <2>2, <4>1, <4>2, <4>3 DEF Board
    <3> QED
      BY <2>2, <3>1 DEF Replied
  <2> QED
    BY <1>5, <2>1, <2>2
<1> QED
  BY <1>3, <1>4, <1>5 DEF Board, OnRead

LEMMA ReadStep ==
    ASSUME AskInv, ReadOK, [FilesNext]_filesVars
    PROVE  ReadOK'
<1>1. CASE UNCHANGED filesVars
  BY <1>1 DEF ReadOK, PieceAt, filesVars, clients, broker, disk
<1>2. CASE ReadPart
  BY <1>2, ReadPartRead
<1>3. CASE \/ \E t \in Transfers : WritePart(t)
           \/ ListPart \/ RemoveEntry \/ MakeDir
  <2>1. ~busy /\ up' = up /\ UNCHANGED <<disk, reader>>
    BY <1>3 DEF WritePart, ListPart, RemoveEntry, MakeDir, Ask, Serves, clients
  <2>2. up' = <<>> /\ content' = content /\ reader' = reader
    BY <2>1, LastIs DEF disk
  <2> QED
    BY <2>2, ReadStays
<1>4. CASE Attempt
  <2>1. up' = up /\ ask' = ask /\ reader' = reader /\ content' = content
    BY <1>4 DEF Attempt, clients, disk
  <2> QED
    BY <2>1, ReadStays
<1>5. CASE GiveUp
  <2> DEFINE next == 0
  <2>1. /\ busy /\ Tell(FALSE, <<>>, next) /\ up' = <<>> /\ content' = content
        /\ FALSE \in BOOLEAN /\ FALSE # TRUE /\ next \in Nat
    BY <1>5 DEF GiveUp, disk
  <2> HIDE DEF next
  <2> QED
    BY <2>1, TellRead
<1>6. CASE OnReply
  <2>1. /\ up # <<>> /\ up' = <<>> /\ content' = content
        /\ Tell(up[1].ok, up[1].body, up[1].next) \/ Tell(FALSE, <<>>, 0)
    BY <1>6 DEF OnReply, disk
  <2>2. up[1].ok \in BOOLEAN /\ busy /\ up[1] \in Answers
    BY <2>1, LastIs
  <2>3. up[1].next \in Nat
    BY <2>2 DEF Answers
  <2>4. up[1].ok = FALSE => up[1].body = <<>>
    BY <2>1 DEF AskInv, AnswerOK
  <2>5. CASE Tell(up[1].ok, up[1].body, up[1].next)
    BY <2>1, <2>2, <2>3, <2>4, <2>5, TellRead
  <2>6. CASE Tell(FALSE, <<>>, 0)
    <3> DEFINE next == 0
    <3>1. Tell(FALSE, <<>>, next) /\ FALSE \in BOOLEAN /\ FALSE # TRUE /\ next \in Nat
      BY <2>6
    <3> HIDE DEF next
    <3> QED
      BY <2>1, <2>2, <3>1, TellRead
  <2> QED
    BY <2>1, <2>5, <2>6
<1>7. CASE Board
  BY <1>7, BoardRead
<1>8. CASE Restart
  <2>1. up' = <<>> /\ Watch
    BY <1>8 DEF Restart
  <2>2. /\ reader'.path = reader.path /\ reader'.copy = reader.copy /\ reader'.state = reader.state
        /\ reader'.clean = TRUE => /\ reader.clean = TRUE
                                   /\ reader.state # "new" => content'[reader.path] = content[reader.path]
    BY <2>1, WatchRead
  <2> QED
    BY <2>1, <2>2, ReadStays
<1> QED
  BY <1>1, <1>2, <1>3, <1>4, <1>5, <1>6, <1>7, <1>8 DEF FilesNext, Route

\* ReadIsFile: a client that reads until an empty body has the file.
THEOREM ReadsAreFiles == FilesSpec => []ReadIsFile
<1>1. FilesInit => AskInv /\ ReadOK
  <2>1. FilesInit => ReadOK
    BY DEF FilesInit, ReadOK
  <2> QED
    BY <2>1, FilesInitAsk
<1>2. AskInv /\ ReadOK /\ [FilesNext]_filesVars => (AskInv /\ ReadOK)'
  BY FilesStepAsk, ReadStep
<1>3. AskInv /\ ReadOK => ReadIsFile
  <2> SUFFICES ASSUME AskInv, ReadOK, reader.state = "done", reader.clean
               PROVE  reader.copy = content[reader.path]
    BY DEF ReadIsFile
  <2>1. /\ reader.copy = SubSeq(content[reader.path], 1, Len(reader.copy))
        /\ Len(reader.copy) = Len(content[reader.path])
    <3>1. reader.clean = TRUE
      BY ReaderIs
    <3> QED
      BY <3>1 DEF ReadOK
  <2>2. content[reader.path] \in Seq(Piece)
    <3>1. reader.path \in Paths
      BY ReaderIs
    <3> QED
      BY <3>1 DEF AskInv, FileTypes
  <2> QED
    BY <2>1, <2>2, WholeCut
<1> QED
  BY <1>1, <1>2, <1>3, PTL DEF FilesSpec

-----------------------------------------------------------------------------
(* What a client has listed.                                               *)

\* What the client has is what has room of the pages before its index, its
\* index is the start of a page, its answer is the page there, and it is done
\* when it has seen all.
Listed == IF lister.state = "done" THEN Len(Entries) ELSE lister.next
AtPage(n) == \E k \in Nat : n = REPLY_ROOM * k
Rising(s) == \A i, j \in DOMAIN s : i < j => s[i] < s[j]
Shown(n)  == {Entries[i] : i \in {k \in 1 .. n : HasRoom(k)}}
Slice(s, n, m) == {s[n + i] : i \in 1 .. m}
IsSlice(t, s, n, m) == Len(t) = m /\ \A i \in 1 .. m : t[i] = s[n + i]
Before(X, s, n) == \A x \in X : \E i \in 1 .. n : x = s[i]
ListOK ==
    lister.clean = TRUE =>
        /\ lister.state = "new" => lister.next = 0 /\ lister.names = <<>>
        /\ lister.state # "new" =>
             /\ Listed <= Len(Entries)
             /\ lister.state # "done" => AtPage(lister.next)
             /\ Rising(lister.names) /\ ToSet(lister.names) = Shown(Listed)
             /\ up # <<>> /\ ask.op = "list" /\ up[1].ok = TRUE
                  => /\ up[1].body = PageFrom(lister.next).body
                     /\ up[1].next = PageFrom(lister.next).next

\* The directory has no more entries than the index can name.
EntriesFit == Cardinality(Paths) <= End

LEMMA EntriesLen ==
    ASSUME AskInv, EntriesFit
    PROVE  /\ Entries \in Seq(Paths) /\ Len(Entries) \in Nat /\ Len(Entries) <= End
           /\ Rising(Entries)
<1>1. files \subseteq Paths
  BY DEF AskInv, FileTypes
<1>2. IsFiniteSet(files) /\ Cardinality(files) \in Nat /\ Cardinality(files) <= Cardinality(Paths)
      /\ Cardinality(Paths) \in Nat /\ files \subseteq Nat
  BY <1>1, StorageAssumption, FS_Subset, FS_CardinalityType
<1>3. Entries \in [1 .. Cardinality(files) -> files] /\ Rising(Entries)
  <2>1. \E s \in [1 .. Cardinality(files) -> files] : \A i, j \in DOMAIN s : i < j => s[i] < s[j]
    BY <1>2, InOrder
  <2> QED
    BY <2>1 DEF Entries, Rising
<1>4. Len(Entries) = Cardinality(files)
  BY <1>2, <1>3
<1> QED
  BY <1>1, <1>2, <1>3, <1>4, EntriesType DEF EntriesFit, End

\* There is one remainder.
LEMMA OneRemainder ==
    ASSUME NEW d \in Nat \ {0}, NEW x \in Nat, NEW k \in Nat, NEW y \in 0 .. d - 1,
           x = d * k + y
    PROVE  x % d = y
<1> DEFINE q == x \div d
           r == x % d
<1>1. q \in Int /\ r \in 0 .. d - 1 /\ x = d * q + r
  OBVIOUS
<1> HIDE DEF q, r
<1>2. ~(q >= k + 1)
  <2> SUFFICES ASSUME q >= k + 1 PROVE FALSE
    OBVIOUS
  <2>1. q - k \in Nat \ {0} /\ d * (q - k) = d * q - d * k
    BY <1>1
  <2>2. d * (q - k) >= d
    BY <2>1
  <2> QED
    BY <1>1, <2>1, <2>2
<1>3. ~(q <= k - 1)
  <2> SUFFICES ASSUME q <= k - 1 PROVE FALSE
    OBVIOUS
  <2>1. k - q \in Nat \ {0} /\ d * (k - q) = d * k - d * q
    BY <1>1
  <2>2. d * (k - q) >= d
    BY <2>1
  <2> QED
    BY <1>1, <2>1, <2>2
<1>4. q = k
  BY <1>1, <1>2, <1>3
<1> QED
  BY <1>1, <1>4 DEF r

\* The first BODY_ROOM entries of a page have room.
LEMMA RoomOfPage ==
    ASSUME NEW at \in Nat, AtPage(at), NEW i \in Nat, at < i, i <= at + REPLY_ROOM
    PROVE  HasRoom(i) <=> i - at <= BODY_ROOM
<1>1. PICK k \in Nat : at = REPLY_ROOM * k
  BY DEF AtPage
<1> DEFINE y == i - 1 - at
           x == i - 1
<1>2. REPLY_ROOM \in Nat \ {0} /\ BODY_ROOM \in Nat
  BY StorageAssumption
<1>3. x \in Nat /\ y \in 0 .. REPLY_ROOM - 1 /\ x = at + y /\ (y < BODY_ROOM <=> i - at <= BODY_ROOM)
  BY <1>2
<1> HIDE DEF x, y
<1>4. x = REPLY_ROOM * k + y
  BY <1>1, <1>3
<1>5. x % REPLY_ROOM = y
  BY <1>2, <1>3, <1>4, OneRemainder
<1> QED
  BY <1>3, <1>5 DEF HasRoom, x

\* Entries of the directory after those that are there keep the order.
LEMMA RisingJoin ==
    ASSUME NEW e \in Seq(Paths), Rising(e), NEW n \in Nat, NEW m \in Nat, n + m <= Len(e),
           NEW s \in Seq(Paths), Rising(s), Before(ToSet(s), e, n),
           NEW t \in Seq(Paths), IsSlice(t, e, n, m)
    PROVE  Rising(s \o t) /\ ToSet(s \o t) = ToSet(s) \cup Slice(e, n, m)
<1> DEFINE u == s \o t
           l == Len(s)
<1>1. /\ l \in Nat /\ DOMAIN s = 1 .. l /\ Len(e) \in Nat /\ DOMAIN e = 1 .. Len(e)
      /\ DOMAIN t = 1 .. m /\ Len(t) = m
  BY LenProperties DEF IsSlice
<1>2. /\ u \in Seq(Paths) /\ Len(u) = l + m /\ DOMAIN u = 1 .. l + m
      /\ \A i \in 1 .. l : u[i] = s[i]
      /\ \A i \in 1 .. m : u[l + i] = t[i]
  <2>1. u \in Seq(Paths) /\ Len(u) = l + m
        /\ \A i \in 1 .. l + m : u[i] = IF i <= l THEN s[i] ELSE t[i - l]
    BY <1>1, ConcatProperties
  <2>2. DOMAIN u = 1 .. l + m
    BY <2>1, LenProperties
  <2>3. ASSUME NEW i \in 1 .. m PROVE u[l + i] = t[i]
    <3>1. l + i \in 1 .. l + m /\ ~(l + i <= l) /\ l + i - l = i
      BY <1>1
    <3> QED
      BY <2>1, <3>1
  <2>4. ASSUME NEW i \in 1 .. l PROVE u[i] = s[i]
    BY <1>1, <2>1
  <2> QED
    BY <2>1, <2>2, <2>3, <2>4
<1> HIDE DEF u, l
<1>3. ASSUME NEW i \in 1 .. l + m, ~(i <= l)
      PROVE  i - l \in 1 .. m /\ u[i] = t[i - l] /\ u[i] = e[n + (i - l)] /\ n + (i - l) \in 1 .. Len(e)
  <2>1. i - l \in 1 .. m /\ l + (i - l) = i /\ n + (i - l) \in 1 .. Len(e)
    BY <1>1, <1>3
  <2> QED
    BY <1>2, <2>1 DEF IsSlice
<1>4. ASSUME NEW i \in 1 .. l + m, i <= l
      PROVE  i \in 1 .. l /\ u[i] = s[i] /\ \E k \in 1 .. n : u[i] = e[k]
  <2>1. i \in 1 .. l
    BY <1>1, <1>4
  <2>2. s[i] \in ToSet(s)
    BY <1>1, <2>1 DEF ToSet
  <2> QED
    BY <1>2, <2>1, <2>2 DEF Before
<1>5. Rising(u)
  <2> SUFFICES ASSUME NEW i \in 1 .. l + m, NEW j \in 1 .. l + m, i < j
               PROVE  u[i] < u[j]
    BY <1>2 DEF Rising
  <2>1. CASE j <= l
    <3>1. i \in 1 .. l /\ j \in 1 .. l
      BY <1>1, <2>1
    <3> QED
      BY <1>1, <1>2, <3>1 DEF Rising
  <2>2. CASE i <= l /\ ~(j <= l)
    <3>1. PICK k \in 1 .. n : u[i] = e[k]
      BY <1>4, <2>2
    <3>2. k \in 1 .. Len(e) /\ k < n + (j - l)
      BY <1>1, <1>3, <2>2
    <3>3. u[j] = e[n + (j - l)] /\ n + (j - l) \in 1 .. Len(e)
      BY <1>3, <2>2
    <3>4. e[k] < e[n + (j - l)]
      BY <1>1, <3>2, <3>3 DEF Rising
    <3> QED
      BY <3>1, <3>3, <3>4
  <2>3. CASE ~(i <= l) /\ ~(j <= l)
    <3>1. n + (i - l) < n + (j - l)
      BY <1>1
    <3>2. /\ u[i] = e[n + (i - l)] /\ n + (i - l) \in 1 .. Len(e)
          /\ u[j] = e[n + (j - l)] /\ n + (j - l) \in 1 .. Len(e)
      BY <1>3, <2>3
    <3>3. e[n + (i - l)] < e[n + (j - l)]
      BY <1>1, <3>1, <3>2 DEF Rising
    <3> QED
      BY <3>2, <3>3
  <2> QED
    BY <1>1, <2>1, <2>2, <2>3
<1>6. ToSet(u) = ToSet(s) \cup Slice(e, n, m)
  <2>1. ASSUME NEW i \in 1 .. l + m PROVE u[i] \in ToSet(s) \cup Slice(e, n, m)
    <3>1. CASE i <= l
      BY <1>1, <1>4, <3>1 DEF ToSet
    <3>2. CASE ~(i <= l)
      BY <1>3, <3>2 DEF Slice
    <3> QED
      BY <3>1, <3>2
  <2>2. ASSUME NEW i \in 1 .. l PROVE s[i] \in ToSet(u)
    <3>1. i \in 1 .. l + m
      BY <1>1
    <3> QED
      BY <1>2, <3>1 DEF ToSet
  <2>3. ASSUME NEW i \in 1 .. m PROVE e[n + i] \in ToSet(u)
    <3>1. l + i \in 1 .. l + m
      BY <1>1
    <3> QED
      BY <1>2, <3>1 DEF ToSet, IsSlice
  <2>4. ToSet(u) = {u[i] : i \in 1 .. l + m} /\ ToSet(s) = {s[i] : i \in 1 .. l}
    BY <1>1, <1>2 DEF ToSet
  <2>5. ToSet(u) \subseteq ToSet(s) \cup Slice(e, n, m)
    BY <2>1, <2>4
  <2>6. ToSet(s) \subseteq ToSet(u)
    BY <2>2, <2>4
  <2>7. Slice(e, n, m) \subseteq ToSet(u)
    BY <2>3 DEF Slice
  <2> QED
    BY <2>5, <2>6, <2>7
<1> QED
  BY <1>5, <1>6 DEF u

\* What an answer has of a page: its first entries, as many as have room.
LEMMA CutIs ==
    ASSUME AskInv, EntriesFit, NEW at \in Nat, at <= Len(Entries)
    PROVE  LET b == After(at)
               m == IF b - at < BODY_ROOM THEN b - at ELSE BODY_ROOM
               t == CutNames(PageFrom(at).body) IN
           /\ b \in at .. Len(Entries) /\ b <= at + REPLY_ROOM
           /\ b # Len(Entries) => b = at + REPLY_ROOM
           /\ m \in Nat /\ at + m <= Len(Entries)
           /\ t \in Seq(Paths) /\ IsSlice(t, Entries, at, m)
<1> DEFINE e == Entries
           b == After(at)
           body == PageFrom(at).body
           c == at + 1
           n == b - at
           m == IF n < BODY_ROOM THEN n ELSE BODY_ROOM
           t == CutNames(body)
           one == 1
<1>1. e \in Seq(Paths) /\ Len(e) \in Nat /\ Len(e) <= End
  BY EntriesLen
<1>2. /\ b \in at .. Len(e) /\ b <= at + REPLY_ROOM /\ REPLY_ROOM \in Nat /\ BODY_ROOM \in Nat \ {0}
      /\ b \in Nat /\ c = at + 1 /\ c \in Nat \ {0} /\ b <= Len(e)
      /\ b # Len(e) => b = at + REPLY_ROOM
  BY <1>1, StorageAssumption DEF After
<1>3. body = SubSeq(e, c, b)
  BY DEF PageFrom
<1> HIDE DEF e, b, c, body
<1>4. /\ body \in Seq(Paths) /\ Len(body) = IF c <= b THEN b - c + 1 ELSE 0
      /\ \A i \in 1 .. Len(body) : body[i] = e[c + i - 1]
  BY <1>1, <1>2, <1>3, CutOf
<1>5. Len(body) = n /\ n \in Nat
  BY <1>2, <1>4
<1>6. m \in Nat /\ m <= n /\ at + m <= Len(e) /\ one \in Nat \ {0} /\ one = 1
  BY <1>2, <1>5
<1>7. t = SubSeq(body, one, m)
  BY <1>5, <1>6 DEF CutNames
<1> HIDE DEF m, n, t, one
<1>8. /\ t \in Seq(Paths) /\ Len(t) = IF one <= m THEN m - one + 1 ELSE 0
      /\ \A i \in 1 .. Len(t) : t[i] = body[one + i - 1]
  BY <1>4, <1>5, <1>6, <1>7, CutOf
<1>9. Len(t) = m
  BY <1>6, <1>8
<1>10. ASSUME NEW i \in 1 .. m PROVE t[i] = e[at + i]
  <2>1. one + i - 1 = i /\ i \in 1 .. Len(body) /\ c + i - 1 = at + i
    BY <1>2, <1>5, <1>6
  <2> QED
    BY <1>4, <1>8, <1>9, <2>1
<1>11. m = IF n < BODY_ROOM THEN n ELSE BODY_ROOM
  BY DEF m
<1> QED
  BY <1>2, <1>6, <1>8, <1>9, <1>10, <1>11 DEF e, b, body, n, t, IsSlice

\* What has room up to the end of a page.
LEMMA ShownPage ==
    ASSUME AskInv, EntriesFit, NEW at \in Nat, at <= Len(Entries), AtPage(at),
           NEW b \in at .. Len(Entries), b <= at + REPLY_ROOM,
           NEW m \in Nat, m = IF b - at < BODY_ROOM THEN b - at ELSE BODY_ROOM
    PROVE  Shown(b) = Shown(at) \cup Slice(Entries, at, m)
<1> DEFINE e == Entries
<1>1. Len(e) \in Nat /\ BODY_ROOM \in Nat /\ REPLY_ROOM \in Nat /\ b \in Nat /\ m <= b - at /\ m <= BODY_ROOM
  BY EntriesLen, StorageAssumption
<1>2. ASSUME NEW i \in 1 .. b, HasRoom(i), ~(i <= at)
      PROVE  i - at \in 1 .. m /\ at + (i - at) = i
  <2>1. i - at <= BODY_ROOM
    <3>1. i \in Nat /\ at < i /\ i <= at + REPLY_ROOM
      BY <1>1, <1>2
    <3> QED
      BY <1>2, <3>1, RoomOfPage
  <2> QED
    BY <1>1, <1>2, <2>1
<1>3. ASSUME NEW i \in 1 .. m
      PROVE  at + i \in 1 .. b /\ HasRoom(at + i)
  <2> DEFINE j == at + i
  <2>1. j \in Nat /\ at < j /\ j <= at + REPLY_ROOM /\ j - at <= BODY_ROOM /\ j \in 1 .. b
    BY <1>1
  <2> HIDE DEF j
  <2>2. HasRoom(j)
    BY <2>1, RoomOfPage
  <2> QED
    BY <2>1, <2>2 DEF j
<1>4. ASSUME NEW x \in Shown(b)
      PROVE  x \in Shown(at) \cup Slice(e, at, m)
  <2>1. PICK i \in 1 .. b : HasRoom(i) /\ x = e[i]
    BY DEF Shown
  <2>2. CASE i <= at
    <3>1. i \in 1 .. at
      BY <2>2
    <3> QED
      BY <2>1, <3>1 DEF Shown
  <2>3. CASE ~(i <= at)
    BY <1>2, <2>1, <2>3 DEF Slice
  <2> QED
    BY <2>2, <2>3
<1>5. ASSUME NEW x \in Shown(at) PROVE x \in Shown(b)
  <2>1. PICK i \in 1 .. at : HasRoom(i) /\ x = e[i]
    BY DEF Shown
  <2>2. i \in 1 .. b
    BY <1>1
  <2> QED
    BY <2>1, <2>2 DEF Shown
<1>6. ASSUME NEW i \in 1 .. m PROVE e[at + i] \in Shown(b)
  BY <1>3 DEF Shown
<1> QED
  BY <1>4, <1>5, <1>6 DEF Slice

\* With a page the client has what has room of the pages up to its end.
LEMMA PageIs ==
    ASSUME AskInv, EntriesFit, NEW at \in Nat, at <= Len(Entries), AtPage(at),
           NEW s \in Seq(Paths), Rising(s), ToSet(s) = Shown(at)
    PROVE  LET u == s \o CutNames(PageFrom(at).body) IN
           /\ After(at) \in at .. Len(Entries)
           /\ Rising(u) /\ ToSet(u) = Shown(After(at))
           /\ PageFrom(at).next = End <=> After(at) = Len(Entries)
           /\ PageFrom(at).next # End => PageFrom(at).next = After(at) /\ AtPage(After(at))
<1> DEFINE e == Entries
           b == After(at)
           m == IF b - at < BODY_ROOM THEN b - at ELSE BODY_ROOM
           t == CutNames(PageFrom(at).body)
<1>1. e \in Seq(Paths) /\ Len(e) \in Nat /\ Len(e) <= End /\ Rising(e)
  BY EntriesLen
<1>2. /\ b \in at .. Len(e) /\ b <= at + REPLY_ROOM
      /\ b # Len(e) => b = at + REPLY_ROOM
      /\ m \in Nat /\ at + m <= Len(e)
      /\ t \in Seq(Paths) /\ IsSlice(t, e, at, m)
  BY CutIs
<1>3. PageFrom(at).next = IF b = Len(e) THEN End ELSE b
  BY DEF PageFrom
<1>4. m = IF b - at < BODY_ROOM THEN b - at ELSE BODY_ROOM
  OBVIOUS
<1> HIDE DEF e, b, m, t
<1>5. Shown(b) = Shown(at) \cup Slice(e, at, m)
  BY <1>2, <1>4, ShownPage DEF e
<1>6. Before(ToSet(s), e, at)
  BY DEF Shown, Before, e
<1>7. Rising(s \o t) /\ ToSet(s \o t) = ToSet(s) \cup Slice(e, at, m)
  <2>1. m \in Nat /\ at + m <= Len(e) /\ t \in Seq(Paths) /\ IsSlice(t, e, at, m)
    BY <1>2
  <2>2. e \in Seq(Paths) /\ Rising(e)
    BY <1>1
  <2> QED
    BY <1>6, <2>1, <2>2, RisingJoin
<1>8. b # Len(e) => b # End
  BY <1>1, <1>2 DEF End
<1>9. b # Len(e) => AtPage(b)
  <2> SUFFICES ASSUME b = at + REPLY_ROOM PROVE AtPage(b)
    BY <1>2
  <2>1. PICK k \in Nat : at = REPLY_ROOM * k
    BY DEF AtPage
  <2>2. REPLY_ROOM * (k + 1) = REPLY_ROOM * k + REPLY_ROOM /\ k + 1 \in Nat
    BY StorageAssumption
  <2> QED
    BY <2>1, <2>2 DEF AtPage
<1> QED
  BY <1>2, <1>3, <1>5, <1>7, <1>8, <1>9 DEF e, b, t

LEMMA ListStays ==
    ASSUME AskInv, ListOK, lister'.names = lister.names, lister'.next = lister.next,
           lister'.state = lister.state,
           lister'.clean = TRUE => lister.clean = TRUE /\ (lister.state # "new" => files' = files),
           \/ up' = up /\ ask' = ask
           \/ up' = <<>>
           \/ up'[1].ok = FALSE
           \/ ask'.op # "list"
    PROVE  ListOK'
<1>1. CASE lister'.clean # TRUE
  BY <1>1 DEF ListOK
<1>2. CASE lister.clean = TRUE /\ lister.state = "new"
  BY <1>2 DEF ListOK
<1>3. CASE lister.clean = TRUE /\ lister.state # "new" /\ files' = files
  <2>1. Entries' = Entries
    BY <1>3 DEF Entries
  <2>2. Listed' = Listed
    BY <2>1 DEF Listed
  <2>3. PageFrom(lister.next)' = PageFrom(lister.next)
    BY <2>1 DEF PageFrom, After
  <2>4. Shown(Listed)' = Shown(Listed)
    BY <2>1, <2>2 DEF Shown
  <2> QED
    BY <1>3, <2>1, <2>2, <2>3, <2>4 DEF ListOK
<1> QED
  BY <1>1, <1>2, <1>3

LEMMA ListPartList ==
    ASSUME AskInv, ListOK, EntriesFit, ListPart
    PROVE  ListOK'
<1>1. ~busy /\ up' = up /\ UNCHANGED disk
  BY DEF ListPart, Ask, Serves
<1>2. up' = <<>> /\ files' = files
  BY <1>1, LastIs DEF disk
<1>3. /\ lister' = [lister EXCEPT !.state = "runs"] /\ lister.state # "done"
  BY DEF ListPart
<1>4. /\ lister'.names = lister.names /\ lister'.next = lister.next /\ lister'.state = "runs"
      /\ lister'.clean = lister.clean
  BY <1>3, ReaderIs
<1>5. Entries' = Entries
  BY <1>2 DEF Entries
<1>6. /\ Shown(0) = {} /\ ToSet(<<>>) = {} /\ Rising(<<>>) /\ 0 <= Len(Entries)
      /\ AtPage(0)
  <2>1. 0 <= Len(Entries)
    BY EntriesLen
  <2>2. REPLY_ROOM * 0 = 0
    BY StorageAssumption
  <2>3. AtPage(0)
    BY <2>2 DEF AtPage
  <2> QED
    BY <2>1, <2>3 DEF Shown, ToSet, Rising
<1>7. Listed' = lister.next /\ Listed = lister.next
  BY <1>3, <1>4 DEF Listed
<1>8. lister.clean = TRUE => /\ lister.next <= Len(Entries) /\ AtPage(lister.next)
                             /\ Rising(lister.names) /\ ToSet(lister.names) = Shown(lister.next)
  BY <1>3, <1>6, <1>7 DEF ListOK
<1>9. Shown(lister.next)' = Shown(lister.next)
  BY <1>4, <1>5 DEF Shown
<1>10. Shown(Listed)' = Shown(lister.next)
  BY <1>5, <1>7 DEF Shown
<1> QED
  BY <1>2, <1>4, <1>5, <1>7, <1>8, <1>9, <1>10 DEF ListOK

LEMMA TellList ==
    ASSUME AskInv, ListOK, EntriesFit, busy, NEW ok \in BOOLEAN, NEW body, NEW next \in Nat,
           Tell(ok, body, next), up' = <<>>, files' = files,
           ask.op = "list" => /\ ok = FALSE => body = <<>>
                              /\ ok = TRUE => /\ up # <<>> /\ up[1].ok = TRUE
                                              /\ body = up[1].body /\ next = up[1].next
    PROVE  ListOK'
<1>1. CASE ask.op # "list"
  <2>1. lister' = lister
    BY <1>1 DEF Tell, clients
  <2> QED
    BY <2>1, ListStays
<1>2. CASE ask.op = "list"
  <2> DEFINE names == lister.names \o CutNames(body)
             to == IF ok THEN next ELSE lister.next
             state == IF ~ok THEN "failed" ELSE IF next = End THEN "done" ELSE "runs"
             e == Entries
             n == lister.next
  <2>1. lister' = [lister EXCEPT !.names = names, !.next = to, !.state = state] /\ lister.state = "runs"
    <3>1. lister.state = "runs"
      BY <1>2 DEF AskInv, ClientsOK
    <3>2. lister' = [lister EXCEPT
                !.names = @ \o CutNames(body),
                !.next = IF ok THEN next ELSE @,
                !.state = IF ~ok THEN "failed" ELSE IF next = End THEN "done" ELSE "runs"]
      BY <1>2 DEF Tell
    <3> QED
      BY <3>1, <3>2
  <2>2. /\ ok = FALSE => state = "failed" /\ to = n
        /\ ok = TRUE /\ next = End => state = "done" /\ to = next
        /\ ok = TRUE /\ next # End => state = "runs" /\ to = next
    OBVIOUS
  <2> HIDE DEF state, to, names
  <2>3. /\ lister'.names = names /\ lister'.next = to /\ lister'.state = state
        /\ lister'.clean = lister.clean
    BY <2>1, ReaderIs
  <2>4. e \in Seq(Paths) /\ Len(e) \in Nat /\ n \in Nat /\ lister.names \in Seq(Paths) /\ Entries' = e
    BY EntriesLen, ReaderIs DEF Entries
  <2> DEFINE m == IF state = "done" THEN Len(e) ELSE to
  <2>5. SUFFICES ASSUME lister.clean = TRUE
                 PROVE  /\ state # "new" /\ m <= Len(e)
                        /\ state # "done" => AtPage(to)
                        /\ Rising(names) /\ ToSet(names) = Shown(m)
    <3>1. Listed' = m
      BY <2>3, <2>4 DEF Listed
    <3>2. Shown(Listed)' = Shown(m)
      BY <2>4, <3>1 DEF Shown
    <3> QED
      BY <2>3, <2>4, <3>1, <3>2 DEF ListOK
  <2>6. /\ n <= Len(e) /\ AtPage(n) /\ Rising(lister.names) /\ ToSet(lister.names) = Shown(n)
        /\ ok = TRUE => body = PageFrom(n).body /\ next = PageFrom(n).next
    BY <1>2, <2>1, <2>5 DEF ListOK, Listed
  <2>7. CASE ok = FALSE
    <3>1. body = <<>> /\ body \in Seq(Paths) /\ Len(body) = 0
      BY <1>2, <2>7, NoneOf
    <3>2. CutNames(body) = <<>>
      <4>1. CutNames(body) = SubSeq(body, 1, 0)
        BY <3>1, StorageAssumption DEF CutNames
      <4> QED
        BY <3>1, <4>1, WholeCut
    <3>3. names = lister.names
      BY <2>4, <3>2, ConcatEmptySeq DEF names
    <3>4. m = n /\ to = n /\ state # "new"
      BY <2>2, <2>7
    <3> QED
      BY <2>6, <3>3, <3>4
  <2>8. CASE ok = TRUE
    <3> DEFINE u == lister.names \o CutNames(PageFrom(n).body)
               b == After(n)
    <3>1. /\ b \in n .. Len(e) /\ Rising(u) /\ ToSet(u) = Shown(b)
          /\ PageFrom(n).next = End <=> b = Len(e)
          /\ PageFrom(n).next # End => PageFrom(n).next = b /\ AtPage(b)
      BY <2>4, <2>6, PageIs
    <3>2. names = u /\ next = PageFrom(n).next
      BY <2>6, <2>8 DEF names
    <3> HIDE DEF u, b
    <3>3. m = b /\ state # "new" /\ (state # "done" => to = b /\ AtPage(b))
      BY <2>2, <2>8, <3>1, <3>2
    <3>4. b <= Len(e)
      BY <2>4, <3>1
    <3> QED
      BY <3>1, <3>2, <3>3, <3>4
  <2> QED
    BY <2>7, <2>8
<1> QED
  BY <1>1, <1>2

\* A change of the directory ends the claim.
LEMMA WatchList ==
    ASSUME AskInv, Watch
    PROVE  /\ lister'.names = lister.names /\ lister'.next = lister.next /\ lister'.state = lister.state
           /\ lister'.clean = TRUE => lister.clean = TRUE /\ (lister.state # "new" => files' = files)
<1>1. lister'.names = lister.names /\ lister'.next = lister.next /\ lister'.state = lister.state
  BY WatchTypes
<1> DEFINE same == lister.state # "new" => files' = files
           b == lister.clean /\ same
<1>2. lister' = [lister EXCEPT !.clean = b]
  BY DEF Watch
<1>3. lister'.clean = b
  <2> HIDE DEF b
  <2> QED
    BY <1>2, ReaderIs
<1>4. lister.clean \in BOOLEAN
  BY ReaderIs
<1>5. b = TRUE => lister.clean = TRUE /\ same
  BY <1>4
<1> QED
  BY <1>1, <1>3, <1>5

\* A page that the board sends is the next one of the client that waits for it.
LEMMA BoardList ==
    ASSUME AskInv, ListOK, Board
    PROVE  ListOK'
<1> DEFINE q == Head(down)
<1>1. down # <<>> /\ Watch /\ ask' = ask /\ busy' = busy
  BY DEF Board, broker
<1>2. /\ lister'.names = lister.names /\ lister'.next = lister.next /\ lister'.state = lister.state
      /\ lister'.clean = TRUE => lister.clean = TRUE /\ (lister.state # "new" => files' = files)
  BY <1>1, WatchList
<1>3. CASE up' = up \/ up' = <<>> \/ up'[1].ok = FALSE \/ ask.op # "list"
  BY <1>1, <1>2, <1>3, ListStays
<1>4. CASE /\ q.op = "list" /\ Reply(TRUE, PageFrom(q.at).body, PageFrom(q.at).next)
           /\ UNCHANGED <<disk, history>>
  <2> DEFINE body == PageFrom(q.at).body
             next == PageFrom(q.at).next
  <2>1. body \in Seq(Piece) \cup Seq(Paths) /\ TRUE \in BOOLEAN /\ next \in Nat
        /\ Reply(TRUE, body, next) /\ files' = files
    BY <1>1, <1>4, HeadIs, DiskIs, PageType DEF DiskTypes, disk
  <2> HIDE DEF body, next
  <2>2. \/ up' = up
        \/ up = <<>> /\ busy /\ q = ask /\ up'[1] = [ok |-> TRUE, body |-> body, next |-> next]
    BY <1>1, <2>1, ReplyIs
  <2>3. /\ [ok |-> TRUE, body |-> body, next |-> next].body = body
        /\ [ok |-> TRUE, body |-> body, next |-> next].next = next
    OBVIOUS
  <2>4. CASE busy /\ q = ask /\ up'[1] = [ok |-> TRUE, body |-> body, next |-> next]
    <3>1. ask.op = "list" /\ ask.at = lister.next
      BY <1>4, <2>4 DEF AskInv, ClientsOK
    <3>2. up'[1].body = PageFrom(lister.next).body /\ up'[1].next = PageFrom(lister.next).next
      BY <2>3, <2>4, <3>1 DEF body, next
    <3>3. CASE lister'.clean = TRUE /\ lister.state # "new"
      <4>1. Entries' = Entries
        BY <2>1 DEF Entries
      <4>2. Listed' = Listed
        BY <1>2, <4>1 DEF Listed
      <4>3. PageFrom(lister.next)' = PageFrom(lister.next)
        BY <1>2, <4>1 DEF PageFrom, After
      <4>4. /\ Listed <= Len(Entries) /\ (lister.state # "done" => AtPage(lister.next))
            /\ Rising(lister.names) /\ ToSet(lister.names) = Shown(Listed)
        BY <1>2, <3>3 DEF ListOK
      <4>5. Shown(Listed)' = Shown(Listed)
        BY <4>1, <4>2 DEF Shown
      <4> QED
        BY <1>2, <3>2, <3>3, <4>1, <4>2, <4>3, <4>4, <4>5 DEF ListOK
    <3>4. CASE lister'.clean = TRUE /\ lister.state = "new"
      BY <1>2, <3>4 DEF ListOK
    <3> QED
      BY <3>3, <3>4 DEF ListOK
  <2> QED
    BY <1>1, <1>2, <2>2, <2>4, ListStays
<1>5. ASSUME q.op # "list" \/ Nack
      PROVE  up' = up \/ up' = <<>> \/ up'[1].ok = FALSE \/ ask.op # "list"
  <2>1. CASE Nack
    <3>1. Reply(FALSE, <<>>, 0) /\ FALSE \in BOOLEAN
      BY <2>1 DEF Nack
    <3>2. up' = up \/ up'[1] = [ok |-> FALSE, body |-> <<>>, next |-> 0]
      BY <1>1, <3>1, PlainReply
    <3> QED
      BY <3>2
  <2>2. CASE q.op # "list"
    <3>1. Replied
      <4>1. CASE q.op = "write" /\ OnWrite(q)
        BY <1>1, <4>1, WriteTypes
      <4>2. CASE q.op = "read" /\ OnRead(q)
        BY <1>1, <4>2, LookTypes
      <4>3. CASE OnDelete(q) \/ OnMakeDir
        BY <1>1, <4>3, ChangeTypes
      <4> QED
        BY <2>2, <4>1, <4>2, <4>3 DEF Board
    <3> QED
      BY <2>2, <3>1 DEF Replied
  <2> QED
    BY <1>5, <2>1, <2>2
<1> QED
  BY <1>3, <1>4, <1>5 DEF Board, OnList

LEMMA ListStep ==
    ASSUME AskInv, ListOK, EntriesFit, [FilesNext]_filesVars
    PROVE  ListOK'
<1>1. CASE UNCHANGED filesVars
  <2>1. lister' = lister /\ files' = files /\ up' = up /\ ask' = ask
    BY <1>1 DEF filesVars, clients, broker, disk
  <2>2. Entries' = Entries
    BY <2>1 DEF Entries
  <2>3. Listed' = Listed
    BY <2>1, <2>2 DEF Listed
  <2>4. PageFrom(lister.next)' = PageFrom(lister.next)
    BY <2>1, <2>2 DEF PageFrom, After
  <2>5. Shown(Listed)' = Shown(Listed)
    BY <2>2, <2>3 DEF Shown
  <2> QED
    BY <2>1, <2>2, <2>3, <2>4, <2>5 DEF ListOK
<1>2. CASE ListPart
  BY <1>2, ListPartList
<1>3. CASE \/ \E t \in Transfers : WritePart(t)
           \/ ReadPart \/ RemoveEntry \/ MakeDir
  <2>1. ~busy /\ up' = up /\ UNCHANGED <<disk, lister>>
    BY <1>3 DEF WritePart, ReadPart, RemoveEntry, MakeDir, Ask, Serves, clients
  <2>2. up' = <<>> /\ files' = files /\ lister' = lister
    BY <2>1, LastIs DEF disk
  <2> QED
    BY <2>2, ListStays
<1>4. CASE Attempt
  <2>1. up' = up /\ ask' = ask /\ lister' = lister /\ files' = files
    BY <1>4 DEF Attempt, clients, disk
  <2> QED
    BY <2>1, ListStays
<1>5. CASE GiveUp
  <2> DEFINE next == 0
  <2>1. /\ busy /\ Tell(FALSE, <<>>, next) /\ up' = <<>> /\ files' = files
        /\ FALSE \in BOOLEAN /\ FALSE # TRUE /\ next \in Nat
    BY <1>5 DEF GiveUp, disk
  <2> HIDE DEF next
  <2> QED
    BY <2>1, TellList
<1>6. CASE OnReply
  <2>1. /\ up # <<>> /\ up' = <<>> /\ files' = files
        /\ \/ Tell(up[1].ok, up[1].body, up[1].next)
           \/ Tell(FALSE, <<>>, 0)
    BY <1>6 DEF OnReply, disk
  <2>2. up[1].ok \in BOOLEAN /\ busy /\ up[1] \in Answers
    BY <2>1, LastIs
  <2>3. up[1].next \in Nat
    BY <2>2 DEF Answers
  <2>4. up[1].ok = FALSE => up[1].body = <<>>
    BY <2>1 DEF AskInv, AnswerOK
  <2>5. CASE Tell(up[1].ok, up[1].body, up[1].next)
    BY <2>1, <2>2, <2>3, <2>4, <2>5, TellList
  <2>6. CASE Tell(FALSE, <<>>, 0)
    <3> DEFINE next == 0
    <3>1. Tell(FALSE, <<>>, next) /\ FALSE \in BOOLEAN /\ FALSE # TRUE /\ next \in Nat
      BY <2>6
    <3> HIDE DEF next
    <3> QED
      BY <2>1, <2>2, <3>1, TellList
  <2> QED
    BY <2>1, <2>5, <2>6
<1>7. CASE Board
  BY <1>7, BoardList
<1>8. CASE Restart
  <2>1. up' = <<>> /\ Watch
    BY <1>8 DEF Restart
  <2> QED
    BY <2>1, WatchList, ListStays
<1> QED
  BY <1>1, <1>2, <1>3, <1>4, <1>5, <1>6, <1>7, <1>8 DEF FilesNext, Route

\* ListIsDirectory: a client that follows the index until no entry remains has
\* of each page the entries that an answer of tg-usb has room for, in their order
\* and none twice, whatever the two rooms are, when no entry of the directory has
\* the index that ends a list (ipc_fs_list, route_list).
THEOREM ListsAreDirectory ==
    ASSUME Cardinality(Paths) <= End
    PROVE  FilesSpec => []ListIsDirectory
<1>1. EntriesFit
  BY DEF EntriesFit
<1>2. FilesInit => AskInv /\ ListOK
  <2>1. FilesInit => ListOK
    BY DEF FilesInit, ListOK
  <2> QED
    BY <2>1, FilesInitAsk
<1>3. AskInv /\ ListOK /\ [FilesNext]_filesVars => (AskInv /\ ListOK)'
  BY <1>1, FilesStepAsk, ListStep
<1>4. AskInv /\ ListOK => ListIsDirectory
  <2> SUFFICES ASSUME AskInv, ListOK, lister.state = "done", lister.clean
               PROVE  /\ Rising(lister.names)
                      /\ ToSet(lister.names)
                           = {Entries[i] : i \in {k \in DOMAIN Entries : HasRoom(k)}}
    BY DEF ListIsDirectory, Rising
  <2>1. Rising(lister.names) /\ ToSet(lister.names) = Shown(Len(Entries))
    <3>1. lister.clean = TRUE
      BY ReaderIs
    <3> QED
      BY <3>1 DEF ListOK, Listed
  <2>2. DOMAIN Entries = 1 .. Len(Entries)
    BY <1>1, EntriesLen, LenProperties
  <2> QED
    BY <2>1, <2>2 DEF Shown
<1> QED
  BY <1>2, <1>3, <1>4, PTL DEF FilesSpec

-----------------------------------------------------------------------------
(* The store of the settings.                                              *)

USE ConfigAssumption

Flashes == [Slots -> Records \cup {NoRecord}]

-----------------------------------------------------------------------------
\* A record has a sequence number of one or more, an empty slot has zero.
LEMMA SeqType ==
    ASSUME NEW fl \in Flashes, NEW s \in Slots
    PROVE  /\ fl[s].seq \in 0 .. MaxSeq
           /\ Holds(fl, s) <=> fl[s].seq > 0
           /\ Holds(fl, s) => fl[s] \in Records
<1>1. fl[s] \in Records \cup {NoRecord}
  BY DEF Flashes
<1>2. CASE fl[s] \in Records
  BY <1>2 DEF Records, NoRecord, Holds
<1>3. CASE fl[s] = NoRecord
  BY <1>3 DEF NoRecord, Holds
<1> QED
  BY <1>1, <1>2, <1>3

LEMMA WholeType ==
    ASSUME NEW r \in Records
    PROVE  Whole(r.val) \in Values
<1>1. r.val \in Values \/ r.val \in [OldFields -> Levels]
  BY DEF Records
<1>2. \A f \in DOMAIN r.val : f \in Fields /\ r.val[f] \in Levels
  BY <1>1 DEF Values
<1> QED
  BY <1>2 DEF Whole, Values

\* All fields are there in a record of the layout of this build.
LEMMA WholeOfWhole == ASSUME NEW v \in Values PROVE Whole(v) = v
BY DEF Whole, Values

\* One record is the newest one, thus it is what a start gives.
LEMMA NewestRecall ==
    ASSUME NEW fl \in Flashes, NEW s \in Slots, Newest(fl, s)
    PROVE  HasRecord(fl) /\ RecallOf(fl) = Whole(fl[s].val)
<1>1. HasRecord(fl)
  BY DEF HasRecord, Newest
<1>2. ASSUME NEW t \in Slots, Newest(fl, t) PROVE t = s
  <2>1. fl[s].seq \in 0 .. MaxSeq /\ fl[t].seq \in 0 .. MaxSeq
    BY SeqType
  <2> QED
    BY <1>2, <2>1 DEF Newest, Slots
<1>3. (CHOOSE t \in Slots : Newest(fl, t)) = s
  BY <1>2
<1> QED
  BY <1>1, <1>3 DEF RecallOf

\* A record of this build with a number above that of the other slot.
LEMMA HigherIsNewest ==
    ASSUME NEW fl \in Flashes, NEW t \in Slots, NEW u \in Slots, u # t,
           fl[t] \in Records, fl[t].val \in Values, fl[u].seq < fl[t].seq
    PROVE  Newest(fl, t) /\ HasRecord(fl) /\ RecallOf(fl) = fl[t].val
<1>1. fl[t].seq \in 1 .. MaxSeq /\ fl[u].seq \in 0 .. MaxSeq
  BY SeqType DEF Records
<1>2. Newest(fl, t)
  BY <1>1 DEF Newest, Holds, NoRecord, Slots
<1>3. HasRecord(fl) /\ RecallOf(fl) = Whole(fl[t].val)
  BY <1>2, NewestRecall
<1> QED
  BY <1>2, <1>3, WholeOfWhole

\* The erase of the other slot leaves the newest record what it was.
LEMMA EraseKeepsNewest ==
    ASSUME NEW fl \in Flashes, NEW s \in Slots, NEW t \in Slots, s # t, Newest(fl, s),
           NEW fm, fm = [fl EXCEPT ![t] = NoRecord]
    PROVE  fm \in Flashes /\ Newest(fm, s) /\ RecallOf(fm) = RecallOf(fl) /\ fm[s] = fl[s]
<1>1. fm \in Flashes /\ fm[t] = NoRecord /\ \A u \in Slots \ {t} : fm[u] = fl[u]
  BY DEF Flashes
<1>2. fl[s].seq \in 0 .. MaxSeq /\ fl[s].seq > 0
  BY SeqType DEF Newest
<1>3. Newest(fm, s)
  BY <1>1, <1>2 DEF Newest, Holds, NoRecord
<1> QED
  BY <1>1, <1>3, NewestRecall

\* The erase of an empty flash.
LEMMA EraseOfNothing ==
    ASSUME NEW fl \in Flashes, ~HasRecord(fl), NEW t \in Slots,
           NEW fm, fm = [fl EXCEPT ![t] = NoRecord]
    PROVE  fm = fl
BY DEF Flashes, HasRecord, Holds

-----------------------------------------------------------------------------
(* The facts of the invariant in the form the steps use.                   *)

LEMMA Types == ASSUME IInv PROVE
    /\ flash \in Flashes /\ mtd \in BOOLEAN /\ slot \in -1 .. 1 /\ seq \in 0 .. MaxSeq
    /\ cur \in Values /\ valid \in BOOLEAN /\ setting \in Values
    /\ save_err \in BOOLEAN /\ warned \in BOOLEAN /\ blind \in BOOLEAN
    /\ Target \in Slots
BY DEF IInv, TypeOK, Flashes, Target, Slots

\* The task remembers the newest record, or there is none, unless it read none.
LEMMA Memory ==
    ASSUME IInv, pc # "off", mtd, ~blind
    PROVE  \/ /\ valid /\ slot \in Slots /\ Newest(flash, slot) /\ Target # slot
              /\ flash[slot].seq = seq /\ Recall = cur
           \/ /\ ~valid /\ seq = 0 /\ ~HasRecord(flash) /\ Recall = Factory
<1>1. CASE valid
  <2>1. slot \in Slots /\ Newest(flash, slot) /\ flash[slot].seq = seq
        /\ cur = Whole(flash[slot].val)
    BY <1>1 DEF IInv, Remembered
  <2>2. Recall = cur
    BY <2>1, Types, NewestRecall DEF Recall
  <2> QED
    BY <1>1, <2>1, <2>2 DEF Target, Slots
<1>2. CASE ~valid
  BY <1>2 DEF IInv, Remembered, Recall, RecallOf
<1> QED
  BY <1>1, <1>2

LEMMA LoadFinds ==
    ASSUME flash \in Flashes, NEW found, found = Take(Take(-1, 0), 1)
    PROVE  \/ found = -1 /\ ~HasRecord(flash)
           \/ found \in Slots /\ Newest(flash, found)
<1>1. /\ flash[0].seq \in 0 .. MaxSeq /\ (Holds(flash, 0) <=> flash[0].seq > 0)
      /\ flash[1].seq \in 0 .. MaxSeq /\ (Holds(flash, 1) <=> flash[1].seq > 0)
  BY SeqType DEF Slots
<1>2. Slots = {0, 1}
  BY DEF Slots
<1>3. CASE ~Holds(flash, 0) /\ ~Holds(flash, 1)
  BY <1>2, <1>3 DEF Take, HasRecord
<1>4. CASE Holds(flash, 0) /\ ~(Holds(flash, 1) /\ flash[1].seq > flash[0].seq)
  <2>1. found = 0
    BY <1>4 DEF Take
  <2>2. flash[1].seq < flash[0].seq \/ (flash[1].seq = flash[0].seq /\ 0 < 1)
    BY <1>1, <1>4
  <2> QED
    BY <1>2, <1>4, <2>1, <2>2 DEF Newest
<1>5. CASE Holds(flash, 1) /\ ~(Holds(flash, 0) /\ ~(flash[1].seq > flash[0].seq))
  <2>1. found = 1
    BY <1>5 DEF Take
  <2>2. flash[0].seq < flash[1].seq
    BY <1>1, <1>5
  <2> QED
    BY <1>2, <1>5, <2>1, <2>2 DEF Newest
<1> QED
  BY <1>1, <1>3, <1>4, <1>5

\* What a step of the save does to the flash, and what a start gives then.
LEMMA EraseTypes ==
    ASSUME IInv, flash' = [flash EXCEPT ![Target] = NoRecord]
    PROVE  flash' \in Flashes /\ ~Holds(flash', Target)
BY Types DEF Flashes, Holds

LEMMA EraseEffect ==
    ASSUME IInv, pc \in {"erase", "write"}, flash' = [flash EXCEPT ![Target] = NoRecord],
           ~blind
    PROVE  /\ Recall' = Recall
           /\ HasRecord(flash') <=> HasRecord(flash)
           /\ valid => Newest(flash', slot) /\ flash'[slot] = flash[slot]
<1>1. mtd /\ flash \in Flashes /\ Target \in Slots
  BY Types DEF IInv, InSave
<1>2. CASE valid
  <2>1. slot \in Slots /\ Newest(flash, slot) /\ Target # slot
    BY <1>1, <1>2, Memory
  <2>2. flash' \in Flashes /\ Newest(flash', slot) /\ RecallOf(flash') = RecallOf(flash)
        /\ flash'[slot] = flash[slot]
    BY <1>1, <2>1, EraseKeepsNewest
  <2>3. HasRecord(flash') /\ HasRecord(flash)
    BY <1>1, <2>1, <2>2, NewestRecall
  <2> QED
    BY <2>2, <2>3 DEF Recall
<1>3. CASE ~valid
  <2>1. ~HasRecord(flash)
    BY <1>1, <1>3, Memory
  <2>2. flash' = flash
    BY <1>1, <2>1, EraseOfNothing
  <2> QED
    BY <1>3, <2>2 DEF Recall
<1> QED
  BY <1>2, <1>3

LEMMA NextSeqType == ASSUME IInv, pc = "write" PROVE NextSeq \in 1 .. MaxSeq
BY Types DEF IInv, InSave, NextSeq

LEMMA SaveTypes ==
    ASSUME IInv, pc = "write",
           flash' = [flash EXCEPT ![Target] = [seq |-> NextSeq, val |-> setting]]
    PROVE  /\ flash' \in Flashes /\ flash'[Target] \in Records
           /\ flash'[Target].seq = NextSeq /\ flash'[Target].val = setting
           /\ \A u \in Slots \ {Target} : flash'[u] = flash[u]
<1>1. /\ flash \in Flashes /\ Target \in Slots /\ setting \in Values
      /\ NextSeq \in 1 .. MaxSeq
  BY Types, NextSeqType
<1>2. [seq |-> NextSeq, val |-> setting] \in Records
  BY <1>1 DEF Records
<1>3. /\ flash' \in Flashes /\ \A u \in Slots \ {Target} : flash'[u] = flash[u]
      /\ flash'[Target] = [seq |-> NextSeq, val |-> setting]
  BY <1>1, <1>2 DEF Flashes
<1> QED
  BY <1>2, <1>3

LEMMA WriteEffect ==
    ASSUME IInv, pc = "write", ~blind,
           flash' = [flash EXCEPT ![Target] = [seq |-> NextSeq, val |-> setting]]
    PROVE  Recall' = setting /\ Newest(flash', Target) /\ HasRecord(flash')
<1>1. /\ mtd /\ flash \in Flashes /\ Target \in Slots /\ setting \in Values
      /\ seq \in 0 .. MaxSeq
  BY Types DEF IInv, InSave
<1>2. PICK u \in Slots : u # Target
  BY DEF Slots
<1>3. flash[u].seq < NextSeq
  <2>1. CASE valid
    <3>1. slot \in Slots /\ Target # slot /\ flash[slot].seq = seq /\ u = slot
      BY <1>1, <1>2, <2>1, Memory DEF Slots
    <3> QED
      BY <1>1, <3>1 DEF NextSeq
  <2>2. CASE ~valid
    <3>1. seq = 0 /\ flash[u] = NoRecord
      BY <1>1, <2>2, Memory DEF HasRecord, Holds
    <3> QED
      BY <3>1 DEF NextSeq, NoRecord
  <2> QED
    BY <2>1, <2>2
<1>4. /\ flash' \in Flashes /\ flash'[Target] \in Records /\ flash'[Target].val = setting
      /\ flash'[u].seq < flash'[Target].seq
  BY <1>2, <1>3, SaveTypes
<1> QED
  BY <1>1, <1>2, <1>4, HigherIsNewest DEF Recall

-----------------------------------------------------------------------------
(* The steps.                                                              *)

LEMMA UnreadType == ASSUME Unread PROVE
    /\ slot' \in -1 .. 1 /\ seq' \in 0 .. MaxSeq /\ cur' \in Values /\ valid' = FALSE
    /\ setting' = Factory /\ setting' \in Values /\ save_err' = FALSE
    /\ slot' = -1 /\ seq' = 0
BY DEF Unread

LEMMA InitIInv == Init => IInv
<1> SUFFICES ASSUME Init PROVE IInv
  OBVIOUS
<1>1. /\ flash \in [Slots -> {NoRecord} \cup [seq : 1 .. 2, val : [OldFields -> Levels]]]
      /\ mtd = FALSE /\ slot = -1 /\ seq = 0 /\ valid = FALSE /\ cur = Factory
      /\ setting = Factory /\ save_err = FALSE /\ pc = "off" /\ warned = FALSE
      /\ blind = FALSE
  BY DEF Init
<1>2. flash \in [Slots -> Records \cup {NoRecord}]
  <2>1. [seq : 1 .. 2, val : [OldFields -> Levels]] \subseteq Records
    BY DEF Records
  <2> QED
    BY <1>1, <2>1
<1>3. slot \in -1 .. 1 /\ seq \in 0 .. MaxSeq
  BY <1>1
<1>4. TypeOK
  <2> USE <1>1, <1>2, <1>3
  <2>1. mtd \in BOOLEAN /\ valid \in BOOLEAN /\ save_err \in BOOLEAN /\ warned \in BOOLEAN
        /\ blind \in BOOLEAN /\ cur \in Values /\ setting \in Values
        /\ pc \in {"off", "idle", "erase", "write", "answer"}
    OBVIOUS
  <2> QED
    BY <2>1 DEF TypeOK
<1> QED
  BY <1>1, <1>4 DEF IInv, Remembered, InSave, Told, AckedIsStored

\* With the flash untouched a start gives what it gave.
LEMMA SameRecall == ASSUME flash' = flash PROVE Recall' = Recall
BY DEF Recall

LEMMA BootOKStep == ASSUME IInv, BootOK PROVE IInv'
<1>1. /\ mtd' = TRUE /\ warned' = FALSE /\ flash' = flash /\ pc' = "idle"
      /\ blind' = FALSE /\ flash \in Flashes
  BY Types DEF BootOK, IInv
<1>2. PICK found : found = Take(Take(-1, 0), 1)
  OBVIOUS
<1>3. Recall' = Recall
  BY <1>1, SameRecall
<1>4. CASE found = -1
  <2>1. Unread
    BY <1>2, <1>4 DEF BootOK, Load
  <2>2. ~HasRecord(flash) /\ Recall = Factory
    BY <1>1, <1>2, <1>4, LoadFinds DEF Slots, Recall, RecallOf
  <2>3. TypeOK'
    BY <1>1, <2>1, UnreadType DEF TypeOK, Flashes
  <2>4. Remembered'
    BY <1>1, <2>1, <2>2, UnreadType DEF Remembered
  <2> QED
    BY <1>1, <1>3, <2>1, <2>2, <2>3, <2>4, UnreadType
       DEF IInv, InSave, Told, AckedIsStored
<1>5. CASE found # -1
  <2>1. /\ slot' = found /\ seq' = flash[found].seq /\ valid' = TRUE
        /\ cur' = Whole(flash[found].val) /\ setting' = cur' /\ save_err' = FALSE
    BY <1>2, <1>5 DEF BootOK, Load
  <2>2. found \in Slots /\ Newest(flash, found)
    BY <1>1, <1>2, <1>5, LoadFinds
  <2>3. HasRecord(flash) /\ Recall = Whole(flash[found].val)
    BY <1>1, <2>2, NewestRecall DEF Recall
  <2>4. flash[found] \in Records /\ flash[found].seq \in 0 .. MaxSeq
    BY <1>1, <2>2, SeqType DEF Newest
  <2>5. cur' \in Values
    BY <2>1, <2>4, WholeType
  <2>6. TypeOK'
    <3>1. slot' \in -1 .. 1
      BY <2>1, <2>2 DEF Slots
    <3>2. setting' \in Values /\ seq' \in 0 .. MaxSeq
      BY <2>1, <2>4, <2>5
    <3> QED
      BY <1>1, <2>1, <2>5, <3>1, <3>2 DEF TypeOK, Flashes
  <2>7. Remembered'
    BY <1>1, <2>1, <2>2, <2>3 DEF Remembered
  <2> QED
    BY <1>1, <1>3, <2>1, <2>3, <2>6, <2>7 DEF IInv, InSave, Told, AckedIsStored
<1> QED
  BY <1>4, <1>5

LEMMA BootFailsStep == ASSUME IInv, BootFails PROVE IInv'
<1>1. /\ mtd' \in BOOLEAN /\ warned' = TRUE /\ blind' = mtd' /\ flash' = flash
      /\ pc' = "idle" /\ flash \in Flashes /\ Unread
  BY Types DEF BootFails, IInv
<1>2. TypeOK'
  BY <1>1, UnreadType DEF TypeOK, Flashes
<1>3. Remembered'
  BY <1>1 DEF Remembered
<1> QED
  BY <1>1, <1>2, <1>3, UnreadType DEF IInv, InSave, Told, AckedIsStored

LEMMA SetStep ==
    ASSUME IInv, NEW f \in Fields, NEW level \in Levels, Set(f, level)
    PROVE  IInv'
<1>1. /\ pc = "idle" /\ seq < MaxSeq /\ UNCHANGED <<flash, mtd, slot, seq, cur, valid, warned, blind>>
      /\ setting' = [setting EXCEPT ![f] = level]
  BY DEF Set, ram
<1>2. setting' \in Values
  BY <1>1, Types DEF Values
<1>3. save_err = FALSE /\ Recall' = Recall
  BY <1>1, Types, SameRecall DEF IInv, Told
<1>4. Remembered'
  BY <1>1 DEF IInv, Remembered
<1>5. CASE ~mtd /\ save_err' = TRUE /\ pc' = "answer"
  <2>1. TypeOK'
    BY <1>1, <1>2, <1>5 DEF IInv, TypeOK
  <2> QED
    BY <1>1, <1>3, <1>4, <1>5, <2>1 DEF IInv, InSave, Told, AckedIsStored
<1>6. CASE mtd /\ SameAsStored(setting') /\ pc' = "answer" /\ save_err' = save_err
  <2>1. TypeOK'
    BY <1>1, <1>2, <1>6 DEF IInv, TypeOK
  <2>2. blind \/ setting' = Recall
    BY <1>1, <1>6, Memory DEF SameAsStored
  <2> QED
    BY <1>1, <1>3, <1>4, <1>6, <2>1, <2>2 DEF IInv, InSave, Told, AckedIsStored
<1>7. CASE mtd /\ ~SameAsStored(setting') /\ pc' = "erase" /\ save_err' = save_err
  <2>1. TypeOK'
    BY <1>1, <1>2, <1>7 DEF IInv, TypeOK
  <2> QED
    BY <1>1, <1>3, <1>4, <1>7, <2>1 DEF IInv, InSave, Told, AckedIsStored, SameAsStored
<1> QED
  BY <1>5, <1>6, <1>7 DEF Set

\* What the task remembers holds after an erase as well.
LEMMA EraseRemembered ==
    ASSUME IInv, pc = "erase", UNCHANGED <<ram, blind>>,
           flash' \in {flash, [flash EXCEPT ![Target] = NoRecord]}
    PROVE  flash' \in Flashes /\ Remembered' /\ (blind \/ Recall' = Recall)
<1>1. CASE flash' = flash
  BY <1>1, Types, SameRecall DEF IInv, Remembered, ram
<1>2. CASE flash' = [flash EXCEPT ![Target] = NoRecord]
  <2>1. flash' \in Flashes
    BY <1>2, EraseTypes
  <2>2. CASE blind
    BY <2>1, <2>2 DEF Remembered
  <2>3. CASE ~blind
    <3>1. /\ Recall' = Recall
          /\ HasRecord(flash') <=> HasRecord(flash)
          /\ valid => Newest(flash', slot) /\ flash'[slot] = flash[slot]
      BY <1>2, <2>3, EraseEffect
    <3> QED
      BY <2>1, <2>3, <3>1 DEF IInv, Remembered, InSave, ram
  <2> QED
    BY <2>2, <2>3
<1> QED
  BY <1>1, <1>2

LEMMA EraseStep == ASSUME IInv, Erase PROVE IInv'
<1>1. /\ pc = "erase" /\ UNCHANGED <<ram, setting, warned, blind>> /\ mtd
      /\ flash' \in {flash, [flash EXCEPT ![Target] = NoRecord]}
  BY DEF Erase, IInv, InSave
<1>2. flash' \in Flashes /\ Remembered'
  BY <1>1, EraseRemembered
<1>3. CASE flash' = [flash EXCEPT ![Target] = NoRecord] /\ pc' = "write"
           /\ save_err' = save_err
  <2>1. ~Holds(flash', Target) /\ Target' = Target
    BY <1>1, <1>3, EraseTypes DEF Target, ram
  <2>2. TypeOK'
    BY <1>1, <1>2, <1>3 DEF IInv, TypeOK, Flashes, ram
  <2>3. InSave'
    BY <1>1, <1>3, <2>1 DEF IInv, InSave, ram
  <2> QED
    BY <1>2, <1>3, <2>2, <2>3 DEF IInv, Told, AckedIsStored
<1>4. CASE pc' = "answer" /\ save_err' = TRUE
  <2>1. TypeOK'
    BY <1>1, <1>2, <1>4 DEF IInv, TypeOK, Flashes, ram
  <2> QED
    BY <1>2, <1>4, <2>1 DEF IInv, InSave, Told, AckedIsStored
<1> QED
  BY <1>3, <1>4 DEF Erase

LEMMA WriteStep == ASSUME IInv, Write PROVE IInv'
<1>1. /\ pc = "write" /\ mtd /\ pc' = "answer"
      /\ UNCHANGED <<mtd, setting, save_err, warned, blind>>
      /\ slot' = Target /\ seq' = NextSeq /\ cur' = setting /\ valid' = TRUE
  BY DEF Write, IInv, InSave
<1>2. /\ flash' \in Flashes
      /\ flash'[Target].seq = NextSeq /\ flash'[Target].val = setting
  BY SaveTypes DEF Write
<1>3. setting \in Values /\ Target \in Slots /\ NextSeq \in 1 .. MaxSeq
  BY <1>1, Types, NextSeqType
<1>4. TypeOK'
  BY <1>1, <1>2, <1>3 DEF IInv, TypeOK, Flashes, Slots
<1>5. blind \/ (Recall' = setting /\ Newest(flash', Target) /\ HasRecord(flash'))
  BY <1>1, WriteEffect DEF Write
<1>6. Remembered'
  BY <1>1, <1>2, <1>3, <1>5, WholeOfWhole DEF Remembered
<1> QED
  BY <1>1, <1>4, <1>5, <1>6 DEF IInv, InSave, Told, AckedIsStored

LEMMA WriteFailsStep == ASSUME IInv, WriteFails PROVE IInv'
<1>1. pc = "write" /\ pc' = "answer" /\ save_err' = TRUE
      /\ UNCHANGED <<flash, mtd, slot, seq, cur, valid, setting, warned, blind>>
  BY DEF WriteFails, ram
<1>2. TypeOK' /\ Remembered'
  BY <1>1, SameRecall DEF IInv, TypeOK, Remembered
<1> QED
  BY <1>1, <1>2 DEF IInv, InSave, Told, AckedIsStored

LEMMA AnswerStep == ASSUME IInv, Answer PROVE IInv'
<1>1. pc = "answer" /\ pc' = "idle" /\ save_err' = FALSE /\ warned' = save_err
      /\ UNCHANGED <<flash, mtd, slot, seq, cur, valid, setting, blind>>
  BY DEF Answer, ram
<1>2. TypeOK' /\ Remembered' /\ Recall' = Recall
  BY <1>1, SameRecall DEF IInv, TypeOK, Remembered
<1> QED
  BY <1>1, <1>2 DEF IInv, InSave, Told, AckedIsStored

\* The power goes in the middle of a save, or at rest.
LEMMA InterruptedFlash ==
    ASSUME IInv, PowerLoss
    PROVE  /\ flash' \in Flashes
           /\ \/ Recall' = Recall
              \/ pc = "write" /\ Recall' = setting
              \/ pc \in {"erase", "write"} /\ blind
<1>1. flash' \in Interrupted
  BY DEF PowerLoss
<1>2. CASE flash' = flash
  BY <1>2, Types, SameRecall
<1>3. CASE pc = "erase" /\ flash' = [flash EXCEPT ![Target] = NoRecord]
  BY <1>3, EraseTypes, EraseEffect
<1>4. CASE pc = "write" /\ flash' = [flash EXCEPT ![Target] = [seq |-> NextSeq, val |-> setting]]
  BY <1>4, SaveTypes, WriteEffect
<1> QED
  BY <1>1, <1>2, <1>3, <1>4 DEF Interrupted

LEMMA PowerLossStep == ASSUME IInv, PowerLoss PROVE IInv'
<1>1. pc' = "off" /\ mtd' = FALSE /\ Unread /\ warned' = FALSE /\ blind' = FALSE
  BY DEF PowerLoss
<1>2. flash' \in Flashes
  BY InterruptedFlash
<1>3. TypeOK'
  BY <1>1, <1>2, UnreadType DEF TypeOK, Flashes
<1> QED
  BY <1>1, <1>2, <1>3 DEF IInv, Remembered, InSave, Told, AckedIsStored

LEMMA NextKeepsIInv == IInv /\ [Next]_vars => IInv'
<1> SUFFICES ASSUME IInv, [Next]_vars PROVE IInv'
  OBVIOUS
<1>1. CASE UNCHANGED vars
  <2>1. UNCHANGED <<flash, mtd, slot, seq, cur, valid, setting, save_err, pc, warned, blind>>
    BY <1>1 DEF vars, ram
  <2>2. TypeOK' /\ Remembered' /\ Recall' = Recall
    BY <2>1, SameRecall DEF IInv, TypeOK, Remembered
  <2>3. Target' = Target
    BY <2>1 DEF Target
  <2> QED
    BY <2>1, <2>2, <2>3 DEF IInv, InSave, Told, AckedIsStored
<1> QED
  BY <1>1, BootOKStep, BootFailsStep, SetStep, EraseStep, WriteStep, WriteFailsStep,
     AnswerStep, PowerLossStep DEF Next

THEOREM ConfigInvariant == Spec => []IInv
BY InitIInv, NextKeepsIInv, PTL DEF Spec

(***************************************************************************)
(* Type correctness: what the flash, the memory of the store and the       *)
(* display hold.                                                           *)
(***************************************************************************)
THEOREM ConfigTypeOK == Spec => []TypeOK
<1>1. IInv => TypeOK
  BY DEF IInv
<1> QED
  BY <1>1, ConfigInvariant, PTL

(***************************************************************************)
(* A change that the edge MCU has an ACK for, with no word of a failure,   *)
(* outlives the next loss of power (hazk03_config_save, display_persist).  *)
(* The exception is a start that has the flash and did not read it, of     *)
(* which the boot note tells (stm32_bringup.c).                            *)
(***************************************************************************)
THEOREM ConfigAckedIsStored == Spec => []AckedIsStored
<1>1. IInv => AckedIsStored
  BY DEF IInv
<1> QED
  BY <1>1, ConfigInvariant, PTL

(***************************************************************************)
(* The flash takes no erase cycle for the values it holds, unless this     *)
(* start never read them (hazk03_config_save).                             *)
(***************************************************************************)
THEOREM ConfigNoNeedlessErase == Spec => []NoNeedlessErase
<1>1. IInv => NoNeedlessErase
  <2> SUFFICES ASSUME IInv, pc = "erase", ~blind, HasRecord(flash), setting = Recall
               PROVE  FALSE
    BY DEF NoNeedlessErase
  <2>1. mtd /\ ~(valid /\ cur = setting)
    BY DEF IInv, InSave
  <2> QED
    BY <2>1, Memory
<1> QED
  BY <1>1, ConfigInvariant, PTL

-----------------------------------------------------------------------------
(* Each step against the promise of AtomicSettings.                        *)

AtomicStep == \/ Atomic!ANext
              \/ UNCHANGED <<Recall, setting, (pc # "off"), blind>>

\* One record has the highest number, or the lower slot of two that share it.
LEMMA RecallOfType ==
    ASSUME NEW fl \in Flashes
    PROVE  RecallOf(fl) \in Values
<1>1. CASE ~HasRecord(fl)
  BY <1>1 DEF RecallOf
<1>2. CASE HasRecord(fl)
  <2>1. /\ fl[0].seq \in 0 .. MaxSeq /\ (Holds(fl, 0) <=> fl[0].seq > 0)
        /\ fl[1].seq \in 0 .. MaxSeq /\ (Holds(fl, 1) <=> fl[1].seq > 0)
    BY SeqType DEF Slots
  <2>2. Slots = {0, 1} /\ (Holds(fl, 0) \/ Holds(fl, 1))
    BY <1>2 DEF HasRecord, Slots
  <2>3. CASE fl[1].seq > fl[0].seq
    <3>1. Newest(fl, 1)
      BY <2>1, <2>2, <2>3 DEF Newest
    <3> QED
      BY <2>2, <3>1, NewestRecall, SeqType, WholeType DEF Newest
  <2>4. CASE ~(fl[1].seq > fl[0].seq)
    <3>1. Newest(fl, 0)
      BY <2>1, <2>2, <2>4 DEF Newest
    <3> QED
      BY <2>2, <3>1, NewestRecall, SeqType, WholeType DEF Newest
  <2> QED
    BY <2>3, <2>4
<1> QED
  BY <1>1, <1>2

LEMMA BootMaps ==
    ASSUME IInv, BootOK \/ BootFails
    PROVE  Recall' = Recall /\ Atomic!PowerOn
<1>1. pc = "off" /\ pc' = "idle" /\ flash' = flash /\ flash \in Flashes
  BY Types DEF BootOK, BootFails, IInv
<1>2. Recall' = Recall
  BY <1>1, SameRecall
<1>3. PICK found : found = Take(Take(-1, 0), 1)
  OBVIOUS
<1>4. \/ setting' \in {Recall, Factory} /\ blind' = FALSE
      \/ setting' = Factory /\ blind' = TRUE
  <2>1. CASE BootFails
    BY <2>1 DEF BootFails, Unread
  <2>2. CASE BootOK /\ found = -1
    BY <1>3, <2>2 DEF BootOK, Load, Unread
  <2>3. CASE BootOK /\ found # -1
    <3>1. setting' = Whole(flash[found].val) /\ blind' = FALSE
      BY <1>3, <2>3 DEF BootOK, Load
    <3>2. found \in Slots /\ Newest(flash, found)
      BY <1>1, <1>3, <2>3, LoadFinds
    <3>3. RecallOf(flash) = Whole(flash[found].val)
      BY <1>1, <3>2, NewestRecall
    <3> QED
      BY <3>1, <3>3 DEF Recall
  <2> QED
    BY <2>1, <2>2, <2>3
<1> QED
  BY <1>1, <1>2, <1>4 DEF Atomic!PowerOn

\* What a step may do to what a start gives.
Keeps == Recall' # Recall => \/ pc = "write" /\ Recall' = setting
                             \/ pc \in {"erase", "write"} /\ blind

LEMMA SpoilMaps ==
    ASSUME flash' \in Flashes, blind, pc # "off", pc' # "off", UNCHANGED <<setting, blind>>
    PROVE  AtomicStep
<1>1. Recall' \in Values
  <2>1. ASSUME NEW fl \in Flashes PROVE RecallOf(fl) \in Values
    BY RecallOfType
  <2> QED
    BY <2>1 DEF Recall
<1>2. Atomic!Spoil
  BY <1>1 DEF Atomic!Spoil
<1> QED
  BY <1>2 DEF AtomicStep, Atomic!ANext

LEMMA SaveMaps ==
    ASSUME IInv, Erase \/ Write \/ WriteFails \/ Answer
    PROVE  Keeps /\ AtomicStep
<1>1. pc # "off" /\ pc' # "off" /\ setting' = setting /\ blind' = blind
  BY DEF Erase, Write, WriteFails, Answer
<1>2. CASE Write
  <2>1. pc = "write" /\ flash' \in Flashes
    BY <1>2, SaveTypes DEF Write
  <2>2. CASE blind
    BY <1>1, <2>1, <2>2, SpoilMaps DEF Keeps
  <2>3. CASE ~blind
    <3>1. Recall' = setting
      BY <1>2, <2>3, WriteEffect DEF Write
    <3>2. Atomic!Commit
      BY <1>1, <3>1 DEF Atomic!Commit
    <3> QED
      BY <2>1, <3>1, <3>2 DEF Keeps, AtomicStep, Atomic!ANext
  <2> QED
    BY <2>2, <2>3
<1>3. CASE Erase
  <2>1. pc = "erase" /\ flash' \in Flashes /\ (blind \/ Recall' = Recall)
    BY <1>3, EraseRemembered DEF Erase
  <2>2. CASE blind
    BY <1>1, <2>1, <2>2, SpoilMaps DEF Keeps
  <2>3. CASE ~blind
    BY <1>1, <2>1, <2>3 DEF Keeps, AtomicStep
  <2> QED
    BY <2>2, <2>3
<1>4. CASE WriteFails \/ Answer
  <2>1. Recall' = Recall
    BY <1>4, SameRecall DEF WriteFails, Answer
  <2> QED
    BY <1>1, <2>1 DEF Keeps, AtomicStep
<1> QED
  BY <1>2, <1>3, <1>4

LEMMA StepMaps == IInv /\ [Next]_vars => Keeps /\ AtomicStep
<1> SUFFICES ASSUME IInv, [Next]_vars PROVE Keeps /\ AtomicStep
  OBVIOUS
<1>1. CASE BootOK \/ BootFails
  BY <1>1, BootMaps DEF Keeps, AtomicStep, Atomic!ANext
<1>2. CASE \E f \in Fields, level \in Levels : Set(f, level)
  <2>1. Recall' = Recall /\ pc # "off" /\ pc' # "off" /\ blind' = blind
    BY <1>2, SameRecall DEF Set
  <2>2. setting' \in Values
    <3>1. PICK f \in Fields, level \in Levels : setting' = [setting EXCEPT ![f] = level]
      BY <1>2 DEF Set
    <3> QED
      BY <3>1, Types DEF Values
  <2>3. Atomic!Change
    BY <2>1, <2>2 DEF Atomic!Change
  <2> QED
    BY <2>1, <2>3 DEF Keeps, AtomicStep, Atomic!ANext
<1>3. CASE Erase \/ Write \/ WriteFails \/ Answer
  BY <1>3, SaveMaps
<1>4. CASE PowerLoss
  <2>1. /\ flash' \in Flashes
        /\ \/ Recall' = Recall
           \/ pc = "write" /\ Recall' = setting
           \/ pc \in {"erase", "write"} /\ blind
    BY <1>4, InterruptedFlash
  <2>2. pc # "off" /\ pc' = "off" /\ setting' = Factory /\ blind' = FALSE
    BY <1>4 DEF PowerLoss, Unread
  <2>3. Recall' \in Values
    <3>1. ASSUME NEW fl \in Flashes PROVE RecallOf(fl) \in Values
      BY RecallOfType
    <3> QED
      BY <2>1, <3>1 DEF Recall
  <2>4. Recall' \in {Recall, setting} \/ (blind /\ Recall' \in Values)
    BY <2>1, <2>3
  <2>5. Atomic!PowerOff
    BY <2>2, <2>4 DEF Atomic!PowerOff
  <2> QED
    BY <2>1, <2>5 DEF Keeps, AtomicStep, Atomic!ANext
<1>5. CASE UNCHANGED vars
  <2>1. Recall' = Recall /\ setting' = setting /\ pc' = pc /\ blind' = blind
    BY <1>5, SameRecall DEF vars
  <2> QED
    BY <2>1 DEF Keeps, AtomicStep
<1> QED
  BY <1>1, <1>2, <1>3, <1>4, <1>5 DEF Next

(***************************************************************************)
(* No step of a save and no loss of power changes what a start gives into  *)
(* anything but the whole of the settings of that save, unless this start  *)
(* never read the records and the save erases or writes one of them        *)
(* (hazk03_config_save behind a hazk03_flash_initialize that failed).      *)
(***************************************************************************)
THEOREM ConfigSaveIsAtomic == Spec => SaveIsAtomic
<1>1. IInv /\ [Next]_vars => [Keeps]_vars
  BY StepMaps
<1>2. []IInv /\ [][Next]_vars => [][Keeps]_vars
  BY <1>1, PTL
<1>3. [][Keeps]_vars => SaveIsAtomic
  BY DEF Keeps, SaveIsAtomic
<1> QED
  BY <1>2, <1>3, ConfigInvariant, PTL DEF Spec

(***************************************************************************)
(* The two records, the erase and the write implement one register that a  *)
(* save sets at once; a start that has the flash and did not read it may   *)
(* spoil the register, and no other start does.                            *)
(***************************************************************************)
THEOREM ConfigImplementsAtomic == Spec => AtomicSpec
<1>1. Init => Atomic!AInit
  <2> SUFFICES ASSUME Init PROVE Atomic!AInit
    OBVIOUS
  <2>1. flash \in Flashes
    BY InitIInv, Types
  <2>2. Recall \in Values
    BY <2>1, RecallOfType DEF Recall
  <2> QED
    BY <2>2 DEF Init, Atomic!AInit
<1>2. IInv /\ [Next]_vars => [Atomic!ANext]_<<Recall, setting, (pc # "off"), blind>>
  BY StepMaps DEF AtomicStep
<1>3. []IInv /\ [][Next]_vars => [][Atomic!ANext]_<<Recall, setting, (pc # "off"), blind>>
  BY <1>2, PTL
<1> QED
  BY <1>1, <1>3, ConfigInvariant, PTL
     DEF Spec, AtomicSpec, Atomic!ASpec, Atomic!avars
=============================================================================
