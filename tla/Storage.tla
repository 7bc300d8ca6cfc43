------------------------------- MODULE Storage ------------------------------
(***************************************************************************)
(* The files of the board over the network: clients write a file part by   *)
(* part, read it part by part, list the directory and remove entries with  *)
(* the storage routes of tg-usb; the broker sends a request again when its *)
(* reply does not come; the board keeps one file open for writing          *)
(* (stm32_ipc.c).                                                          *)
(*                                                                         *)
(* tg-usb serves one client at a time and waits for the answer of the      *)
(* broker; UsbStream has what follows when it does not wait long enough.   *)
(* A part of a file is the transfer and the place it belongs to, and a     *)
(* read gives one part.                                                    *)
(***************************************************************************)
EXTENDS Integers, Sequences, FiniteSets, SequencesExt

CONSTANTS Paths,       \* the files of one directory, in the order of its entries
          Targets,     \* bound: those of them that clients write, read and remove
          Transfers,   \* bound: the files that clients write
          PARTS,       \* the parts of each
          REPLY_ROOM,  \* the entries that one reply of the board holds
          BODY_ROOM,   \* the entries that one answer of tg-usb holds
          REPLY_TRIES, \* how often the broker sends one request
          MaxAsks,     \* bound: the requests
          MaxRestarts, \* bound: the restarts of the board
          Mixes        \* bound: what else is in one behaviour, of "read", "list",
                       \* "change" (an entry removed, the directory made) and
                       \* "old" (files from before)

None == 0                  \* no path, no transfer
End  == 65535              \* IPC_FS_INDEX_END

ASSUME StorageAssumption ==
    /\ Paths \subseteq Nat \ {0} /\ IsFiniteSet(Paths)
    /\ Targets \subseteq Paths /\ None \notin Transfers
    /\ PARTS \in Nat \ {0} /\ REPLY_TRIES \in Nat \ {0}
    /\ REPLY_ROOM \in Nat \ {0} /\ BODY_ROOM \in Nat \ {0}
    /\ MaxAsks \in Nat /\ MaxRestarts \in Nat
    /\ Mixes \subseteq SUBSET {"read", "list", "change", "old"}

VARIABLES
    xfer,        \* for each transfer its path, the parts answered with success, its state
    reader,      \* the client that reads: its path, what it took, its state
    lister,      \* the client that lists: the names it took, its next index, its state
    asks, ask,   \* the number of requests so far, and the last one
    busy, tries, \* the broker has it in work, and its attempts
    down, up,    \* the line: requests in their order, and the reply to the one in work
    dir, files,  \* the directory exists; the files in it
    content,     \* the parts of each file
    fd,          \* g_asset_fd, as the path it writes
    restarts,
    mix,         \* the mix of requests of this behaviour
    owner,       \* history: the transfer whose first part opened fd
    latest,      \* history: for each path the transfer that emptied it last
    mixed,       \* history: transfers of which a part went into the file of another
    twice        \* history: transfers of which a later part was taken twice

clients == <<xfer, reader, lister>>
broker  == <<asks, ask, busy, tries>>
disk    == <<dir, files, content, fd>>
history == <<owner, latest, mixed, twice>>
filesVars == <<clients, broker, down, up, disk, restarts, mix, history>>

States == {"new", "runs", "done", "failed"}
Piece  == [of : Transfers, part : 1 .. PARTS, whole : BOOLEAN]

FilesTypeOK ==
    /\ \A t \in Transfers : /\ xfer[t].path \in Paths \cup {None}
                            /\ xfer[t].sent \in 0 .. PARTS
                            /\ xfer[t].state \in States
    /\ reader.path \in Paths \cup {None} /\ reader.state \in States
    /\ reader.copy \in Seq(Piece)
    /\ lister.names \in Seq(Paths) /\ lister.state \in States
    /\ asks \in 0 .. MaxAsks /\ busy \in BOOLEAN /\ tries \in 0 .. REPLY_TRIES
    /\ Len(down) <= REPLY_TRIES * asks /\ Len(up) <= (IF busy THEN 1 ELSE 0)
    /\ dir \in BOOLEAN /\ files \subseteq Paths /\ (files # {} => dir)
    /\ content \in [Paths -> Seq(Piece)]
    /\ fd \in Paths \cup {None}
    /\ restarts \in 0 .. MaxRestarts /\ mix \in Mixes
    /\ owner \in Transfers \cup {None} /\ latest \in [Paths -> Transfers \cup {None}]
    /\ mixed \subseteq Transfers /\ twice \subseteq Transfers

\* The directory may have files from before, here without a part in them.
FilesInit ==
    /\ xfer = [t \in Transfers |-> [path |-> None, sent |-> 0, state |-> "new"]]
    /\ reader = [path |-> None, copy |-> <<>>, state |-> "new", clean |-> TRUE]
    /\ lister = [names |-> <<>>, next |-> 0, state |-> "new", clean |-> TRUE]
    /\ asks = 0 /\ ask = <<>> /\ busy = FALSE /\ tries = 0 /\ down = <<>> /\ up = <<>>
    /\ mix \in Mixes
    /\ dir \in BOOLEAN /\ files \in {{}, Paths} /\ (files # {} => dir /\ "old" \in mix)
    /\ content = [p \in Paths |-> <<>>] /\ fd = None
    /\ restarts = 0 /\ owner = None /\ latest = [p \in Paths |-> None]
    /\ mixed = {} /\ twice = {}

-----------------------------------------------------------------------------
(* The clients and tg-usb.                                                 *)

\* The loop of main takes the next client when the last one has its answer.
Serves == ~busy /\ asks < MaxAsks

\* ask(): the request goes to the broker.
Ask(op, path, t, part, at) ==
    /\ Serves
    /\ asks' = asks + 1
    /\ ask' = [id |-> asks + 1, op |-> op, path |-> path, t |-> t, part |-> part, at |-> at]
    /\ busy' = TRUE /\ tries' = 0
    /\ UNCHANGED <<down, up, disk, restarts, history>>

\* route_file_write: the next part, the part that failed once more, or the
\* first part again.
WritePart(t) ==
    LET x == xfer[t] IN
    \/ /\ x.state = "new"
       /\ \E p \in Targets :
            /\ xfer' = [xfer EXCEPT ![t] = [path |-> p, sent |-> 0, state |-> "runs"]]
            /\ Ask("write", p, t, 1, 0)
       /\ UNCHANGED <<reader, lister>>
    \/ /\ x.state \in {"runs", "failed"}
       /\ \E part \in {1, x.sent + 1} :
            /\ part = 1 => x.state = "failed"
            /\ xfer' = [xfer EXCEPT ![t].sent = part - 1, ![t].state = "runs"]
            /\ Ask("write", x.path, t, part, 0)
       /\ UNCHANGED <<reader, lister>>

ReadPart ==
    /\ "read" \in mix
    /\ \/ /\ reader.state = "new"
          /\ \E p \in Targets : /\ reader' = [reader EXCEPT !.path = p, !.state = "runs"]
                                /\ Ask("read", p, None, 0, 0)
       \/ /\ reader.state \in {"runs", "failed"}
          /\ reader' = [reader EXCEPT !.state = "runs"]
          /\ Ask("read", reader.path, None, 0, Len(reader.copy))
    /\ UNCHANGED <<xfer, lister>>

ListPart ==
    /\ "list" \in mix
    /\ lister.state \in {"new", "runs", "failed"}
    /\ lister' = [lister EXCEPT !.state = "runs"]
    /\ Ask("list", None, None, 0, lister.next)
    /\ UNCHANGED <<xfer, reader>>

\* route_path_only: the path of a file, or none for the directory.
RemoveEntry == \E p \in Targets \cup {None} : Ask("delete", p, None, 0, 0) /\ UNCHANGED clients
MakeDir == Ask("mkdir", None, None, 0, 0) /\ UNCHANGED clients

Route ==
    \/ \E t \in Transfers : WritePart(t)
    \/ ReadPart \/ ListPart
    \/ "change" \in mix /\ (RemoveEntry \/ MakeDir)

\* route_list: an entry that the body has no room for is left out.
CutNames(body) == SubSeq(body, 1, IF Len(body) < BODY_ROOM THEN Len(body) ELSE BODY_ROOM)

\* The client is told: a part of a file is whole once its last part succeeds,
\* a read goes on until an empty body, and a list until no entry remains.
Tell(ok, body, next) ==
    LET q == ask IN
    CASE q.op = "write" ->
           /\ xfer' = [xfer EXCEPT
                ![q.t].sent = IF ok THEN q.part ELSE @,
                ![q.t].state = IF ~ok THEN "failed"
                               ELSE IF q.part = PARTS THEN "done" ELSE "runs"]
           /\ UNCHANGED <<reader, lister>>
      [] q.op = "read" ->
           /\ reader' = [reader EXCEPT
                !.copy = @ \o body,
                !.state = IF ~ok THEN "failed" ELSE IF body = <<>> THEN "done" ELSE "runs"]
           /\ UNCHANGED <<xfer, lister>>
      [] q.op = "list" ->
           /\ lister' = [lister EXCEPT
                !.names = @ \o CutNames(body),
                !.next = IF ok THEN next ELSE @,
                !.state = IF ~ok THEN "failed" ELSE IF next = End THEN "done" ELSE "runs"]
           /\ UNCHANGED <<xfer, reader>>
      [] OTHER -> UNCHANGED clients

-----------------------------------------------------------------------------
(* The broker and the line.  The line keeps the order of its frames, and    *)
(* may lose one.                                                           *)

Attempt ==
    /\ busy /\ tries < REPLY_TRIES
    /\ tries' = tries + 1
    /\ down' \in {down, Append(down, ask)}
    /\ UNCHANGED <<clients, asks, ask, busy, up, disk, restarts, history>>

\* No attempt is left, or the line is another peer's and none was made.
GiveUp ==
    /\ busy /\ tries \in {0, REPLY_TRIES}
    /\ busy' = FALSE /\ tries' = 0 /\ up' = <<>>
    /\ Tell(FALSE, <<>>, 0)
    /\ UNCHANGED <<asks, ask, down, disk, restarts, history>>

\* route_list: an answer that is full may have no room for its end.
CannotEnd == ask.op = "list" /\ up[1].ok /\ Len(up[1].body) >= BODY_ROOM

OnReply ==
    /\ up # <<>>
    /\ busy' = FALSE /\ tries' = 0 /\ up' = <<>>
    /\ \/ Tell(up[1].ok, up[1].body, up[1].next)
       \/ CannotEnd /\ Tell(FALSE, <<>>, 0)
    /\ UNCHANGED <<asks, ask, down, disk, restarts, history>>

-----------------------------------------------------------------------------
(* The board.  One task takes the requests in the order they come.         *)

AnyReply(q) == busy /\ up = <<>>
\* The broker drops a reply that its request does not wait for any more.
Awaited(q) == busy /\ q.id = asks /\ up = <<>>

Reply(ok, body, next) ==
    /\ down' = Tail(down)
    /\ up' \in {up} \cup IF Awaited(Head(down)) THEN {<<[ok |-> ok, body |-> body, next |-> next]>>}
                        ELSE {}
Ack  == Reply(TRUE, <<>>, 0)
Nack == Reply(FALSE, <<>>, 0)

With(old, p, q, whole) ==
    [old EXCEPT ![p] = Append(@, [of |-> q.t, part |-> q.part, whole |-> whole])]

\* A part goes to the end of the file that is open, whatever its own path.
TakePart(p, opener, old, q) ==
    /\ Ack
    /\ content' = With(old, p, q, TRUE)
    /\ fd' = IF q.part = PARTS THEN None ELSE p
    /\ owner' = IF q.part = PARTS THEN None ELSE opener

KeepOpen(p, opener, old, q) ==
    /\ Nack
    /\ content' \in {old, With(old, p, q, FALSE)}
    /\ fd' = p /\ owner' = opener

\* The file takes nothing, or less than the part, and is closed.
FailPart(p, opener, old, q) ==
    /\ Nack
    /\ content' \in {old, With(old, p, q, FALSE)}
    /\ fd' = None /\ owner' = None

Put(p, opener, old, q) == \/ TakePart(p, opener, old, q)
                          \/ FailPart(p, opener, old, q)

\* The first part closes the open file and empties its own; it may make the
\* directory.
OpensOwn(q) ==
    /\ files' = files \cup {q.path} /\ dir' = TRUE
    /\ latest' = [latest EXCEPT ![q.path] = q.t]
    /\ mixed' = mixed \ {q.t} /\ twice' = twice \ {q.t}
    /\ Put(q.path, q.t, [content EXCEPT ![q.path] = <<>>], q)

CannotOpen ==
    /\ Nack
    /\ fd' = None /\ owner' = None
    /\ dir' \in {dir, TRUE}
    /\ UNCHANGED <<files, content, latest, mixed, twice>>

OnFirst(q) == OpensOwn(q) \/ CannotOpen

OnLater(q) ==
    /\ UNCHANGED <<dir, files, latest>>
    /\ IF fd = None THEN Nack /\ UNCHANGED <<content, fd, owner, mixed, twice>>
       ELSE /\ Put(fd, owner, content, q)
            /\ mixed' = IF owner = q.t THEN mixed ELSE mixed \cup {owner, q.t}
            /\ twice' = IF [of |-> q.t, part |-> q.part, whole |-> TRUE] \in ToSet(content[fd])
                        THEN twice \cup {q.t} ELSE twice

OnWrite(q) == (q.part = 1 /\ OnFirst(q)) \/ (q.part # 1 /\ OnLater(q))

\* ipc_fs_read by its offset.
PieceAt(path, at) == IF at < Len(content[path]) THEN <<content[path][at + 1]>> ELSE <<>>

FromStart(q)  == PieceAt(q.path, 0)
FromOffset(q) == PieceAt(q.path, q.at)

OnRead(q) ==
    /\ Nack \/ (q.path \in files /\ Reply(TRUE, FromOffset(q), 0))
    /\ UNCHANGED <<disk, history>>

\* The entries of the directory, in their order.
Entries == CHOOSE s \in [1 .. Cardinality(files) -> files] :
                \A i, j \in DOMAIN s : i < j => s[i] < s[j]

\* ipc_fs_list: the entries from the cursor on, and the first one left out.
After(at) == IF at + REPLY_ROOM < Len(Entries) THEN at + REPLY_ROOM ELSE Len(Entries)

EndsEarly(at) == [body |-> SubSeq(Entries, at + 1, After(at)),
                  next |-> IF After(at) + 1 >= Len(Entries) THEN End ELSE After(at)]

PageFrom(at)  == [body |-> SubSeq(Entries, at + 1, After(at)),
                  next |-> IF After(at) = Len(Entries) THEN End ELSE After(at)]

OnList(q) ==
    /\ Nack \/ (dir /\ Reply(TRUE, PageFrom(q.at).body, PageFrom(q.at).next))
    /\ UNCHANGED <<disk, history>>

\* ipc_fs_delete: an entry of the directory, or the directory when it is empty.
OnDelete(q) ==
    \/ Nack /\ UNCHANGED <<disk, history>>
    \/ /\ q.path \in files /\ Ack
       /\ files' = files \ {q.path}
       /\ latest' = [latest EXCEPT ![q.path] = None]
       /\ UNCHANGED <<dir, content, fd, owner, mixed, twice>>
    \/ /\ q.path = None /\ dir /\ files = {} /\ Ack
       /\ dir' = FALSE
       /\ UNCHANGED <<files, content, fd, history>>

OnMakeDir ==
    /\ (~dir /\ Ack /\ dir' = TRUE) \/ (Nack /\ UNCHANGED dir)
    /\ UNCHANGED <<files, content, fd, history>>

\* The change of a file or of the directory under a client that reads it.
Watch ==
    /\ reader' = [reader EXCEPT !.clean = @ /\ (reader.state # "new" =>
            /\ content'[reader.path] = content[reader.path]
            /\ reader.path \in files <=> reader.path \in files')]
    /\ lister' = [lister EXCEPT !.clean = @ /\ (lister.state # "new" => files' = files)]
    /\ UNCHANGED xfer

Board ==
    /\ down # <<>>
    /\ LET q == Head(down) IN
         \/ q.op = "write"  /\ OnWrite(q)
         \/ q.op = "read"   /\ OnRead(q)
         \/ q.op = "list"   /\ OnList(q)
         \/ q.op = "delete" /\ OnDelete(q)
         \/ q.op = "mkdir"  /\ OnMakeDir
    /\ Watch
    /\ UNCHANGED <<broker, restarts>>

\* The files stay; of one that was open the last parts may be lost.
Restart ==
    /\ restarts < MaxRestarts
    /\ restarts' = restarts + 1
    /\ down' = <<>> /\ up' = <<>>
    /\ fd' = None /\ owner' = None
    /\ IF fd = None THEN UNCHANGED content
       ELSE \E k \in 0 .. Len(content[fd]) : content' = [content EXCEPT ![fd] = SubSeq(@, 1, k)]
    /\ UNCHANGED <<broker, dir, files, latest, mixed, twice>>
    /\ Watch

-----------------------------------------------------------------------------
FilesNext ==
    /\ \/ Route
       \/ Attempt \/ GiveUp \/ OnReply
       \/ Board \/ Restart
    /\ UNCHANGED mix

FilesSpec == FilesInit /\ [][FilesNext]_filesVars

-----------------------------------------------------------------------------
AllParts(t) == [i \in 1 .. PARTS |-> [of |-> t, part |-> i, whole |-> TRUE]]

\* The parts of t are all that was put in its file since its first part.
Stands(t) == xfer[t].state = "done" /\ latest[xfer[t].path] = t /\ t \notin mixed

\* A file whose parts were all answered with success holds what was sent,
\* whatever failed or was lost on the way and whatever part went again, if no
\* part after the first was taken twice and no other transfer shared the open
\* file (ipc_fs_write, route_file_write). A file has more than one part here: a
\* first part that is also the last opens and closes the file, and one that is
\* sent again after its success may fail and leave the file empty.
TransferIsFile == \A t \in Transfers \ twice : Stands(t) => content[xfer[t].path] = AllParts(t)

\* The files, the line and the clients keep their types, and a file that was
\* answered with success holds what was sent.
Inv == FilesTypeOK /\ TransferIsFile

\* The same for every part that goes again: "a second arrival of the same
\* request gives the same result as the first" (docs/ipc-protocol.md).
RepeatChangesNothing == \A t \in Transfers : Stands(t) => content[xfer[t].path] = AllParts(t)

\* A client that reads until an empty body has the file, when the file did not
\* change meanwhile (ipc_fs_read, route_file_read).
ReadIsFile == reader.state = "done" /\ reader.clean => reader.copy = content[reader.path]

\* An entry that the answer with its page has room for.
HasRoom(i) == (i - 1) % REPLY_ROOM < BODY_ROOM

\* A client that follows the index until no entry remains has entries in their
\* order, none twice, and of each page those that the answer has room for, when
\* the directory did not change meanwhile: lost replies, repeats and failed
\* answers neither skip a page nor give one twice (ipc_fs_list, route_list).
ListIsDirectory ==
    lister.state = "done" /\ lister.clean =>
        /\ \A i, j \in DOMAIN lister.names : i < j => lister.names[i] < lister.names[j]
        /\ ToSet(lister.names) = {Entries[i] : i \in {k \in DOMAIN Entries : HasRoom(k)}}

\* "A directory longer than one reply takes another request with
\* `?index=<next>`; `next` is 65535 once no entry remains": a client that
\* follows it has the whole directory (docs/usb-http.md).
ListIsWhole == lister.state = "done" /\ lister.clean => lister.names = Entries
=============================================================================
