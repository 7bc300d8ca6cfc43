-------------------------- MODULE DisplayProofs -----------------------------
(***************************************************************************)
(* The display of the board, and the path of a setting to it.              *)
(* Display: what the panels show, for every cut of a panel into parts, any *)
(* number of requests and days, and requests for both panels.              *)
(* HomeControl: what Home Assistant reads back and what a change of one    *)
(* entity sends for the other, for any number of commands, requests,       *)
(* time-outs, dropped sessions and resets.                                 *)
(***************************************************************************)
EXTENDS Display, HomeControl, SequenceTheorems, TLAPS

-----------------------------------------------------------------------------
(* The invariant.                                                          *)

\* The first step of the server is for panel p.
ServerOn(p) == Todo("ipc") /\ First("ipc").panel = p

\* The server has at most two steps, for one panel.  A release is the last of
\* them, and it gives a panel back on which no animation runs.
ServerOK ==
    LET j == job["ipc"] IN
    /\ Len(j) <= 2
    /\ \A k \in 1 .. Len(j) :
         /\ j[k].panel = j[1].panel /\ j[k].kind # "frame"
         /\ j[k].kind = "release" =>
              /\ k = Len(j) /\ j[1].panel = "sub" /\ ~anim["sub"].active
              /\ j[1].kind # "start"

ScannerOK == /\ Len(job["scan"]) <= 1
             /\ Todo("scan") => First("scan").kind \in {"draw", "frame"}

\* The lock is held for a drawing.
LockOK == lock # None => Todo(lock) /\ First(lock).kind \in {"draw", "start", "frame"}

\* The server is about to draw the whole panel anew.
Renews(p) == /\ ServerOn(p) /\ lock # "ipc"
             /\ First("ipc").kind = "draw" /\ First("ipc").parts = Parts

\* The image of a panel when the drawing in work is through.
Base(p) == IF Busy(p) THEN Filled(fb[p][Back(p)], left, pen) ELSE Begun(p)

\* The image after the step s of the server, and after its steps j.
After(i, s) == IF s.kind \in {"draw", "start"} THEN Filled(i, s.parts, s.what) ELSE i
AfterAll(i, j) ==
    IF j = <<>> THEN i
    ELSE IF Tail(j) = <<>> THEN After(i, Head(j)) ELSE After(After(i, Head(j)), Head(Tail(j)))

\* The image after the step of the scanner.
AfterScan(i, p) ==
    IF First("scan").kind = "frame" THEN Filled(i, anim[p].parts, src[p])
    ELSE Filled(i, First("scan").parts, First("scan").what)

\* The steps of the server that have not begun.
Ahead == IF lock = "ipc" THEN Tail(job["ipc"]) ELSE job["ipc"]

\* A changed image is shown, or somebody draws it; an image that is drawn or
\* waits to be shown is the one at the back.  What is drawn and what is left to
\* draw give the image that was asked for, and the scanner has a drawing to begin
\* only on a panel that the server leaves alone.  The last two hold where no
\* request overtook a drawing and no swap fell into one.
PanelOK(p) ==
    /\ dirty[p] /\ ~Busy(p) => swap[p]
    /\ ~raced[p] /\ ~Renews(p) /\ (swap[p] \/ Busy(p)) => dirty[p]
    /\ ~raced[p] =>
         IF Overtakes(p) THEN ~ServerOn(p) /\ ideal[p] = AfterScan(Base(p), p)
         ELSE ideal[p] = IF ServerOn(p) THEN AfterAll(Base(p), Ahead) ELSE Base(p)

\* A sub panel of the board shows no animation and no request, and the day that
\* was drawn last.
DayOK == default["sub"] =>
    /\ ~anim["sub"].active
    /\ ~ServerOn("sub")
    /\ wday # -1 => \A r \in Middle : ideal["sub"][r] = Day(wday)

RunInv   == TypeOK /\ ServerOK /\ ScannerOK /\ LockOK
ImageInv == (\A p \in Panels : PanelOK(p)) /\ DayOK

-----------------------------------------------------------------------------
(* Steps and images.                                                       *)

\* What is added to a part of a sum and taken from its room leaves the sum in
\* the room.
LEMMA Slack ==
  ASSUME NEW a \in Nat, NEW b \in Nat, NEW s \in Nat, NEW k \in Nat, NEW l \in Nat,
         NEW m \in Nat, NEW t \in Int, a + b + s <= m - k, t <= s + (k - l)
  PROVE  a + b + t <= m - l
OBVIOUS

LEMMA PanelsAre == /\ Panels = {"main", "sub"} /\ "main" # "sub"
                   /\ Tasks = {"ipc", "scan"} /\ "ipc" # "scan"
                   /\ None \notin Tasks
BY DEF Panels, Tasks, None

LEMMA ContentHas ==
    /\ Blank \in Content /\ Broken \in Content /\ Version \in Content /\ Greeting \in Content
    /\ \A n \in 1 .. MaxRequests : Edge(n) \in Content
    /\ \A d \in Days : Day(d) \in Content
BY DEF Content

LEMMA NewIs ==
    ASSUME TypeOK, NEW p \in Panels, count[p] < MaxRequests
    PROVE  New(p) \in Content
<1>1. count[p] + 1 \in 1 .. MaxRequests
  BY DisplayAssumption DEF TypeOK
<1> QED
  BY <1>1, ContentHas DEF New

LEMMA FilledType ==
    ASSUME NEW i \in Image, NEW parts, NEW c \in Content
    PROVE  Filled(i, parts, c) \in Image
BY DEF Filled, Image

LEMMA FilledIs ==
    ASSUME NEW i, NEW parts, NEW c, NEW r \in Parts
    PROVE  Filled(i, parts, c)[r] = IF r \in parts THEN c ELSE i[r]
BY DEF Filled

LEMMA FilledNone ==
    ASSUME NEW i \in Image, NEW c PROVE Filled(i, {}, c) = i
BY DEF Filled, Image

LEMMA FilledAll ==
    ASSUME NEW i, NEW k, NEW c PROVE Filled(i, Parts, c) = Filled(k, Parts, c)
BY DEF Filled

LEMMA AllBlankIs == AllBlank \in Image /\ \A i : Filled(i, Parts, Blank) = AllBlank
BY ContentHas DEF AllBlank, Image, Filled

\* The sequence behind the first step.
LEMMA TailIs ==
    ASSUME NEW S, NEW j \in Seq(S), j # <<>>
    PROVE  /\ Head(j) = j[1] /\ Head(j) \in S /\ Len(j) \in Nat \ {0} /\ 1 \in 1 .. Len(j)
           /\ Tail(j) \in Seq(S) /\ Len(Tail(j)) = Len(j) - 1
           /\ \A k \in 1 .. Len(Tail(j)) : Tail(j)[k] = j[k + 1] /\ k + 1 \in 1 .. Len(j)
BY HeadTailProperties, LenProperties

LEMMA FirstIs ==
    ASSUME TypeOK, NEW t \in Tasks, Todo(t)
    PROVE  /\ First(t) = job[t][1] /\ First(t) \in Step /\ First(t).panel \in Panels
           /\ First(t).parts \subseteq Parts /\ First(t).what \in Content
           /\ First(t).kind \in {"draw", "start", "frame", "read", "release"}
           /\ job[t] \in Seq(Step) /\ Tail(job[t]) \in Seq(Step)
           /\ Len(job[t]) \in Nat \ {0} /\ 1 \in 1 .. Len(job[t])
           /\ Len(Tail(job[t])) = Len(job[t]) - 1
           /\ \A k \in 1 .. Len(Tail(job[t])) :
                Tail(job[t])[k] = job[t][k + 1] /\ k + 1 \in 1 .. Len(job[t])
<1>1. job[t] \in Seq(Step) /\ job[t] # <<>>
  BY DEF TypeOK, Todo
<1>2. First(t) = job[t][1] /\ First(t) \in Step
  BY <1>1, TailIs DEF First
<1> QED
  BY <1>1, <1>2, TailIs DEF Step

\* The types of one panel.
LEMMA PanelIs ==
    ASSUME TypeOK, NEW p \in Panels
    PROVE  /\ front[p] \in {0, 1} /\ Back(p) \in {0, 1} /\ Back(p) # front[p]
           /\ \A i \in {0, 1} : fb[p][i] \in Image
           /\ dirty[p] \in BOOLEAN /\ swap[p] \in BOOLEAN /\ raced[p] \in BOOLEAN
           /\ default[p] \in BOOLEAN
           /\ ideal[p] \in Image /\ src[p] \in Content
           /\ anim[p].parts \subseteq Parts /\ anim[p].active \in BOOLEAN
           /\ Begun(p) \in Image
<1>1. front[p] \in {0, 1} /\ Back(p) \in {0, 1} /\ Back(p) # front[p]
  BY DEF TypeOK, Back
<1>2. fb[p] \in [{0, 1} -> Image]
  BY DEF TypeOK
<1>3. anim[p] \in [active : BOOLEAN, parts : SUBSET Parts]
  BY DEF TypeOK
<1> QED
  BY <1>1, <1>2, <1>3 DEF TypeOK, Begun

LEMMA BaseType == ASSUME TypeOK, NEW p \in Panels PROVE Base(p) \in Image
<1>1. left \subseteq Parts /\ pen \in Content
  BY DEF TypeOK
<1> QED
  BY <1>1, PanelIs, FilledType DEF Base

-----------------------------------------------------------------------------
(* Types and the shape of the jobs.                                        *)


LEMMA InitRun == Init => RunInv
<1> SUFFICES ASSUME Init PROVE RunInv
  OBVIOUS
<1>1. AtStart \in [Panels -> Image] /\ AllBlank \in Image
  BY AllBlankIs, FilledType, ContentHas DEF AtStart
<1>2. fb \in [Panels -> [{0, 1} -> Image]]
  BY <1>1 DEF Init
<1>3. count \in [Panels -> 0 .. MaxRequests] /\ day \in Days /\ wday \in Days \cup {-1}
  BY DisplayAssumption DEF Init, Days
<1>4. anim \in [Panels -> [active : BOOLEAN, parts : SUBSET Parts]]
  <2>1. [active |-> TRUE, parts |-> Middle] \in [active : BOOLEAN, parts : SUBSET Parts]
        /\ Still \in [active : BOOLEAN, parts : SUBSET Parts]
    BY DisplayAssumption DEF Still
  <2> QED
    BY <2>1 DEF Init
<1>5. job \in [Tasks -> Seq(Step)] /\ \A t \in Tasks : job[t] = <<>>
  BY EmptySeq DEF Init
<1>6. /\ dirty \in [Panels -> BOOLEAN] /\ swap \in [Panels -> BOOLEAN]
      /\ default \in [Panels -> BOOLEAN] /\ raced \in [Panels -> BOOLEAN]
  BY DEF Init
<1>7. src \in [Panels -> Content]
  BY ContentHas DEF Init
<1>8. TypeOK
  BY <1>1, <1>2, <1>3, <1>4, <1>5, <1>6, <1>7, ContentHas DEF Init, TypeOK
<1>9. ServerOK /\ ScannerOK
  BY <1>5, PanelsAre, EmptySeq DEF ServerOK, ScannerOK, Todo
<1>10. LockOK
  BY DEF Init, LockOK
<1> QED
  BY <1>8, <1>9, <1>10 DEF RunInv

LEMMA BeginRun == ASSUME RunInv, NEW t \in Tasks, Begin(t) PROVE RunInv'
<1>1. PICK s, p : s = First(t) /\ p = s.panel
  OBVIOUS
<1>2. /\ TypeOK /\ Todo(t) /\ lock = None /\ lock' = t /\ job' = job
      /\ s.kind \in {"draw", "start", "frame"}
      /\ s.parts \subseteq Parts /\ s.what \in Content /\ p \in Panels
  BY <1>1, FirstIs DEF RunInv, Begin, MayRun
<1>3. /\ fb' = [fb EXCEPT ![p][Back(p)] = Begun(p)] /\ dirty' = [dirty EXCEPT ![p] = TRUE]
      /\ UNCHANGED <<front, swap, default, wday, greeted, phase, day, count, ideal, raced>>
  BY <1>1 DEF Begin, StartImage, scanVars, History
<1>4. \/ s.kind = "start" /\ left' = s.parts /\ pen' = s.what
         /\ anim' = [anim EXCEPT ![p] = [active |-> TRUE, parts |-> s.parts]]
         /\ src' = [src EXCEPT ![p] = s.what]
      \/ s.kind = "draw" /\ left' = s.parts /\ pen' = s.what /\ UNCHANGED <<anim, src>>
      \/ s.kind = "frame" /\ left' = anim[p].parts /\ pen' = src[p] /\ UNCHANGED <<anim, src>>
  BY <1>1 DEF Begin
<1>5. /\ left' \subseteq Parts /\ pen' \in Content
      /\ anim' \in [Panels -> [active : BOOLEAN, parts : SUBSET Parts]]
      /\ src' \in [Panels -> Content]
  <2>1. src \in [Panels -> Content] /\ anim \in [Panels -> [active : BOOLEAN, parts : SUBSET Parts]]
    BY <1>2 DEF TypeOK
  <2>2. src[p] \in Content /\ anim[p].parts \subseteq Parts
    BY <1>2, PanelIs
  <2>3. CASE s.kind = "start"
    <3>1. anim' = [anim EXCEPT ![p] = [active |-> TRUE, parts |-> s.parts]]
          /\ [active |-> TRUE, parts |-> s.parts] \in [active : BOOLEAN, parts : SUBSET Parts]
      BY <1>2, <1>4, <2>3
    <3>2. anim' \in [Panels -> [active : BOOLEAN, parts : SUBSET Parts]]
      BY <2>1, <3>1
    <3> QED
      BY <1>2, <1>4, <2>1, <2>3, <3>2
  <2>4. CASE s.kind # "start"
    BY <1>2, <1>4, <2>1, <2>2, <2>4
  <2> QED
    BY <2>3, <2>4
<1>6. fb' \in [Panels -> [{0, 1} -> Image]]
  <2>1. fb \in [Panels -> [{0, 1} -> Image]] /\ Begun(p) \in Image
    BY <1>2, PanelIs DEF TypeOK
  <2> QED
    BY <1>2, <1>3, <2>1
<1>7. TypeOK'
  <2>1. dirty' \in [Panels -> BOOLEAN]
    BY <1>3, <1>2 DEF TypeOK
  <2> QED
    BY <1>2, <1>3, <1>5, <1>6, <2>1 DEF TypeOK
<1>8. ServerOK'
  <2>1. CASE anim' = anim
    BY <1>2, <2>1 DEF RunInv, ServerOK
  <2>2. CASE s.kind = "start"
    <3>1. t = "ipc" /\ s = job["ipc"][1]
      BY <1>1, <1>2, <2>2, PanelsAre, FirstIs DEF RunInv, ScannerOK
    <3> QED
      BY <1>2, <2>2, <3>1 DEF RunInv, ServerOK
  <2> QED
    BY <1>4, <2>1, <2>2
<1>9. ScannerOK'
  BY <1>2 DEF RunInv, ScannerOK, Todo, First
<1>10. LockOK'
  BY <1>1, <1>2 DEF LockOK, Todo, First
<1> QED
  BY <1>7, <1>8, <1>9, <1>10 DEF RunInv

LEMMA FillPartRun == ASSUME RunInv, NEW t \in Tasks, FillPart(t) PROVE RunInv'
<1>1. PICK r \in left : /\ fb' = [fb EXCEPT ![First(t).panel][Back(First(t).panel)][r] = pen]
                        /\ left' = left \ {r}
  BY DEF FillPart
<1>2. PICK p : p = First(t).panel
  OBVIOUS
<1>3. /\ TypeOK /\ Todo(t) /\ p \in Panels
  BY <1>2, PanelsAre, FirstIs DEF RunInv, FillPart, LockOK
<1>4. UNCHANGED <<front, dirty, swap, default, wday, anim, src, greeted, phase, day, lock, pen,
                  job, count, ideal, raced>>
  BY DEF FillPart, boardVars, scanVars, History
<1>5. fb' \in [Panels -> [{0, 1} -> Image]]
  <2>1. /\ fb \in [Panels -> [{0, 1} -> Image]] /\ Back(p) \in {0, 1} /\ pen \in Content
        /\ r \in Parts
    BY <1>3, PanelIs DEF TypeOK
  <2> QED
    BY <1>1, <1>2, <1>3, <2>1 DEF Image
<1>6. TypeOK'
  BY <1>1, <1>3, <1>4, <1>5 DEF TypeOK
<1>7. ServerOK' /\ ScannerOK' /\ LockOK'
  BY <1>4 DEF RunInv, ServerOK, ScannerOK, LockOK, Todo, First
<1> QED
  BY <1>6, <1>7 DEF RunInv

LEMMA TailOfTwo ==
    ASSUME NEW S, NEW j \in Seq(S), j # <<>>
    PROVE  /\ Len(j) <= 1 => Tail(j) = <<>>
           /\ Len(j) <= 2 => \/ Tail(j) = <<>>
                             \/ /\ Len(j) = 2 /\ Len(Tail(j)) = 1 /\ Tail(j) # <<>>
                                /\ Tail(j)[1] = j[2] /\ Head(Tail(j)) = j[2]
                                /\ Tail(Tail(j)) = <<>>
<1> DEFINE q == Tail(j)
<1>1. /\ q \in Seq(S) /\ Len(q) = Len(j) - 1 /\ Len(j) \in Nat \ {0}
      /\ \A k \in 1 .. Len(q) : q[k] = j[k + 1]
  BY TailIs
<1> HIDE DEF q
<1>2. Len(q) = 0 => q = <<>>
  BY <1>1, EmptySeq
<1>3. CASE Len(q) = 1
  <2>1. q # <<>>
    BY <1>1, <1>3, EmptySeq
  <2>2. q[1] = j[2]
    BY <1>1, <1>3
  <2>3. Head(q) = q[1] /\ Tail(q) \in Seq(S) /\ Len(Tail(q)) = 0
    BY <1>1, <1>3, <2>1, TailIs
  <2>4. Tail(q) = <<>>
    BY <2>3, EmptySeq
  <2> QED
    BY <1>1, <1>3, <2>1, <2>2, <2>3, <2>4 DEF q
<1>4. Len(j) <= 1 => Len(q) = 0
  BY <1>1
<1>5. Len(j) <= 2 => Len(q) = 0 \/ Len(q) = 1
  BY <1>1
<1> QED
  BY <1>2, <1>3, <1>4, <1>5 DEF q

\* The first step of a task is done.
LEMMA DoneRun ==
    ASSUME RunInv, NEW t \in Tasks, Todo(t), Done(t)
    PROVE  /\ job' \in [Tasks -> Seq(Step)]
           /\ job'[t] = Tail(job[t]) /\ \A u \in Tasks \ {t} : job'[u] = job[u]
           /\ t = "ipc" => \/ job'["ipc"] = <<>>
                           \/ /\ Len(job["ipc"]) = 2 /\ Len(job'["ipc"]) = 1
                              /\ job'["ipc"] # <<>> /\ job'["ipc"][1] = job["ipc"][2]
           /\ t = "scan" => job'["scan"] = <<>>
<1>1. /\ TypeOK /\ job \in [Tasks -> Seq(Step)] /\ job' = [job EXCEPT ![t] = Tail(@)]
      /\ job[t] \in Seq(Step) /\ job[t] # <<>>
  BY DEF RunInv, TypeOK, Done, Todo
<1>2. Tail(job[t]) \in Seq(Step)
  BY <1>1, TailIs
<1>3. job' \in [Tasks -> Seq(Step)] /\ job'[t] = Tail(job[t]) /\ \A u \in Tasks \ {t} : job'[u] = job[u]
  BY <1>1, <1>2
<1>4. ASSUME t = "ipc"
      PROVE  \/ job'["ipc"] = <<>>
             \/ /\ Len(job["ipc"]) = 2 /\ Len(job'["ipc"]) = 1
                /\ job'["ipc"] # <<>> /\ job'["ipc"][1] = job["ipc"][2]
  <2>1. Len(job[t]) <= 2
    BY <1>4 DEF RunInv, ServerOK
  <2> QED
    BY <1>1, <1>3, <1>4, <2>1, TailOfTwo
<1>5. ASSUME t = "scan" PROVE job'["scan"] = <<>>
  <2>1. Len(job[t]) <= 1
    BY <1>5 DEF RunInv, ScannerOK
  <2> QED
    BY <1>1, <1>3, <1>5, <2>1, TailOfTwo
<1> QED
  BY <1>3, <1>4, <1>5

LEMMA DoneShape ==
    ASSUME RunInv, NEW t \in Tasks, Todo(t), Done(t), UNCHANGED anim
    PROVE  ServerOK' /\ ScannerOK'
<1>1. CASE t = "ipc"
  <2>1. job'["scan"] = job["scan"]
    BY <1>1, DoneRun, PanelsAre
  <2>2. ScannerOK'
    BY <2>1 DEF RunInv, ScannerOK, Todo, First
  <2>3. PICK j, q : j = job["ipc"] /\ q = job'["ipc"]
    OBVIOUS
  <2>4. CASE q = <<>>
    <3>1. Len(q) = 0
      BY <2>4, EmptySeq
    <3> QED
      BY <2>2, <2>3, <3>1 DEF ServerOK
  <2>5. CASE Len(j) = 2 /\ Len(q) = 1 /\ q[1] = j[2]
    <3>1. /\ j[2].panel = j[1].panel /\ j[2].kind # "frame"
          /\ j[2].kind = "release" => j[1].panel = "sub" /\ ~anim["sub"].active
      BY <2>3, <2>5 DEF RunInv, ServerOK
    <3>2. \A k \in 1 .. Len(q) : k = 1
      BY <2>5
    <3> QED
      BY <2>2, <2>3, <2>5, <3>1, <3>2 DEF ServerOK
  <2> QED
    BY <1>1, <2>3, <2>4, <2>5, DoneRun
<1>2. CASE t = "scan"
  <2>1. job'["scan"] = <<>> /\ job'["ipc"] = job["ipc"]
    BY <1>2, DoneRun, PanelsAre
  <2>2. ServerOK'
    BY <2>1 DEF RunInv, ServerOK
  <2> QED
    BY <2>1, <2>2, EmptySeq DEF ScannerOK, Todo
<1> QED
  BY <1>1, <1>2, PanelsAre

LEMMA CommitRun == ASSUME RunInv, NEW t \in Tasks, Commit(t) PROVE RunInv'
<1>1. PICK p : p = First(t).panel
  OBVIOUS
<1>2. TypeOK /\ Todo(t) /\ p \in Panels /\ Done(t)
  BY <1>1, PanelsAre, FirstIs DEF RunInv, Commit, LockOK
<1>3. /\ UNCHANGED <<fb, front, dirty, default, wday, anim, src, greeted, phase, day, left,
                     count, ideal, raced>>
      /\ swap' = [swap EXCEPT ![p] = TRUE] /\ lock' = None /\ pen' = Blank
  BY <1>1 DEF Commit, boardVars, scanVars, History
<1>4. job' \in [Tasks -> Seq(Step)] /\ swap' \in [Panels -> BOOLEAN]
  BY <1>2, <1>3, DoneRun DEF TypeOK
<1>5. TypeOK'
  BY <1>2, <1>3, <1>4, ContentHas DEF TypeOK
<1>6. ServerOK' /\ ScannerOK'
  BY <1>2, <1>3, DoneShape
<1>7. LockOK'
  BY <1>3 DEF LockOK
<1> QED
  BY <1>5, <1>6, <1>7 DEF RunInv

LEMMA ReadFileRun == ASSUME RunInv, ReadFile PROVE RunInv'
<1>1. PICK p : p = First("ipc").panel
  OBVIOUS
<1>2. /\ TypeOK /\ "ipc" \in Tasks /\ Todo("ipc") /\ p \in Panels /\ Done("ipc")
      /\ First("ipc").what \in Content
  BY <1>1, PanelsAre, FirstIs DEF RunInv, ReadFile, MayRun
<1>3. /\ UNCHANGED <<fb, front, dirty, swap, default, wday, anim, greeted, phase, day, lock,
                     left, pen, count, ideal, raced>>
      /\ lock = None /\ src' = [src EXCEPT ![p] = First("ipc").what]
  BY <1>1 DEF ReadFile, imageVars, scanVars, drawVars, History
<1>4. job' \in [Tasks -> Seq(Step)] /\ src' \in [Panels -> Content]
  BY <1>2, <1>3, DoneRun DEF TypeOK
<1>5. TypeOK'
  BY <1>2, <1>3, <1>4 DEF TypeOK
<1>6. ServerOK' /\ ScannerOK'
  BY <1>2, <1>3, DoneShape
<1>7. LockOK'
  BY <1>3 DEF LockOK
<1> QED
  BY <1>5, <1>6, <1>7 DEF RunInv

LEMMA GiveBackRun == ASSUME RunInv, GiveBack PROVE RunInv'
<1>1. /\ TypeOK /\ "ipc" \in Tasks /\ "scan" \in Tasks /\ Todo("ipc") /\ Done("ipc") /\ First("ipc").kind = "release"
  BY PanelsAre DEF RunInv, GiveBack, MayRun
<1>2. /\ UNCHANGED <<fb, front, dirty, swap, anim, src, greeted, phase, day, lock,
                     left, pen, count, ideal, raced>>
      /\ wday' = -1 /\ default' = [default EXCEPT !["sub"] = TRUE]
  BY DEF GiveBack, imageVars, scanVars, drawVars, History
<1>3. job' \in [Tasks -> Seq(Step)] /\ default' \in [Panels -> BOOLEAN]
  BY <1>1, <1>2, DoneRun DEF TypeOK
<1>4. TypeOK'
  BY <1>1, <1>2, <1>3 DEF TypeOK
<1>5. ServerOK' /\ ScannerOK'
  BY <1>1, <1>2, DoneShape
<1>6. lock # "ipc"
  BY <1>1, PanelsAre DEF RunInv, LockOK
<1>7. job'["scan"] = job["scan"]
  BY <1>1, DoneRun, PanelsAre
<1>8. LockOK'
  BY <1>1, <1>2, <1>6, <1>7, PanelsAre DEF RunInv, LockOK, TypeOK, Todo, First
<1> QED
  BY <1>4, <1>5, <1>8 DEF RunInv

-----------------------------------------------------------------------------
(* The requests.                                                           *)

LEMMA ItemIs ==
    ASSUME NEW k \in {"draw", "start", "frame", "read", "release"}, NEW p \in Panels,
           NEW parts \in SUBSET Parts, NEW c \in Content
    PROVE  /\ Item(k, p, parts, c) \in Step
           /\ Item(k, p, parts, c).kind = k /\ Item(k, p, parts, c).panel = p
           /\ Item(k, p, parts, c).parts = parts /\ Item(k, p, parts, c).what = c
BY DEF Item, Step

LEMMA NoStep ==
    /\ <<>> \in Seq(Step) /\ Len(<<>>) = 0
    /\ \A i : AfterAll(i, <<>>) = i
BY EmptySeq DEF AfterAll

LEMMA OneStep ==
    ASSUME NEW a \in Step
    PROVE  /\ <<a>> \in Seq(Step) /\ Len(<<a>>) = 1 /\ <<a>>[1] = a
           /\ <<a>> # <<>> /\ Head(<<a>>) = a /\ Tail(<<a>>) = <<>>
           /\ \A i : AfterAll(i, <<a>>) = After(i, a)
<1>1. /\ <<a>> \in Seq(Step) /\ Len(<<a>>) = 1 /\ <<a>>[1] = a
      /\ <<a>> # <<>> /\ Head(<<a>>) = a /\ Tail(<<a>>) = <<>>
  OBVIOUS
<1> QED
  BY <1>1 DEF AfterAll

LEMMA TwoSteps ==
    ASSUME NEW a \in Step, NEW b \in Step
    PROVE  /\ <<a, b>> \in Seq(Step) /\ Len(<<a, b>>) = 2 /\ <<a, b>>[1] = a /\ <<a, b>>[2] = b
           /\ <<a, b>> # <<>> /\ Head(<<a, b>>) = a /\ Tail(<<a, b>>) = <<b>>
           /\ \A i : AfterAll(i, <<a, b>>) = After(After(i, a), b)
<1>1. /\ <<a, b>> \in Seq(Step) /\ Len(<<a, b>>) = 2 /\ <<a, b>>[1] = a /\ <<a, b>>[2] = b
      /\ <<a, b>> # <<>> /\ Head(<<a, b>>) = a /\ Tail(<<a, b>>) = <<b>>
      /\ <<b>> # <<>> /\ Head(<<b>>) = b
  OBVIOUS
<1> QED
  BY <1>1 DEF AfterAll

LEMMA TwoAre == ASSUME NEW a, NEW b PROVE <<a>> \o <<b>> = <<a, b>>
<1> DEFINE q == <<a>> \o <<b>>
<1>1. /\ <<a>> \in Seq({a, b}) /\ <<b>> \in Seq({a, b}) /\ <<a, b>> \in Seq({a, b})
      /\ Len(<<a>>) = 1 /\ Len(<<b>>) = 1 /\ Len(<<a, b>>) = 2
  OBVIOUS
<1>2. q \in Seq({a, b}) /\ Len(q) = 2 /\ q[1] = a /\ q[2] = b
  BY <1>1, ConcatProperties
<1> HIDE DEF q
<1>3. q = <<a, b>>
  BY <1>1, <1>2, SeqEqual
<1> QED
  BY <1>3 DEF q

\* What the steps of a request for panel p come to: its parts in its content,
\* on an empty panel if the whole of it is drawn anew.
Serves(p, steps, parts, whole) ==
    /\ steps \in Seq(Step) /\ Len(steps) <= 2
    /\ \A k \in 1 .. Len(steps) :
         /\ steps[k].panel = p /\ steps[k].kind # "frame"
         /\ steps[k].kind = "release" =>
              k = Len(steps) /\ p = "sub" /\ steps[1].kind # "start" /\ ~anim'["sub"].active
    /\ \/ default' = [default EXCEPT ![p] = FALSE]
       \/ default' = default /\ steps = <<>> /\ parts = {} /\ whole = FALSE
    /\ anim' = anim \/ Stop(p)
    /\ parts \in SUBSET Parts /\ whole \in BOOLEAN
    /\ whole => steps # <<>> /\ Head(steps).kind = "draw" /\ Head(steps).parts = Parts
    /\ \A i \in Image : AfterAll(i, steps) = Filled(IF whole THEN AllBlank ELSE i, parts, New(p))

Asks(p) == Text(p) \/ TwoLines(p) \/ Pixels(p) \/ Animate(p) \/ AnimStop(p) \/ ClearPanel(p)
           \/ Release(p)

LEMMA StepDoes ==
    ASSUME NEW p \in Panels, NEW parts \in SUBSET Parts, NEW c \in Content, NEW i \in Image
    PROVE  /\ \A kind \in {"draw", "start"} : After(i, Item(kind, p, parts, c)) = Filled(i, parts, c)
           /\ \A kind \in {"read", "release"} : After(i, Item(kind, p, parts, c)) = i
           /\ After(i, Clear(p)) = AllBlank
           /\ Clear(p) \in Step /\ Clear(p).kind = "draw" /\ Clear(p).panel = p
           /\ Clear(p).parts = Parts
<1>1. ASSUME NEW kind \in {"draw", "start"}
      PROVE  After(i, Item(kind, p, parts, c)) = Filled(i, parts, c)
  BY <1>1 DEF After, Item
<1>2. ASSUME NEW kind \in {"read", "release"}
      PROVE  After(i, Item(kind, p, parts, c)) = i
  BY <1>2 DEF After, Item
<1>3. /\ Clear(p) \in Step /\ Clear(p).kind = "draw" /\ Clear(p).panel = p
      /\ Clear(p).parts = Parts /\ Clear(p).what = Blank
  BY ItemIs, ContentHas DEF Clear, Draw
<1>4. After(i, Clear(p)) = AllBlank
  BY <1>3, AllBlankIs DEF After
<1> QED
  BY <1>1, <1>2, <1>3, <1>4

LEMMA RequestsServe ==
    ASSUME RunInv, NEW p \in Panels, Asks(p)
    PROVE  \E steps, parts, whole : Request(p, steps, parts, whole) /\ Serves(p, steps, parts, whole)
<1> DEFINE c == New(p)
<1>1. TypeOK /\ count[p] < MaxRequests
  BY DEF RunInv, Asks, Text, TwoLines, Pixels, Animate, AnimStop, ClearPanel, Release, Request
<1>2. c \in Content /\ Blank \in Content /\ Broken \in Content /\ {} \in SUBSET Parts /\ Parts \in SUBSET Parts
  BY <1>1, NewIs, ContentHas
<1>3. Middle \in SUBSET Parts /\ Areas \subseteq SUBSET Parts
  BY DisplayAssumption
<1>4. default' = [default EXCEPT ![p] = FALSE] \/ AnimStop(p)
  BY DEF Asks, Text, TwoLines, Pixels, Animate, ClearPanel, Release, Take
<1>5. anim' = anim \/ Stop(p)
  BY DEF Asks, Text, TwoLines, Pixels, Animate, AnimStop, ClearPanel, Release
<1> HIDE DEF c
\* One drawing in an area.
<1>6. ASSUME NEW kind \in {"draw", "start"}, NEW parts \in SUBSET Parts, ~AnimStop(p)
      PROVE  Serves(p, <<Item(kind, p, parts, c)>>, parts, FALSE)
  <2> DEFINE a == Item(kind, p, parts, c)
  <2>1. a \in Step /\ a.kind = kind /\ a.panel = p
    BY <1>2, <1>6, ItemIs
  <2>2. \A i \in Image : After(i, a) = Filled(i, parts, c)
    BY <1>2, <1>6, StepDoes
  <2> HIDE DEF a
  <2>3. /\ <<a>> \in Seq(Step) /\ Len(<<a>>) = 1 /\ <<a>>[1] = a
        /\ \A i : AfterAll(i, <<a>>) = After(i, a)
    BY <2>1, OneStep
  <2>4. Serves(p, <<a>>, parts, FALSE)
    BY <1>4, <1>5, <1>6, <2>1, <2>2, <2>3 DEF Serves, c
  <2> QED
    BY <2>4 DEF a
\* The panel is cleared, and then drawn in the middle.
<1>7. ASSUME NEW kind \in {"draw", "start"}, ~AnimStop(p)
      PROVE  Serves(p, <<Clear(p), Item(kind, p, Middle, c)>>, Middle, TRUE)
  <2> DEFINE a == Clear(p)
             b == Item(kind, p, Middle, c)
  <2>1. b \in Step /\ b.kind = kind /\ b.panel = p
    BY <1>2, <1>3, <1>7, ItemIs
  <2>2. a \in Step /\ a.kind = "draw" /\ a.panel = p /\ a.parts = Parts
    BY AllBlankIs, <1>2, StepDoes
  <2>3. \A i \in Image : After(i, a) = AllBlank
    BY <1>2, StepDoes
  <2>4. \A i \in Image : After(i, b) = Filled(i, Middle, c)
    BY <1>2, <1>3, <1>7, StepDoes
  <2> HIDE DEF a, b
  <2>5. /\ <<a, b>> \in Seq(Step) /\ Len(<<a, b>>) = 2 /\ <<a, b>>[1] = a /\ <<a, b>>[2] = b
        /\ <<a, b>> # <<>> /\ Head(<<a, b>>) = a
        /\ \A i : AfterAll(i, <<a, b>>) = After(After(i, a), b)
    BY <2>1, <2>2, TwoSteps
  <2>6. \A i \in Image : AfterAll(i, <<a, b>>) = Filled(AllBlank, Middle, c)
    BY <2>3, <2>4, <2>5, AllBlankIs
  <2>7. \A k \in 1 .. Len(<<a, b>>) : k = 1 \/ k = 2
    BY <2>5
  <2>8. \A k \in 1 .. Len(<<a, b>>) :
            <<a, b>>[k].panel = p /\ <<a, b>>[k].kind \in {"draw", "start"}
    BY <2>1, <2>2, <2>5, <2>7
  <2>9. Serves(p, <<a, b>>, Middle, TRUE)
    BY <1>3, <1>4, <1>5, <1>7, <2>2, <2>5, <2>6, <2>8 DEF Serves, c
  <2> QED
    BY <2>9 DEF a, b
\* The whole panel in one drawing.
<1>8. ASSUME ~AnimStop(p)
      PROVE  Serves(p, <<Draw(p, Parts, c)>>, Parts, TRUE)
  <2> DEFINE a == Draw(p, Parts, c)
  <2>1. a \in Step /\ a.kind = "draw" /\ a.panel = p /\ a.parts = Parts
    BY <1>2, ItemIs DEF Draw
  <2>2. \A i \in Image : After(i, a) = Filled(AllBlank, Parts, c)
    BY <1>2, StepDoes, FilledAll DEF Draw
  <2> HIDE DEF a
  <2>3. /\ <<a>> \in Seq(Step) /\ Len(<<a>>) = 1 /\ <<a>>[1] = a /\ <<a>> # <<>> /\ Head(<<a>>) = a
        /\ \A i : AfterAll(i, <<a>>) = After(i, a)
    BY <2>1, OneStep
  <2>4. Serves(p, <<a>>, Parts, TRUE)
    BY <1>2, <1>4, <1>5, <1>8, <2>1, <2>2, <2>3 DEF Serves, c
  <2> QED
    BY <2>4 DEF a
\* The whole panel is cleared.
<1>8a. ASSUME ~AnimStop(p)
      PROVE  Serves(p, <<Clear(p)>>, {}, TRUE)
  <2> DEFINE a == Clear(p)
  <2>1. a \in Step /\ a.kind = "draw" /\ a.panel = p /\ a.parts = Parts
    BY <1>2, AllBlankIs, StepDoes
  <2>2. \A i \in Image : After(i, a) = Filled(AllBlank, {}, c)
    BY <1>2, StepDoes, AllBlankIs, FilledNone
  <2> HIDE DEF a
  <2>3. /\ <<a>> \in Seq(Step) /\ Len(<<a>>) = 1 /\ <<a>>[1] = a /\ <<a>> # <<>> /\ Head(<<a>>) = a
        /\ \A i : AfterAll(i, <<a>>) = After(i, a)
    BY <2>1, OneStep
  <2>4. Serves(p, <<a>>, {}, TRUE)
    BY <1>2, <1>4, <1>5, <1>8a, <2>1, <2>2, <2>3 DEF Serves, c
  <2> QED
    BY <2>4 DEF a
\* Nothing to draw.
<1>9. Serves(p, <<>>, {}, FALSE)
  <2>1. \A i \in Image : AfterAll(i, <<>>) = Filled(i, {}, c)
    BY NoStep, FilledNone
  <2>2. \A k \in 1 .. Len(<<>>) : FALSE
    BY NoStep
  <2>3. default' = [default EXCEPT ![p] = FALSE] \/ default' = default
    BY <1>4 DEF AnimStop
  <2>4. <<>> \in Seq(Step) /\ Len(<<>>) <= 2
    BY NoStep
  <2> QED
    BY <1>2, <1>5, <2>1, <2>2, <2>3, <2>4 DEF Serves, c
\* A file that breaks off, and one that is read before it is drawn.
<1>10. ASSUME ~AnimStop(p)
       PROVE  Serves(p, <<Item("read", p, {}, Broken)>>, {}, FALSE)
  <2> DEFINE a == Item("read", p, {}, Broken)
  <2>1. a \in Step /\ a.kind = "read" /\ a.panel = p
    BY <1>2, ItemIs
  <2>2. \A i \in Image : After(i, a) = Filled(i, {}, c)
    BY <1>2, StepDoes, FilledNone
  <2> HIDE DEF a
  <2>3. /\ <<a>> \in Seq(Step) /\ Len(<<a>>) = 1 /\ <<a>>[1] = a
        /\ \A i : AfterAll(i, <<a>>) = After(i, a)
    BY <2>1, OneStep
  <2>4. Serves(p, <<a>>, {}, FALSE)
    BY <1>2, <1>4, <1>5, <1>10, <2>1, <2>2, <2>3 DEF Serves, c
  <2> QED
    BY <2>4 DEF a
<1>11. ASSUME NEW parts \in SUBSET Parts, ~AnimStop(p)
       PROVE  Serves(p, <<Item("read", p, {}, c), Item("start", p, parts, c)>>, parts, FALSE)
  <2> DEFINE a == Item("read", p, {}, c)
             b == Item("start", p, parts, c)
  <2>1. b \in Step /\ b.kind = "start" /\ b.panel = p
    BY <1>2, <1>11, ItemIs
  <2>2. a \in Step /\ a.kind = "read" /\ a.panel = p
    BY <1>2, ItemIs
  <2>3. \A i \in Image : After(i, a) = i
    BY <1>2, StepDoes
  <2>4. \A i \in Image : After(i, b) = Filled(i, parts, c)
    BY <1>2, <1>11, StepDoes
  <2> HIDE DEF a, b
  <2>5. /\ <<a, b>> \in Seq(Step) /\ Len(<<a, b>>) = 2 /\ <<a, b>>[1] = a /\ <<a, b>>[2] = b
        /\ \A i : AfterAll(i, <<a, b>>) = After(After(i, a), b)
    BY <2>1, <2>2, TwoSteps
  <2>6. \A i \in Image : AfterAll(i, <<a, b>>) = Filled(i, parts, c)
    BY <2>3, <2>4, <2>5
  <2>7. \A k \in 1 .. Len(<<a, b>>) : k = 1 \/ k = 2
    BY <2>5
  <2>8. \A k \in 1 .. Len(<<a, b>>) :
            <<a, b>>[k].panel = p /\ <<a, b>>[k].kind \in {"read", "start"}
    BY <2>1, <2>2, <2>5, <2>7
  <2>9. Serves(p, <<a, b>>, parts, FALSE)
    BY <1>4, <1>5, <1>11, <2>5, <2>6, <2>8 DEF Serves, c
  <2> QED
    BY <2>9 DEF a, b
\* A sub panel is cleared, and the board takes it back.
<1>12. ASSUME Release(p), p = "sub"
       PROVE  Serves(p, <<Clear(p), Item("release", p, {}, Blank)>>, {}, TRUE)
  <2> DEFINE a == Clear(p)
             b == Item("release", p, {}, Blank)
  <2>1. b \in Step /\ b.kind = "release" /\ b.panel = p
    BY <1>2, ItemIs
  <2>2. a \in Step /\ a.kind = "draw" /\ a.panel = p /\ a.parts = Parts
    BY AllBlankIs, <1>2, StepDoes
  <2>3. \A i \in Image : After(i, a) = AllBlank
    BY <1>2, StepDoes
  <2>4. \A i \in Image : After(i, b) = i
    BY <1>2, StepDoes
  <2> HIDE DEF a, b
  <2>5. /\ <<a, b>> \in Seq(Step) /\ Len(<<a, b>>) = 2 /\ <<a, b>>[1] = a /\ <<a, b>>[2] = b
        /\ <<a, b>> # <<>> /\ Head(<<a, b>>) = a
        /\ \A i : AfterAll(i, <<a, b>>) = After(After(i, a), b)
    BY <2>1, <2>2, TwoSteps
  <2>6. \A i \in Image : AfterAll(i, <<a, b>>) = Filled(AllBlank, {}, c)
    BY <2>3, <2>4, <2>5, AllBlankIs, FilledNone
  <2>7. \A k \in 1 .. Len(<<a, b>>) : k = 1 \/ k = 2
    BY <2>5
  <2>8. ~anim'["sub"].active
    BY <1>1, <1>12 DEF Release, Stop, TypeOK
  <2>9. \A k \in 1 .. Len(<<a, b>>) :
            /\ <<a, b>>[k].panel = p /\ <<a, b>>[k].kind # "frame"
            /\ <<a, b>>[k].kind = "release" => k = 2
    BY <2>1, <2>2, <2>5, <2>7
  <2>10. default' = [default EXCEPT ![p] = FALSE]
    BY <1>12 DEF Release, Take
  <2>11. Serves(p, <<a, b>>, {}, TRUE)
    BY <1>2, <1>5, <1>12, <2>2, <2>5, <2>6, <2>8, <2>9, <2>10 DEF Serves, c
  <2> QED
    BY <2>11 DEF a, b
<1>13. CASE AnimStop(p)
  BY <1>9, <1>13 DEF AnimStop
<1>14. CASE Text(p) /\ ~AnimStop(p)
  <2>1. PICK kind \in {"draw", "start"} :
            \/ Request(p, <<Clear(p), Item(kind, p, Middle, c)>>, Middle, TRUE)
            \/ \E parts \in Areas : Request(p, <<Item(kind, p, parts, c)>>, parts, FALSE)
    BY <1>14 DEF Text, c
  <2>2. CASE Request(p, <<Clear(p), Item(kind, p, Middle, c)>>, Middle, TRUE)
    BY <1>7, <1>14, <2>2
  <2>3. CASE \E parts \in Areas : Request(p, <<Item(kind, p, parts, c)>>, parts, FALSE)
    <3>1. PICK parts \in Areas : Request(p, <<Item(kind, p, parts, c)>>, parts, FALSE)
      BY <2>3
    <3>2. parts \in SUBSET Parts
      BY <1>3, <3>1
    <3>3. Serves(p, <<Item(kind, p, parts, c)>>, parts, FALSE)
      BY <1>6, <1>14, <3>2
    <3> QED
      BY <3>1, <3>3
  <2> QED
    BY <2>1, <2>2, <2>3
<1>15. CASE TwoLines(p) /\ ~AnimStop(p)
  <2>1. Serves(p, <<Draw(p, Parts, c)>>, Parts, TRUE)
    BY <1>8, <1>15
  <2>2. Request(p, <<Draw(p, Parts, c)>>, Parts, TRUE)
    BY <1>15 DEF TwoLines, c
  <2> QED
    BY <2>1, <2>2
<1>16. CASE Pixels(p) /\ ~AnimStop(p)
  <2>1. PICK parts \in Areas : Request(p, <<Draw(p, parts, c)>>, parts, FALSE)
    BY <1>16 DEF Pixels, c
  <2>2. parts \in SUBSET Parts
    BY <1>3, <2>1
  <2>3. Serves(p, <<Draw(p, parts, c)>>, parts, FALSE)
    BY <1>6, <1>16, <2>2 DEF Draw
  <2> QED
    BY <2>1, <2>3
<1>17. CASE Animate(p) /\ ~AnimStop(p)
  <2>1. CASE \E parts \in Areas, read \in {<<>>, <<Item("read", p, {}, c)>>} :
                 Request(p, read \o <<Item("start", p, parts, c)>>, parts, FALSE)
    <3>1. PICK parts \in Areas, read \in {<<>>, <<Item("read", p, {}, c)>>} :
                 Request(p, read \o <<Item("start", p, parts, c)>>, parts, FALSE)
      BY <2>1
    <3>2. <<>> \o <<Item("start", p, parts, c)>> = <<Item("start", p, parts, c)>>
      <4>1. <<Item("start", p, parts, c)>> \in Seq({Item("start", p, parts, c)})
        OBVIOUS
      <4> QED
        BY <4>1, ConcatEmptySeq
    <3>3. <<Item("read", p, {}, c)>> \o <<Item("start", p, parts, c)>>
            = <<Item("read", p, {}, c), Item("start", p, parts, c)>>
      BY TwoAre
    <3>4. parts \in SUBSET Parts
      BY <1>3, <3>1
    <3>5. CASE read = <<>>
      BY <1>6, <1>17, <3>1, <3>2, <3>4, <3>5
    <3>6. CASE read = <<Item("read", p, {}, c)>>
      BY <1>11, <1>17, <3>1, <3>3, <3>4, <3>6
    <3> QED
      BY <3>1, <3>5, <3>6
  <2>2. CASE Request(p, <<Item("read", p, {}, Broken)>>, {}, FALSE)
    BY <1>10, <1>17, <2>2
  <2>3. CASE Request(p, <<>>, {}, FALSE)
    BY <1>9, <2>3
  <2> QED
    BY <1>17, <2>1, <2>2, <2>3 DEF Animate, c
<1>18. CASE ClearPanel(p) /\ ~AnimStop(p)
  BY <1>18, <1>8a DEF ClearPanel
<1>19. CASE Release(p) /\ ~AnimStop(p)
  <2>1. CASE p = "sub"
    BY <1>12, <1>19, <2>1 DEF Release
  <2>2. CASE p # "sub"
    BY <1>19, <1>8a, <2>2 DEF Release
  <2> QED
    BY <2>1, <2>2
<1> QED
  BY <1>13, <1>14, <1>15, <1>16, <1>17, <1>18, <1>19 DEF Asks

LEMMA RequestRun ==
    ASSUME RunInv, NEW p \in Panels, NEW steps, NEW parts, NEW whole,
           Request(p, steps, parts, whole), Serves(p, steps, parts, whole)
    PROVE  RunInv'
<1>1. /\ TypeOK /\ ~Todo("ipc") /\ count[p] < MaxRequests
      /\ UNCHANGED <<fb, front, dirty, swap, wday, src, greeted, phase, day, lock, left, pen>>
      /\ steps \in Seq(Step) /\ parts \in SUBSET Parts /\ whole \in BOOLEAN
  BY DEF RunInv, Request, Serves, imageVars, scanVars, drawVars
<1>2. count' \in [Panels -> 0 .. MaxRequests]
  <2>1. count \in [Panels -> 0 .. MaxRequests] /\ count' = [count EXCEPT ![p] = @ + 1]
    BY <1>1 DEF TypeOK, Request
  <2>2. count[p] + 1 \in 0 .. MaxRequests
    BY <1>1, <2>1, DisplayAssumption
  <2> QED
    BY <2>1, <2>2
<1>3. job' \in [Tasks -> Seq(Step)] /\ job'["ipc"] = steps /\ job'["scan"] = job["scan"]
  BY <1>1, PanelsAre DEF Request, TypeOK
<1>4. ideal' \in [Panels -> Image]
  <2> DEFINE i == Filled(IF whole THEN AllBlank ELSE ideal[p], parts, New(p))
  <2>1. ideal \in [Panels -> Image] /\ ideal[p] \in Image /\ New(p) \in Content
    BY <1>1, NewIs DEF TypeOK
  <2>2. i \in Image
    BY <2>1, AllBlankIs, FilledType
  <2>3. ideal' = [ideal EXCEPT ![p] = i]
    BY DEF Request
  <2> HIDE DEF i
  <2> QED
    BY <2>1, <2>2, <2>3
<1>5. raced' \in [Panels -> BOOLEAN]
  <2>1. raced \in [Panels -> BOOLEAN]
    BY <1>1 DEF TypeOK
  <2>2. raced' = [raced EXCEPT ![p] = Overtakes(p) \/ (~whole /\ @)]
    BY DEF Request
  <2> QED
    BY <2>1, <2>2
<1>6. default' \in [Panels -> BOOLEAN]
  <2>1. default \in [Panels -> BOOLEAN]
    BY <1>1 DEF TypeOK
  <2>2. default' = [default EXCEPT ![p] = FALSE] \/ default' = default
    BY DEF Serves
  <2> QED
    BY <2>1, <2>2
<1>7. anim' \in [Panels -> [active : BOOLEAN, parts : SUBSET Parts]]
  <2>1. anim \in [Panels -> [active : BOOLEAN, parts : SUBSET Parts]]
    BY <1>1 DEF TypeOK
  <2>2. CASE Stop(p)
    <3> DEFINE a == [anim[p] EXCEPT !.active = FALSE]
    <3>1. anim[p] \in [active : BOOLEAN, parts : SUBSET Parts]
      BY <2>1
    <3>2. a \in [active : BOOLEAN, parts : SUBSET Parts]
      BY <3>1
    <3>3. anim' = [anim EXCEPT ![p] = a]
      BY <2>2 DEF Stop
    <3> HIDE DEF a
    <3> QED
      BY <2>1, <3>2, <3>3
  <2> QED
    BY <2>1, <2>2 DEF Serves
<1>8. TypeOK'
  BY <1>1, <1>2, <1>3, <1>4, <1>5, <1>6, <1>7 DEF TypeOK
<1>9. ServerOK'
  <2>1. Len(steps) \in Nat
    BY <1>1, LenProperties
  <2>2. \A k \in 1 .. Len(steps) : 1 \in 1 .. Len(steps)
    BY <2>1
  <2> QED
    BY <1>3, <2>1, <2>2 DEF ServerOK, Serves
<1>10. ScannerOK'
  BY <1>3 DEF RunInv, ScannerOK, Todo, First
<1>11. lock # "ipc"
  BY <1>1, PanelsAre DEF RunInv, LockOK
<1>12. LockOK'
  BY <1>1, <1>3, <1>11, PanelsAre DEF RunInv, LockOK, TypeOK, Todo, First
<1> QED
  BY <1>8, <1>9, <1>10, <1>12 DEF RunInv

\* The scanner decides what to draw.
LEMMA DecideRun ==
    ASSUME RunInv, NEW p \in Panels, NEW kind \in {"draw", "frame"},
           NEW sparts \in SUBSET Parts, NEW what \in Content,
           NEW parts \in SUBSET Parts, NEW c \in Content, ScanFree,
           Decide(p, Item(kind, p, sparts, what), parts, c),
           UNCHANGED <<anim, lock>>
    PROVE  /\ job' \in [Tasks -> Seq(Step)] /\ ideal' \in [Panels -> Image]
           /\ job'["ipc"] = job["ipc"] /\ job'["scan"] = <<Item(kind, p, sparts, what)>>
           /\ ServerOK' /\ ScannerOK' /\ LockOK'
<1> DEFINE s == Item(kind, p, sparts, what)
<1>1. s \in Step /\ s.kind = kind
  BY ItemIs
<1> HIDE DEF s
<1>2. <<s>> \in Seq(Step) /\ Len(<<s>>) = 1 /\ Head(<<s>>) = s
  BY <1>1, OneStep
<1>3. TypeOK /\ job' = [job EXCEPT !["scan"] = <<s>>]
  BY DEF RunInv, Decide, s
<1>4. job' \in [Tasks -> Seq(Step)] /\ job'["ipc"] = job["ipc"] /\ job'["scan"] = <<s>>
  BY <1>2, <1>3, PanelsAre DEF TypeOK
<1>5. ideal' \in [Panels -> Image]
  <2> DEFINE i == Filled(ideal[p], parts, c)
  <2>1. ideal \in [Panels -> Image] /\ i \in Image
    BY <1>3, FilledType DEF TypeOK
  <2>2. ideal' = [ideal EXCEPT ![p] = i]
    BY DEF Decide
  <2> HIDE DEF i
  <2> QED
    BY <2>1, <2>2
<1>6. ServerOK'
  BY <1>4 DEF RunInv, ServerOK
<1>7. ScannerOK'
  BY <1>1, <1>2, <1>4 DEF ScannerOK, Todo, First
<1>8. lock = None
  BY <1>3, PanelsAre DEF RunInv, LockOK, ScanFree, TypeOK
<1>9. LockOK'
  BY <1>8 DEF LockOK
<1> QED
  BY <1>4, <1>5, <1>6, <1>7, <1>9 DEF s

LEMMA MoveAnimRun == ASSUME RunInv, NEW p \in Panels, MoveAnim(p) PROVE RunInv'
<1>1. /\ TypeOK /\ ScanFree /\ phase' \in {"sleep", "main", "sub", "greet", "day"}
      /\ UNCHANGED <<fb, front, dirty, swap, default, wday, anim, src, greeted, day, lock, left,
                     pen, count, raced>>
  BY DEF RunInv, MoveAnim, ScanOnly, imageVars, drawVars
<1>2. CASE Nothing
  <2>1. UNCHANGED <<job, ideal>>
    BY <1>2 DEF Nothing
  <2>2. TypeOK'
    BY <1>1, <2>1 DEF TypeOK
  <2> QED
    BY <1>1, <2>1, <2>2 DEF RunInv, ServerOK, ScannerOK, LockOK, Todo, First
<1>3. CASE Decide(p, Item("frame", p, {}, Blank), anim[p].parts, src[p])
  <2>1. anim[p].parts \in SUBSET Parts /\ src[p] \in Content /\ Blank \in Content
    BY <1>1, PanelIs, ContentHas
  <2>2. /\ job' \in [Tasks -> Seq(Step)] /\ ideal' \in [Panels -> Image]
        /\ ServerOK' /\ ScannerOK' /\ LockOK'
    BY <1>1, <1>3, <2>1, DecideRun
  <2>3. TypeOK'
    BY <1>1, <2>2 DEF TypeOK
  <2> QED
    BY <2>2, <2>3 DEF RunInv
<1> QED
  BY <1>2, <1>3 DEF MoveAnim

LEMMA GreetRun == ASSUME RunInv, Greet PROVE RunInv'
<1>1. /\ TypeOK /\ ScanFree /\ phase' \in {"sleep", "main", "sub", "greet", "day"}
      /\ UNCHANGED <<fb, front, dirty, swap, default, wday, anim, src, day, lock, left,
                     pen, count, raced>>
      /\ greeted' \in BOOLEAN
  BY DEF RunInv, Greet, ScanOnly, imageVars, drawVars, TypeOK
<1>2. CASE Nothing
  <2>1. UNCHANGED <<job, ideal>>
    BY <1>2 DEF Nothing
  <2>2. TypeOK'
    BY <1>1, <2>1 DEF TypeOK
  <2> QED
    BY <1>1, <2>1, <2>2 DEF RunInv, ServerOK, ScannerOK, LockOK, Todo, First
<1>3. CASE Decide("main", Draw("main", Middle, Greeting), Middle, Greeting)
  <2>1. Middle \in SUBSET Parts /\ Greeting \in Content /\ "main" \in Panels
    BY DisplayAssumption, PanelsAre, ContentHas
  <2>2. /\ job' \in [Tasks -> Seq(Step)] /\ ideal' \in [Panels -> Image]
        /\ ServerOK' /\ ScannerOK' /\ LockOK'
    BY <1>1, <1>3, <2>1, DecideRun DEF Draw
  <2>3. TypeOK'
    BY <1>1, <2>2 DEF TypeOK
  <2> QED
    BY <2>2, <2>3 DEF RunInv
<1> QED
  BY <1>2, <1>3 DEF Greet

LEMMA ShowDayRun == ASSUME RunInv, ShowDay PROVE RunInv'
<1>1. /\ TypeOK /\ ScanFree /\ phase' \in {"sleep", "main", "sub", "greet", "day"}
      /\ UNCHANGED <<fb, front, dirty, swap, default, anim, src, greeted, day, lock, left,
                     pen, count, raced>>
  BY DEF RunInv, ShowDay, ScanOnly, imageVars, drawVars
<1>2. CASE Nothing /\ UNCHANGED wday
  <2>1. UNCHANGED <<job, ideal, wday>>
    BY <1>2 DEF Nothing
  <2>2. TypeOK'
    BY <1>1, <2>1 DEF TypeOK
  <2> QED
    BY <1>1, <2>1, <2>2 DEF RunInv, ServerOK, ScannerOK, LockOK, Todo, First
<1>3. CASE wday' = day /\ Decide("sub", Draw("sub", Middle, Day(day)), Middle, Day(day))
  <2>1. Middle \in SUBSET Parts /\ Day(day) \in Content /\ "sub" \in Panels
    BY <1>1, DisplayAssumption, PanelsAre, ContentHas DEF TypeOK
  <2>2. /\ job' \in [Tasks -> Seq(Step)] /\ ideal' \in [Panels -> Image]
        /\ ServerOK' /\ ScannerOK' /\ LockOK'
    BY <1>1, <1>3, <2>1, DecideRun DEF Draw
  <2>3. TypeOK'
    BY <1>1, <1>3, <2>2 DEF TypeOK
  <2> QED
    BY <2>2, <2>3 DEF RunInv
<1> QED
  BY <1>2, <1>3 DEF ShowDay

LEMMA TickRun == ASSUME RunInv, Tick \/ NextDay \/ UNCHANGED vars PROVE RunInv'
<1>1. /\ UNCHANGED <<fb, front, dirty, swap, default, wday, anim, src, greeted, lock, left, pen,
                     job, count, ideal, raced>>
      /\ TypeOK
  BY DEF RunInv, Tick, NextDay, vars, Nothing, ScanOnly, imageVars, boardVars, scanVars, drawVars, History
<1>2. phase' \in {"sleep", "main", "sub", "greet", "day"} /\ day' \in Days
  <2>1. day \in Days /\ phase \in {"sleep", "main", "sub", "greet", "day"}
    BY <1>1 DEF TypeOK
  <2>2. CASE Tick
    BY <2>1, <2>2 DEF Tick, ScanOnly
  <2>3. CASE NextDay
    BY <2>1, <2>3, DisplayAssumption DEF NextDay, scanVars, Days
  <2>4. CASE UNCHANGED vars
    BY <2>1, <2>4 DEF vars, scanVars
  <2> QED
    BY <2>2, <2>3, <2>4
<1>3. TypeOK'
  BY <1>1, <1>2 DEF TypeOK
<1> QED
  BY <1>1, <1>3 DEF RunInv, ServerOK, ScannerOK, LockOK, Todo, First

LEMMA EndOfImageRun == ASSUME RunInv, EndOfImage PROVE RunInv'
<1>1. /\ UNCHANGED <<fb, default, wday, anim, src, greeted, phase, day, lock, left, pen,
                     job, count, ideal>>
      /\ TypeOK
  BY DEF RunInv, EndOfImage, boardVars, scanVars, drawVars
<1>2. front' \in [Panels -> {0, 1}]
  BY <1>1, PanelIs DEF EndOfImage
<1>3. dirty' \in [Panels -> BOOLEAN] /\ swap' \in [Panels -> BOOLEAN] /\ raced' \in [Panels -> BOOLEAN]
  BY DEF EndOfImage
<1>4. TypeOK'
  BY <1>1, <1>2, <1>3 DEF TypeOK
<1> QED
  BY <1>1, <1>4 DEF RunInv, ServerOK, ScannerOK, LockOK, Todo, First

LEMMA NextRun == RunInv /\ [Next]_vars => RunInv'
<1> SUFFICES ASSUME RunInv, [Next]_vars PROVE RunInv'
  OBVIOUS
<1>1. ASSUME NEW p \in Panels, Asks(p) PROVE RunInv'
  BY <1>1, RequestsServe, RequestRun
<1>2. CASE Server
  BY <1>2, PanelsAre, BeginRun, FillPartRun, CommitRun, ReadFileRun, GiveBackRun DEF Server, Work
<1>3. CASE Scanner
  BY <1>3, PanelsAre, BeginRun, FillPartRun, CommitRun, TickRun, MoveAnimRun, GreetRun, ShowDayRun
     DEF Scanner, Work
<1> QED
  BY <1>1, <1>2, <1>3, TickRun, EndOfImageRun DEF Next, Asks

LEMMA RunsKeep == Spec => []RunInv
<1> QED
  BY InitRun, NextRun, PTL DEF Spec

-----------------------------------------------------------------------------
(* The images.                                                             *)

LEMMA AfterType ==
    ASSUME NEW i \in Image, NEW s \in Step PROVE After(i, s) \in Image
<1>1. s.what \in Content
  BY DEF Step
<1> QED
  BY <1>1, FilledType DEF After

\* The first step of the server, and then the others.
LEMMA AfterFirst ==
    ASSUME NEW i \in Image, NEW j \in Seq(Step), j # <<>>, Len(j) <= 2
    PROVE  AfterAll(i, j) = AfterAll(After(i, Head(j)), Tail(j))
<1>1. \/ Tail(j) = <<>>
      \/ Tail(j) # <<>> /\ Tail(Tail(j)) = <<>>
  BY TailOfTwo
<1> QED
  BY <1>1 DEF AfterAll

\* A panel that is drawn anew forgets what it was.
LEMMA RenewedIs ==
    ASSUME RunInv, NEW p \in Panels, Renews(p), NEW i, NEW k
    PROVE  AfterAll(i, Ahead) = AfterAll(k, Ahead)
<1>1. /\ Ahead = job["ipc"] /\ Ahead # <<>> /\ Head(Ahead).kind = "draw"
      /\ Head(Ahead).parts = Parts
  BY DEF Renews, Ahead, ServerOn, Todo, First
<1>2. After(i, Head(Ahead)) = After(k, Head(Ahead))
  BY <1>1, FilledAll DEF After
<1> QED
  BY <1>1, <1>2 DEF AfterAll

\* A step that changes nothing of a panel keeps it.
LEMMA PanelKept ==
    ASSUME NEW p \in Panels, PanelOK(p),
           dirty'[p] = dirty[p], swap'[p] = swap[p], raced'[p] = raced[p], ideal'[p] = ideal[p],
           Base(p)' = Base(p), Busy(p)' <=> Busy(p),
           ServerOn(p)' <=> ServerOn(p), Renews(p)' <=> Renews(p),
           ServerOn(p) => Ahead' = Ahead,
           Overtakes(p)' <=> Overtakes(p),
           Overtakes(p) => /\ job'["scan"] = job["scan"] /\ anim'[p] = anim[p]
                           /\ src'[p] = src[p]
    PROVE  PanelOK(p)'
<1>1. (dirty[p] /\ ~Busy(p) => swap[p])'
  BY DEF PanelOK
<1>2. (~raced[p] /\ ~Renews(p) /\ (swap[p] \/ Busy(p)) => dirty[p])'
  BY DEF PanelOK
<1>3. ASSUME ~raced'[p]
      PROVE  IF Overtakes(p)' THEN ~ServerOn(p)' /\ ideal'[p] = AfterScan(Base(p), p)'
             ELSE ideal'[p] = IF ServerOn(p)' THEN AfterAll(Base(p), Ahead)' ELSE Base(p)'
  <2>1. ~raced[p]
    BY <1>3
  <2>2. CASE Overtakes(p)
    <3>1. AfterScan(Base(p), p)' = AfterScan(Base(p), p)
      BY <2>2 DEF AfterScan, First
    <3> QED
      BY <2>1, <2>2, <3>1 DEF PanelOK
  <2>3. CASE ~Overtakes(p) /\ ServerOn(p)
    <3>1. AfterAll(Base(p), Ahead)' = AfterAll(Base(p), Ahead)
      BY <2>3 DEF AfterAll, After
    <3> QED
      BY <2>1, <2>3, <3>1 DEF PanelOK
  <2>4. CASE ~Overtakes(p) /\ ~ServerOn(p)
    BY <2>1, <2>4 DEF PanelOK
  <2> QED
    BY <2>2, <2>3, <2>4
<1> QED
  BY <1>1, <1>2, <1>3 DEF PanelOK

LEMMA BaseKept ==
    ASSUME NEW p \in Panels, fb'[p] = fb[p], front'[p] = front[p], dirty'[p] = dirty[p],
           Busy(p)' <=> Busy(p), Busy(p) => left' = left /\ pen' = pen
    PROVE  Base(p)' = Base(p)
<1>1. Begun(p)' = Begun(p) /\ Back(p)' = Back(p)
  BY DEF Begun, Back
<1>2. CASE Busy(p)
  BY <1>1, <1>2 DEF Base, Filled, Back
<1>3. CASE ~Busy(p)
  BY <1>1, <1>3 DEF Base
<1> QED
  BY <1>2, <1>3

\* A step that leaves the lock, the jobs and the images as they are.
LEMMA StillKept ==
    ASSUME NEW p \in Panels, PanelOK(p),
           UNCHANGED <<fb, front, dirty, swap, raced, ideal, left, pen, lock, job, anim, src>>
    PROVE  PanelOK(p)'
<1>1. /\ (Busy(p)' <=> Busy(p)) /\ (ServerOn(p)' <=> ServerOn(p)) /\ (Renews(p)' <=> Renews(p))
      /\ (Overtakes(p)' <=> Overtakes(p))
      /\ Ahead' = Ahead
  BY DEF Busy, ServerOn, Renews, Overtakes, Ahead, Todo, First
<1>2. Base(p)' = Base(p)
  BY <1>1, BaseKept
<1> QED
  BY <1>1, <1>2, PanelKept

LEMMA InitImage == Init => ImageInv
<1> SUFFICES ASSUME Init PROVE ImageInv
  OBVIOUS
<1>1. RunInv
  BY InitRun
<1>2. ASSUME NEW p \in Panels PROVE PanelOK(p)
  <2>1. ~Todo("ipc") /\ ~Todo("scan") /\ lock = None
    BY PanelsAre DEF Init, Todo
  <2>2. ~Busy(p) /\ ~ServerOn(p) /\ ~Overtakes(p)
    BY <2>1 DEF Busy, ServerOn, Overtakes
  <2>3. Base(p) = ideal[p]
    <3>1. front[p] = 0 /\ (dirty[p] <=> p = "main") /\ ideal = AtStart
      BY DEF Init
    <3>2. fb[p] = [i \in {0, 1} |-> IF i = 1 THEN AtStart[p] ELSE AllBlank]
      BY DEF Init
    <3>3. fb[p][1] = AtStart[p] /\ fb[p][0] = AllBlank
      BY <3>2
    <3>4. p # "main" => AtStart[p] = AllBlank
      BY DEF AtStart
    <3> QED
      BY <2>2, <3>1, <3>3, <3>4 DEF Base, Begun, Back
  <2>4. swap[p] = dirty[p]
    BY DEF Init
  <2> QED
    BY <2>2, <2>3, <2>4 DEF PanelOK
<1>3. DayOK
  BY PanelsAre DEF Init, DayOK, Still, ServerOn, Todo, Scrolls
<1> QED
  BY <1>2, <1>3 DEF ImageInv

-----------------------------------------------------------------------------
(* The drawings.                                                           *)

LEMMA BeginImage == ASSUME RunInv, ImageInv, NEW t \in Tasks, Begin(t) PROVE ImageInv'
<1>1. PICK s, p : s = First(t) /\ p = s.panel
  OBVIOUS
<1>2. /\ TypeOK /\ Todo(t) /\ lock = None /\ lock' = t /\ job' = job
      /\ s.kind \in {"draw", "start", "frame"} /\ p \in Panels
  BY <1>1, FirstIs DEF RunInv, Begin, MayRun
<1>3. /\ fb' = [fb EXCEPT ![p][Back(p)] = Begun(p)] /\ dirty' = [dirty EXCEPT ![p] = TRUE]
      /\ UNCHANGED <<front, swap, default, wday, greeted, phase, day, count, ideal, raced>>
  BY <1>1 DEF Begin, StartImage, scanVars, History
<1>4. \/ s.kind = "start" /\ left' = s.parts /\ pen' = s.what
         /\ anim' = [anim EXCEPT ![p] = [active |-> TRUE, parts |-> s.parts]]
         /\ src' = [src EXCEPT ![p] = s.what]
      \/ s.kind = "draw" /\ left' = s.parts /\ pen' = s.what /\ UNCHANGED <<anim, src>>
      \/ s.kind = "frame" /\ left' = anim[p].parts /\ pen' = src[p] /\ UNCHANGED <<anim, src>>
  BY <1>1 DEF Begin
<1>5. t = "ipc" => s.kind # "frame" /\ job["ipc"] \in Seq(Step) /\ job["ipc"] # <<>>
                   /\ Len(job["ipc"]) <= 2 /\ s = Head(job["ipc"])
  BY <1>1, <1>2, FirstIs DEF RunInv, ServerOK, Todo, First
<1>6. t = "scan" => s.kind # "start"
  BY <1>1, <1>2 DEF RunInv, ScannerOK
<1>7. None # t
  BY PanelsAre
<1>8. ~Busy(p) /\ Busy(p)'
  BY <1>1, <1>2, <1>7 DEF Busy, First
<1>9. ASSUME NEW q \in Panels, q # p PROVE PanelOK(q)'
  <2>1. fb'[q] = fb[q] /\ dirty'[q] = dirty[q]
    BY <1>2, <1>3, <1>9 DEF TypeOK
  <2>2. ~Busy(q) /\ ~Busy(q)'
    BY <1>1, <1>2, <1>9 DEF Busy, First
  <2>3. Base(q)' = Base(q)
    BY <1>3, <2>1, <2>2, BaseKept
  <2>4. anim'[q] = anim[q] /\ src'[q] = src[q]
    BY <1>2, <1>4, <1>9 DEF TypeOK
  <2>5. ServerOn(q)' <=> ServerOn(q)
    BY <1>2 DEF ServerOn, Todo, First
  <2>6. ServerOn(q) => t # "ipc"
    BY <1>1, <1>2, <1>9 DEF ServerOn, First
  <2>7. ServerOn(q) => Ahead' = Ahead
    BY <1>2, <1>7, <2>6, PanelsAre DEF Ahead
  <2>8. Renews(q)' <=> Renews(q)
    BY <1>2, <1>7, <2>5, <2>6, PanelsAre DEF Renews, First
  <2>9. Overtakes(q)' <=> Overtakes(q)
    BY <1>1, <1>2, <1>9, PanelsAre DEF Overtakes, Todo, First
  <2>10. PanelOK(q)
    BY DEF ImageInv
  <2> QED
    BY <1>2, <1>3, <2>1, <2>2, <2>3, <2>4, <2>5, <2>7, <2>8, <2>9, <2>10, PanelKept
<1>10. PanelOK(p)'
  <2>1. PanelOK(p) /\ dirty'[p] /\ ideal'[p] = ideal[p] /\ Base(p) = Begun(p)
        /\ (raced'[p] <=> raced[p])
    BY <1>2, <1>3, <1>8 DEF ImageInv, TypeOK, Base
  <2>2. Base(p)' = Filled(Begun(p), left', pen')
    <3>1. Back(p)' = Back(p) /\ Back(p) \in {0, 1}
      BY <1>2, <1>3, PanelIs DEF Back
    <3>2. fb'[p][Back(p)] = Begun(p)
      BY <1>2, <1>3, <3>1 DEF TypeOK
    <3> QED
      BY <1>8, <3>1, <3>2 DEF Base, Filled
  <2>3. ServerOn(p)' <=> ServerOn(p)
    BY <1>2 DEF ServerOn, Todo, First
  <2>4. CASE t = "scan" /\ ~raced[p]
    <3>1. Overtakes(p) /\ ~Overtakes(p)'
      BY <1>1, <1>2, <1>7, <2>4 DEF Overtakes, Todo, First
    <3>2. ~ServerOn(p) /\ ideal[p] = AfterScan(Begun(p), p)
      BY <2>1, <2>4, <3>1 DEF PanelOK
    <3>3. AfterScan(Begun(p), p) = Filled(Begun(p), left', pen')
      BY <1>1, <1>4, <1>6, <2>4 DEF AfterScan
    <3> QED
      BY <1>8, <2>1, <2>2, <2>3, <3>1, <3>2, <3>3 DEF PanelOK
  <2>5. CASE t = "ipc" /\ ~raced[p]
    <3>1. ServerOn(p) /\ (Overtakes(p)' <=> Overtakes(p))
      BY <1>1, <1>2, <1>7, <2>5, PanelsAre DEF ServerOn, Overtakes, Todo, First
    <3>2. ~Overtakes(p) /\ ideal[p] = AfterAll(Begun(p), Ahead) /\ Ahead = job["ipc"]
          /\ Ahead' = Tail(job["ipc"])
      BY <1>2, <1>7, <2>1, <2>5, <3>1 DEF PanelOK, Ahead
    <3>3. Begun(p) \in Image
      BY <1>2, PanelIs
    <3>4. After(Begun(p), s) = Filled(Begun(p), left', pen')
      BY <1>2, <1>4, <1>5, <2>5 DEF After
    <3>5. ideal[p] = AfterAll(Filled(Begun(p), left', pen'), Tail(job["ipc"]))
      BY <1>5, <2>5, <3>2, <3>3, <3>4, AfterFirst
    <3>6. AfterAll(Base(p), Ahead)' = AfterAll(Filled(Begun(p), left', pen'), Tail(job["ipc"]))
      BY <2>2, <3>2 DEF AfterAll, After
    <3> QED
      BY <1>8, <2>1, <2>3, <3>1, <3>2, <3>5, <3>6 DEF PanelOK
  <2>6. CASE raced[p]
    BY <1>8, <2>1, <2>6 DEF PanelOK
  <2> QED
    BY <2>4, <2>5, <2>6, PanelsAre
<1>11. DayOK'
  <2>1. ServerOn("sub")' <=> ServerOn("sub")
    BY <1>2 DEF ServerOn, Todo, First
  <2>2. CASE anim' = anim
    BY <1>3, <2>1, <2>2 DEF ImageInv, DayOK
  <2>3. CASE s.kind = "start" /\ p = "sub"
    <3>1. ServerOn("sub")
      BY <1>1, <1>2, <1>6, <2>3, PanelsAre DEF ServerOn
    <3> QED
      BY <1>3, <3>1 DEF ImageInv, DayOK
  <2>4. CASE s.kind = "start" /\ p # "sub"
    <3>1. anim'["sub"] = anim["sub"]
      BY <1>2, <1>4, <2>4, PanelsAre DEF TypeOK
    <3> QED
      BY <1>3, <2>1, <3>1 DEF ImageInv, DayOK
  <2> QED
    BY <1>4, <2>2, <2>3, <2>4
<1> QED
  BY <1>9, <1>10, <1>11 DEF ImageInv

LEMMA FillPartImage == ASSUME RunInv, ImageInv, NEW t \in Tasks, FillPart(t) PROVE ImageInv'
<1>1. PICK r \in left : /\ fb' = [fb EXCEPT ![First(t).panel][Back(First(t).panel)][r] = pen]
                        /\ left' = left \ {r}
  BY DEF FillPart
<1>2. PICK p : p = First(t).panel
  OBVIOUS
<1>3. /\ TypeOK /\ Todo(t) /\ p \in Panels /\ lock = t /\ left \subseteq Parts
  BY <1>2, PanelsAre, FirstIs DEF RunInv, FillPart, LockOK, TypeOK
<1>4. UNCHANGED <<front, dirty, swap, default, wday, anim, src, greeted, phase, day, lock, pen,
                  job, count, ideal, raced>>
  BY DEF FillPart, boardVars, scanVars, History
<1>5. ASSUME NEW q \in Panels PROVE PanelOK(q)'
  <2>1. /\ (Busy(q)' <=> Busy(q)) /\ (ServerOn(q)' <=> ServerOn(q)) /\ (Renews(q)' <=> Renews(q))
        /\ (Overtakes(q)' <=> Overtakes(q))
        /\ Ahead' = Ahead
    BY <1>4 DEF Busy, ServerOn, Renews, Overtakes, Ahead, Todo, First
  <2>2. Busy(q) <=> q = p
    BY <1>2, <1>3, PanelsAre DEF Busy
  <2>3. Base(q)' = Base(q)
    <3>1. CASE q # p
      <4>1. fb'[q] = fb[q]
        BY <1>1, <1>2, <1>3, <3>1 DEF TypeOK
      <4> QED
        BY <1>4, <2>1, <2>2, <3>1, <4>1, BaseKept
    <3>2. CASE q = p
      <4> DEFINE b == Back(p)
      <4>1. b \in {0, 1} /\ b' = b /\ fb[p] \in [{0, 1} -> Image] /\ fb[p][b] \in Image
        BY <1>3, <1>4, PanelIs DEF TypeOK, Back
      <4>2. fb'[p][b] = [fb[p][b] EXCEPT ![r] = pen]
        BY <1>1, <1>2, <1>3, <4>1 DEF TypeOK
      <4>3. Base(p) = Filled(fb[p][b], left, pen)
        BY <2>2, <3>2 DEF Base
      <4>4. Base(p)' = Filled(fb'[p][b], left', pen)
        BY <1>4, <2>1, <2>2, <3>2, <4>1 DEF Base, Filled
      <4> HIDE DEF b
      <4>5. ASSUME NEW x \in Parts
            PROVE  Filled(fb'[p][b], left', pen)[x] = Filled(fb[p][b], left, pen)[x]
        BY <1>1, <1>3, <4>1, <4>2 DEF Filled, Image
      <4>6. Filled(fb'[p][b], left', pen) = Filled(fb[p][b], left, pen)
        BY <4>5 DEF Filled
      <4> QED
        BY <3>2, <4>3, <4>4, <4>6
    <3> QED
      BY <3>1, <3>2
  <2>4. PanelOK(q)
    BY DEF ImageInv
  <2> QED
    BY <1>4, <2>1, <2>3, <2>4, PanelKept
<1>6. DayOK'
  BY <1>4 DEF ImageInv, DayOK, ServerOn, Todo, First
<1> QED
  BY <1>5, <1>6 DEF ImageInv

LEMMA CommitImage == ASSUME RunInv, ImageInv, NEW t \in Tasks, Commit(t) PROVE ImageInv'
<1>1. PICK s, p : s = First(t) /\ p = s.panel
  OBVIOUS
<1>2. /\ TypeOK /\ Todo(t) /\ p \in Panels /\ Done(t) /\ lock = t /\ left = {}
      /\ s.kind \in {"draw", "start", "frame"}
  BY <1>1, PanelsAre, FirstIs DEF RunInv, Commit, LockOK
<1>3. /\ UNCHANGED <<fb, front, dirty, default, wday, anim, src, greeted, phase, day, left,
                     count, ideal, raced>>
      /\ swap' = [swap EXCEPT ![p] = TRUE] /\ lock' = None
  BY <1>1 DEF Commit, boardVars, scanVars, History
<1>4. /\ job'[t] = Tail(job[t]) /\ \A u \in Tasks \ {t} : job'[u] = job[u]
      /\ t = "scan" => job'["scan"] = <<>>
  BY <1>2, DoneRun
<1>5. t = "ipc" => /\ \/ job'["ipc"] = <<>>
                      \/ job'["ipc"] # <<>> /\ First("ipc")'.panel = p
                   /\ job["ipc"][1] = s
  <2> SUFFICES ASSUME t = "ipc" PROVE /\ \/ job'["ipc"] = <<>>
                                         \/ job'["ipc"] # <<>> /\ First("ipc")'.panel = p
                                      /\ job["ipc"][1] = s
    OBVIOUS
  <2>1. job["ipc"][1] = s /\ job["ipc"] \in Seq(Step) /\ job["ipc"] # <<>> /\ Len(job["ipc"]) <= 2
    BY <1>1, <1>2, FirstIs DEF RunInv, ServerOK, Todo
  <2>2. CASE Tail(job["ipc"]) = <<>>
    BY <1>4, <2>1, <2>2
  <2>3. CASE Tail(job["ipc"]) # <<>>
    <3>1. Len(job["ipc"]) = 2 /\ Head(Tail(job["ipc"])) = job["ipc"][2]
      BY <2>1, <2>3, TailOfTwo
    <3>2. job["ipc"][2].panel = job["ipc"][1].panel
      BY <3>1 DEF RunInv, ServerOK
    <3>3. First("ipc")' = job["ipc"][2]
      BY <1>4, <3>1 DEF First
    <3> QED
      BY <1>1, <1>4, <2>1, <2>3, <3>2, <3>3
  <2> QED
    BY <2>2, <2>3
<1>6. Busy(p) /\ \A q \in Panels : ~Busy(q)'
  BY <1>1, <1>2, <1>3, PanelsAre DEF Busy
<1>7. None # t /\ t \in {"ipc", "scan"}
  BY PanelsAre
<1>8. ASSUME NEW q \in Panels
      PROVE  Overtakes(q)' <=> Overtakes(q)
  <2>1. CASE t = "scan"
    BY <1>2, <1>4, <2>1 DEF Overtakes, Todo
  <2>2. CASE t = "ipc"
    BY <1>2, <1>3, <1>4, <2>2, PanelsAre DEF Overtakes, Todo, First
  <2> QED
    BY <1>7, <2>1, <2>2
<1>9. ASSUME NEW q \in Panels, q # p PROVE PanelOK(q)'
  <2>1. ~Busy(q)
    BY <1>1, <1>2, <1>9 DEF Busy
  <2>2. Base(q)' = Base(q) /\ swap'[q] = swap[q]
    BY <1>2, <1>3, <1>6, <1>9, <2>1, BaseKept DEF TypeOK
  <2>3. CASE t = "ipc"
    <3>1. ~ServerOn(q) /\ ~ServerOn(q)'
      BY <1>1, <1>2, <1>5, <1>9, <2>3 DEF ServerOn, Todo, First
    <3>2. ~Renews(q) /\ ~Renews(q)'
      BY <3>1 DEF Renews
    <3>3. Overtakes(q) => job'["scan"] = job["scan"]
      BY <1>4, <2>3, PanelsAre
    <3>4. PanelOK(q)
      BY DEF ImageInv
    <3> QED
      BY <1>3, <1>6, <1>8, <2>1, <2>2, <3>1, <3>2, <3>3, <3>4, PanelKept
  <2>4. CASE t = "scan"
    <3>1. (ServerOn(q)' <=> ServerOn(q)) /\ Ahead' = Ahead /\ (Renews(q)' <=> Renews(q))
      BY <1>2, <1>3, <1>4, <2>4, PanelsAre DEF ServerOn, Ahead, Renews, Todo, First
    <3>2. ~Overtakes(q)
      BY <1>2, <2>4 DEF Overtakes
    <3>3. PanelOK(q)
      BY DEF ImageInv
    <3> QED
      BY <1>3, <1>6, <1>8, <2>1, <2>2, <3>1, <3>2, <3>3, PanelKept
  <2> QED
    BY <1>7, <2>3, <2>4
<1>10. PanelOK(p)'
  <2>1. /\ PanelOK(p) /\ swap'[p] /\ ideal'[p] = ideal[p] /\ (raced'[p] <=> raced[p])
        /\ (dirty'[p] <=> dirty[p]) /\ Base(p) = fb[p][Back(p)]
    <3>1. fb[p][Back(p)] \in Image
      BY <1>2, PanelIs
    <3> QED
      BY <1>2, <1>3, <1>6, <3>1, FilledNone DEF ImageInv, TypeOK, Base
  <2>2. dirty[p] => Base(p)' = Base(p)
    BY <1>2, <1>3, <1>6, <2>1 DEF Base, Begun, Back
  <2>3. CASE raced[p]
    BY <1>2, <1>6, <2>1, <2>3 DEF PanelOK
  <2>4. CASE t = "ipc" /\ ~raced[p]
    <3>1. ServerOn(p) /\ ~Renews(p)
      BY <1>1, <1>2, <2>4 DEF ServerOn, Renews
    <3>2. dirty[p] /\ ~Overtakes(p) /\ ideal[p] = AfterAll(Base(p), Ahead) /\ Ahead = Tail(job["ipc"])
      BY <1>2, <1>6, <2>1, <2>4, <3>1 DEF PanelOK, Ahead
    <3>3. Ahead' = Tail(job["ipc"])
      BY <1>3, <1>4, <1>7, <2>4, PanelsAre DEF Ahead
    <3>4. AfterAll(Base(p), Ahead)' = AfterAll(Base(p), Ahead)
      BY <2>2, <3>2, <3>3 DEF AfterAll, After
    <3>5. CASE job'["ipc"] = <<>>
      <4>1. ~ServerOn(p)' /\ ideal[p] = Base(p)
        BY <1>4, <2>4, <3>2, <3>5, NoStep DEF ServerOn, Todo
      <4> QED
        BY <1>2, <1>6, <1>8, <2>1, <2>2, <3>2, <4>1 DEF PanelOK
    <3>6. CASE job'["ipc"] # <<>>
      <4>1. ServerOn(p)'
        BY <1>5, <2>4, <3>6 DEF ServerOn, Todo
      <4> QED
        BY <1>2, <1>6, <1>8, <2>1, <2>2, <3>2, <3>4, <4>1 DEF PanelOK
    <3> QED
      BY <3>5, <3>6
  <2>5. CASE t = "scan" /\ ~raced[p]
    <3>1. (ServerOn(p)' <=> ServerOn(p)) /\ Ahead' = Ahead /\ (Renews(p)' <=> Renews(p))
      BY <1>2, <1>3, <1>4, <2>5, PanelsAre DEF ServerOn, Ahead, Renews, Todo, First
    <3>2. ~Overtakes(p)
      BY <1>2, <2>5 DEF Overtakes
    <3>3. ideal[p] = IF ServerOn(p) THEN AfterAll(Base(p), Ahead) ELSE Base(p)
      BY <2>1, <2>5, <3>2 DEF PanelOK
    <3>4. AfterAll(Base(p), Ahead)' = AfterAll(Base(p)', Ahead)
      BY <3>1 DEF AfterAll, After
    <3>5. CASE Renews(p)
      <4>1. ServerOn(p) /\ AfterAll(Base(p)', Ahead) = AfterAll(Base(p), Ahead)
        BY <1>2, <3>5, RenewedIs DEF Renews
      <4> QED
        BY <1>2, <1>6, <1>8, <2>1, <3>1, <3>2, <3>3, <3>4, <3>5, <4>1 DEF PanelOK
    <3>6. CASE ~Renews(p)
      <4>1. dirty[p]
        BY <1>2, <1>6, <2>1, <2>5, <3>6 DEF PanelOK
      <4> QED
        BY <1>2, <1>6, <1>8, <2>1, <2>2, <3>1, <3>2, <3>3, <3>4, <4>1 DEF PanelOK
    <3> QED
      BY <3>5, <3>6
  <2> QED
    BY <1>7, <2>3, <2>4, <2>5
<1>11. DayOK'
  <2>1. ServerOn("sub")' => ServerOn("sub")
    <3>1. CASE t = "ipc"
      BY <1>1, <1>2, <1>5, <3>1 DEF ServerOn, Todo, First
    <3>2. CASE t = "scan"
      BY <1>4, <3>2, PanelsAre DEF ServerOn, Todo, First
    <3> QED
      BY <1>7, <3>1, <3>2
  <2> QED
    BY <1>3, <2>1 DEF ImageInv, DayOK
<1> QED
  BY <1>9, <1>10, <1>11 DEF ImageInv

\* A step of the server that draws nothing.
LEMMA SkipImage ==
    ASSUME RunInv, ImageInv, Todo("ipc"), Done("ipc"), lock # "ipc",
           First("ipc").kind \in {"read", "release"},
           UNCHANGED <<fb, front, dirty, swap, raced, ideal, left, pen, lock, anim>>,
           \A q \in Panels : q # First("ipc").panel => src'[q] = src[q]
    PROVE  /\ \A q \in Panels : PanelOK(q)'
           /\ ServerOn("sub")' => ServerOn("sub")
<1>1. PICK s, p : s = First("ipc") /\ p = s.panel
  OBVIOUS
<1>2. /\ TypeOK /\ "ipc" \in Tasks /\ p \in Panels /\ s = job["ipc"][1] /\ s = Head(job["ipc"])
      /\ job["ipc"] \in Seq(Step) /\ job["ipc"] # <<>> /\ Len(job["ipc"]) <= 2
  BY <1>1, PanelsAre, FirstIs DEF RunInv, ServerOK, Todo, First
<1>3. job'["ipc"] = Tail(job["ipc"]) /\ job'["scan"] = job["scan"]
  BY <1>2, DoneRun, PanelsAre
<1>4. job'["ipc"] # <<>> => First("ipc")'.panel = p
  <2> SUFFICES ASSUME Tail(job["ipc"]) # <<>> PROVE First("ipc")'.panel = p
    BY <1>3
  <2>1. Len(job["ipc"]) = 2 /\ Head(Tail(job["ipc"])) = job["ipc"][2]
    BY <1>2, TailOfTwo
  <2>2. job["ipc"][2].panel = job["ipc"][1].panel
    BY <2>1 DEF RunInv, ServerOK
  <2> QED
    BY <1>1, <1>2, <1>3, <2>1, <2>2 DEF First
<1>5. ASSUME NEW q \in Panels
      PROVE  (Busy(q)' <=> Busy(q)) /\ (Overtakes(q)' <=> Overtakes(q)) /\ Base(q)' = Base(q)
  <2>1. lock = None \/ lock = "scan"
    BY <1>2, PanelsAre DEF TypeOK
  <2>2. Busy(q)' <=> Busy(q)
    BY <1>3, <2>1 DEF Busy, First
  <2>3. Overtakes(q)' <=> Overtakes(q)
    BY <1>3 DEF Overtakes, Todo, First
  <2> QED
    BY <2>2, <2>3, BaseKept
<1>6. ASSUME NEW q \in Panels, q # p PROVE PanelOK(q)'
  <2>1. ~ServerOn(q) /\ ~ServerOn(q)'
    BY <1>1, <1>4, <1>6 DEF ServerOn, Todo
  <2>2. ~Renews(q) /\ ~Renews(q)'
    BY <2>1 DEF Renews
  <2>3. PanelOK(q) /\ src'[q] = src[q]
    BY <1>1, <1>6 DEF ImageInv
  <2> QED
    BY <1>3, <1>5, <2>1, <2>2, <2>3, PanelKept
<1>7. PanelOK(p)'
  <2>1. ServerOn(p) /\ ~Renews(p) /\ PanelOK(p)
    BY <1>1, <1>2 DEF ServerOn, Renews, ImageInv
  <2>2. Base(p) \in Image
    BY <1>2, BaseType
  <2>3. Ahead = job["ipc"] /\ Ahead' = Tail(job["ipc"])
    BY <1>3 DEF Ahead
  <2>4. AfterAll(Base(p), Ahead) = AfterAll(Base(p), Tail(job["ipc"]))
    <3>1. After(Base(p), Head(job["ipc"])) = Base(p)
      BY <1>1, <1>2 DEF After
    <3> QED
      BY <1>2, <2>2, <2>3, <3>1, AfterFirst
  <2>5. AfterAll(Base(p), Ahead)' = AfterAll(Base(p), Tail(job["ipc"]))
    BY <1>2, <1>5, <2>3 DEF AfterAll, After
  <2>6. CASE raced[p]
    BY <1>2, <1>5, <2>1, <2>6 DEF PanelOK
  <2>7. CASE ~raced[p]
    <3>1. ~Overtakes(p) /\ ideal[p] = AfterAll(Base(p), Tail(job["ipc"])) /\ (swap[p] \/ Busy(p) => dirty[p])
      BY <2>1, <2>4, <2>7 DEF PanelOK
    <3>2. CASE Tail(job["ipc"]) = <<>>
      <4>1. ~ServerOn(p)' /\ ideal[p] = Base(p)
        BY <1>3, <3>1, <3>2, NoStep DEF ServerOn, Todo
      <4> QED
        BY <1>2, <1>5, <2>1, <3>1, <4>1 DEF PanelOK
    <3>3. CASE Tail(job["ipc"]) # <<>>
      <4>1. ServerOn(p)'
        BY <1>3, <1>4, <3>3 DEF ServerOn, Todo
      <4> QED
        BY <1>2, <1>5, <2>1, <2>5, <3>1, <4>1 DEF PanelOK
    <3> QED
      BY <3>2, <3>3
  <2> QED
    BY <2>6, <2>7
<1>8. ServerOn("sub")' => ServerOn("sub")
  BY <1>1, <1>4 DEF ServerOn, Todo
<1> QED
  BY <1>6, <1>7, <1>8

LEMMA ReadFileImage == ASSUME RunInv, ImageInv, ReadFile PROVE ImageInv'
<1>1. /\ Todo("ipc") /\ Done("ipc") /\ First("ipc").kind = "read" /\ lock = None
      /\ UNCHANGED <<fb, front, dirty, swap, default, wday, anim, lock, left, pen, ideal, raced>>
      /\ src' = [src EXCEPT ![First("ipc").panel] = First("ipc").what]
  BY DEF ReadFile, MayRun, imageVars, drawVars, History
<1>2. lock # "ipc"
  BY <1>1, PanelsAre
<1>3. \A q \in Panels : q # First("ipc").panel => src'[q] = src[q]
  BY <1>1 DEF RunInv, TypeOK
<1>4. (\A q \in Panels : PanelOK(q)') /\ (ServerOn("sub")' => ServerOn("sub"))
  BY <1>1, <1>2, <1>3, SkipImage
<1>5. DayOK'
  BY <1>1, <1>4 DEF ImageInv, DayOK
<1> QED
  BY <1>4, <1>5 DEF ImageInv

LEMMA GiveBackImage == ASSUME RunInv, ImageInv, GiveBack PROVE ImageInv'
<1>1. /\ Todo("ipc") /\ Done("ipc") /\ First("ipc").kind = "release"
      /\ UNCHANGED <<fb, front, dirty, swap, anim, src, lock, left, pen, ideal, raced>>
      /\ wday' = -1
  BY DEF GiveBack, MayRun, imageVars, drawVars, History
<1>2. lock # "ipc"
  BY <1>1, PanelsAre DEF RunInv, LockOK
<1>3. \A q \in Panels : PanelOK(q)'
  BY <1>1, <1>2, SkipImage
<1>4. /\ job["ipc"][1].kind = "release" /\ job["ipc"] \in Seq(Step) /\ job["ipc"] # <<>>
      /\ 1 \in 1 .. Len(job["ipc"]) /\ "ipc" \in Tasks
  BY <1>1, PanelsAre, FirstIs DEF RunInv, Todo
<1>5. \A k \in 1 .. Len(job["ipc"]) :
        job["ipc"][k].kind = "release" => k = Len(job["ipc"]) /\ ~anim["sub"].active
  BY DEF RunInv, ServerOK
<1>6. job'["ipc"] = <<>>
  <2> DEFINE j == job["ipc"]
             n == Len(j)
  <2>1. 1 = n
    BY <1>4, <1>5, Zenon
  <2>2. j \in Seq(Step) /\ j # <<>>
    BY <1>4
  <2> HIDE DEF n
  <2>3. n <= 1
    BY <2>1
  <2> USE DEF n
  <2> HIDE DEF j
  <2>4. Tail(j) = <<>>
    BY <2>2, <2>3, TailOfTwo
  <2> USE DEF j
  <2>5. Tail(job["ipc"]) = <<>>
    BY <2>4
  <2> QED
    BY <1>1, <1>4, <2>5, DoneRun
<1>7. ~anim["sub"].active
  BY <1>4, <1>5, Zenon
<1>8. DayOK'
  BY <1>1, <1>6, <1>7 DEF DayOK, ServerOn, Todo
<1> QED
  BY <1>3, <1>8 DEF ImageInv

-----------------------------------------------------------------------------
(* The requests and the decisions of the scanner.                          *)

LEMMA RequestImage ==
    ASSUME RunInv, ImageInv, NEW p \in Panels, NEW steps, NEW parts, NEW whole,
           Request(p, steps, parts, whole), Serves(p, steps, parts, whole)
    PROVE  ImageInv'
<1>1. /\ TypeOK /\ ~Todo("ipc") /\ "ipc" \in Tasks /\ "scan" \in Tasks /\ whole \in BOOLEAN
      /\ UNCHANGED <<fb, front, dirty, swap, wday, src, lock, left, pen>>
      /\ job'["ipc"] = steps /\ job'["scan"] = job["scan"]
  BY PanelsAre DEF RunInv, Request, Serves, TypeOK, imageVars, drawVars
<1>2. lock # "ipc"
  BY <1>1, PanelsAre DEF RunInv, LockOK
<1>3. /\ steps \in Seq(Step)
      /\ steps # <<>> => First("ipc")' = steps[1] /\ steps[1].panel = p
  <2>1. steps \in Seq(Step)
    BY DEF Serves
  <2>2. CASE steps # <<>>
    <3>1. Head(steps) = steps[1] /\ 1 \in 1 .. Len(steps)
      BY <2>1, <2>2, TailIs
    <3> QED
      BY <1>1, <2>1, <3>1 DEF Serves, First
  <2> QED
    BY <2>1, <2>2
<1>4. ASSUME NEW q \in Panels
      PROVE  /\ (Busy(q)' <=> Busy(q)) /\ (Overtakes(q)' <=> Overtakes(q)) /\ Base(q)' = Base(q)
             /\ ~ServerOn(q) /\ ~Renews(q) /\ PanelOK(q)
             /\ ServerOn(q)' => q = p
  <2>1. lock = None \/ lock = "scan"
    BY <1>1, <1>2, PanelsAre DEF TypeOK
  <2>2. Busy(q)' <=> Busy(q)
    BY <1>1, <2>1 DEF Busy, First
  <2>3. Overtakes(q)' <=> Overtakes(q)
    BY <1>1 DEF Overtakes, Todo, First
  <2>4. Base(q)' = Base(q)
    BY <1>1, <2>2, BaseKept
  <2>5. ~ServerOn(q) /\ ~Renews(q)
    BY <1>1 DEF ServerOn, Renews
  <2>6. ServerOn(q)' => q = p
    BY <1>1, <1>3 DEF ServerOn, Todo
  <2> QED
    BY <2>2, <2>3, <2>4, <2>5, <2>6 DEF ImageInv
<1>5. ASSUME NEW q \in Panels, q # p PROVE PanelOK(q)'
  <2>1. raced'[q] = raced[q] /\ ideal'[q] = ideal[q]
    BY <1>1, <1>5 DEF Request, TypeOK
  <2>2. Overtakes(q) => anim'[q] = anim[q]
    BY <1>1, <1>5 DEF Serves, Stop, TypeOK
  <2>3. ~Renews(q)' /\ ~ServerOn(q)'
    BY <1>4, <1>5 DEF Renews
  <2> QED
    BY <1>1, <1>4, <1>5, <2>1, <2>2, <2>3, PanelKept
<1>6. PanelOK(p)'
  <2>1. raced'[p] <=> Overtakes(p) \/ (~whole /\ raced[p])
    BY <1>1 DEF Request, TypeOK
  <2>2. ideal'[p] = Filled(IF whole THEN AllBlank ELSE ideal[p], parts, New(p))
    BY <1>1 DEF Request, TypeOK
  <2>3. Base(p) \in Image
    BY <1>1, BaseType
  <2>4. AfterAll(Base(p), steps) = Filled(IF whole THEN AllBlank ELSE Base(p), parts, New(p))
    BY <2>3 DEF Serves
  <2>5. Ahead' = steps
    BY <1>1, <1>2 DEF Ahead
  <2>6. AfterAll(Base(p), Ahead)' = AfterAll(Base(p), steps)
    BY <1>4, <2>5 DEF AfterAll, After
  <2>7. CASE raced'[p]
    BY <1>1, <1>4, <2>7 DEF PanelOK
  <2>8. CASE ~raced'[p]
    <3>1. ~Overtakes(p)' /\ (whole \/ (~raced[p] /\ ideal[p] = Base(p)))
      BY <1>4, <2>1, <2>8 DEF PanelOK
    <3>2. ideal'[p] = AfterAll(Base(p), steps)
      BY <2>2, <2>4, <3>1
    <3>3. ServerOn(p)' <=> steps # <<>>
      BY <1>1, <1>3 DEF ServerOn, Todo
    <3>4. ideal'[p] = IF ServerOn(p)' THEN AfterAll(Base(p), Ahead)' ELSE Base(p)'
      BY <1>4, <2>6, <3>2, <3>3, NoStep
    <3>5. whole => Renews(p)'
      <4>1. whole => steps # <<>> /\ Head(steps).kind = "draw" /\ Head(steps).parts = Parts
        BY DEF Serves
      <4> QED
        BY <1>1, <1>2, <3>3, <4>1 DEF Renews, First
    <3>6. ~whole /\ (swap'[p] \/ Busy(p)') => dirty'[p]
      BY <1>1, <1>4, <3>1 DEF PanelOK
    <3> QED
      BY <1>1, <1>4, <3>1, <3>4, <3>5, <3>6 DEF PanelOK
  <2> QED
    BY <2>7, <2>8
<1>7. DayOK'
  <2>1. CASE p # "sub"
    <3>1. default'["sub"] = default["sub"] /\ ideal'["sub"] = ideal["sub"]
          /\ anim'["sub"] = anim["sub"]
      BY <1>1, <2>1, PanelsAre DEF Request, Serves, Stop, TypeOK
    <3>2. ~ServerOn("sub")'
      BY <1>4, <2>1, PanelsAre
    <3> QED
      BY <1>1, <3>1, <3>2 DEF ImageInv, DayOK
  <2>2. CASE p = "sub" /\ default' = [default EXCEPT ![p] = FALSE]
    BY <1>1, <2>2 DEF DayOK, TypeOK
  <2>3. CASE p = "sub" /\ default' = default /\ steps = <<>> /\ parts = {} /\ whole = FALSE
    <3>1. ideal'["sub"] = ideal["sub"]
      BY <1>1, <2>3, PanelIs, FilledNone DEF Request, TypeOK
    <3>2. ~ServerOn("sub")'
      BY <1>1, <2>3 DEF ServerOn, Todo
    <3>3. ~anim["sub"].active => ~anim'["sub"].active
      BY <1>1, <2>3 DEF Serves, Stop, TypeOK
    <3> QED
      BY <1>1, <2>3, <3>1, <3>2, <3>3 DEF ImageInv, DayOK
  <2> QED
    BY <2>1, <2>2, <2>3 DEF Serves
<1> QED
  BY <1>5, <1>6, <1>7 DEF ImageInv

LEMMA DecideImage ==
    ASSUME RunInv, ImageInv, NEW p \in Panels, NEW kind \in {"draw", "frame"},
           NEW sparts \in SUBSET Parts, NEW what \in Content,
           NEW parts \in SUBSET Parts, NEW c \in Content, ScanFree,
           kind = "draw" => sparts = parts /\ what = c,
           kind = "frame" => anim[p].parts = parts /\ src[p] = c,
           Decide(p, Item(kind, p, sparts, what), parts, c),
           UNCHANGED <<fb, front, dirty, swap, anim, src, lock, left, pen, raced>>
    PROVE  /\ \A q \in Panels : PanelOK(q)'
           /\ ~ServerOn("sub")'
<1> DEFINE s == Item(kind, p, sparts, what)
<1>1. s.kind = kind /\ s.panel = p /\ s.parts = sparts /\ s.what = what
  BY ItemIs
<1>2. /\ job'["ipc"] = job["ipc"] /\ job'["scan"] = <<s>>
  BY DecideRun
<1> HIDE DEF s
<1>3. <<s>> # <<>> /\ Head(<<s>>) = s
  OBVIOUS
<1>4. TypeOK /\ ~Todo("ipc") /\ ~Todo("scan") /\ ~Todo("ipc")' /\ Todo("scan")' /\ First("scan")' = s
  BY <1>2, <1>3 DEF RunInv, ScanFree, Todo, First
<1>5. lock = None /\ None # "scan"
  BY <1>4, PanelsAre DEF RunInv, LockOK, TypeOK
<1>6. ASSUME NEW q \in Panels
      PROVE  /\ ~Busy(q) /\ ~Busy(q)' /\ ~ServerOn(q) /\ ~ServerOn(q)' /\ ~Renews(q) /\ ~Renews(q)'
             /\ ~Overtakes(q) /\ (Overtakes(q)' <=> q = p) /\ Base(q)' = Base(q) /\ PanelOK(q)
  <2>1. /\ ~Busy(q) /\ ~Busy(q)' /\ ~ServerOn(q) /\ ~ServerOn(q)' /\ ~Renews(q) /\ ~Renews(q)'
        /\ ~Overtakes(q) /\ (Overtakes(q)' <=> q = p)
    BY <1>1, <1>4, <1>5 DEF Busy, ServerOn, Renews, Overtakes
  <2> QED
    BY <2>1, BaseKept DEF ImageInv
<1>7. ASSUME NEW q \in Panels, q # p PROVE PanelOK(q)'
  <2>1. ideal'[q] = ideal[q]
    BY <1>4, <1>7 DEF Decide, TypeOK
  <2> QED
    BY <1>6, <1>7, <2>1, PanelKept
<1>8. PanelOK(p)'
  <2>1. ideal'[p] = Filled(ideal[p], parts, c)
    BY <1>4 DEF Decide, TypeOK
  <2>2. AfterScan(Base(p), p)' = Filled(Base(p), parts, c)
    BY <1>1, <1>4, <1>6 DEF AfterScan
  <2>3. ~raced[p] => ideal[p] = Base(p)
    BY <1>6 DEF PanelOK
  <2>4. /\ dirty[p] => swap[p]
        /\ ~raced[p] /\ swap[p] => dirty[p]
    BY <1>6 DEF PanelOK
  <2> QED
    BY <1>6, <2>1, <2>2, <2>3, <2>4 DEF PanelOK
<1> QED
  BY <1>6, <1>7, <1>8, PanelsAre

LEMMA MoveAnimImage == ASSUME RunInv, ImageInv, NEW p \in Panels, MoveAnim(p) PROVE ImageInv'
<1>1. /\ TypeOK /\ ScanFree
      /\ UNCHANGED <<fb, front, dirty, swap, default, wday, anim, src, lock, left, pen, raced>>
  BY DEF RunInv, MoveAnim, ScanOnly, imageVars, drawVars
<1>2. CASE Nothing
  <2>1. \A q \in Panels : PanelOK(q)'
    BY <1>1, <1>2, StillKept DEF ImageInv, Nothing
  <2>2. DayOK'
    BY <1>1, <1>2 DEF ImageInv, DayOK, ServerOn, Nothing, Todo, First
  <2> QED
    BY <2>1, <2>2 DEF ImageInv
<1>3. CASE anim[p].active /\ Decide(p, Item("frame", p, {}, Blank), anim[p].parts, src[p])
  <2>1. anim[p].parts \in SUBSET Parts /\ src[p] \in Content /\ Blank \in Content
    BY <1>1, PanelIs, ContentHas
  <2>2. (\A q \in Panels : PanelOK(q)') /\ ~ServerOn("sub")'
    BY <1>1, <1>3, <2>1, DecideImage
  <2>3. DayOK'
    <3>1. CASE p = "sub"
      BY <1>1, <1>3, <3>1 DEF ImageInv, DayOK
    <3>2. CASE p # "sub"
      <4>1. ideal'["sub"] = ideal["sub"]
        BY <1>1, <1>3, <3>2, PanelsAre DEF Decide, TypeOK
      <4> QED
        BY <1>1, <2>2, <4>1 DEF ImageInv, DayOK
    <3> QED
      BY <3>1, <3>2
  <2> QED
    BY <2>2, <2>3 DEF ImageInv
<1> QED
  BY <1>2, <1>3 DEF MoveAnim

LEMMA GreetImage == ASSUME RunInv, ImageInv, Greet PROVE ImageInv'
<1>1. /\ TypeOK /\ ScanFree
      /\ UNCHANGED <<fb, front, dirty, swap, default, wday, anim, src, lock, left, pen, raced>>
  BY DEF RunInv, Greet, ScanOnly, imageVars, drawVars
<1>2. CASE Nothing
  <2>1. \A q \in Panels : PanelOK(q)'
    BY <1>1, <1>2, StillKept DEF ImageInv, Nothing
  <2>2. DayOK'
    BY <1>1, <1>2 DEF ImageInv, DayOK, ServerOn, Nothing, Todo, First
  <2> QED
    BY <2>1, <2>2 DEF ImageInv
<1>3. CASE Decide("main", Draw("main", Middle, Greeting), Middle, Greeting)
  <2>1. Middle \in SUBSET Parts /\ Greeting \in Content /\ "main" \in Panels
    BY DisplayAssumption, PanelsAre, ContentHas
  <2>2. (\A q \in Panels : PanelOK(q)') /\ ~ServerOn("sub")'
    BY <1>1, <1>3, <2>1, DecideImage DEF Draw
  <2>3. ideal'["sub"] = ideal["sub"]
    BY <1>1, <1>3, PanelsAre DEF Decide, TypeOK
  <2>4. DayOK'
    BY <1>1, <2>2, <2>3 DEF ImageInv, DayOK
  <2> QED
    BY <2>2, <2>4 DEF ImageInv
<1> QED
  BY <1>2, <1>3 DEF Greet

LEMMA ShowDayImage == ASSUME RunInv, ImageInv, ShowDay PROVE ImageInv'
<1>1. /\ TypeOK /\ ScanFree
      /\ UNCHANGED <<fb, front, dirty, swap, default, anim, src, lock, left, pen, raced>>
  BY DEF RunInv, ShowDay, ScanOnly, imageVars, drawVars
<1>2. CASE Nothing /\ UNCHANGED wday
  <2>1. \A q \in Panels : PanelOK(q)'
    BY <1>1, <1>2, StillKept DEF ImageInv, Nothing
  <2>2. DayOK'
    BY <1>1, <1>2 DEF ImageInv, DayOK, ServerOn, Nothing, Todo, First
  <2> QED
    BY <2>1, <2>2 DEF ImageInv
<1>3. CASE wday' = day /\ Decide("sub", Draw("sub", Middle, Day(day)), Middle, Day(day))
  <2>1. Middle \in SUBSET Parts /\ Day(day) \in Content /\ "sub" \in Panels
    BY <1>1, DisplayAssumption, PanelsAre, ContentHas DEF TypeOK
  <2>2. (\A q \in Panels : PanelOK(q)') /\ ~ServerOn("sub")'
    BY <1>1, <1>3, <2>1, DecideImage DEF Draw
  <2>3. ideal'["sub"] = Filled(ideal["sub"], Middle, Day(day))
    BY <1>1, <1>3, PanelsAre DEF Decide, TypeOK
  <2>4. \A r \in Middle : ideal'["sub"][r] = Day(wday')
    BY <1>3, <2>1, <2>3 DEF Filled
  <2>5. DayOK'
    BY <1>1, <2>2, <2>4 DEF ImageInv, DayOK, Day
  <2> QED
    BY <2>2, <2>5 DEF ImageInv
<1> QED
  BY <1>2, <1>3 DEF ShowDay

LEMMA TickImage == ASSUME RunInv, ImageInv, Tick \/ NextDay \/ UNCHANGED vars PROVE ImageInv'
<1>1. UNCHANGED <<fb, front, dirty, swap, default, wday, anim, src, lock, left, pen, job, ideal,
                  raced>>
  BY DEF Tick, NextDay, vars, Nothing, ScanOnly, imageVars, boardVars, scanVars, drawVars, History
<1>2. \A q \in Panels : PanelOK(q)'
  BY <1>1, StillKept DEF ImageInv
<1>3. DayOK'
  BY <1>1 DEF ImageInv, DayOK, ServerOn, Todo, First
<1> QED
  BY <1>2, <1>3 DEF ImageInv

\* The interrupt: the image at the back is the one that was drawn, unless a
\* swap fell into a drawing.
LEMMA EndOfImageImage == ASSUME RunInv, ImageInv, EndOfImage PROVE ImageInv'
<1>1. /\ TypeOK
      /\ UNCHANGED <<fb, default, wday, anim, src, lock, left, pen, job, ideal>>
  BY DEF RunInv, EndOfImage, boardVars, drawVars
<1>2. ASSUME NEW p \in Panels PROVE PanelOK(p)'
  <2>1. /\ (Busy(p)' <=> Busy(p)) /\ (ServerOn(p)' <=> ServerOn(p)) /\ (Renews(p)' <=> Renews(p))
        /\ (Overtakes(p)' <=> Overtakes(p)) /\ Ahead' = Ahead
    BY <1>1 DEF Busy, ServerOn, Renews, Overtakes, Ahead, Todo, First
  <2>2. /\ front'[p] = IF swap[p] THEN Back(p) ELSE front[p]
        /\ dirty'[p] <=> dirty[p] /\ ~swap[p]
        /\ ~swap'[p]
        /\ raced'[p] <=> raced[p] \/ (swap[p] /\ Busy(p))
    BY DEF EndOfImage
  <2>3. PanelOK(p)
    BY DEF ImageInv
  <2>4. CASE ~swap[p]
    <3>1. dirty'[p] = dirty[p] /\ swap'[p] = swap[p] /\ raced'[p] = raced[p] /\ front'[p] = front[p]
      BY <1>1, <2>2, <2>4 DEF TypeOK, EndOfImage
    <3>2. Base(p)' = Base(p)
      BY <1>1, <2>1, <3>1, BaseKept
    <3> QED
      BY <1>1, <2>1, <2>3, <3>1, <3>2, PanelKept
  <2>5. CASE swap[p] /\ raced'[p]
    BY <2>2, <2>5 DEF PanelOK
  <2>6. CASE swap[p] /\ ~raced'[p]
    <3>1. ~raced[p] /\ ~Busy(p) /\ ~Busy(p)' /\ ~dirty'[p]
      BY <2>1, <2>2, <2>6
    <3>2. Base(p)' = fb[p][Back(p)]
      BY <1>1, <2>2, <2>6, <3>1 DEF Base, Begun
    <3>3. ~Renews(p) => Base(p)' = Base(p)
      BY <2>3, <2>6, <3>1, <3>2 DEF PanelOK, Base, Begun
    <3>4. Overtakes(p) => ~ServerOn(p) /\ ideal[p] = AfterScan(Base(p), p) /\ ~Renews(p)
      BY <2>3, <3>1 DEF PanelOK, Renews
    <3>5. CASE Overtakes(p)
      <4>1. AfterScan(Base(p), p)' = AfterScan(Base(p), p)
        BY <1>1, <3>3, <3>4, <3>5 DEF AfterScan, First
      <4> QED
        BY <1>1, <2>1, <2>2, <3>1, <3>4, <3>5, <4>1 DEF PanelOK
    <3>6. CASE ~Overtakes(p)
      <4>1. ideal[p] = IF ServerOn(p) THEN AfterAll(Base(p), Ahead) ELSE Base(p)
        BY <2>3, <3>1, <3>6 DEF PanelOK
      <4>2. AfterAll(Base(p), Ahead)' = AfterAll(Base(p)', Ahead)
        BY <2>1 DEF AfterAll, After
      <4>3. Renews(p) => ServerOn(p) /\ AfterAll(Base(p)', Ahead) = AfterAll(Base(p), Ahead)
        BY RenewedIs DEF Renews
      <4>4. ideal[p] = IF ServerOn(p) THEN AfterAll(Base(p), Ahead)' ELSE Base(p)'
        BY <3>3, <4>1, <4>2, <4>3
      <4> QED
        BY <1>1, <2>1, <2>2, <3>1, <3>6, <4>4 DEF PanelOK
    <3> QED
      BY <3>5, <3>6
  <2> QED
    BY <2>4, <2>5, <2>6
<1>3. DayOK'
  BY <1>1 DEF ImageInv, DayOK, ServerOn, Todo, First
<1> QED
  BY <1>2, <1>3 DEF ImageInv

LEMMA NextImage == RunInv /\ ImageInv /\ [Next]_vars => ImageInv'
<1> SUFFICES ASSUME RunInv, ImageInv, [Next]_vars PROVE ImageInv'
  OBVIOUS
<1>1. ASSUME NEW p \in Panels, Asks(p) PROVE ImageInv'
  BY <1>1, RequestsServe, RequestImage
<1>2. CASE Server
  BY <1>2, PanelsAre, BeginImage, FillPartImage, CommitImage, ReadFileImage, GiveBackImage
     DEF Server, Work
<1>3. CASE Scanner
  BY <1>3, PanelsAre, BeginImage, FillPartImage, CommitImage, TickImage, MoveAnimImage, GreetImage,
     ShowDayImage DEF Scanner, Work
<1> QED
  BY <1>1, <1>2, <1>3, TickImage, EndOfImageImage DEF Next, Asks

LEMMA ImagesKeep == Spec => []ImageInv
<1> QED
  BY InitImage, NextImage, RunsKeep, PTL DEF Spec

LEMMA RestIsIdeal == RunInv /\ ImageInv => ShowsIdeal
<1> SUFFICES ASSUME RunInv, ImageInv, NEW p \in Panels, Settled(p), ~raced[p]
             PROVE  Shown(p) = ideal[p]
  BY DEF ShowsIdeal
<1>1. ~ServerOn(p) /\ ~Overtakes(p) /\ ~swap[p]
  BY PanelsAre DEF Settled, Quiet, ServerOn, Overtakes
<1>2. ~Busy(p)
  <2>1. lock # None => lock \in Tasks /\ Todo(lock)
    BY DEF RunInv, TypeOK, LockOK
  <2> QED
    BY <2>1 DEF Settled, Quiet, Busy
<1>3. ~dirty[p] /\ ideal[p] = Base(p)
  BY <1>1, <1>2 DEF ImageInv, PanelOK
<1> QED
  BY <1>2, <1>3 DEF Base, Begun, Shown

-----------------------------------------------------------------------------

\* The types of the display, and that a panel at rest shows each of its
\* drawings whole and in their order, whatever task drew it and whenever the
\* interrupt came; but for a request that overtook a decided drawing and a swap
\* that fell into one (sm1626d_begin, sm1626d_commit, sm1626d_swapnow).
THEOREM DisplayInv == Spec => []Inv
<1>1. RunInv /\ ImageInv => Inv
  BY RestIsIdeal DEF RunInv, Inv
<1> QED
  BY <1>1, RunsKeep, ImagesKeep, PTL

\* The day that the scanner noted is on the sub panel as long as the board owns
\* the panel: no animation goes on there after a release, and the release has
\* the scanner draw the day again (hazk03_display_release, display_defaults).
THEOREM DayStaysShown == Spec => []DayIsShown
<1>1. RunInv /\ ImageInv => DayIsShown
  <2> SUFFICES ASSUME RunInv, ImageInv, default["sub"], wday # -1, Settled("sub"),
                      ~raced["sub"], NEW r \in Middle
               PROVE  Shown("sub")[r] = Day(wday)
    BY DEF DayIsShown
  <2>1. Shown("sub") = ideal["sub"]
    BY RestIsIdeal, PanelsAre DEF ShowsIdeal
  <2> QED
    BY <2>1 DEF ImageInv, DayOK
<1> QED
  BY <1>1, RunsKeep, ImagesKeep, PTL

-----------------------------------------------------------------------------
(* The invariant of the settings' path.                                    *)

Frames  == {f \in [id : 0 .. IDS - 1, op : Operations, arg : Pairs] : Fits(f)}
Replies == [id : 0 .. IDS - 1, ok : BOOLEAN, value : Board]
Packets == Commands \cup {Suback}
Bounds  == {"cmds", "rest", "late", "drops", "resets"}
Phases  == {"away", "subscribing", "poll", "set", "sync", "read", "state"}

\* The types of all fields, with those that HomeTypeOK leaves open.
PathTypes ==
    /\ line \in Seq(Frames) /\ answers \in Seq(Replies)
    /\ dsp \in [client : Clients \cup {"none"}, id : 0 .. IDS - 1, owed : 0 .. IDS - 1]
    /\ pipe \in [Clients -> Seq(Frames)] /\ back \in [Clients -> Seq(Replies)]
    /\ call \in [Clients -> Frames \cup {NoCall}] /\ corr \in [Clients -> 0 .. IDS - 1]
    /\ spare \in [Bounds -> Nat] /\ spare["late"] <= MaxLate
    /\ board \in Board /\ held \subseteq Pairs /\ board.levels \in held

HassTypes ==
    /\ hass \in [pc : Phases, cmd : Commands \cup {NoCmd}, synced : BOOLEAN,
                 copy : Pairs, ext : Words]
    /\ mqtt \in [up : BOOLEAN, topics : 0 .. Len(Topics), inbox : Seq(Packets)]
    /\ shown \in Board /\ since \subseteq Pairs

\* The id that was given n asks before the next one, id.
Behind(id, n) == IF n <= id THEN id - n ELSE id + IDS - n

\* The asks of a client that has the next id, from the last one back: p waits,
\* one is owed an answer if n is 1, b is answered.  It waits for the last, w.
AsksOf(p, n, owed, b, id, w) ==
    /\ \A k \in 1 .. Len(p) : p[k].id = Behind(id, Len(p) + 1 - k)
    /\ n = 1 => owed = Behind(id, Len(p) + 1)
    /\ \A k \in 1 .. Len(b) : b[k].id = Behind(id, Len(p) + n + Len(b) + 1 - k)
    /\ w # NoCall => w.id = Behind(id, 1) /\ Len(p) + n + Len(b) > 0

\* The asks of tg-display in the same way; if n is 1 it waits for the last one,
\* which has the id.
AsksOn(l, a, n, id) ==
    /\ \A k \in 1 .. Len(l) : l[k].id = Behind(id, Len(l) + 1 - n - k)
    /\ \A k \in 1 .. Len(a) : a[k].id = Behind(id, Len(l) + Len(a) + 1 - n - k)
    /\ n = 1 => Len(l) + Len(a) > 0

Served(c)  == IF dsp.client = c THEN 1 ELSE 0
Serving    == IF dsp.client = "none" THEN 0 ELSE 1
Awaits(w)  == IF w = NoCall THEN 0 ELSE 1
Stale(c)   == Len(pipe[c]) + Served(c) + Len(back[c]) - Awaits(call[c])
StaleOn    == Len(line) + Len(answers) - Serving

IdsOK == /\ \A c \in Clients : AsksOf(pipe[c], Served(c), dsp.owed, back[c], corr[c], call[c])
         /\ AsksOn(line, answers, Serving, dsp.id)

\* An ask that nobody waits for any more has cost a time-out, at one of the
\* two layers: there are never as many of them as ids.
StaleOK == Stale("rest") + Stale("hass") + StaleOn <= MaxLate - spare["late"]

\* What an answer to w that is no refusal says of the board.
Answers(w, r, h) == r.ok = TRUE => /\ w.op = "settings" => r.value.levels \in h
                                   /\ w.op = "bright" => w.arg \in h

Same(w, f) == f.op = w.op /\ f.arg = w.arg

\* The ask that tg-hass waits for is the last one of its way, and its answer is
\* of the board since it was asked.
HeardOK ==
    LET w == call["hass"]
        p == pipe["hass"]
        b == back["hass"]
    IN w # NoCall =>
         IF p # <<>> THEN Same(w, p[Len(p)])
         ELSE IF dsp.client # "hass" THEN Answers(w, b[Len(b)], held)
         ELSE IF line # <<>> THEN Same(w, line[Len(line)])
         ELSE Answers(w, answers[Len(answers)], held)

\* What tg-hass waits for where it is.
PhaseOK ==
    LET w == call["hass"] IN
    /\ hass.pc \in {"away", "subscribing", "poll"} <=> w = NoCall
    /\ hass.pc \in {"sync", "read"} => w.op = "settings"
    /\ hass.pc = "state" => w.op = "state"
    /\ hass.pc = "sync" => hass.cmd \in Commands /\ hass.cmd.topic \in {"digits", "panels"}
    /\ hass.pc = "set" =>
         /\ hass.cmd \in Commands
         /\ hass.cmd.topic \in {"digits", "panels"} =>
              w.op = "bright" /\ w.arg[Part(hass.cmd.topic)] = hass.cmd.value
         /\ hass.cmd.topic \in {"text", "ext"} => w.op # "bright"

NoSuback(s)  == \A i \in 1 .. Len(s) : s[i] # Suback
OneSuback(s) == \A i, j \in 1 .. Len(s) : s[i] = Suback /\ s[j] = Suback => i = j

\* The session serves without a SUBACK that is still to come.
InboxOK ==
    /\ hass.pc = "away" => mqtt.inbox = <<>> /\ mqtt.up = FALSE
    /\ hass.pc # "subscribing" => NoSuback(mqtt.inbox)
    /\ OneSuback(mqtt.inbox)

\* The copy was held, and so was the partner in the ask on its way.
CopyOK ==
    /\ hass.synced = TRUE => hass.copy \in since
    /\ call["hass"].op = "bright" =>
         \A i \in {1, 2} : Part(hass.cmd.topic) # i =>
            \E h \in since : h[i] = call["hass"].arg[i]

PathInv == PathTypes /\ IdsOK /\ StaleOK /\ HeardOK
HassInv == HassTypes /\ PhaseOK /\ InboxOK /\ CopyOK

-----------------------------------------------------------------------------
(* Ids.                                                                    *)

LEMMA IdsAre == IDS \in Nat /\ IDS > 1 /\ IDS > MaxLate /\ MaxLate \in Nat /\ TOP \in Nat /\ TOP > 0
BY HomeAssumption

LEMMA NextIs ==
    ASSUME NEW id \in 0 .. IDS - 1
    PROVE  Next1(id) = IF id + 1 = IDS THEN 0 ELSE id + 1
BY IdsAre DEF Next1

LEMMA NextType ==
    ASSUME NEW id \in 0 .. IDS - 1
    PROVE  Next1(id) \in 0 .. IDS - 1
BY NextIs, IdsAre

LEMMA BehindType ==
    ASSUME NEW id \in 0 .. IDS - 1, NEW n \in 0 .. IDS
    PROVE  Behind(id, n) \in 0 .. IDS - 1
BY IdsAre DEF Behind

LEMMA BehindNone ==
    ASSUME NEW id \in 0 .. IDS - 1
    PROVE  Behind(id, 0) = id /\ Behind(Next1(id), 1) = id
BY IdsAre, NextIs DEF Behind

\* One more ask moves all others one place back.
LEMMA BehindNext ==
    ASSUME NEW id \in 0 .. IDS - 1, NEW n \in 0 .. IDS - 1
    PROVE  Behind(Next1(id), n + 1) = Behind(id, n)
BY IdsAre, NextIs DEF Behind

\* As many asks as there are ids have all different ids.
LEMMA BehindDiffers ==
    ASSUME NEW id \in 0 .. IDS - 1, NEW m \in 0 .. IDS, NEW n \in 0 .. IDS,
           m < n, n - m < IDS
    PROVE  Behind(id, m) # Behind(id, n)
BY IdsAre DEF Behind

-----------------------------------------------------------------------------
(* The asks of a client.                                                   *)

LEMMA TailOf ==
    ASSUME NEW S, NEW s \in Seq(S), s # <<>>
    PROVE  /\ Tail(s) \in Seq(S) /\ Len(Tail(s)) = Len(s) - 1 /\ Len(s) \in Nat /\ Len(s) > 0
           /\ \A k \in 1 .. Len(Tail(s)) : Tail(s)[k] = s[k + 1]
           /\ Head(s) = s[1] /\ Head(s) \in S
BY HeadTailProperties, LenProperties, EmptySeq

LEMMA AppendOf ==
    ASSUME NEW S, NEW s \in Seq(S), NEW e \in S
    PROVE  /\ Append(s, e) \in Seq(S) /\ Len(Append(s, e)) = Len(s) + 1 /\ Len(s) \in Nat
           /\ Append(s, e) # <<>> /\ Append(s, e)[Len(s) + 1] = e
           /\ \A k \in 1 .. Len(s) : Append(s, e)[k] = s[k]
BY AppendProperties, LenProperties

\* A client asks once more.
LEMMA AsksMore ==
    ASSUME NEW p \in Seq(Frames), NEW n \in {0, 1}, NEW owed, NEW b \in Seq(Replies),
           NEW id \in 0 .. IDS - 1, NEW w, NEW f \in Frames,
           AsksOf(p, n, owed, b, id, w), Len(p) + n + Len(b) < IDS, f.id = id
    PROVE  AsksOf(Append(p, f), n, owed, b, Next1(id), f)
<1> DEFINE q == Append(p, f)
<1>1. /\ q \in Seq(Frames) /\ Len(q) = Len(p) + 1 /\ Len(p) \in Nat /\ Len(b) \in Nat
      /\ q[Len(p) + 1] = f /\ \A k \in 1 .. Len(p) : q[k] = p[k]
  BY AppendOf, LenProperties
<1> HIDE DEF q
<1>2. IDS \in Nat /\ \A m \in 0 .. IDS - 1 : Behind(Next1(id), m + 1) = Behind(id, m)
  BY BehindNext, IdsAre
<1>3. Behind(Next1(id), 1) = id
  BY BehindNone
<1>4. ASSUME NEW k \in 1 .. Len(q) PROVE q[k].id = Behind(Next1(id), Len(q) + 1 - k)
  <2>1. CASE k = Len(p) + 1
    <3>1. Len(q) + 1 - k = 1
      BY <1>1, <2>1
    <3> QED
      BY <1>1, <1>3, <2>1, <3>1
  <2>2. CASE k # Len(p) + 1
    <3>1. k \in 1 .. Len(p) /\ Len(p) + 1 - k \in 0 .. IDS - 1 /\ Len(q) + 1 - k = (Len(p) + 1 - k) + 1
      BY <1>1, <1>2, <2>2
    <3>2. q[k].id = Behind(id, Len(p) + 1 - k)
      BY <1>1, <3>1 DEF AsksOf
    <3> QED
      BY <1>2, <3>1, <3>2
  <2> QED
    BY <2>1, <2>2
<1>5. n = 1 => owed = Behind(Next1(id), Len(q) + 1)
  <2>1. n = 1 => Len(p) + 1 \in 0 .. IDS - 1
    BY <1>1, <1>2
  <2>2. Len(q) + 1 = (Len(p) + 1) + 1
    BY <1>1
  <2> QED
    BY <1>2, <2>1, <2>2 DEF AsksOf
<1>6. ASSUME NEW k \in 1 .. Len(b) PROVE b[k].id = Behind(Next1(id), Len(q) + n + Len(b) + 1 - k)
  <2>1. Len(p) + n + Len(b) + 1 - k \in 0 .. IDS - 1
    <3>1. Len(p) \in Nat /\ Len(b) \in Nat /\ n \in Nat /\ IDS \in Nat
      BY <1>1, <1>2
    <3> QED
      BY <3>1
  <2>2. Len(q) + n + Len(b) + 1 - k = (Len(p) + n + Len(b) + 1 - k) + 1
    BY <1>1
  <2> QED
    BY <1>2, <2>1, <2>2 DEF AsksOf
<1>7. f.id = Behind(Next1(id), 1) /\ Len(q) + n + Len(b) > 0
  BY <1>1, <1>3
<1> QED
  BY <1>4, <1>5, <1>6, <1>7 DEF AsksOf, q

\* A client takes an answer; the one it waits for ends the wait.
LEMMA AsksAnswered ==
    ASSUME NEW p \in Seq(Frames), NEW n \in {0, 1}, NEW owed, NEW b \in Seq(Replies),
           NEW id \in 0 .. IDS - 1, NEW w, b # <<>>,
           AsksOf(p, n, owed, b, id, w), Len(p) + n + Len(b) <= IDS
    PROVE  /\ AsksOf(p, n, owed, Tail(b), id, NoCall)
           /\ w # NoCall /\ Head(b).id # w.id => AsksOf(p, n, owed, Tail(b), id, w)
           /\ w # NoCall /\ Head(b).id = w.id => p = <<>> /\ n = 0 /\ Len(b) = 1
<1>1. /\ Tail(b) \in Seq(Replies) /\ Len(Tail(b)) = Len(b) - 1 /\ Len(b) \in Nat /\ Len(b) > 0
      /\ \A k \in 1 .. Len(Tail(b)) : Tail(b)[k] = b[k + 1] /\ k + 1 \in 1 .. Len(b)
      /\ Head(b) = b[1] /\ Len(p) \in Nat
  BY TailOf, LenProperties
<1>2. \A k \in 1 .. Len(Tail(b)) : Tail(b)[k].id = Behind(id, Len(p) + n + Len(Tail(b)) + 1 - k)
  <2> TAKE k \in 1 .. Len(Tail(b))
  <2>1. Len(p) + n + Len(b) + 1 - (k + 1) = Len(p) + n + Len(Tail(b)) + 1 - k
    BY <1>1
  <2>2. b[k + 1].id = Behind(id, Len(p) + n + Len(b) + 1 - (k + 1))
    BY <1>1 DEF AsksOf
  <2> QED
    BY <1>1, <2>1, <2>2
<1>3. Head(b).id = Behind(id, Len(p) + n + Len(b))
  <2>1. 1 \in 1 .. Len(b) /\ Len(p) + n + Len(b) + 1 - 1 = Len(p) + n + Len(b)
    BY <1>1
  <2> QED
    BY <1>1, <2>1 DEF AsksOf
<1>4. w # NoCall /\ Len(p) + n + Len(b) # 1 => Head(b).id # w.id
  <2> SUFFICES ASSUME w # NoCall, Len(p) + n + Len(b) # 1 PROVE Head(b).id # w.id
    OBVIOUS
  <2> DEFINE u == 1
             v == Len(p) + n + Len(b)
  <2>1. u \in 0 .. IDS /\ v \in 0 .. IDS /\ u < v /\ v - u < IDS
    BY <1>1, IdsAre
  <2>2. w.id = Behind(id, u) /\ Head(b).id = Behind(id, v)
    BY <1>3 DEF AsksOf
  <2> HIDE DEF u, v
  <2> QED
    BY <2>1, <2>2, BehindDiffers
<1>5. w # NoCall /\ Head(b).id # w.id => Len(p) + n + Len(Tail(b)) > 0
  <2>1. Len(p) + n + Len(b) # 1 => Len(p) + n + Len(Tail(b)) > 0
    <3> DEFINE x == Len(p)
               y == Len(b)
    <3>1. x \in Nat /\ n \in Nat /\ y \in Nat /\ y > 0 /\ Len(Tail(b)) = y - 1
      BY <1>1
    <3> HIDE DEF x, y
    <3>2. x + n + y # 1 => x + n + (y - 1) > 0
      BY <3>1
    <3> QED
      BY <3>1, <3>2 DEF x, y
  <2>2. Len(p) + n + Len(b) = 1 /\ w # NoCall => Head(b).id = w.id
    BY <1>3 DEF AsksOf
  <2> QED
    BY <2>1, <2>2
<1>6. Len(p) + n + Len(b) = 1 => p = <<>> /\ n = 0 /\ Len(b) = 1
  <2>1. Len(p) = 0 => p = <<>>
    BY EmptySeq
  <2>2. Len(p) \in Nat /\ n \in Nat /\ Len(b) \in Nat /\ Len(b) > 0
    BY <1>1
  <2>3. Len(p) + n + Len(b) = 1 => Len(p) = 0 /\ n = 0 /\ Len(b) = 1
    <3> DEFINE x == Len(p)
               y == Len(b)
    <3>1. x \in Nat /\ n \in Nat /\ y \in Nat /\ y > 0
      BY <2>2
    <3> HIDE DEF x, y
    <3>2. x + n + y = 1 => x = 0 /\ n = 0 /\ y = 1
      BY <3>1
    <3> QED
      BY <3>2 DEF x, y
  <2> QED
    BY <2>1, <2>3
<1> QED
  BY <1>2, <1>4, <1>5, <1>6 DEF AsksOf

\* tg-display takes the first request of the client.
LEMMA AsksServed ==
    ASSUME NEW p \in Seq(Frames), NEW owed, NEW b \in Seq(Replies),
           NEW id \in 0 .. IDS - 1, NEW w, p # <<>>,
           NEW m \in Nat, NEW n \in Nat, m = 0, n = 1, AsksOf(p, m, owed, b, id, w)
    PROVE  AsksOf(Tail(p), n, Head(p).id, b, id, w)
<1> DEFINE q == Tail(p)
<1>1. /\ q \in Seq(Frames) /\ Len(q) = Len(p) - 1 /\ Len(q) \in Nat
      /\ \A k \in 1 .. Len(q) : q[k] = p[k + 1]
      /\ Head(p) = p[1]
  BY TailOf, LenProperties
<1>2. Len(p) \in Nat /\ Len(p) > 0 /\ Len(b) \in Nat /\ IDS \in Nat
  BY TailOf, LenProperties, IdsAre
<1> HIDE DEF q
<1>3. \A k \in 1 .. Len(q) : q[k].id = Behind(id, Len(q) + 1 - k)
  <2> TAKE k \in 1 .. Len(q)
  <2>1. k + 1 \in 1 .. Len(p) /\ Len(p) + 1 - (k + 1) = Len(q) + 1 - k
    BY <1>1, <1>2
  <2>2. p[k + 1].id = Behind(id, Len(p) + 1 - (k + 1))
    BY <2>1 DEF AsksOf
  <2> QED
    BY <1>1, <2>1, <2>2
<1>4. Head(p).id = Behind(id, Len(q) + 1)
  <2>1. 1 \in 1 .. Len(p) /\ Len(p) + 1 - 1 = Len(q) + 1
    BY <1>1, <1>2
  <2>2. p[1].id = Behind(id, Len(p) + 1 - 1)
    BY <2>1 DEF AsksOf
  <2> QED
    BY <1>1, <2>1, <2>2
<1>5. \A k \in 1 .. Len(b) : b[k].id = Behind(id, Len(q) + n + Len(b) + 1 - k)
  <2> TAKE k \in 1 .. Len(b)
  <2>1. Len(q) + n + Len(b) + 1 - k = Len(p) + m + Len(b) + 1 - k
    BY <1>1, <1>2
  <2> QED
    BY <2>1 DEF AsksOf
<1>6. Len(q) + n + Len(b) > 0
  BY <1>1, <1>2
<1>7. w # NoCall => w.id = Behind(id, 1)
  BY DEF AsksOf
<1> QED
  BY <1>3, <1>4, <1>5, <1>6, <1>7 DEF AsksOf, q

\* tg-display gives the client the answer it owes.
LEMMA AsksReplied ==
    ASSUME NEW p \in Seq(Frames), NEW owed, NEW b \in Seq(Replies), NEW o,
           NEW id \in 0 .. IDS - 1, NEW w, NEW r \in Replies, r.id = owed,
           NEW m \in Nat, NEW n \in Nat, m = 0, n = 1, AsksOf(p, n, owed, b, id, w)
    PROVE  AsksOf(p, m, o, Append(b, r), id, w)
<1> DEFINE c == Append(b, r)
<1>1. /\ c \in Seq(Replies) /\ Len(c) = Len(b) + 1 /\ Len(p) \in Nat /\ Len(b) \in Nat
      /\ c[Len(b) + 1] = r /\ \A k \in 1 .. Len(b) : c[k] = b[k]
  BY AppendOf, LenProperties
<1> HIDE DEF c
<1>2. \A k \in 1 .. Len(c) : c[k].id = Behind(id, Len(p) + m + Len(c) + 1 - k)
  <2> TAKE k \in 1 .. Len(c)
  <2>1. CASE k = Len(b) + 1
    <3>1. Len(p) + m + Len(c) + 1 - k = Len(p) + 1
      BY <1>1, <2>1
    <3> QED
      BY <1>1, <2>1, <3>1 DEF AsksOf
  <2>2. CASE k # Len(b) + 1
    <3>1. k \in 1 .. Len(b) /\ Len(p) + m + Len(c) + 1 - k = Len(p) + n + Len(b) + 1 - k
      BY <1>1, <2>2
    <3> QED
      BY <1>1, <3>1 DEF AsksOf
  <2> QED
    BY <2>1, <2>2
<1>3. w # NoCall => w.id = Behind(id, 1) /\ Len(p) + m + Len(c) > 0
  BY <1>1 DEF AsksOf
<1> QED
  BY <1>2, <1>3 DEF AsksOf, c

-----------------------------------------------------------------------------
(* The asks of tg-display.                                                  *)

\* tg-display asks under the id it has.
LEMMA OnServed ==
    ASSUME NEW l \in Seq(Frames), NEW a \in Seq(Replies), NEW id \in 0 .. IDS - 1,
           NEW f \in Frames, f.id = id,
           NEW m \in Nat, NEW n \in Nat, m = 0, n = 1, AsksOn(l, a, m, id)
    PROVE  AsksOn(Append(l, f), a, n, id)
<1> DEFINE q == Append(l, f)
<1>1. /\ q \in Seq(Frames) /\ Len(q) = Len(l) + 1 /\ q[Len(l) + 1] = f
      /\ \A k \in 1 .. Len(l) : q[k] = l[k]
  BY AppendOf
<1>2. Len(l) \in Nat /\ Len(a) \in Nat /\ IDS \in Nat /\ Behind(id, m) = id
  BY LenProperties, IdsAre, BehindNone
<1> HIDE DEF q
<1>3. ASSUME NEW k \in 1 .. Len(q) PROVE q[k].id = Behind(id, Len(q) + 1 - n - k)
  <2>1. CASE k = Len(l) + 1
    <3>1. Len(q) + 1 - n - k = m
      BY <1>1, <1>2, <2>1
    <3> QED
      BY <1>1, <1>2, <2>1, <3>1
  <2>2. CASE k # Len(l) + 1
    <3>1. k \in 1 .. Len(l) /\ Len(q) + 1 - n - k = Len(l) + 1 - m - k
      BY <1>1, <1>2, <2>2
    <3>2. l[k].id = Behind(id, Len(l) + 1 - m - k)
      BY <3>1 DEF AsksOn
    <3> QED
      BY <1>1, <3>1, <3>2
  <2> QED
    BY <2>1, <2>2
<1>4. ASSUME NEW k \in 1 .. Len(a) PROVE a[k].id = Behind(id, Len(q) + Len(a) + 1 - n - k)
  <2>1. Len(q) + Len(a) + 1 - n - k = Len(l) + Len(a) + 1 - m - k
    BY <1>1, <1>2
  <2> QED
    BY <2>1 DEF AsksOn
<1>5. Len(q) + Len(a) > 0
  BY <1>1, <1>2
<1> QED
  BY <1>3, <1>4, <1>5 DEF AsksOn, q

\* The board answers the first one.
LEMMA OnTaken ==
    ASSUME NEW l \in Seq(Frames), NEW a \in Seq(Replies), NEW id \in 0 .. IDS - 1, l # <<>>,
           NEW n \in Nat, NEW r \in Replies, r.id = Head(l).id, AsksOn(l, a, n, id)
    PROVE  AsksOn(Tail(l), Append(a, r), n, id)
<1> DEFINE q == Tail(l)
           c == Append(a, r)
<1>1. /\ q \in Seq(Frames) /\ Len(q) = Len(l) - 1 /\ Len(q) \in Nat
      /\ \A k \in 1 .. Len(q) : q[k] = l[k + 1]
      /\ Head(l) = l[1]
  BY TailOf, LenProperties
<1>2. /\ c \in Seq(Replies) /\ Len(c) = Len(a) + 1 /\ c[Len(a) + 1] = r
      /\ \A k \in 1 .. Len(a) : c[k] = a[k]
  BY AppendOf
<1>3. Len(l) \in Nat /\ Len(l) > 0 /\ Len(a) \in Nat /\ IDS \in Nat
  BY TailOf, LenProperties, IdsAre
<1> HIDE DEF q, c
<1>4. ASSUME NEW k \in 1 .. Len(q) PROVE q[k].id = Behind(id, Len(q) + 1 - n - k)
  <2>1. k + 1 \in 1 .. Len(l) /\ Len(l) + 1 - n - (k + 1) = Len(q) + 1 - n - k
    BY <1>1, <1>3
  <2>2. l[k + 1].id = Behind(id, Len(l) + 1 - n - (k + 1))
    BY <2>1 DEF AsksOn
  <2> QED
    BY <1>1, <2>1, <2>2
<1>5. ASSUME NEW k \in 1 .. Len(c) PROVE c[k].id = Behind(id, Len(q) + Len(c) + 1 - n - k)
  <2>1. CASE k = Len(a) + 1
    <3>1. 1 \in 1 .. Len(l) /\ Len(q) + Len(c) + 1 - n - k = Len(l) + 1 - n - 1
      BY <1>1, <1>2, <1>3, <2>1
    <3>2. l[1].id = Behind(id, Len(l) + 1 - n - 1)
      BY <3>1 DEF AsksOn
    <3> QED
      BY <1>1, <1>2, <2>1, <3>1, <3>2
  <2>2. CASE k # Len(a) + 1
    <3>1. k \in 1 .. Len(a) /\ Len(q) + Len(c) + 1 - n - k = Len(l) + Len(a) + 1 - n - k
      BY <1>1, <1>2, <1>3, <2>2
    <3>2. a[k].id = Behind(id, Len(l) + Len(a) + 1 - n - k)
      BY <3>1 DEF AsksOn
    <3> QED
      BY <1>2, <3>1, <3>2
  <2> QED
    BY <2>1, <2>2
<1>6. Len(q) + Len(c) > 0
  BY <1>1, <1>2, <1>3
<1> QED
  BY <1>4, <1>5, <1>6 DEF AsksOn, q, c

\* tg-display reads an answer: its own one is the last, and no other is.
LEMMA OnHeard ==
    ASSUME NEW l \in Seq(Frames), NEW a \in Seq(Replies), NEW id \in 0 .. IDS - 1, a # <<>>,
           NEW m \in Nat, NEW n \in Nat, m = 0, n = 1,
           AsksOn(l, a, n, id), Len(l) + Len(a) <= IDS
    PROVE  /\ Head(a).id = id => /\ l = <<>> /\ Len(a) = 1
                                 /\ AsksOn(l, Tail(a), m, Next1(id))
           /\ Head(a).id # id => AsksOn(l, Tail(a), n, id)
<1> DEFINE q == Tail(a)
<1>1. /\ q \in Seq(Replies) /\ Len(q) = Len(a) - 1 /\ Len(q) \in Nat
      /\ \A k \in 1 .. Len(q) : q[k] = a[k + 1]
      /\ Head(a) = a[1]
  BY TailOf, LenProperties
<1>2. Len(a) \in Nat /\ Len(a) > 0 /\ Len(l) \in Nat /\ IDS \in Nat
  BY TailOf, LenProperties, IdsAre
<1> HIDE DEF q
<1>3. Head(a).id = Behind(id, Len(l) + Len(a) - 1)
  <2>1. 1 \in 1 .. Len(a) /\ Len(l) + Len(a) + 1 - n - 1 = Len(l) + Len(a) - 1
    BY <1>1, <1>2
  <2>2. a[1].id = Behind(id, Len(l) + Len(a) + 1 - n - 1)
    BY <2>1 DEF AsksOn
  <2> QED
    BY <1>1, <2>1, <2>2
<1>4. Len(l) + Len(a) > 1 => Head(a).id # id
  <2> SUFFICES ASSUME Len(l) + Len(a) > 1 PROVE Head(a).id # id
    OBVIOUS
  <2> DEFINE v == Len(l) + Len(a) - 1
  <2>1. m \in 0 .. IDS /\ v \in 0 .. IDS /\ m < v /\ v - m < IDS
    BY <1>2
  <2>2. Behind(id, m) = id
    BY BehindNone
  <2> HIDE DEF v
  <2>3. Behind(id, m) # Behind(id, v)
    BY <2>1, BehindDiffers
  <2> QED
    BY <1>3, <2>2, <2>3 DEF v
<1>5. Len(l) + Len(a) = 1 => Head(a).id = id
  <2> SUFFICES ASSUME Len(l) + Len(a) = 1 PROVE Head(a).id = id
    OBVIOUS
  <2>1. Len(l) + Len(a) - 1 = m
    BY <1>2
  <2> QED
    BY <1>3, <2>1, BehindNone
<1>6. Len(l) + Len(a) = 1 => l = <<>> /\ Len(a) = 1 /\ Len(q) = 0 /\ Len(l) = 0
  <2>1. Len(l) = 0 => l = <<>>
    BY EmptySeq
  <2> QED
    BY <1>1, <1>2, <2>1
<1>7. Len(l) + Len(a) > 1 => AsksOn(l, q, n, id)
  <2> SUFFICES ASSUME Len(l) + Len(a) > 1 PROVE AsksOn(l, q, n, id)
    OBVIOUS
  <2>1. ASSUME NEW k \in 1 .. Len(q) PROVE q[k].id = Behind(id, Len(l) + Len(q) + 1 - n - k)
    <3>1. k + 1 \in 1 .. Len(a) /\ Len(l) + Len(a) + 1 - n - (k + 1) = Len(l) + Len(q) + 1 - n - k
      BY <1>1, <1>2
    <3>2. a[k + 1].id = Behind(id, Len(l) + Len(a) + 1 - n - (k + 1))
      BY <3>1 DEF AsksOn
    <3> QED
      BY <1>1, <3>1, <3>2
  <2>2. Len(l) + Len(q) > 0
    BY <1>1, <1>2
  <2> QED
    BY <2>1, <2>2 DEF AsksOn
<1>8. Len(l) + Len(a) = 1 => AsksOn(l, q, m, Next1(id))
  BY <1>6 DEF AsksOn
<1>9. Len(l) + Len(a) > 1 \/ Len(l) + Len(a) = 1
  BY <1>2
<1> QED
  BY <1>4, <1>5, <1>6, <1>7, <1>8, <1>9 DEF q

\* tg-display waits no more for its ask.
LEMMA OnGivenUp ==
    ASSUME NEW l \in Seq(Frames), NEW a \in Seq(Replies), NEW id \in 0 .. IDS - 1,
           NEW m \in Nat, NEW n \in Nat, m = 0, n = 1,
           AsksOn(l, a, n, id), Len(l) + Len(a) <= IDS
    PROVE  AsksOn(l, a, m, Next1(id))
<1>1. Len(l) \in Nat /\ Len(a) \in Nat /\ IDS \in Nat
  BY LenProperties, IdsAre
<1>2. \A k \in 0 .. IDS - 1 : Behind(Next1(id), k + 1) = Behind(id, k)
  BY BehindNext
<1>3. ASSUME NEW k \in 1 .. Len(l) PROVE l[k].id = Behind(Next1(id), Len(l) + 1 - m - k)
  <2>1. Len(l) + 1 - n - k \in 0 .. IDS - 1 /\ Len(l) + 1 - m - k = (Len(l) + 1 - n - k) + 1
    BY <1>1
  <2>2. l[k].id = Behind(id, Len(l) + 1 - n - k)
    BY DEF AsksOn
  <2> QED
    BY <1>2, <2>1, <2>2
<1>4. ASSUME NEW k \in 1 .. Len(a) PROVE a[k].id = Behind(Next1(id), Len(l) + Len(a) + 1 - m - k)
  <2>1. /\ Len(l) + Len(a) + 1 - n - k \in 0 .. IDS - 1
        /\ Len(l) + Len(a) + 1 - m - k = (Len(l) + Len(a) + 1 - n - k) + 1
    BY <1>1
  <2>2. a[k].id = Behind(id, Len(l) + Len(a) + 1 - n - k)
    BY DEF AsksOn
  <2> QED
    BY <1>2, <2>1, <2>2
<1> QED
  BY <1>3, <1>4 DEF AsksOn

-----------------------------------------------------------------------------
(* The types of the path, and the room there is.                            *)

LEMMA PathIs ==
    ASSUME PathTypes
    PROVE  /\ \A c \in Clients : /\ pipe[c] \in Seq(Frames) /\ back[c] \in Seq(Replies)
                                 /\ call[c] \in Frames \cup {NoCall} /\ corr[c] \in 0 .. IDS - 1
                                 /\ Len(pipe[c]) \in Nat /\ Len(back[c]) \in Nat
                                 /\ Served(c) \in {0, 1} /\ Awaits(call[c]) \in {0, 1}
           /\ line \in Seq(Frames) /\ answers \in Seq(Replies)
           /\ Len(line) \in Nat /\ Len(answers) \in Nat /\ Serving \in {0, 1}
           /\ dsp.id \in 0 .. IDS - 1 /\ dsp.owed \in 0 .. IDS - 1
           /\ dsp.client \in Clients \cup {"none"}
           /\ spare["late"] \in Nat /\ spare["late"] <= MaxLate
<1>1. \A c \in Clients : /\ pipe[c] \in Seq(Frames) /\ back[c] \in Seq(Replies)
                         /\ call[c] \in Frames \cup {NoCall} /\ corr[c] \in 0 .. IDS - 1
  BY DEF PathTypes
<1>2. dsp.id \in 0 .. IDS - 1 /\ dsp.owed \in 0 .. IDS - 1 /\ dsp.client \in Clients \cup {"none"}
  BY DEF PathTypes
<1>3. spare["late"] \in Nat /\ spare["late"] <= MaxLate
  BY DEF PathTypes, Bounds
<1>4. line \in Seq(Frames) /\ answers \in Seq(Replies)
  BY DEF PathTypes
<1> QED
  BY <1>1, <1>2, <1>3, <1>4, LenProperties DEF Served, Awaits, Serving

LEMMA ClientsAre ==
    /\ Clients = {"rest", "hass"} /\ "rest" # "hass" /\ "none" \notin Clients
    /\ \A w \in Frames : w # NoCall
<1>1. \A w \in Frames : w # NoCall
  BY IdsAre DEF Frames, NoCall
<1> QED
  BY <1>1 DEF Clients

\* The other client.
Other(c) == IF c = "rest" THEN "hass" ELSE "rest"

LEMMA OtherIs ==
    ASSUME NEW c \in Clients
    PROVE  /\ Other(c) \in Clients /\ Other(c) # c
           /\ \A d \in Clients : d # c => d = Other(c)
BY DEF Clients, Other

\* How many asks of a client are on the way, and how many of tg-display.
OnWay(c) == Len(pipe[c]) + Served(c) + Len(back[c])
OnTheLine == Len(line) + Len(answers)

LEMMA Rooms ==
    ASSUME PathTypes, IdsOK, StaleOK
    PROVE  /\ \A c \in Clients :
                /\ Stale(c) \in Nat /\ OnWay(c) \in Nat /\ Stale(c) = OnWay(c) - Awaits(call[c])
                /\ Stale(c) <= MaxLate - spare["late"]
                /\ OnWay(c) <= 1 + MaxLate - spare["late"] /\ OnWay(c) <= IDS
                /\ call[c] = NoCall => OnWay(c) <= MaxLate - spare["late"] /\ OnWay(c) < IDS
                /\ Stale(c) + Stale(Other(c)) + StaleOn <= MaxLate - spare["late"]
           /\ StaleOn \in Nat /\ StaleOn = OnTheLine - Serving
           /\ OnTheLine \in Nat /\ OnTheLine <= 1 + MaxLate - spare["late"] /\ OnTheLine <= IDS
           /\ dsp.client = "none" => OnTheLine < IDS
<1>1. ASSUME NEW c \in Clients
      PROVE  Stale(c) \in Nat /\ OnWay(c) \in Nat /\ Stale(c) = OnWay(c) - Awaits(call[c])
  <2>1. AsksOf(pipe[c], Served(c), dsp.owed, back[c], corr[c], call[c])
    BY DEF IdsOK
  <2>2. Len(pipe[c]) \in Nat /\ Len(back[c]) \in Nat /\ Served(c) \in {0, 1} /\ Awaits(call[c]) \in {0, 1}
    BY PathIs
  <2>3. OnWay(c) \in Nat
    BY <2>2 DEF OnWay
  <2>4. Stale(c) = OnWay(c) - Awaits(call[c])
    <3> DEFINE x == Len(pipe[c])
               u == Served(c)
               y == Len(back[c])
               v == Awaits(call[c])
    <3>1. x \in Nat /\ y \in Nat /\ u \in Nat /\ v \in Nat
      BY <2>2
    <3>2. Stale(c) = x + u + (y - v) /\ OnWay(c) = x + u + y
      BY DEF Stale, OnWay
    <3> HIDE DEF x, y, u, v
    <3>3. Stale(c) = OnWay(c) - v
      BY <3>1, <3>2
    <3> QED
      BY <3>3 DEF v
  <2>5. call[c] # NoCall => OnWay(c) > 0
    BY <2>1 DEF AsksOf, OnWay
  <2>6. Awaits(call[c]) = 1 => call[c] # NoCall
    BY DEF Awaits
  <2>7. Awaits(call[c]) = 1 => OnWay(c) > 0
    BY <2>5, <2>6
  <2> QED
    BY <2>2, <2>3, <2>4, <2>7
<1>2. StaleOn \in Nat /\ StaleOn = OnTheLine - Serving /\ OnTheLine \in Nat
  <2>1. AsksOn(line, answers, Serving, dsp.id)
    BY DEF IdsOK
  <2>2. Len(line) \in Nat /\ Len(answers) \in Nat /\ Serving \in {0, 1}
    BY PathIs
  <2>3. Serving = 1 => Len(line) + Len(answers) > 0
    BY <2>1 DEF AsksOn
  <2> QED
    BY <2>2, <2>3 DEF StaleOn, OnTheLine
<1>3. ASSUME NEW c \in Clients PROVE Stale(c) + Stale(Other(c)) + StaleOn <= MaxLate - spare["late"]
  <2>1. CASE c = "rest"
    BY <2>1 DEF Other, StaleOK
  <2>2. CASE c = "hass"
    <3>1. Other(c) = "rest" /\ "rest" \in Clients
      BY <2>2 DEF Other, Clients
    <3>2. Stale("rest") \in Nat /\ Stale("hass") \in Nat
      BY <1>1, <2>2, <3>1
    <3> QED
      BY <1>2, <2>2, <3>1, <3>2 DEF StaleOK
  <2> QED
    BY <2>1, <2>2 DEF Clients
<1>4. spare["late"] \in Nat /\ spare["late"] <= MaxLate /\ Serving \in {0, 1}
  BY PathIs
<1>5. ASSUME NEW c \in Clients
      PROVE  /\ Stale(c) <= MaxLate - spare["late"]
             /\ OnWay(c) <= 1 + MaxLate - spare["late"] /\ OnWay(c) <= IDS
             /\ call[c] = NoCall => OnWay(c) <= MaxLate - spare["late"] /\ OnWay(c) < IDS
  <2>1. Stale(c) \in Nat /\ Stale(Other(c)) \in Nat /\ OnWay(c) \in Nat
    BY <1>1, OtherIs
  <2>2. Stale(c) <= MaxLate - spare["late"]
    BY <1>2, <1>3, <1>4, <2>1, IdsAre
  <2>3. Stale(c) = OnWay(c) - Awaits(call[c])
    BY <1>1
  <2>4. Awaits(call[c]) \in {0, 1}
    BY PathIs
  <2>5. call[c] = NoCall => Awaits(call[c]) = 0
    BY DEF Awaits
  <2>6. OnWay(c) <= 1 + MaxLate - spare["late"] /\ OnWay(c) <= IDS
    BY <1>4, <2>1, <2>2, <2>3, <2>4, IdsAre
  <2>7. Awaits(call[c]) = 0 => OnWay(c) <= MaxLate - spare["late"] /\ OnWay(c) < IDS
    BY <1>4, <2>1, <2>2, <2>3, IdsAre
  <2> QED
    BY <2>2, <2>5, <2>6, <2>7
<1>6. StaleOn <= MaxLate - spare["late"]
  <2>1. "rest" \in Clients
    BY DEF Clients
  <2>2. Stale("rest") \in Nat /\ Stale(Other("rest")) \in Nat
    BY <1>1, <2>1, OtherIs
  <2>3. Stale("rest") + Stale(Other("rest")) + StaleOn <= MaxLate - spare["late"]
    BY <1>3, <2>1
  <2> QED
    BY <1>2, <1>4, <2>2, <2>3, IdsAre
<1>7. OnTheLine <= 1 + MaxLate - spare["late"] /\ OnTheLine <= IDS
  BY <1>2, <1>4, <1>6, IdsAre
<1>8. dsp.client = "none" => OnTheLine < IDS
  <2>1. dsp.client = "none" => Serving = 0
    BY DEF Serving
  <2>2. Serving = 0 => OnTheLine < IDS
    BY <1>2, <1>4, <1>6, IdsAre
  <2> QED
    BY <2>1, <2>2
<1> QED
  BY <1>1, <1>2, <1>3, <1>5, <1>7, <1>8

\* What is left of a bound.
LEMMA SpendIs ==
    ASSUME PathTypes, NEW what \in Bounds, Spend(what)
    PROVE  /\ spare' \in [Bounds -> Nat] /\ spare'["late"] <= MaxLate
           /\ what = "late" => spare'["late"] = spare["late"] - 1
           /\ what # "late" => spare'["late"] = spare["late"]
<1>1. spare \in [Bounds -> Nat] /\ spare["late"] <= MaxLate /\ "late" \in Bounds
  BY DEF PathTypes, Bounds
<1>2. spare[what] \in Nat /\ spare[what] > 0 /\ spare[what] - 1 \in Nat
  BY <1>1 DEF Spend
<1>3. spare' = [spare EXCEPT ![what] = spare[what] - 1]
  BY DEF Spend
<1>4. spare' \in [Bounds -> Nat]
  BY <1>1, <1>2, <1>3
<1>5. what = "late" => spare'["late"] = spare["late"] - 1
  BY <1>1, <1>3
<1>6. what # "late" => spare'["late"] = spare["late"]
  BY <1>1, <1>3
<1>7. spare'["late"] <= MaxLate
  <2>1. spare["late"] \in Nat
    BY <1>1
  <2>2. spare'["late"] = spare["late"] - 1 \/ spare'["late"] = spare["late"]
    BY <1>5, <1>6
  <2> QED
    BY <1>1, <2>1, <2>2, IdsAre
<1> QED
  BY <1>4, <1>5, <1>6, <1>7

-----------------------------------------------------------------------------
(* A step of a client.                                                      *)

Theirs(d) == /\ pipe'[d] = pipe[d] /\ back'[d] = back[d]
             /\ corr'[d] = corr[d] /\ call'[d] = call[d]

LEMMA ClientIds ==
    ASSUME PathTypes, IdsOK, StaleOK, PathTypes', NEW c \in Clients,
           UNCHANGED <<line, answers, dsp>>, \A d \in Clients \ {c} : Theirs(d),
           AsksOf(pipe'[c], Served(c), dsp.owed, back'[c], corr'[c], call'[c]),
           NEW n \in Nat, n = Len(pipe'[c]) + Served(c) + Len(back'[c]),
           n - Awaits(call'[c]) <= Stale(c) + (spare["late"] - spare'["late"])
    PROVE  IdsOK' /\ StaleOK'
<1>1. /\ \A d \in Clients : Served(d)' = Served(d)
      /\ Serving' = Serving /\ StaleOn' = StaleOn /\ dsp'.owed = dsp.owed /\ dsp'.id = dsp.id
  BY DEF Served, Serving, StaleOn
<1>2. \A d \in Clients \ {c} : Stale(d)' = Stale(d)
  BY <1>1 DEF Theirs, Stale
<1>3. IdsOK'
  <2>1. ASSUME NEW d \in Clients
        PROVE  AsksOf(pipe'[d], Served(d)', dsp'.owed, back'[d], corr'[d], call'[d])
    <3>1. CASE d = c
      BY <1>1, <3>1
    <3>2. CASE d # c
      <4>1. AsksOf(pipe[d], Served(d), dsp.owed, back[d], corr[d], call[d]) /\ Theirs(d)
        BY <3>2 DEF IdsOK
      <4> QED
        BY <1>1, <4>1 DEF Theirs
    <3> QED
      BY <3>1, <3>2
  <2>2. AsksOn(line', answers', Serving', dsp'.id)
    BY <1>1 DEF IdsOK
  <2> QED
    BY <2>1, <2>2 DEF IdsOK
<1>4. StaleOK'
  <2>1. /\ Len(pipe'[c]) \in Nat /\ Len(back'[c]) \in Nat /\ Served(c) \in {0, 1}
        /\ Awaits(call'[c]) \in {0, 1} /\ spare["late"] \in Nat /\ spare'["late"] \in Nat
    <3>1. (\A d \in Clients : Len(pipe[d]) \in Nat /\ Len(back[d]) \in Nat)'
      <4>1. (\A d \in Clients : pipe[d] \in Seq(Frames) /\ back[d] \in Seq(Replies))'
        BY DEF PathTypes
      <4> QED
        BY <4>1, LenProperties
    <3>2. spare'["late"] \in Nat
      BY DEF PathTypes, Bounds
    <3> QED
      BY <3>1, <3>2, PathIs DEF Awaits
  <2>2. Stale(c)' = n - Awaits(call'[c])
    <3>1. Stale(c)' = Len(pipe'[c]) + Served(c) + (Len(back'[c]) - Awaits(call'[c]))
      BY <1>1 DEF Stale
    <3> DEFINE x == Len(pipe'[c])
               y == Len(back'[c])
               u == Served(c)
               v == Awaits(call'[c])
    <3>2. x \in Nat /\ y \in Nat /\ u \in Nat /\ v \in Nat
      BY <2>1
    <3>3. Stale(c)' = x + u + (y - v) /\ n = x + u + y
      BY <3>1
    <3> HIDE DEF x, y, u, v
    <3>4. Stale(c)' = n - v
      BY <3>2, <3>3
    <3> QED
      BY <3>4 DEF v
  <2>3. /\ Stale(c) \in Nat /\ Stale(Other(c)) \in Nat /\ StaleOn \in Nat
        /\ Stale(c) + Stale(Other(c)) + StaleOn <= MaxLate - spare["late"]
    BY Rooms, OtherIs
  <2>4. Stale(Other(c))' = Stale(Other(c))
    <3>1. CASE c = "rest"
      BY <1>2, <3>1, ClientsAre DEF Other
    <3>2. CASE c = "hass"
      BY <1>2, <3>2, ClientsAre DEF Other
    <3> QED
      BY <3>1, <3>2 DEF Clients
  <2>5. n - Awaits(call'[c]) + Stale(Other(c)) + StaleOn <= MaxLate - spare'["late"]
    <3> DEFINE a == n - Awaits(call'[c])
               s == Stale(c)
               o == Stale(Other(c))
               z == StaleOn
               k == spare["late"]
               l == spare'["late"]
    <3>1. /\ a \in Int /\ s \in Nat /\ o \in Nat /\ z \in Nat /\ k \in Nat /\ l \in Nat
          /\ MaxLate \in Nat
      BY <2>1, <2>3, IdsAre
    <3>2. a <= s + (k - l) /\ s + o + z <= MaxLate - k
      BY <2>3
    <3> HIDE DEF a, s, o, z, k, l
    <3>3. a + o + z <= MaxLate - l
      BY <3>1, <3>2
    <3> QED
      BY <3>3 DEF a, o, z, l
  <2>6. Stale(c)' \in Int
    BY <2>1, <2>2
  <2>7. Stale(c)' + Stale(Other(c))' + StaleOn' <= MaxLate - spare'["late"]
    BY <1>1, <2>2, <2>4, <2>5
  <2>8. CASE c = "rest"
    BY <2>7, <2>8 DEF Other, StaleOK
  <2>9. CASE c = "hass"
    <3>1. Stale("hass")' + Stale("rest")' + StaleOn' <= MaxLate - spare'["late"]
      BY <2>7, <2>9 DEF Other
    <3>2. Stale("hass")' \in Int /\ Stale("rest")' \in Nat /\ StaleOn' \in Nat
      BY <1>1, <2>3, <2>4, <2>6, <2>9 DEF Other
    <3> QED
      BY <3>1, <3>2 DEF StaleOK
  <2> QED
    BY <2>8, <2>9 DEF Clients
<1> QED
  BY <1>3, <1>4

\* Where nothing is about tg-hass.
LEMMA HeardStays ==
    ASSUME HeardOK, Theirs("hass"), UNCHANGED <<line, answers, dsp>>, held \subseteq held'
    PROVE  HeardOK'
<1> DEFINE w == call["hass"]
           p == pipe["hass"]
           b == back["hass"]
<1>1. w # NoCall =>
         IF p # <<>> THEN Same(w, p[Len(p)])
         ELSE IF dsp.client # "hass" THEN Answers(w, b[Len(b)], held)
         ELSE IF line # <<>> THEN Same(w, line[Len(line)])
         ELSE Answers(w, answers[Len(answers)], held)
  BY DEF HeardOK
<1>2. \A r : Answers(w, r, held) => Answers(w, r, held')
  BY DEF Answers
<1>3. call'["hass"] = w /\ pipe'["hass"] = p /\ back'["hass"] = b
  BY DEF Theirs
<1> HIDE DEF w, p, b
<1>4. w # NoCall =>
         IF p # <<>> THEN Same(w, p[Len(p)])
         ELSE IF dsp'.client # "hass" THEN Answers(w, b[Len(b)], held')
         ELSE IF line' # <<>> THEN Same(w, line'[Len(line')])
         ELSE Answers(w, answers'[Len(answers')], held')
  BY <1>1, <1>2
<1> QED
  BY <1>3, <1>4 DEF HeardOK

\* Nothing of the path changes but that the board holds more.
LEMMA PathRests ==
    ASSUME PathInv, PathTypes', UNCHANGED <<line, answers, dsp, pipe, back, call, corr>>,
           held \subseteq held', spare'["late"] = spare["late"]
    PROVE  PathInv'
<1>1. IdsOK' /\ StaleOK'
  BY DEF PathInv, IdsOK, StaleOK, Stale, StaleOn, Served, Serving
<1>2. Theirs("hass")
  BY DEF Theirs
<1>3. HeardOK'
  BY <1>2, HeardStays DEF PathInv
<1> QED
  BY <1>1, <1>3 DEF PathInv

\* The reply to the ask that tg-hass waits for is the answer to it.
LEMMA HeardReply ==
    ASSUME HeardOK, call["hass"] # NoCall, pipe["hass"] = <<>>, dsp.client # "hass",
           Len(back["hass"]) = 1, Head(back["hass"]) = back["hass"][1]
    PROVE  Answers(call["hass"], Head(back["hass"]), held)
BY DEF HeardOK

\* The wait of a client ends, with the answer or without.
LEMMA WaitEnds ==
    ASSUME PathInv, NEW c \in Clients, call[c] # NoCall, NEW r \in Outcomes(c), Ends(c, r)
    PROVE  /\ r \in Replies
           /\ back' \in [Clients -> Seq(Replies)]
           /\ \A d \in Clients \ {c} : back'[d] = back[d]
           /\ spare' \in [Bounds -> Nat] /\ spare'["late"] <= MaxLate
           /\ \A what \in Bounds \ {"late"} : spare'[what] = spare[what]
           /\ AsksOf(pipe[c], Served(c), dsp.owed, back'[c], corr[c], NoCall)
           /\ Len(pipe[c]) + Served(c) + Len(back'[c])
                <= Stale(c) + (spare["late"] - spare'["late"])
           /\ spare'["late"] <= spare["late"]
           /\ c = "hass" => Answers(call[c], r, held)
<1> DEFINE p == pipe[c]
           b == back[c]
           n == Served(c)
           w == call[c]
<1>1. /\ p \in Seq(Frames) /\ b \in Seq(Replies) /\ n \in {0, 1} /\ n \in Nat
      /\ w \in Frames /\ corr[c] \in 0 .. IDS - 1 /\ Len(p) \in Nat /\ Len(b) \in Nat
      /\ w # NoCall /\ Awaits(w) = 1
  BY PathIs DEF PathInv, Awaits
<1>2. AsksOf(p, n, dsp.owed, b, corr[c], w)
  BY DEF PathInv, IdsOK
<1>3. /\ OnWay(c) <= IDS /\ OnWay(c) = Len(p) + n + Len(b) /\ OnWay(c) \in Nat
      /\ Stale(c) = OnWay(c) - 1
  BY <1>1, Rooms DEF PathInv, OnWay
<1>4. /\ back \in [Clients -> Seq(Replies)] /\ spare \in [Bounds -> Nat]
      /\ spare["late"] <= MaxLate /\ spare["late"] \in Nat /\ "late" \in Bounds
  BY DEF PathInv, PathTypes, Bounds
<1>5. CASE /\ b # <<>> /\ r = Head(b) /\ IsOwn(w, r)
           /\ back' = [back EXCEPT ![c] = Tail(b)] /\ UNCHANGED spare
  <2>1. /\ Tail(b) \in Seq(Replies) /\ Len(Tail(b)) = Len(b) - 1 /\ Head(b) = b[1] /\ Head(b) \in Replies
    BY <1>1, <1>5, TailOf
  <2>2. Head(b).id = w.id
    BY <1>5 DEF IsOwn
  <2>3. Len(p) + n + Len(b) <= IDS
    BY <1>3
  <2>4. AsksOf(p, n, dsp.owed, Tail(b), corr[c], NoCall) /\ p = <<>> /\ n = 0 /\ Len(b) = 1
    <3> HIDE DEF p, b, n, w
    <3> QED
      BY <1>1, <1>2, <1>5, <2>2, <2>3, AsksAnswered
  <2>5. back'[c] = Tail(b) /\ back' \in [Clients -> Seq(Replies)] /\ \A d \in Clients \ {c} : back'[d] = back[d]
    BY <1>4, <1>5, <2>1
  <2>6. Len(p) + n + Len(back'[c]) <= Stale(c) + (spare["late"] - spare'["late"])
    <3>1. Len(back'[c]) = Len(b) - 1 /\ spare'["late"] = spare["late"]
      BY <1>5, <2>1, <2>5
    <3> HIDE DEF p, b, n, w
    <3> QED
      BY <1>1, <1>3, <1>4, <3>1
  <2>7. c = "hass" => Answers(w, r, held)
    <3>1. c = "hass" => dsp.client # "hass"
      BY <2>4 DEF Served
    <3> QED
      BY <1>5, <2>1, <2>4, <3>1, HeardReply DEF PathInv
  <2>8. spare'["late"] <= spare["late"]
    BY <1>4, <1>5
  <2> QED
    BY <1>4, <1>5, <2>1, <2>4, <2>5, <2>6, <2>7, <2>8
<1>6. CASE r = Silence(w.id) /\ Spend("late") /\ UNCHANGED back
  <2>1. /\ spare' \in [Bounds -> Nat] /\ spare'["late"] <= MaxLate
        /\ spare'["late"] = spare["late"] - 1
    BY <1>4, <1>6, SpendIs DEF PathInv
  <2>2. r \in Replies /\ r.ok = FALSE
    <3>1. w.id \in 0 .. IDS - 1
      BY <1>1 DEF Frames
    <3>2. Bare \in Board
      BY IdsAre DEF Bare, Board, Pairs, Levels, Words
    <3> QED
      BY <1>6, <3>1, <3>2 DEF Silence, Replies
  <2>3. AsksOf(p, n, dsp.owed, back'[c], corr[c], NoCall)
    BY <1>2, <1>6 DEF AsksOf
  <2>4. Len(p) + n + Len(back'[c]) <= Stale(c) + (spare["late"] - spare'["late"])
    <3>1. Len(back'[c]) = Len(b)
      BY <1>6
    <3> HIDE DEF p, b, n, w
    <3> QED
      BY <1>1, <1>3, <1>4, <2>1, <3>1
  <2>5. Answers(w, r, held)
    BY <2>2 DEF Answers
  <2>6. spare'["late"] <= spare["late"]
    BY <1>4, <2>1
  <2>7. \A what \in Bounds \ {"late"} : spare'[what] = spare[what]
    BY <1>4, <1>6 DEF Spend
  <2> QED
    BY <1>4, <1>6, <2>1, <2>2, <2>3, <2>4, <2>5, <2>6, <2>7
<1> QED
  BY <1>5, <1>6 DEF Ends

\* Client c waits for nothing, and what it asked before is on the way.
Ended(c) ==
    /\ back' \in [Clients -> Seq(Replies)]
    /\ \A d \in Clients \ {c} : back'[d] = back[d]
    /\ spare' \in [Bounds -> Nat] /\ spare'["late"] <= MaxLate
    /\ AsksOf(pipe[c], Served(c), dsp.owed, back'[c], corr[c], NoCall)
    /\ Len(pipe[c]) + Served(c) + Len(back'[c]) <= Stale(c) + (spare["late"] - spare'["late"])

LEMMA EndedBefore ==
    ASSUME PathInv, NEW c \in Clients, call[c] = NoCall, UNCHANGED back,
           spare' \in [Bounds -> Nat], spare'["late"] = spare["late"]
    PROVE  Ended(c)
<1>1. AsksOf(pipe[c], Served(c), dsp.owed, back'[c], corr[c], NoCall)
  BY DEF PathInv, IdsOK
<1>2. back' \in [Clients -> Seq(Replies)] /\ back'[c] = back[c]
  BY DEF PathInv, PathTypes
<1>3. Stale(c) = Len(pipe[c]) + Served(c) + Len(back[c])
  <2>1. Awaits(call[c]) = 0
    BY DEF Awaits
  <2>2. Stale(c) = OnWay(c) - Awaits(call[c]) /\ OnWay(c) \in Nat
    BY Rooms DEF PathInv
  <2> QED
    BY <2>1, <2>2 DEF OnWay
<1>4. Stale(c) \in Nat /\ spare["late"] \in Nat /\ spare["late"] <= MaxLate
  BY PathIs, Rooms DEF PathInv
<1>5. Len(pipe[c]) + Served(c) + Len(back'[c]) <= Stale(c) + (spare["late"] - spare'["late"])
  BY <1>2, <1>3, <1>4
<1> QED
  BY <1>1, <1>2, <1>4, <1>5 DEF Ended

LEMMA Asked ==
    ASSUME PathInv, NEW c \in Clients, Ended(c), NEW op, NEW arg, Ask(c, op, arg),
           op \in Operations, arg \in Pairs, op \in {"text", "ext"} => arg[1] \in Words,
           UNCHANGED <<line, answers, dsp, board>>
    PROVE  /\ PathInv'
           /\ call'[c] = [id |-> corr[c], op |-> op, arg |-> arg]
           /\ \A d \in Clients \ {c} : call'[d] = call[d]
<1> DEFINE f == [id |-> corr[c], op |-> op, arg |-> arg]
           p == pipe[c]
           b == back'[c]
           n == Served(c)
<1>1. /\ p \in Seq(Frames) /\ n \in {0, 1} /\ n \in Nat /\ corr[c] \in 0 .. IDS - 1
      /\ Len(p) \in Nat /\ spare["late"] \in Nat /\ Stale(c) \in Nat
      /\ Stale(c) <= MaxLate - spare["late"]
  BY PathIs, Rooms DEF PathInv
<1>2. b \in Seq(Replies) /\ Len(b) \in Nat /\ spare'["late"] \in Nat
  <2>1. b \in Seq(Replies) /\ spare'["late"] \in Nat
    BY DEF Ended, Bounds
  <2> QED
    BY <2>1, LenProperties
<1>3. f \in Frames /\ f.id = corr[c] /\ f # NoCall /\ Awaits(f) = 1
  <2>1. f \in Frames
    BY <1>1 DEF Frames, Fits
  <2> QED
    BY <2>1, ClientsAre DEF Awaits
<1>4. /\ AsksOf(p, n, dsp.owed, b, corr[c], NoCall)
      /\ Len(p) + n + Len(b) <= Stale(c) + (spare["late"] - spare'["late"])
  BY DEF Ended
<1>5. Len(p) + n + Len(b) < IDS
  <2> HIDE DEF p, b, n
  <2> QED
    BY <1>1, <1>2, <1>4, IdsAre
<1>6. AsksOf(Append(p, f), n, dsp.owed, b, Next1(corr[c]), f)
  <2> HIDE DEF p, b, n, f
  <2> QED
    BY <1>1, <1>2, <1>3, <1>4, <1>5, AsksMore
<1>7. /\ Append(p, f) \in Seq(Frames) /\ Len(Append(p, f)) = Len(p) + 1 /\ Append(p, f) # <<>>
      /\ Append(p, f)[Len(p) + 1] = f
  BY <1>1, <1>3, AppendOf
<1>8. Next1(corr[c]) \in 0 .. IDS - 1
  BY <1>1, NextType
<1>9. /\ pipe \in [Clients -> Seq(Frames)] /\ call \in [Clients -> Frames \cup {NoCall}]
      /\ corr \in [Clients -> 0 .. IDS - 1]
  BY DEF PathInv, PathTypes
<1>10. /\ call' = [call EXCEPT ![c] = f] /\ call'[c] = f
       /\ pipe' = [pipe EXCEPT ![c] = Append(p, f)]
       /\ corr' = [corr EXCEPT ![c] = Next1(corr[c])]
  BY <1>9 DEF Ask
<1> HIDE DEF f
<1>11. /\ pipe' \in [Clients -> Seq(Frames)] /\ call' \in [Clients -> Frames \cup {NoCall}]
       /\ corr' \in [Clients -> 0 .. IDS - 1]
       /\ pipe'[c] = Append(p, f) /\ corr'[c] = Next1(corr[c])
       /\ \A d \in Clients \ {c} : Theirs(d)
  BY <1>3, <1>7, <1>8, <1>9, <1>10 DEF Theirs, Ended
<1>12. PathTypes'
  <2>1. held' \subseteq Pairs /\ board'.levels \in held'
    <3>1. board.levels \in held /\ held \subseteq Pairs
      BY DEF PathInv, PathTypes
    <3> QED
      BY <3>1 DEF Ask
  <2> QED
    BY <1>11, <2>1 DEF PathInv, PathTypes, Ended
<1>13. IdsOK' /\ StaleOK'
  <2> DEFINE m == Len(pipe'[c]) + Served(c) + Len(back'[c])
  <2>1. m \in Nat /\ m = Len(p) + n + Len(b) + 1
    <3>1. m = (Len(p) + 1) + n + Len(b)
      BY <1>7, <1>11
    <3>2. Len(p) \in Nat /\ n \in Nat /\ Len(b) \in Nat
      BY <1>1, <1>2
    <3> HIDE DEF m, p, n, b
    <3> QED
      BY <3>1, <3>2
  <2>2. m - Awaits(call'[c]) <= Stale(c) + (spare["late"] - spare'["late"])
    <3>1. Awaits(call'[c]) = 1
      BY <1>3, <1>10
    <3> HIDE DEF p, n, b, m
    <3> QED
      BY <1>1, <1>2, <1>4, <2>1, <3>1
  <2>3. AsksOf(pipe'[c], Served(c), dsp.owed, back'[c], corr'[c], call'[c])
    BY <1>6, <1>10, <1>11
  <2> HIDE DEF m
  <2> QED
    BY <1>11, <1>12, <2>1, <2>2, <2>3, ClientIds DEF PathInv, m
<1>14. HeardOK'
  <2>1. CASE c = "hass"
    <3>1. /\ pipe'["hass"] # <<>> /\ pipe'["hass"][Len(pipe'["hass"])] = f /\ call'["hass"] = f
      BY <1>7, <1>10, <1>11, <2>1
    <3> QED
      BY <3>1 DEF HeardOK, Same
  <2>2. CASE c # "hass"
    <3>1. Theirs("hass") /\ held' = held
      BY <1>11, <2>2, ClientsAre DEF Ask
    <3> QED
      BY <3>1, HeardStays DEF PathInv
  <2> QED
    BY <2>1, <2>2
<1>15. \A d \in Clients \ {c} : call'[d] = call[d]
  BY <1>11 DEF Theirs
<1> QED
  BY <1>10, <1>12, <1>13, <1>14, <1>15 DEF PathInv, f

LEMMA Returned ==
    ASSUME PathInv, NEW c \in Clients, Ended(c), call' = [call EXCEPT ![c] = NoCall],
           UNCHANGED <<line, answers, dsp, board, pipe, corr, held>>
    PROVE  PathInv' /\ call'[c] = NoCall /\ \A d \in Clients \ {c} : call'[d] = call[d]
<1>1. call \in [Clients -> Frames \cup {NoCall}]
  BY DEF PathInv, PathTypes
<1>2. call' \in [Clients -> Frames \cup {NoCall}] /\ call'[c] = NoCall /\ \A d \in Clients \ {c} : Theirs(d)
  BY <1>1 DEF Theirs, Ended
<1>3. PathTypes'
  BY <1>2 DEF PathInv, PathTypes, Ended
<1>4. IdsOK' /\ StaleOK'
  <2> DEFINE m == Len(pipe'[c]) + Served(c) + Len(back'[c])
  <2>1. m \in Nat /\ m <= Stale(c) + (spare["late"] - spare'["late"])
    <3>1. m <= Stale(c) + (spare["late"] - spare'["late"])
      BY DEF Ended
    <3>2. back'[c] \in Seq(Replies)
      BY DEF Ended
    <3>3. Len(pipe'[c]) \in Nat /\ Len(back'[c]) \in Nat /\ Served(c) \in Nat
      BY <3>2, PathIs, LenProperties DEF PathInv
    <3> QED
      BY <3>1, <3>3
  <2>2. m - Awaits(call'[c]) <= Stale(c) + (spare["late"] - spare'["late"])
    <3>1. Awaits(call'[c]) = 0
      BY <1>2 DEF Awaits
    <3> HIDE DEF m
    <3> QED
      BY <2>1, <3>1
  <2>3. AsksOf(pipe'[c], Served(c), dsp.owed, back'[c], corr'[c], call'[c])
    BY <1>2 DEF Ended
  <2> HIDE DEF m
  <2> QED
    BY <1>2, <1>3, <2>1, <2>2, <2>3, ClientIds DEF PathInv, m
<1>5. HeardOK'
  <2>1. CASE c = "hass"
    BY <1>2, <2>1 DEF HeardOK
  <2>2. CASE c # "hass"
    <3>1. Theirs("hass")
      BY <1>2, <2>2, ClientsAre
    <3> QED
      BY <3>1, HeardStays DEF PathInv
  <2> QED
    BY <2>1, <2>2
<1>6. \A d \in Clients \ {c} : call'[d] = call[d]
  BY <1>2 DEF Theirs
<1> QED
  BY <1>2, <1>3, <1>4, <1>5, <1>6 DEF PathInv

LEMMA DropPath ==
    ASSUME PathInv, NEW c \in Clients, DropLate(c)
    PROVE  PathInv'
<1> DEFINE p == pipe[c]
           b == back[c]
           n == Served(c)
           w == call[c]
<1>1. /\ p \in Seq(Frames) /\ b \in Seq(Replies) /\ n \in {0, 1} /\ n \in Nat
      /\ corr[c] \in 0 .. IDS - 1 /\ Len(p) \in Nat /\ Len(b) \in Nat
      /\ w # NoCall /\ Awaits(w) = 1 /\ b # <<>> /\ Head(b).id # w.id
  BY PathIs DEF PathInv, Awaits, DropLate, IsOwn
<1>2. AsksOf(p, n, dsp.owed, b, corr[c], w)
  BY DEF PathInv, IdsOK
<1>3. /\ OnWay(c) <= IDS /\ OnWay(c) = Len(p) + n + Len(b) /\ OnWay(c) \in Nat
      /\ Stale(c) = OnWay(c) - 1
  BY <1>1, Rooms DEF PathInv, OnWay
<1>4. /\ Tail(b) \in Seq(Replies) /\ Len(Tail(b)) = Len(b) - 1 /\ Len(Tail(b)) \in Nat
      /\ \A k \in 1 .. Len(Tail(b)) : Tail(b)[k] = b[k + 1]
  BY <1>1, TailOf, LenProperties
<1>5. AsksOf(p, n, dsp.owed, Tail(b), corr[c], w)
  <2>1. Len(p) + n + Len(b) <= IDS
    BY <1>3
  <2> HIDE DEF p, b, n, w
  <2> QED
    BY <1>1, <1>2, <2>1, AsksAnswered
<1>6. back' = [back EXCEPT ![c] = Tail(b)] /\ UNCHANGED <<board, line, answers, dsp, pipe, call, corr, spare, held>>
  BY DEF DropLate
<1>7. /\ back' \in [Clients -> Seq(Replies)] /\ back'[c] = Tail(b)
      /\ \A d \in Clients \ {c} : Theirs(d)
  BY <1>4, <1>6 DEF PathInv, PathTypes, Theirs
<1>8. PathTypes'
  BY <1>6, <1>7 DEF PathInv, PathTypes
<1>9. IdsOK' /\ StaleOK'
  <2> DEFINE m == Len(pipe'[c]) + Served(c) + Len(back'[c])
  <2>1. m \in Nat /\ m = Len(p) + n + Len(b) - 1
    <3>1. m = Len(p) + n + Len(Tail(b))
      BY <1>6, <1>7
    <3>2. /\ Len(p) \in Nat /\ n \in Nat /\ Len(Tail(b)) \in Nat /\ Len(Tail(b)) = Len(b) - 1
          /\ Len(b) \in Nat
      BY <1>1, <1>4
    <3> DEFINE x == Len(Tail(b))
               y == Len(b)
               z == Len(p)
    <3>3. m = z + n + x /\ z \in Nat /\ n \in Nat /\ x \in Nat /\ y \in Nat /\ x = y - 1
      BY <3>1, <3>2
    <3> HIDE DEF x, y, z, m, n
    <3>4. m \in Nat /\ m = z + n + y - 1
      BY <3>3
    <3> QED
      BY <3>4 DEF y, z
  <2>2. m - Awaits(call'[c]) <= Stale(c) + (spare["late"] - spare'["late"])
    <3>1. Awaits(call'[c]) = 1 /\ spare' = spare
      BY <1>1, <1>6
    <3>2. spare["late"] \in Nat
      BY PathIs DEF PathInv
    <3> HIDE DEF m, p, n, b
    <3> QED
      BY <1>1, <1>3, <2>1, <3>1, <3>2
  <2>3. AsksOf(pipe'[c], Served(c), dsp.owed, back'[c], corr'[c], call'[c])
    BY <1>5, <1>6, <1>7
  <2> HIDE DEF m
  <2> QED
    BY <1>6, <1>7, <1>8, <2>1, <2>2, <2>3, ClientIds DEF PathInv, m
<1>10. HeardOK'
  <2>1. CASE c = "hass"
    <3>1. p = <<>> /\ dsp.client # "hass" => Tail(b)[Len(Tail(b))] = b[Len(b)]
      <4> SUFFICES ASSUME p = <<>>, dsp.client # "hass"
                   PROVE  Tail(b)[Len(Tail(b))] = b[Len(b)]
        OBVIOUS
      <4>1. n = 0 /\ Len(p) = 0
        BY <2>1, EmptySeq DEF Served
      <4>2. Len(p) + n + Len(Tail(b)) > 0
        BY <1>1, <1>5 DEF AsksOf
      <4>3. Len(Tail(b)) \in 1 .. Len(Tail(b)) /\ Len(Tail(b)) + 1 = Len(b)
        BY <1>1, <1>4, <4>1, <4>2
      <4> QED
        BY <1>4, <4>3
    <3>2. /\ call'["hass"] = w /\ pipe'["hass"] = p /\ back'["hass"] = Tail(b) /\ held' = held
          /\ dsp' = dsp /\ line' = line /\ answers' = answers
      BY <1>6, <1>7, <2>1
    <3>3. IF p # <<>> THEN Same(w, p[Len(p)])
          ELSE IF dsp.client # "hass" THEN Answers(w, b[Len(b)], held)
          ELSE IF line # <<>> THEN Same(w, line[Len(line)])
          ELSE Answers(w, answers[Len(answers)], held)
      BY <1>1, <2>1 DEF PathInv, HeardOK
    <3> HIDE DEF p, w, b
    <3> QED
      BY <3>1, <3>2, <3>3 DEF HeardOK
  <2>2. CASE c # "hass"
    <3>1. Theirs("hass")
      BY <1>7, <2>2, ClientsAre
    <3> QED
      BY <1>6, <3>1, HeardStays DEF PathInv
  <2> QED
    BY <2>1, <2>2
<1> QED
  BY <1>8, <1>9, <1>10 DEF PathInv

-----------------------------------------------------------------------------
(* The steps of tg-display and of the board.                               *)

\* tg-display serves nobody, and takes the first request of client c.
LEMMA ServePath ==
    ASSUME PathInv, NEW c \in Clients, Serve(c)
    PROVE  PathInv'
<1> DEFINE p == pipe[c]
           q == Tail(p)
           f == OfBoard(Head(p))
<1>1. /\ p \in Seq(Frames) /\ p # <<>> /\ dsp.client = "none" /\ dsp.id \in 0 .. IDS - 1
      /\ back[c] \in Seq(Replies) /\ Len(back[c]) \in Nat
      /\ corr[c] \in 0 .. IDS - 1 /\ line \in Seq(Frames) /\ answers \in Seq(Replies)
      /\ Len(line) \in Nat /\ Len(answers) \in Nat /\ spare["late"] \in Nat
  BY PathIs DEF PathInv, Serve
<1>2. /\ q \in Seq(Frames) /\ Len(q) = Len(p) - 1 /\ Len(q) \in Nat /\ Len(p) \in Nat
      /\ \A k \in 1 .. Len(q) : q[k] = p[k + 1]
      /\ Head(p) = p[1] /\ Head(p) \in Frames /\ Head(p).id \in 0 .. IDS - 1
  <2>1. /\ q \in Seq(Frames) /\ Len(q) = Len(p) - 1 /\ Len(p) \in Nat
        /\ \A k \in 1 .. Len(q) : q[k] = p[k + 1]
        /\ Head(p) = p[1] /\ Head(p) \in Frames
    BY <1>1, TailOf
  <2> QED
    BY <2>1, LenProperties DEF Frames
<1>3. f \in Frames /\ f.id = dsp.id /\ Same(Head(p), f)
  BY <1>1, <1>2 DEF Frames, Fits, OfBoard, Same
<1>4. /\ line' = Append(line, f) /\ pipe' = [pipe EXCEPT ![c] = q]
      /\ dsp' = [client |-> c, id |-> dsp.id, owed |-> Head(p).id]
      /\ UNCHANGED <<board, answers, back, call, corr, spare, held>>
  BY DEF Serve
<1> HIDE DEF f
<1>5. /\ pipe' \in [Clients -> Seq(Frames)] /\ pipe'[c] = q
      /\ \A d \in Clients \ {c} : pipe'[d] = pipe[d]
  BY <1>2, <1>4 DEF PathInv, PathTypes
<1>6. /\ line' \in Seq(Frames) /\ Len(line') = Len(line) + 1 /\ line' # <<>>
      /\ line'[Len(line')] = f /\ line'[Len(line) + 1] = f
  <2>1. /\ line' \in Seq(Frames) /\ Len(line') = Len(line) + 1 /\ line' # <<>>
        /\ line'[Len(line) + 1] = f
    BY <1>1, <1>3, <1>4, AppendOf
  <2> QED
    BY <2>1
<1>7. PathTypes'
  <2>1. dsp' \in [client : Clients \cup {"none"}, id : 0 .. IDS - 1, owed : 0 .. IDS - 1]
    BY <1>1, <1>2, <1>4
  <2> QED
    BY <1>4, <1>5, <1>6, <2>1 DEF PathInv, PathTypes
<1>8. /\ Serving = 0 /\ Serving' = 1 /\ Served(c) = 0 /\ Served(c)' = 1
      /\ \A d \in Clients \ {c} : Served(d) = 0 /\ Served(d)' = 0
  BY <1>1, <1>4, ClientsAre DEF Serving, Served
<1>9. IdsOK'
  <2>1. ASSUME NEW d \in Clients
        PROVE  AsksOf(pipe'[d], Served(d)', dsp'.owed, back'[d], corr'[d], call'[d])
    <3>1. AsksOf(pipe[d], Served(d), dsp.owed, back[d], corr[d], call[d])
      BY DEF PathInv, IdsOK
    <3>2. CASE d = c
      <4>1. AsksOf(q, Served(c)', Head(p).id, back[c], corr[c], call[c])
        <5>1. Served(c) \in Nat /\ Served(c)' \in Nat
          BY <1>8
        <5>2. AsksOf(p, Served(c), dsp.owed, back[c], corr[c], call[c])
          BY <3>1, <3>2
        <5> DEFINE m == Served(c)
                   n == Served(c)'
        <5> HIDE DEF m, n, p
        <5>3. AsksOf(Tail(p), n, Head(p).id, back[c], corr[c], call[c])
          BY <1>1, <1>8, <5>1, <5>2, AsksServed DEF m, n
        <5> QED
          BY <5>3 DEF n
      <4> QED
        BY <1>4, <1>5, <3>2, <4>1
    <3>3. CASE d # c
      <4>1. Served(d) = 0 /\ Served(d)' = 0 /\ pipe'[d] = pipe[d]
        BY <1>5, <1>8, <3>3
      <4>2. back'[d] = back[d] /\ corr'[d] = corr[d] /\ call'[d] = call[d]
        BY <1>4
      <4>3. Served(d)' # 1 /\ Served(d)' = Served(d)
        BY <4>1
      <4> QED
        BY <3>1, <4>1, <4>2, <4>3 DEF AsksOf
    <3> QED
      BY <3>2, <3>3
  <2>2. AsksOn(line', answers', Serving', dsp'.id)
    <3>1. AsksOn(line, answers, Serving, dsp.id)
      BY DEF PathInv, IdsOK
    <3>2. Serving \in Nat /\ Serving' \in Nat
      BY <1>8
    <3>3. AsksOn(Append(line, f), answers, Serving', dsp.id)
      <4> DEFINE m == Serving
                 n == Serving'
      <4> HIDE DEF m, n
      <4>1. AsksOn(Append(line, f), answers, n, dsp.id)
        BY <1>1, <1>3, <1>8, <3>1, <3>2, OnServed DEF m, n
      <4> QED
        BY <4>1 DEF n
    <3> QED
      BY <1>4, <3>3
  <2> QED
    BY <2>1, <2>2 DEF IdsOK
<1>10. StaleOK'
  <2>1. \A d \in Clients : Stale(d)' = Stale(d)
    <3>1. Stale(c)' = Stale(c)
      <4>1. /\ Stale(c) = Len(p) + 0 + Len(back[c]) - Awaits(call[c])
            /\ Stale(c)' = Len(q) + 1 + Len(back[c]) - Awaits(call[c])
        BY <1>4, <1>5, <1>8 DEF Stale
      <4>2. Awaits(call[c]) \in Nat
        BY DEF Awaits
      <4>3. Len(p) \in Nat /\ Len(q) \in Nat /\ Len(q) = Len(p) - 1 /\ Len(back[c]) \in Nat
        BY <1>1, <1>2
      <4> DEFINE x == Len(q)
                 y == Len(p)
                 z == Len(back[c])
                 v == Awaits(call[c])
      <4>4. /\ Stale(c) = y + 0 + z - v /\ Stale(c)' = x + 1 + z - v
            /\ x \in Nat /\ y \in Nat /\ z \in Nat /\ v \in Nat /\ x = y - 1
        BY <4>1, <4>2, <4>3
      <4> HIDE DEF x, y, z, v
      <4> QED
        BY <4>4
    <3>2. \A d \in Clients \ {c} : Stale(d)' = Stale(d)
      BY <1>4, <1>5, <1>8 DEF Stale
    <3> QED
      BY <3>1, <3>2
  <2>2. StaleOn' = StaleOn
    <3>1. StaleOn = Len(line) + Len(answers) - 0 /\ StaleOn' = (Len(line) + 1) + Len(answers) - 1
      BY <1>4, <1>6, <1>8 DEF StaleOn
    <3> QED
      BY <1>1, <3>1
  <2> QED
    BY <1>4, <2>1, <2>2, ClientsAre DEF PathInv, StaleOK
<1>11. HeardOK'
  <2>1. call["hass"] # NoCall =>
          IF pipe["hass"] # <<>> THEN Same(call["hass"], pipe["hass"][Len(pipe["hass"])])
          ELSE Answers(call["hass"], back["hass"][Len(back["hass"])], held)
    BY <1>1 DEF PathInv, HeardOK
  <2>2. CASE c = "hass"
    <3>1. call["hass"] # NoCall => Same(call["hass"], p[Len(p)])
      BY <1>1, <2>1, <2>2
    <3>2. CASE q # <<>>
      <4>1. q[Len(q)] = p[Len(p)]
        <5>1. Len(q) > 0
          BY <1>2, <3>2, EmptySeq
        <5>2. Len(q) \in 1 .. Len(q) /\ Len(q) + 1 = Len(p)
          BY <1>2, <5>1
        <5> QED
          BY <1>2, <5>2
      <4>2. pipe'["hass"] = q /\ call' = call
        BY <1>4, <1>5, <2>2
      <4> HIDE DEF p, q
      <4> QED
        BY <3>1, <3>2, <4>1, <4>2 DEF HeardOK
    <3>3. CASE q = <<>>
      <4>1. Len(q) = 0
        BY <3>3, EmptySeq
      <4>2. p[Len(p)] = Head(p)
        <5>1. Len(p) = 1
          BY <1>2, <4>1
        <5> QED
          BY <1>2, <5>1
      <4>3. call["hass"] # NoCall => Same(call["hass"], f)
        BY <1>3, <3>1, <4>2 DEF Same
      <4>4. pipe'["hass"] = <<>> /\ dsp'.client = "hass" /\ call' = call
        BY <1>4, <1>5, <2>2, <3>3
      <4> QED
        BY <1>6, <4>3, <4>4 DEF HeardOK
    <3> QED
      BY <3>2, <3>3
  <2>3. CASE c # "hass"
    <3>1. pipe'["hass"] = pipe["hass"] /\ dsp'.client # "hass"
      BY <1>4, <1>5, <2>3, ClientsAre
    <3> QED
      BY <1>4, <2>1, <3>1 DEF HeardOK
  <2> QED
    BY <2>2, <2>3
<1> QED
  BY <1>7, <1>9, <1>10, <1>11 DEF PathInv

\* The ask of tg-display ends: its client gets a reply.
LEMMA Replied ==
    ASSUME PathInv, dsp.client # "none", NEW ok \in BOOLEAN, NEW value \in Board,
           ToClient(ok, value), UNCHANGED <<board, line, pipe, call, corr, held>>,
           answers' \in Seq(Replies), spare' \in [Bounds -> Nat], spare'["late"] <= MaxLate,
           NEW m \in Nat, m = 0, AsksOn(line, answers', m, Next1(dsp.id)),
           Len(line) + Len(answers') <= StaleOn + (spare["late"] - spare'["late"]),
           dsp.client = "hass" /\ call["hass"] # NoCall /\ pipe["hass"] = <<>> =>
              Answers(call["hass"], [id |-> dsp.owed, ok |-> ok, value |-> value], held)
    PROVE  PathInv'
<1>0. PICK c \in Clients : c = dsp.client
  BY PathIs, ClientsAre DEF PathInv
<1> DEFINE r == [id |-> dsp.owed, ok |-> ok, value |-> value]
           b == back[c]
           e == Append(b, r)
<1>1. /\ c \in Clients /\ dsp.id \in 0 .. IDS - 1 /\ dsp.owed \in 0 .. IDS - 1
      /\ b \in Seq(Replies) /\ Len(b) \in Nat /\ pipe[c] \in Seq(Frames) /\ Len(pipe[c]) \in Nat
      /\ corr[c] \in 0 .. IDS - 1 /\ Len(line) \in Nat /\ spare["late"] \in Nat
  BY PathIs DEF PathInv
<1>2. r \in Replies /\ r.id = dsp.owed
  BY <1>1 DEF Replies
<1>3. /\ e \in Seq(Replies) /\ Len(e) = Len(b) + 1 /\ e[Len(e)] = r
  <2>1. /\ e \in Seq(Replies) /\ Len(e) = Len(b) + 1 /\ e[Len(b) + 1] = r
    BY <1>1, <1>2, AppendOf
  <2> QED
    BY <2>1
<1>4. /\ back' = [back EXCEPT ![c] = e]
      /\ dsp' = [client |-> "none", id |-> Next1(dsp.id), owed |-> 0]
  BY <1>0 DEF ToClient
<1>5. /\ back' \in [Clients -> Seq(Replies)] /\ back'[c] = e
      /\ \A d \in Clients \ {c} : back'[d] = back[d]
  BY <1>3, <1>4 DEF PathInv, PathTypes
<1>6. PathTypes'
  <2>1. dsp' \in [client : Clients \cup {"none"}, id : 0 .. IDS - 1, owed : 0 .. IDS - 1]
    <3>1. Next1(dsp.id) \in 0 .. IDS - 1
      BY <1>1, NextType
    <3>2. 0 \in 0 .. IDS - 1
      BY IdsAre
    <3> QED
      BY <1>4, <3>1, <3>2
  <2> QED
    BY <1>5, <2>1 DEF PathInv, PathTypes
<1>7. /\ Serving = 1 /\ Serving' = 0 /\ Served(c) = 1 /\ Served(c)' = 0
      /\ \A d \in Clients \ {c} : Served(d) = 0 /\ Served(d)' = 0
  <2>1. c # "none" /\ dsp'.client = "none" /\ \A d \in Clients : d # "none"
    BY <1>4, ClientsAre
  <2> QED
    BY <1>0, <2>1 DEF Serving, Served
<1>8. IdsOK'
  <2>1. ASSUME NEW d \in Clients
        PROVE  AsksOf(pipe'[d], Served(d)', dsp'.owed, back'[d], corr'[d], call'[d])
    <3>1. AsksOf(pipe[d], Served(d), dsp.owed, back[d], corr[d], call[d])
      BY DEF PathInv, IdsOK
    <3>2. CASE d = c
      <4> DEFINE k == Served(c)'
                 n == Served(c)
      <4>1. k \in Nat /\ n \in Nat /\ k = 0 /\ n = 1
        BY <1>7
      <4>2. AsksOf(pipe[c], n, dsp.owed, b, corr[c], call[c])
        BY <3>1, <3>2
      <4> HIDE DEF k, n, b, r
      <4>3. AsksOf(pipe[c], k, dsp'.owed, Append(b, r), corr[c], call[c])
        BY <1>1, <1>2, <4>1, <4>2, AsksReplied
      <4> USE DEF b, r
      <4>4. AsksOf(pipe'[c], k, dsp'.owed, back'[c], corr'[c], call'[c])
        BY <1>5, <4>3
      <4> QED
        BY <3>2, <4>4 DEF k
    <3>3. CASE d # c
      <4>1. Served(d) = 0 /\ Served(d)' = 0 /\ back'[d] = back[d]
        BY <1>5, <1>7, <3>3
      <4>2. Served(d)' # 1 /\ Served(d)' = Served(d)
        BY <4>1
      <4>3. pipe'[d] = pipe[d] /\ corr'[d] = corr[d] /\ call'[d] = call[d]
        OBVIOUS
      <4> QED
        BY <3>1, <4>1, <4>2, <4>3 DEF AsksOf
    <3> QED
      BY <3>2, <3>3
  <2>2. AsksOn(line', answers', Serving', dsp'.id)
    <3>1. Serving' = m /\ dsp'.id = Next1(dsp.id) /\ line' = line
      BY <1>4, <1>7
    <3> QED
      BY <3>1
  <2> QED
    BY <2>1, <2>2 DEF IdsOK
<1>9. StaleOK'
  <2>1. \A d \in Clients : Stale(d)' = Stale(d)
    <3>1. Stale(c)' = Stale(c)
      <4> DEFINE x == Len(pipe[c])
                 y == Len(b)
                 z == Len(e)
                 v == Awaits(call[c])
      <4>1. Stale(c) = x + 1 + y - v /\ Stale(c)' = x + 0 + z - v
        BY <1>5, <1>7 DEF Stale
      <4>2. v \in Nat
        BY DEF Awaits
      <4>3. x \in Nat /\ y \in Nat /\ z = y + 1
        BY <1>1, <1>3
      <4> HIDE DEF x, y, z, v
      <4> QED
        BY <4>1, <4>2, <4>3
    <3>2. \A d \in Clients \ {c} : Stale(d)' = Stale(d)
      BY <1>5, <1>7 DEF Stale
    <3> QED
      BY <3>1, <3>2
  <2>2. StaleOn' <= StaleOn + (spare["late"] - spare'["late"])
    <3>1. Len(answers') \in Nat
      BY LenProperties
    <3>2. StaleOn' = Len(line) + Len(answers') - 0
      BY <1>7 DEF StaleOn
    <3> QED
      BY <1>1, <3>1, <3>2
  <2>3. Stale("rest") + Stale("hass") + StaleOn <= MaxLate - spare["late"]
    BY DEF PathInv, StaleOK
  <2>4. /\ Stale("rest") \in Nat /\ Stale("hass") \in Nat /\ StaleOn \in Nat
        /\ spare["late"] \in Nat /\ spare'["late"] \in Nat /\ MaxLate \in Nat
    BY <1>1, Rooms, ClientsAre, IdsAre DEF PathInv, Bounds
  <2>5. StaleOn' \in Int
    <3>1. Len(answers') \in Nat
      BY LenProperties
    <3> QED
      BY <1>1, <1>7, <3>1 DEF StaleOn
  <2>6. Stale("rest")' = Stale("rest") /\ Stale("hass")' = Stale("hass")
    BY <2>1, ClientsAre
  <2>7. Stale("rest")' + Stale("hass")' + StaleOn' <= MaxLate - spare'["late"]
    <3> DEFINE a == Stale("rest")
               h == Stale("hass")
               s == StaleOn
               k == spare["late"]
               l == spare'["late"]
               most == MaxLate
    <3>1. /\ a \in Nat /\ h \in Nat /\ s \in Nat /\ k \in Nat /\ l \in Nat
          /\ most \in Nat /\ a + h + s <= most - k
      BY <2>3, <2>4
    <3>2. PICK t \in Int : t = StaleOn' /\ t <= s + (k - l)
      BY <2>2, <2>5
    <3> HIDE DEF a, h, s, k, l, most
    <3>3. a + h + t <= most - l
      BY <3>1, <3>2, Slack
    <3> QED
      BY <2>6, <3>2, <3>3 DEF a, h, l, most
  <2> QED
    BY <2>7 DEF StaleOK
<1>10. HeardOK'
  <2>1. CASE c = "hass"
    <3>0. dsp.client = "hass"
      BY <1>0, <2>1
    <3>1. dsp'.client # "hass" /\ back'["hass"] = e /\ pipe' = pipe /\ call' = call /\ held' = held
      BY <1>4, <1>5, <2>1
    <3>2. CASE pipe["hass"] # <<>>
      <4>1. call["hass"] # NoCall => Same(call["hass"], pipe["hass"][Len(pipe["hass"])])
        BY <3>2 DEF PathInv, HeardOK
      <4> QED
        BY <3>1, <3>2, <4>1 DEF HeardOK
    <3>3. CASE pipe["hass"] = <<>>
      <4>1. call["hass"] # NoCall => Answers(call["hass"], r, held)
        BY <3>0, <3>3
      <4> HIDE DEF e, r
      <4> QED
        BY <1>3, <3>1, <3>3, <4>1 DEF HeardOK
    <3> QED
      BY <3>2, <3>3
  <2>2. CASE c # "hass"
    <3>1. dsp'.client # "hass" /\ back'["hass"] = back["hass"]
      BY <1>4, <1>5, <2>2, ClientsAre
    <3>2. call["hass"] # NoCall =>
            IF pipe["hass"] # <<>> THEN Same(call["hass"], pipe["hass"][Len(pipe["hass"])])
            ELSE Answers(call["hass"], back["hass"][Len(back["hass"])], held)
      BY <1>0, <2>2 DEF PathInv, HeardOK
    <3> QED
      BY <3>1, <3>2 DEF HeardOK
  <2> QED
    BY <2>1, <2>2
<1> QED
  BY <1>6, <1>8, <1>9, <1>10 DEF PathInv

\* tg-display reads an answer: its own, or one of an earlier ask.
LEMMA OnFramePath ==
    ASSUME PathInv, OnFrame
    PROVE  PathInv'
<1> DEFINE a == answers
           q == Tail(answers)
           r == Head(answers)
           n == Serving
<1>1. /\ a \in Seq(Replies) /\ a # <<>> /\ dsp.client # "none" /\ dsp.id \in 0 .. IDS - 1
      /\ line \in Seq(Frames) /\ Len(line) \in Nat /\ Len(a) \in Nat
      /\ spare \in [Bounds -> Nat] /\ spare["late"] \in Nat /\ spare["late"] <= MaxLate
      /\ dsp.owed \in 0 .. IDS - 1
  BY PathIs DEF PathInv, OnFrame, PathTypes
<1>2. /\ q \in Seq(Replies) /\ Len(q) = Len(a) - 1 /\ Len(q) \in Nat /\ Len(a) > 0
      /\ \A k \in 1 .. Len(q) : q[k] = a[k + 1]
      /\ r = a[1] /\ r \in Replies
  <2>1. /\ q \in Seq(Replies) /\ Len(q) = Len(a) - 1 /\ Len(a) > 0
        /\ \A k \in 1 .. Len(q) : q[k] = a[k + 1]
        /\ r = a[1] /\ r \in Replies
    BY <1>1, TailOf
  <2> QED
    BY <2>1, LenProperties
<1>3. n \in Nat /\ n = 1 /\ StaleOn = Len(line) + Len(a) - 1
  BY <1>1 DEF Serving, StaleOn
<1>4. AsksOn(line, a, n, dsp.id) /\ Len(line) + Len(a) <= IDS
  <2>1. OnTheLine <= IDS
    BY Rooms DEF PathInv
  <2> QED
    BY <2>1 DEF PathInv, IdsOK, OnTheLine
<1>5. /\ answers' = q
      /\ UNCHANGED <<board, line, pipe, call, corr, spare, held>>
  BY DEF OnFrame
<1> HIDE DEF n
<1>6. ASSUME NEW m \in Nat, m = 0
      PROVE  /\ r.id = dsp.id => /\ line = <<>> /\ Len(a) = 1
                                 /\ AsksOn(line, q, m, Next1(dsp.id))
             /\ r.id # dsp.id => AsksOn(line, q, n, dsp.id)
  BY <1>1, <1>3, <1>4, <1>6, OnHeard
<1>7. CASE Hears(r)
  <2>1. r.id = dsp.id
    BY <1>7 DEF Hears, IsOwn
  <2>2. ToClient(r.ok, r.value)
    BY <1>7 DEF OnFrame
  <2>3. line = <<>> /\ Len(a) = 1 /\ \A m \in Nat : m = 0 => AsksOn(line, q, m, Next1(dsp.id))
    <3>1. 0 \in Nat /\ 0 = 0
      OBVIOUS
    <3> QED
      BY <1>6, <2>1, <3>1
  <2>4. r.ok \in BOOLEAN /\ r.value \in Board
    BY <1>2 DEF Replies
  <2>5. Len(line) + Len(q) <= StaleOn + (spare["late"] - spare'["late"])
    <3>1. spare' = spare
      BY <1>5
    <3>2. StaleOn = Len(line) + Len(a) - 1 /\ Len(q) = Len(a) - 1
      BY <1>2, <1>3
    <3> DEFINE x == Len(q)
               y == Len(a)
    <3>3. StaleOn = Len(line) + y - 1 /\ x = y - 1 /\ x \in Nat /\ y \in Nat
      BY <1>1, <1>2, <3>2
    <3> HIDE DEF x, y
    <3>4. Len(line) + x <= StaleOn + (spare["late"] - spare'["late"])
      BY <1>1, <3>1, <3>3
    <3> QED
      BY <3>4 DEF x
  <2>6. dsp.client = "hass" /\ call["hass"] # NoCall /\ pipe["hass"] = <<>> =>
           Answers(call["hass"], [id |-> dsp.owed, ok |-> r.ok, value |-> r.value], held)
    <3> SUFFICES ASSUME dsp.client = "hass", call["hass"] # NoCall, pipe["hass"] = <<>>
                 PROVE  Answers(call["hass"], [id |-> dsp.owed, ok |-> r.ok, value |-> r.value], held)
      OBVIOUS
    <3>1. Answers(call["hass"], a[Len(a)], held)
      BY <2>3 DEF PathInv, HeardOK
    <3>2. a[Len(a)] = r
      BY <1>2, <2>3
    <3>3. Answers(call["hass"], r, held)
      BY <3>1, <3>2
    <3> QED
      BY <3>3 DEF Answers
  <2>7. 0 \in Nat
    OBVIOUS
  <2>8. answers' \in Seq(Replies) /\ spare' \in [Bounds -> Nat] /\ spare'["late"] <= MaxLate
    BY <1>1, <1>2, <1>5
  <2>9. ASSUME NEW m \in Nat, m = 0 PROVE AsksOn(line, answers', m, Next1(dsp.id))
    BY <1>5, <2>3, <2>9
  <2>10. Len(line) + Len(answers') <= StaleOn + (spare["late"] - spare'["late"])
    BY <1>5, <2>5
  <2>11. \A m \in Nat : m = 0 => PathInv'
    <3> TAKE m \in Nat
    <3> HAVE m = 0
    <3> HIDE DEF r, q, a
    <3> QED
      BY <1>1, <1>5, <2>2, <2>4, <2>6, <2>8, <2>9, <2>10, Replied
  <2> QED
    BY <2>7, <2>11
<1>8. CASE ~Hears(r)
  <2>1. r.id # dsp.id
    BY <1>8 DEF Hears, IsOwn
  <2>2. UNCHANGED <<back, dsp>>
    BY <1>8 DEF OnFrame
  <2>3. AsksOn(line, q, n, dsp.id)
    <3>1. 0 \in Nat /\ 0 = 0
      OBVIOUS
    <3> QED
      BY <1>6, <2>1, <3>1
  <2>4. PathTypes'
    BY <1>2, <1>5, <2>2 DEF PathInv, PathTypes
  <2>5. Serving' = Serving /\ \A d \in Clients : Served(d)' = Served(d)
    BY <2>2 DEF Serving, Served
  <2>6. IdsOK'
    BY <1>5, <2>2, <2>3, <2>5 DEF PathInv, IdsOK, n
  <2>7. StaleOK'
    <3>1. \A d \in Clients : Stale(d)' = Stale(d)
      BY <1>5, <2>2, <2>5 DEF Stale
    <3>2. StaleOn' = StaleOn - 1
      <4>1. StaleOn' = Len(line) + Len(q) - Serving
        BY <1>5, <2>5 DEF StaleOn
      <4>2. Serving = 1
        BY <1>3 DEF n
      <4> DEFINE x == Len(q)
                 y == Len(a)
      <4>3. StaleOn = Len(line) + y - 1 /\ x = y - 1 /\ x \in Nat /\ y \in Nat /\ StaleOn' = Len(line) + x - 1
        BY <1>1, <1>2, <1>3, <4>1, <4>2
      <4> HIDE DEF x, y
      <4> QED
        BY <1>1, <4>3
    <3>3. Stale("rest") + Stale("hass") + StaleOn <= MaxLate - spare["late"]
      BY DEF PathInv, StaleOK
    <3>4. Stale("rest") \in Nat /\ Stale("hass") \in Nat /\ StaleOn \in Nat /\ MaxLate \in Nat
      BY Rooms, ClientsAre, IdsAre DEF PathInv
    <3>5. Stale("rest")' = Stale("rest") /\ Stale("hass")' = Stale("hass") /\ spare' = spare
      BY <1>5, <3>1, ClientsAre
    <3>6. Stale("rest")' + Stale("hass")' + StaleOn' <= MaxLate - spare'["late"]
      BY <1>1, <3>2, <3>3, <3>4, <3>5
    <3> QED
      BY <3>6 DEF StaleOK
  <2>8. HeardOK'
    <3>1. line = <<>> => q[Len(q)] = a[Len(a)]
      <4> SUFFICES ASSUME line = <<>> PROVE q[Len(q)] = a[Len(a)]
        OBVIOUS
      <4>1. Len(line) + Len(q) > 0 /\ Len(line) = 0
        BY <1>3, <2>3, EmptySeq DEF AsksOn
      <4>2. Len(q) \in 1 .. Len(q) /\ Len(q) + 1 = Len(a)
        BY <1>1, <1>2, <4>1
      <4> QED
        BY <1>2, <4>2
    <3> HIDE DEF q
    <3> QED
      BY <1>5, <2>2, <3>1 DEF PathInv, HeardOK
  <2> QED
    BY <2>4, <2>6, <2>7, <2>8 DEF PathInv
<1> QED
  BY <1>7, <1>8

\* tg-display waits no longer.
LEMMA NoReplyPath ==
    ASSUME PathInv, NoReply
    PROVE  PathInv'
<1> DEFINE n == Serving
<1>1. /\ answers \in Seq(Replies) /\ dsp.client # "none" /\ dsp.id \in 0 .. IDS - 1
      /\ line \in Seq(Frames) /\ Len(line) \in Nat /\ Len(answers) \in Nat
      /\ spare["late"] \in Nat /\ Spend("late") /\ ToClient(FALSE, Bare)
      /\ UNCHANGED <<board, line, answers, pipe, call, corr, held>>
  BY PathIs DEF PathInv, NoReply
<1>2. /\ spare' \in [Bounds -> Nat] /\ spare'["late"] <= MaxLate
      /\ spare'["late"] = spare["late"] - 1
  BY <1>1, SpendIs DEF PathInv, Bounds
<1>3. n \in Nat /\ n = 1 /\ StaleOn = Len(line) + Len(answers) - 1
  BY <1>1 DEF Serving, StaleOn
<1>4. AsksOn(line, answers, n, dsp.id) /\ Len(line) + Len(answers) <= IDS
  <2>1. OnTheLine <= IDS
    BY Rooms DEF PathInv
  <2> QED
    BY <2>1 DEF PathInv, IdsOK, OnTheLine
<1>5. Bare \in Board
  BY IdsAre DEF Bare, Board, Pairs, Levels, Words
<1>6. Len(line) + Len(answers') <= StaleOn + (spare["late"] - spare'["late"])
  BY <1>1, <1>2, <1>3
<1>7. Answers(call["hass"], [id |-> dsp.owed, ok |-> FALSE, value |-> Bare], held)
  BY DEF Answers
<1> HIDE DEF n
<1>8. ASSUME NEW m \in Nat, m = 0 PROVE PathInv'
  <2>1. AsksOn(line, answers', m, Next1(dsp.id))
    BY <1>1, <1>3, <1>4, <1>8, OnGivenUp
  <2> QED
    BY <1>1, <1>2, <1>5, <1>6, <1>7, <1>8, <2>1, Replied
<1> QED
  BY <1>8

\* A reply to an ask that is no refusal tells what the board holds.
LEMMA AppliedType ==
    ASSUME board \in Board, NEW f \in Frames
    PROVE  /\ Applied(f) \in Board
           /\ f.op = "bright" => Applied(f).levels = f.arg
<1>1. /\ f.op \in Operations /\ f.arg \in Pairs
      /\ f.op \in {"text", "ext"} => f.arg[1] \in Words
  BY DEF Frames, Fits
<1>2. /\ board.levels \in Pairs /\ board.text \in Words /\ board.ext \in Words /\ 0 \in Words
      /\ board = [levels |-> board.levels, text |-> board.text, ext |-> board.ext]
  BY DEF Board, Words
<1>3. CASE f.op = "bright"
  <2>1. Applied(f) = [board EXCEPT !.levels = f.arg]
    BY <1>3 DEF Applied
  <2>2. Applied(f) = [levels |-> f.arg, text |-> board.text, ext |-> board.ext]
    BY <1>2, <2>1
  <2>3. Applied(f) \in Board
    BY <1>1, <1>2, <1>3, <2>2 DEF Board
  <2> QED
    BY <1>3, <2>2, <2>3
<1>4. CASE f.op = "text"
  <2>1. Applied(f) = [board EXCEPT !.text = f.arg[1]]
    BY <1>4 DEF Applied
  <2>2. Applied(f) = [levels |-> board.levels, text |-> f.arg[1], ext |-> board.ext]
    BY <1>2, <2>1
  <2>3. Applied(f) \in Board
    BY <1>1, <1>2, <1>4, <2>2 DEF Board
  <2> QED
    BY <1>4, <2>2, <2>3
<1>5. CASE f.op = "release"
  <2>1. Applied(f) = [board EXCEPT !.text = 0]
    BY <1>5 DEF Applied
  <2>2. Applied(f) = [levels |-> board.levels, text |-> 0, ext |-> board.ext]
    BY <1>2, <2>1
  <2>3. Applied(f) \in Board
    BY <1>1, <1>2, <1>5, <2>2 DEF Board
  <2> QED
    BY <1>5, <2>2, <2>3
<1>6. CASE f.op = "ext"
  <2>1. Applied(f) = [board EXCEPT !.ext = f.arg[1]]
    BY <1>6 DEF Applied
  <2>2. Applied(f) = [levels |-> board.levels, text |-> board.text, ext |-> f.arg[1]]
    BY <1>2, <2>1
  <2>3. Applied(f) \in Board
    BY <1>1, <1>2, <1>6, <2>2 DEF Board
  <2> QED
    BY <1>6, <2>2, <2>3
<1>7. CASE f.op \in {"settings", "state"}
  <2>1. Applied(f) = board
    BY <1>7 DEF Applied
  <2> QED
    BY <1>7, <2>1
<1>8. f.op \in {"bright", "text", "release", "ext", "settings", "state"}
  BY <1>1 DEF Operations
<1> QED
  BY <1>3, <1>4, <1>5, <1>6, <1>7, <1>8

\* What TakeAsk does with the ask f, whatever the line makes of its reply.
LEMMA TakenIs ==
    ASSUME PathInv, TakeAsk
    PROVE  \E r \in Replies :
             /\ r.id = Head(line).id
             /\ line # <<>> /\ line' = Tail(line) /\ answers' = Append(answers, r)
             /\ board' \in Board /\ board'.levels \in held' /\ held \subseteq held' /\ held' \subseteq Pairs
             /\ \A w \in Frames : Same(w, Head(line)) => Answers(w, r, held')
             /\ spare' \in [Bounds -> Nat] /\ spare'["late"] <= MaxLate /\ spare'["late"] <= spare["late"]
             /\ UNCHANGED <<dsp, pipe, back, call, corr>>
<1> DEFINE f == Head(line)
           got == [id |-> f.id, ok |-> TRUE, value |-> IF f.op = "settings" THEN board ELSE Bare]
           not == Silence(f.id)
<1>1. /\ line # <<>> /\ line' = Tail(line) /\ UNCHANGED <<dsp, pipe, back, call, corr>>
      /\ \/ /\ board' = Applied(f) /\ Holds(board') /\ UNCHANGED spare
            /\ answers' = Append(answers, got)
         \/ /\ board' \in {board, Applied(f)} /\ Holds(board') /\ Spend("late")
            /\ answers' = Append(answers, not)
  BY DEF TakeAsk
<1>2. /\ f \in Frames /\ f.id \in 0 .. IDS - 1
  <2>1. f \in Frames
    BY <1>1, PathIs, TailOf DEF PathInv
  <2> QED
    BY <2>1 DEF Frames
<1>3. board \in Board /\ board.levels \in held /\ held \subseteq Pairs /\ board.levels \in Pairs
  BY DEF PathInv, PathTypes
<1>4. Bare \in Board
  BY IdsAre DEF Bare, Board, Pairs, Levels, Words
<1>5. /\ board' \in Board /\ board'.levels \in held' /\ held \subseteq held' /\ held' \subseteq Pairs
  <2>1. board' \in Board
    BY <1>1, <1>2, <1>3, AppliedType
  <2>2. held' = held \cup {board'.levels}
    BY <1>1 DEF Holds
  <2>3. board'.levels \in Pairs
    BY <2>1 DEF Board
  <2> QED
    BY <1>3, <2>1, <2>2, <2>3
<1>6. /\ spare \in [Bounds -> Nat] /\ spare["late"] \in Nat /\ spare["late"] <= MaxLate
  BY PathIs DEF PathInv, PathTypes
<1>7. CASE board' = Applied(f) /\ UNCHANGED spare /\ answers' = Append(answers, got)
  <2>1. got \in Replies /\ got.id = f.id
    BY <1>2, <1>3, <1>4 DEF Replies
  <2>2. ASSUME NEW w \in Frames, Same(w, f) PROVE Answers(w, got, held')
    <3>1. CASE w.op = "settings"
      <4>1. got.value = board
        BY <2>2, <3>1 DEF Same
      <4> QED
        BY <1>3, <1>5, <3>1, <4>1 DEF Answers
    <3>2. CASE w.op = "bright"
      <4>1. f.op = "bright" /\ w.arg = f.arg
        BY <2>2, <3>2 DEF Same
      <4>2. w.arg = board'.levels
        BY <1>2, <1>3, <1>7, <4>1, AppliedType
      <4> QED
        BY <1>5, <3>2, <4>2 DEF Answers
    <3>3. CASE w.op \notin {"settings", "bright"}
      BY <3>3 DEF Answers
    <3> QED
      BY <3>1, <3>2, <3>3
  <2>3. spare'["late"] <= spare["late"] /\ spare' \in [Bounds -> Nat] /\ spare'["late"] <= MaxLate
    BY <1>6, <1>7
  <2> USE <2>1
  <2>4. WITNESS got \in Replies
  <2> HIDE DEF got
  <2> QED
    BY <1>1, <1>5, <1>7, <2>1, <2>2, <2>3
<1>8. CASE Spend("late") /\ answers' = Append(answers, not)
  <2>1. not \in Replies /\ not.id = f.id /\ not.ok = FALSE
    BY <1>2, <1>4 DEF Replies, Silence
  <2>2. ASSUME NEW w \in Frames PROVE Answers(w, not, held')
    BY <2>1 DEF Answers
  <2>3. spare'["late"] <= spare["late"] /\ spare' \in [Bounds -> Nat] /\ spare'["late"] <= MaxLate
    <3>1. /\ spare'["late"] = spare["late"] - 1 /\ spare' \in [Bounds -> Nat] /\ spare'["late"] <= MaxLate
      BY <1>8, SpendIs DEF PathInv, Bounds
    <3> QED
      BY <1>6, <3>1
  <2> USE <2>1
  <2>4. WITNESS not \in Replies
  <2> HIDE DEF not
  <2> QED
    BY <1>1, <1>5, <1>8, <2>1, <2>2, <2>3
<1> QED
  BY <1>1, <1>7, <1>8

LEMMA TakePath ==
    ASSUME PathInv, TakeAsk
    PROVE  PathInv'
<1> DEFINE f == Head(line)
           q == Tail(line)
           e == answers'
           n == Serving
<1>1. PICK r \in Replies :
             /\ r.id = Head(line).id
             /\ line # <<>> /\ line' = Tail(line) /\ answers' = Append(answers, r)
             /\ board' \in Board /\ board'.levels \in held' /\ held \subseteq held' /\ held' \subseteq Pairs
             /\ \A w \in Frames : Same(w, Head(line)) => Answers(w, r, held')
             /\ spare' \in [Bounds -> Nat] /\ spare'["late"] <= MaxLate /\ spare'["late"] <= spare["late"]
             /\ UNCHANGED <<dsp, pipe, back, call, corr>>
  BY TakenIs
<1>2. /\ line \in Seq(Frames) /\ answers \in Seq(Replies) /\ Len(line) \in Nat /\ Len(answers) \in Nat
      /\ n \in Nat /\ dsp.id \in 0 .. IDS - 1 /\ spare["late"] \in Nat
  BY PathIs DEF PathInv
<1>3. /\ q \in Seq(Frames) /\ Len(q) = Len(line) - 1 /\ Len(q) \in Nat /\ Len(line) > 0
      /\ \A k \in 1 .. Len(q) : q[k] = line[k + 1]
      /\ f = line[1]
  BY <1>1, <1>2, TailOf, LenProperties
<1>4. e \in Seq(Replies) /\ Len(e) = Len(answers) + 1 /\ e[Len(e)] = r
  <2>1. e \in Seq(Replies) /\ Len(e) = Len(answers) + 1 /\ e[Len(answers) + 1] = r
    BY <1>1, <1>2, AppendOf
  <2> QED
    BY <2>1
<1>5. PathTypes'
  BY <1>1, <1>3, <1>4 DEF PathInv, PathTypes
<1>6. Serving' = Serving /\ \A d \in Clients : Served(d)' = Served(d)
  BY <1>1 DEF Serving, Served
<1>7. IdsOK'
  <2>1. AsksOn(line, answers, n, dsp.id)
    BY DEF PathInv, IdsOK
  <2>2. AsksOn(q, Append(answers, r), n, dsp.id)
    <3> HIDE DEF n, q
    <3> QED
      BY <1>1, <1>2, <2>1, OnTaken DEF q
  <2>3. AsksOn(line', answers', Serving', dsp'.id)
    BY <1>1, <1>6, <2>2
  <2> QED
    BY <1>1, <1>6, <2>3 DEF PathInv, IdsOK
<1>8. StaleOK'
  <2>1. \A d \in Clients : Stale(d)' = Stale(d)
    BY <1>1, <1>6 DEF Stale
  <2>2. StaleOn' = StaleOn
    <3> DEFINE x == Len(q)
               y == Len(line)
               z == Len(e)
               v == Len(answers)
    <3>1. StaleOn = y + v - n /\ StaleOn' = x + z - n
      BY <1>1, <1>6 DEF StaleOn
    <3>2. x = y - 1 /\ z = v + 1 /\ x \in Nat /\ y \in Nat /\ v \in Nat /\ n \in Nat
      BY <1>2, <1>3, <1>4
    <3> HIDE DEF x, y, z, v, n
    <3> QED
      BY <3>1, <3>2
  <2>3. Stale("rest") + Stale("hass") + StaleOn <= MaxLate - spare["late"]
    BY DEF PathInv, StaleOK
  <2>4. Stale("rest") \in Nat /\ Stale("hass") \in Nat /\ StaleOn \in Nat /\ MaxLate \in Nat
    BY Rooms, ClientsAre, IdsAre DEF PathInv
  <2>5. Stale("rest")' = Stale("rest") /\ Stale("hass")' = Stale("hass")
    BY <2>1, ClientsAre
  <2>6. spare'["late"] \in Nat /\ spare'["late"] <= spare["late"]
    BY <1>1 DEF Bounds
  <2>7. Stale("rest")' + Stale("hass")' + StaleOn' <= MaxLate - spare'["late"]
    <3> DEFINE a == Stale("rest")
               b == Stale("hass")
               s == StaleOn
               k == spare["late"]
               l == spare'["late"]
               m == MaxLate
    <3>1. /\ a \in Nat /\ b \in Nat /\ s \in Nat /\ k \in Nat /\ l \in Nat /\ m \in Nat
          /\ a + b + s <= m - k
      BY <1>2, <2>3, <2>4, <2>6
    <3>2. PICK t \in Int : t = StaleOn' /\ t <= s + (k - l)
      BY <1>2, <2>2, <2>4, <2>6
    <3> HIDE DEF a, b, s, k, l, m
    <3>3. a + b + t <= m - l
      BY <3>1, <3>2, Slack
    <3> QED
      BY <2>5, <3>2, <3>3 DEF a, b, l, m
  <2> QED
    BY <2>7 DEF StaleOK
<1>9. HeardOK'
  <2> DEFINE w == call["hass"]
             p == pipe["hass"]
             b == back["hass"]
  <2>1. w # NoCall =>
          IF p # <<>> THEN Same(w, p[Len(p)])
          ELSE IF dsp.client # "hass" THEN Answers(w, b[Len(b)], held)
          ELSE Same(w, line[Len(line)])
    BY <1>1 DEF PathInv, HeardOK
  <2>2. w # NoCall => w \in Frames
    BY PathIs, ClientsAre DEF PathInv
  <2>3. \A s : Answers(w, s, held) => Answers(w, s, held')
    BY <1>1 DEF Answers
  <2>4. call'["hass"] = w /\ pipe'["hass"] = p /\ back'["hass"] = b /\ dsp' = dsp /\ line' = q
    BY <1>1
  <2>5. q # <<>> => q[Len(q)] = line[Len(line)]
    <3> SUFFICES ASSUME q # <<>> PROVE q[Len(q)] = line[Len(line)]
      OBVIOUS
    <3>1. Len(q) > 0
      BY <1>3, EmptySeq
    <3>2. Len(q) \in 1 .. Len(q) /\ Len(q) + 1 = Len(line)
      BY <1>2, <1>3, <3>1
    <3> QED
      BY <1>3, <3>2
  <2>6. q = <<>> => line[Len(line)] = f
    <3> SUFFICES ASSUME q = <<>> PROVE line[Len(line)] = f
      OBVIOUS
    <3>1. Len(q) = 0
      BY EmptySeq
    <3>2. Len(line) = 1
      <4> DEFINE x == Len(q)
                 y == Len(line)
      <4>1. x = y - 1 /\ x = 0 /\ y \in Nat
        BY <1>2, <1>3, <3>1
      <4> HIDE DEF x, y
      <4>2. y = 1
        BY <4>1
      <4> QED
        BY <4>2 DEF y
    <3> QED
      BY <1>3, <3>2
  <2>7. w # NoCall /\ Same(w, f) => Answers(w, e[Len(e)], held')
    BY <1>1, <1>4, <2>2
  <2> HIDE DEF w, p, b, q, e, f
  <2>8. w # NoCall =>
          IF p # <<>> THEN Same(w, p[Len(p)])
          ELSE IF dsp.client # "hass" THEN Answers(w, b[Len(b)], held')
          ELSE IF q # <<>> THEN Same(w, q[Len(q)])
          ELSE Answers(w, e[Len(e)], held')
    BY <2>1, <2>3, <2>5, <2>6, <2>7
  <2> QED
    BY <2>4, <2>8 DEF HeardOK, e
<1> QED
  BY <1>5, <1>7, <1>8, <1>9 DEF PathInv

LEMMA ResetPath ==
    ASSUME PathInv, ResetBoard
    PROVE  PathInv' /\ board'.levels = board.levels
<1>1. /\ spare' \in [Bounds -> Nat] /\ spare'["late"] <= MaxLate /\ spare'["late"] = spare["late"]
  <2>1. Spend("resets") /\ "resets" \in Bounds /\ "resets" # "late"
    BY DEF ResetBoard, Bounds
  <2> QED
    BY <2>1, SpendIs DEF PathInv
<1>2. /\ board' = [Bare EXCEPT !.levels = board.levels] /\ board \in Board
      /\ UNCHANGED <<line, answers, dsp, pipe, back, call, corr, held>>
  BY DEF ResetBoard, PathInv, PathTypes
<1>3. board' \in Board /\ board'.levels = board.levels
  <2>1. board' = [levels |-> board.levels, text |-> 0, ext |-> 0] /\ board.levels \in Pairs
    BY <1>2 DEF Bare, Board
  <2> QED
    BY <2>1 DEF Board, Words
<1>4. PathTypes'
  BY <1>1, <1>2, <1>3 DEF PathInv, PathTypes
<1> QED
  BY <1>1, <1>2, <1>3, <1>4, PathRests

LEMMA RoutePath ==
    ASSUME PathInv, Route
    PROVE  PathInv' /\ call'["hass"] = call["hass"] /\ held' = held
<1>1. PICK ask \in Posted : Ask("rest", ask.op, ask.arg)
  BY DEF Route
<1>2. /\ ask.op \in Operations /\ ask.arg \in Pairs
      /\ ask.op \in {"text", "ext"} => ask.arg[1] \in Words
  <2>1. ask \in Requests
    BY HomeAssumption
  <2> QED
    BY <2>1 DEF Requests, Fits
<1>3. /\ "rest" \in Clients /\ call["rest"] = NoCall
      /\ UNCHANGED <<board, line, answers, dsp, back>> /\ Spend("rest")
  BY ClientsAre DEF Route
<1>4. /\ spare' \in [Bounds -> Nat] /\ spare'["late"] = spare["late"]
  <2>1. "rest" \in Bounds /\ "rest" # "late"
    BY DEF Bounds
  <2> QED
    BY <1>3, <2>1, SpendIs DEF PathInv
<1>5. Ended("rest")
  BY <1>3, <1>4, EndedBefore
<1>6. PathInv' /\ \A d \in Clients \ {"rest"} : call'[d] = call[d]
  BY <1>1, <1>2, <1>3, <1>5, Asked
<1> QED
  BY <1>1, <1>6, ClientsAre DEF Ask

LEMMA HttpPath ==
    ASSUME PathInv, ReplyHttp
    PROVE  PathInv' /\ call'["hass"] = call["hass"]
<1>1. PICK r \in Outcomes("rest") : Ends("rest", r)
  BY DEF ReplyHttp
<1>2. /\ "rest" \in Clients /\ call["rest"] # NoCall /\ call' = [call EXCEPT !["rest"] = NoCall]
      /\ UNCHANGED <<board, line, answers, dsp, pipe, corr, held>>
  BY ClientsAre DEF ReplyHttp
<1>3. Ended("rest")
  BY <1>1, <1>2, WaitEnds DEF Ended
<1>4. PathInv' /\ \A d \in Clients \ {"rest"} : call'[d] = call[d]
  BY <1>2, <1>3, Returned
<1> QED
  BY <1>4, ClientsAre

-----------------------------------------------------------------------------
(* The session of tg-hass.                                                 *)

LEMMA InboxTail ==
    ASSUME NEW s \in Seq(Packets), s # <<>>, OneSuback(s)
    PROVE  /\ Tail(s) \in Seq(Packets) /\ OneSuback(Tail(s)) /\ Head(s) \in Packets
           /\ Head(s) = Suback \/ NoSuback(s) => NoSuback(Tail(s))
           /\ NoSuback(s) => Head(s) \in Commands
<1> DEFINE q == Tail(s)
<1>1. /\ q \in Seq(Packets) /\ Len(q) = Len(s) - 1 /\ Len(s) \in Nat /\ Len(s) > 0
      /\ \A k \in 1 .. Len(q) : q[k] = s[k + 1]
      /\ Head(s) = s[1] /\ Head(s) \in Packets
  BY TailOf
<1>2. Len(q) \in Nat
  BY <1>1, LenProperties
<1>3. \A k \in 1 .. Len(q) : k + 1 \in 1 .. Len(s) /\ k + 1 # 1 /\ k \in Nat
  <2> DEFINE x == Len(q)
             y == Len(s)
  <2>1. x \in Nat /\ y \in Nat /\ x = y - 1
    BY <1>1, <1>2
  <2> HIDE DEF x, y
  <2>2. \A k \in 1 .. x : k + 1 \in 1 .. y /\ k + 1 # 1 /\ k \in Nat
    BY <2>1
  <2> QED
    BY <2>2 DEF x, y
<1>4. 1 \in 1 .. Len(s)
  BY <1>1
<1> HIDE DEF q
<1>5. OneSuback(q)
  <2> SUFFICES ASSUME NEW i \in 1 .. Len(q), NEW j \in 1 .. Len(q), q[i] = Suback, q[j] = Suback
               PROVE  i = j
    BY DEF OneSuback
  <2>1. i + 1 = j + 1 /\ i \in Nat /\ j \in Nat
    BY <1>1, <1>3 DEF OneSuback
  <2> QED
    BY <2>1
<1>6. Head(s) = Suback => NoSuback(q)
  <2> SUFFICES ASSUME Head(s) = Suback, NEW i \in 1 .. Len(q), q[i] = Suback
               PROVE  FALSE
    BY DEF NoSuback
  <2>1. i + 1 = 1
    BY <1>1, <1>3, <1>4 DEF OneSuback
  <2> QED
    BY <1>3, <2>1
<1>7. NoSuback(s) => NoSuback(q) /\ Head(s) \in Commands
  BY <1>1, <1>3, <1>4 DEF NoSuback, Packets
<1> QED
  BY <1>1, <1>5, <1>6, <1>7 DEF q

LEMMA InboxAppend ==
    ASSUME NEW s \in Seq(Packets), NEW e \in Packets, OneSuback(s), e = Suback => NoSuback(s)
    PROVE  /\ Append(s, e) \in Seq(Packets) /\ OneSuback(Append(s, e))
           /\ NoSuback(s) /\ e # Suback => NoSuback(Append(s, e))
<1> DEFINE q == Append(s, e)
<1>1. /\ q \in Seq(Packets) /\ Len(q) = Len(s) + 1 /\ Len(s) \in Nat /\ q[Len(s) + 1] = e
      /\ \A k \in 1 .. Len(s) : q[k] = s[k]
  BY AppendOf
<1> HIDE DEF q
<1>2. \A k \in 1 .. Len(q) : k \in 1 .. Len(s) \/ k = Len(s) + 1
  BY <1>1
<1>3. OneSuback(q)
  BY <1>1, <1>2 DEF OneSuback, NoSuback
<1>4. NoSuback(s) /\ e # Suback => NoSuback(q)
  BY <1>1, <1>2 DEF NoSuback
<1> QED
  BY <1>1, <1>3, <1>4 DEF q

LEMMA SubackIs == Suback \in Packets /\ Suback \notin Commands /\ Commands \subseteq Packets /\ NoCmd \notin Commands
BY DEF Suback, Packets, Commands, NoCmd

\* What tg-hass knows does not change where it does not act.
LEMMA HassRests ==
    ASSUME HassInv, UNCHANGED <<hass, mqtt, shown>>, call'["hass"] = call["hass"],
           since \subseteq since', since' \subseteq Pairs
    PROVE  HassInv'
<1>1. HassTypes'
  BY DEF HassInv, HassTypes
<1>2. PhaseOK' /\ InboxOK'
  BY DEF HassInv, PhaseOK, InboxOK
<1>3. CopyOK'
  BY DEF HassInv, CopyOK
<1> QED
  BY <1>1, <1>2, <1>3 DEF HassInv

\* Only the session changes, and what it holds stays as it should be.
LEMMA SessionStep ==
    ASSUME HassInv, UNCHANGED <<shown, since, call>>,
           NEW pc \in Phases, hass' = [hass EXCEPT !.pc = pc],
           {pc, hass.pc} \subseteq {"away", "subscribing", "poll"} \/ pc = hass.pc,
           mqtt' \in [up : BOOLEAN, topics : 0 .. Len(Topics), inbox : Seq(Packets)],
           pc = "away" => mqtt'.inbox = <<>> /\ mqtt'.up = FALSE,
           pc # "subscribing" => NoSuback(mqtt'.inbox), OneSuback(mqtt'.inbox)
    PROVE  HassInv'
<1>1. /\ hass' \in [pc : Phases, cmd : Commands \cup {NoCmd}, synced : BOOLEAN,
                    copy : Pairs, ext : Words]
      /\ hass'.pc = pc /\ hass'.cmd = hass.cmd /\ hass'.synced = hass.synced
      /\ hass'.copy = hass.copy
  BY DEF HassInv, HassTypes
<1>2. HassTypes'
  BY <1>1 DEF HassInv, HassTypes
<1>3. InboxOK'
  BY <1>1 DEF InboxOK
<1>4. CopyOK'
  BY <1>1 DEF HassInv, CopyOK
<1>5. PhaseOK'
  BY <1>1 DEF HassInv, PhaseOK
<1> QED
  BY <1>2, <1>3, <1>4, <1>5 DEF HassInv

LEMMA MqttIs ==
    ASSUME HassInv
    PROVE  /\ mqtt = [up |-> mqtt.up, topics |-> mqtt.topics, inbox |-> mqtt.inbox]
           /\ mqtt.up \in BOOLEAN /\ mqtt.topics \in 0 .. Len(Topics)
           /\ mqtt.inbox \in Seq(Packets) /\ OneSuback(mqtt.inbox)
           /\ hass.pc \in Phases /\ hass = [hass EXCEPT !.pc = hass.pc]
           /\ Len(Topics) = 4
BY DEF HassInv, HassTypes, InboxOK, Topics

LEMMA ConnectSession ==
    ASSUME HassInv, Connect
    PROVE  HassInv'
<1>1. hass.pc = "away" /\ mqtt.inbox = <<>> /\ mqtt.inbox \in Seq(Packets) /\ OneSuback(mqtt.inbox)
  BY MqttIs DEF Connect, HassInv, InboxOK
<1>2. NoSuback(mqtt.inbox)
  BY <1>1, EmptySeq DEF NoSuback
<1> DEFINE q == Append(mqtt.inbox, Suback)
<1>3. q \in Seq(Packets) /\ OneSuback(q)
  BY <1>1, <1>2, InboxAppend, SubackIs
<1>4. mqtt' = [up |-> TRUE, topics |-> 1, inbox |-> q]
  BY DEF Connect, Subscribe
<1> HIDE DEF q
<1>5. mqtt' \in [up : BOOLEAN, topics : 0 .. Len(Topics), inbox : Seq(Packets)]
  <2>1. 1 \in 0 .. Len(Topics)
    BY MqttIs
  <2> QED
    BY <1>3, <1>4, <2>1
<1>6. mqtt'.inbox = q
  BY <1>4
<1>7. "subscribing" \in Phases /\ hass' = [hass EXCEPT !.pc = "subscribing"] /\ UNCHANGED <<shown, since, call>>
  BY DEF Phases, Connect
<1> QED
  BY <1>1, <1>3, <1>5, <1>6, <1>7, SessionStep

LEMMA SubackSession ==
    ASSUME HassInv, AwaitSuback
    PROVE  HassInv'
<1> DEFINE s == mqtt.inbox
           q == Tail(s)
           rest == [mqtt EXCEPT !.inbox = Tail(@)]
<1>1. /\ hass.pc = "subscribing" /\ s # <<>> /\ s \in Seq(Packets) /\ OneSuback(s)
      /\ UNCHANGED <<shown, since, call>>
  BY MqttIs DEF AwaitSuback
<1>2. /\ q \in Seq(Packets) /\ OneSuback(q)
      /\ Head(s) = Suback => NoSuback(q)
  BY <1>1, InboxTail
<1>3. rest = [up |-> mqtt.up, topics |-> mqtt.topics, inbox |-> q]
  <2>1. mqtt = [up |-> mqtt.up, topics |-> mqtt.topics, inbox |-> s]
    BY MqttIs
  <2>2. rest = [mqtt EXCEPT !.inbox = q]
    OBVIOUS
  <2> HIDE DEF q, rest
  <2> QED
    BY <2>1, <2>2
<1>4. /\ rest \in [up : BOOLEAN, topics : 0 .. Len(Topics), inbox : Seq(Packets)]
      /\ rest.inbox = q
  BY <1>2, <1>3, MqttIs
<1>5. CASE mqtt' = rest /\ UNCHANGED hass
  <2>1. hass' = [hass EXCEPT !.pc = "subscribing"] /\ "subscribing" \in Phases
    BY <1>1, <1>5, MqttIs
  <2> HIDE DEF rest
  <2> QED
    BY <1>1, <1>2, <1>4, <1>5, <2>1, SessionStep
<1>6. CASE /\ Head(s) = Suback /\ mqtt.topics < Len(Topics)
           /\ mqtt' = Subscribe(rest, mqtt.topics + 1) /\ UNCHANGED hass
  <2>1. hass' = [hass EXCEPT !.pc = "subscribing"] /\ "subscribing" \in Phases
    BY <1>1, <1>6, MqttIs
  <2> DEFINE e == Append(q, Suback)
  <2>2. mqtt' = [up |-> TRUE, topics |-> mqtt.topics + 1, inbox |-> e]
    BY <1>4, <1>6 DEF Subscribe
  <2>3. e \in Seq(Packets) /\ OneSuback(e)
    <3> HIDE DEF q
    <3> QED
      BY <1>2, <1>6, InboxAppend, SubackIs
  <2>4. mqtt.topics + 1 \in 0 .. Len(Topics)
    BY <1>6, MqttIs
  <2> HIDE DEF e
  <2>5. mqtt' \in [up : BOOLEAN, topics : 0 .. Len(Topics), inbox : Seq(Packets)] /\ mqtt'.inbox = e
    BY <2>2, <2>3, <2>4
  <2> QED
    BY <1>1, <2>1, <2>3, <2>5, SessionStep
<1>7. CASE Head(s) = Suback /\ mqtt' = rest /\ hass' = [hass EXCEPT !.pc = "poll"]
  <2>1. "poll" \in Phases
    BY DEF Phases
  <2>2. NoSuback(mqtt'.inbox) /\ OneSuback(mqtt'.inbox)
    BY <1>2, <1>4, <1>7
  <2> HIDE DEF rest
  <2> QED
    BY <1>1, <1>4, <1>7, <2>1, <2>2, SessionStep
<1> QED
  BY <1>5, <1>6, <1>7 DEF AwaitSuback

LEMMA EndSessionSession ==
    ASSUME HassInv, EndSession
    PROVE  HassInv'
<1>1. /\ mqtt' = [up |-> FALSE, topics |-> 0, inbox |-> <<>>] /\ UNCHANGED <<shown, since, call>>
      /\ hass' = [hass EXCEPT !.pc = "away"] /\ hass.pc \in {"subscribing", "poll"}
  BY DEF EndSession
<1>2. /\ mqtt'.inbox = <<>> /\ mqtt'.up = FALSE
      /\ mqtt' \in [up : BOOLEAN, topics : 0 .. Len(Topics), inbox : Seq(Packets)]
  <2>1. <<>> \in Seq(Packets) /\ 0 \in 0 .. Len(Topics)
    BY EmptySeq, MqttIs
  <2> QED
    BY <1>1, <2>1
<1>3. NoSuback(mqtt'.inbox) /\ OneSuback(mqtt'.inbox)
  BY <1>2, EmptySeq DEF NoSuback, OneSuback
<1>4. "away" \in Phases
  BY DEF Phases
<1> QED
  BY <1>1, <1>2, <1>3, <1>4, SessionStep

LEMMA CommandSession ==
    ASSUME HassInv, Command
    PROVE  HassInv'
<1>1. PICK cmd \in Wanted : mqtt' = [mqtt EXCEPT !.inbox = Append(@, cmd)]
  BY DEF Command
<1>2. cmd \in Commands /\ cmd \in Packets /\ cmd # Suback
  <2>1. cmd \in Commands
    BY HomeAssumption
  <2> QED
    BY <2>1, SubackIs
<1> DEFINE e == Append(mqtt.inbox, cmd)
<1>3. mqtt' = [up |-> mqtt.up, topics |-> mqtt.topics, inbox |-> e]
  BY <1>1, MqttIs
<1>4. /\ e \in Seq(Packets) /\ OneSuback(e)
      /\ NoSuback(mqtt.inbox) => NoSuback(e)
  BY <1>2, MqttIs, InboxAppend
<1>5. /\ mqtt.up /\ hass.pc # "away" /\ UNCHANGED <<hass, shown, since, call>>
  BY DEF Command, HassInv, InboxOK
<1> HIDE DEF e
<1>6. /\ mqtt' \in [up : BOOLEAN, topics : 0 .. Len(Topics), inbox : Seq(Packets)]
      /\ mqtt'.inbox = e
  BY <1>3, <1>4, MqttIs
<1>7. hass.pc \in Phases /\ hass' = [hass EXCEPT !.pc = hass.pc]
  BY <1>5, MqttIs
<1>8. hass.pc # "subscribing" => NoSuback(mqtt'.inbox)
  BY <1>4, <1>6 DEF HassInv, InboxOK
<1> QED
  BY <1>4, <1>5, <1>6, <1>7, <1>8, SessionStep

LEMMA DropSession ==
    ASSUME HassInv, Drop
    PROVE  HassInv'
<1>1. mqtt' = [mqtt EXCEPT !.up = FALSE] /\ UNCHANGED <<hass, shown, since, call>>
  BY DEF Drop
<1>2. /\ mqtt' = [up |-> FALSE, topics |-> mqtt.topics, inbox |-> mqtt.inbox]
  BY <1>1, MqttIs
<1>3. /\ mqtt' \in [up : BOOLEAN, topics : 0 .. Len(Topics), inbox : Seq(Packets)]
      /\ mqtt'.inbox = mqtt.inbox /\ mqtt'.up = FALSE
  BY <1>2, MqttIs
<1>4. hass.pc \in Phases /\ hass' = [hass EXCEPT !.pc = hass.pc]
  BY <1>1, MqttIs
<1>5. /\ hass.pc = "away" => mqtt'.inbox = <<>>
      /\ hass.pc # "subscribing" => NoSuback(mqtt'.inbox)
      /\ OneSuback(mqtt'.inbox)
  BY <1>3 DEF HassInv, InboxOK
<1> QED
  BY <1>1, <1>3, <1>4, <1>5, SessionStep

-----------------------------------------------------------------------------
(* The asks of tg-hass.                                                    *)

\* A pair is two levels, and a change of one part keeps the other.
LEMMA PairIs ==
    ASSUME NEW s \in Pairs
    PROVE  s[1] \in Levels /\ s[2] \in Levels /\ s = <<s[1], s[2]>>
BY DEF Pairs

With(s, n, v) == [s EXCEPT ![n] = v]

LEMMA WithIs ==
    ASSUME NEW s \in Pairs, NEW v \in Levels, NEW n \in {1, 2}
    PROVE  /\ With(s, n, v) \in Pairs /\ With(s, n, v)[n] = v
           /\ \A i \in {1, 2} : i # n => With(s, n, v)[i] = s[i]
<1>1. s[1] \in Levels /\ s[2] \in Levels /\ s = <<s[1], s[2]>>
  BY PairIs
<1>2. CASE n = 1
  <2>1. With(s, n, v) = <<v, s[2]>>
    BY <1>1, <1>2 DEF With
  <2> QED
    BY <1>1, <1>2, <2>1 DEF Pairs
<1>3. CASE n = 2
  <2>1. With(s, n, v) = <<s[1], v>>
    BY <1>1, <1>3 DEF With
  <2> QED
    BY <1>1, <1>3, <2>1 DEF Pairs
<1> QED
  BY <1>2, <1>3

LEMMA CommandIs ==
    ASSUME NEW cmd \in Commands
    PROVE  /\ cmd.topic \in {"digits", "panels", "text", "ext"}
           /\ cmd.value \in Levels /\ Part(cmd.topic) \in {1, 2}
           /\ cmd.topic \in {"text", "ext"} => cmd.value \in Words
           /\ Both(cmd.value) \in Pairs /\ Both(cmd.value)[1] = cmd.value
           /\ Both(0) \in Pairs
<1>1. \A v \in 0 .. TOP - 1 : v \in Levels
  BY IdsAre DEF Levels
<1>2. \A v \in Words : v \in Levels
  BY IdsAre DEF Levels, Words
<1>3. /\ cmd.topic \in {"digits", "panels", "text", "ext"} /\ cmd.value \in Levels
      /\ cmd.topic \in {"text", "ext"} => cmd.value \in Words
  BY <1>1, <1>2 DEF Commands
<1>4. 0 \in Levels
  BY IdsAre DEF Levels
<1> QED
  BY <1>3, <1>4 DEF Part, Both, Pairs

LEMMA ChangedIs ==
    ASSUME NEW s \in Pairs, NEW cmd \in Commands
    PROVE  /\ Changed(s, cmd) = With(s, Part(cmd.topic), cmd.value)
           /\ Changed(s, cmd) \in Pairs /\ Changed(s, cmd)[Part(cmd.topic)] = cmd.value
           /\ \A i \in {1, 2} : Part(cmd.topic) # i => Changed(s, cmd)[i] = s[i]
<1>1. Part(cmd.topic) \in {1, 2} /\ cmd.value \in Levels
  BY CommandIs
<1>2. Changed(s, cmd) = With(s, Part(cmd.topic), cmd.value)
  BY DEF Changed, With
<1> QED
  BY <1>1, <1>2, WithIs

\* What a command asks is in the language of tg-display.
LEMMA AskOfIs ==
    ASSUME NEW cmd \in Commands, hass.copy \in Pairs
    PROVE  /\ AskOf(cmd).op \in Operations /\ AskOf(cmd).arg \in Pairs
           /\ AskOf(cmd).op \in {"text", "ext"} => AskOf(cmd).arg[1] \in Words
           /\ cmd.topic \in {"text", "ext"} => AskOf(cmd).op # "bright"
           /\ cmd.topic \in {"digits", "panels"} =>
                AskOf(cmd) = [op |-> "bright", arg |-> Changed(hass.copy, cmd)]
<1>1. /\ cmd.topic \in {"digits", "panels", "text", "ext"}
      /\ cmd.topic \in {"text", "ext"} => cmd.value \in Words
      /\ Both(cmd.value) \in Pairs /\ Both(cmd.value)[1] = cmd.value /\ Both(0) \in Pairs
      /\ Changed(hass.copy, cmd) \in Pairs
  BY CommandIs, ChangedIs
<1>2. CASE cmd.topic = "text" /\ cmd.value = 0
  <2>1. AskOf(cmd) = [op |-> "release", arg |-> Both(0)]
    BY <1>2 DEF AskOf
  <2> QED
    BY <1>1, <1>2, <2>1 DEF Operations
<1>3. CASE cmd.topic = "text" /\ cmd.value # 0
  <2>1. AskOf(cmd) = [op |-> "text", arg |-> Both(cmd.value)]
    BY <1>3 DEF AskOf
  <2> QED
    BY <1>1, <1>3, <2>1 DEF Operations
<1>4. CASE cmd.topic = "ext"
  <2>1. AskOf(cmd) = [op |-> "ext", arg |-> Both(cmd.value)]
    BY <1>4 DEF AskOf
  <2> QED
    BY <1>1, <1>4, <2>1 DEF Operations
<1>5. CASE cmd.topic \in {"digits", "panels"}
  <2>1. AskOf(cmd) = [op |-> "bright", arg |-> Changed(hass.copy, cmd)]
    BY <1>5 DEF AskOf
  <2> QED
    BY <1>1, <1>5, <2>1 DEF Operations
<1> QED
  BY <1>1, <1>2, <1>3, <1>4, <1>5

\* A level that this step publishes was held since tg-hass asked for it.
ReadBackStep ==
    \A i \in {1, 2} : shown'.levels[i] # shown.levels[i]
      => \E h \in held : h[i] = shown'.levels[i]

LEMMA HassIs ==
    ASSUME HassInv
    PROVE  /\ hass = [pc |-> hass.pc, cmd |-> hass.cmd, synced |-> hass.synced,
                      copy |-> hass.copy, ext |-> hass.ext]
           /\ hass.cmd \in Commands \cup {NoCmd} /\ hass.synced \in BOOLEAN
           /\ hass.copy \in Pairs /\ hass.ext \in Words
           /\ shown = [levels |-> shown.levels, text |-> shown.text, ext |-> shown.ext]
           /\ shown.levels \in Pairs /\ shown.text \in Words /\ shown.ext \in Words
           /\ since \subseteq Pairs
BY DEF HassInv, HassTypes, Board

\* tg-hass waits where the phase says so.
LEMMA WaitsIn ==
    ASSUME HassInv
    PROVE  /\ hass.pc \in {"away", "subscribing", "poll"} => call["hass"] = NoCall
           /\ hass.pc \in {"set", "sync", "read", "state"} => call["hass"] # NoCall
<1>1. \A pc \in {"set", "sync", "read", "state"} : pc \notin {"away", "subscribing", "poll"}
  OBVIOUS
<1> QED
  BY <1>1 DEF HassInv, PhaseOK

LEMMA NoCallOp == NoCall.op = "none" /\ NoCall.op # "bright" /\ NoCall.op # "settings"
BY DEF NoCall

\* A command that tg-hass takes, or the settings it needs first.
LEMMA OnMessageStep ==
    ASSUME PathInv, HassInv, OnMessage
    PROVE  PathInv' /\ HassInv' /\ ReadBackStep
<1> DEFINE cmd == Head(mqtt.inbox)
           op == IF NeedsSync(cmd) THEN "settings" ELSE AskOf(cmd).op
           arg == IF NeedsSync(cmd) THEN Both(0) ELSE AskOf(cmd).arg
           pc == IF NeedsSync(cmd) THEN "sync" ELSE "set"
<1>1. /\ hass.pc = "poll" /\ mqtt.inbox # <<>> /\ mqtt' = [mqtt EXCEPT !.inbox = Tail(@)]
      /\ UNCHANGED <<board, line, answers, dsp, back, shown, spare, since>>
      /\ Ask("hass", op, arg) /\ hass' = [hass EXCEPT !.pc = pc, !.cmd = cmd]
  BY DEF OnMessage
<1>2. /\ cmd \in Commands /\ Tail(mqtt.inbox) \in Seq(Packets)
      /\ NoSuback(Tail(mqtt.inbox)) /\ OneSuback(Tail(mqtt.inbox))
  <2>1. NoSuback(mqtt.inbox)
    BY <1>1 DEF HassInv, InboxOK
  <2> QED
    BY <1>1, <2>1, MqttIs, InboxTail
<1> HIDE DEF cmd
<1>3. /\ op \in Operations /\ arg \in Pairs
      /\ op \in {"text", "ext"} => arg[1] \in Words
  BY <1>2, AskOfIs, CommandIs, HassIs DEF Operations
<1>4. Ended("hass")
  <2>1. "hass" \in Clients /\ call["hass"] = NoCall
    BY <1>1, WaitsIn, ClientsAre
  <2>2. spare' \in [Bounds -> Nat] /\ spare'["late"] = spare["late"]
    BY <1>1 DEF PathInv, PathTypes
  <2> QED
    BY <1>1, <2>1, <2>2, EndedBefore
<1>5. PathInv' /\ call'["hass"].op = op /\ call'["hass"].arg = arg /\ call'["hass"] # NoCall
  <2> HIDE DEF op, arg
  <2>1. /\ PathInv' /\ call'["hass"] = [id |-> corr["hass"], op |-> op, arg |-> arg]
    BY <1>1, <1>3, <1>4, Asked, ClientsAre
  <2>2. op # "none"
    BY <1>3 DEF Operations
  <2> QED
    BY <2>1, <2>2 DEF NoCall
<1>6. /\ hass' = [pc |-> pc, cmd |-> cmd, synced |-> hass.synced,
                  copy |-> hass.copy, ext |-> hass.ext]
      /\ mqtt' = [up |-> mqtt.up, topics |-> mqtt.topics, inbox |-> Tail(mqtt.inbox)]
      /\ pc \in Phases /\ pc \in {"sync", "set"}
  BY <1>1, HassIs, MqttIs DEF Phases
<1>7. HassTypes'
  <2>1. hass' \in [pc : Phases, cmd : Commands \cup {NoCmd}, synced : BOOLEAN,
                   copy : Pairs, ext : Words]
    <3> HIDE DEF pc
    <3> QED
      BY <1>2, <1>6, HassIs
  <2>2. mqtt' \in [up : BOOLEAN, topics : 0 .. Len(Topics), inbox : Seq(Packets)]
    BY <1>2, <1>6, MqttIs
  <2> QED
    BY <1>1, <2>1, <2>2 DEF HassInv, HassTypes
<1>8. InboxOK'
  BY <1>2, <1>6 DEF InboxOK
<1>9. PhaseOK'
  <2>1. hass'.pc = pc /\ hass'.cmd = cmd
    BY <1>6
  <2>2. CASE NeedsSync(cmd)
    <3>1. op = "settings" /\ pc = "sync" /\ cmd.topic \in {"digits", "panels"}
      BY <2>2 DEF NeedsSync
    <3> HIDE DEF op, arg, pc
    <3> QED
      BY <1>2, <1>5, <2>1, <3>1 DEF PhaseOK
  <2>3. CASE ~NeedsSync(cmd)
    <3>1. op = AskOf(cmd).op /\ arg = AskOf(cmd).arg /\ pc = "set"
      BY <2>3
    <3>2. cmd.topic \in {"text", "ext"} => op # "bright"
      BY <1>2, <3>1, AskOfIs, HassIs
    <3>3. cmd.topic \in {"digits", "panels"} => op = "bright" /\ arg[Part(cmd.topic)] = cmd.value
      <4> SUFFICES ASSUME cmd.topic \in {"digits", "panels"}
                   PROVE  op = "bright" /\ arg[Part(cmd.topic)] = cmd.value
        OBVIOUS
      <4>1. AskOf(cmd).op = "bright" /\ AskOf(cmd).arg = Changed(hass.copy, cmd)
        BY <1>2, AskOfIs, HassIs
      <4>2. Changed(hass.copy, cmd)[Part(cmd.topic)] = cmd.value
        BY <1>2, ChangedIs, HassIs
      <4> HIDE DEF op, arg
      <4> QED
        BY <3>1, <4>1, <4>2
    <3> HIDE DEF op, arg, pc
    <3> QED
      BY <1>2, <1>5, <2>1, <3>1, <3>2, <3>3 DEF PhaseOK
  <2> QED
    BY <2>2, <2>3
<1>10. CopyOK'
  <2>1. hass'.synced = hass.synced /\ hass'.copy = hass.copy /\ hass'.cmd = cmd /\ since' = since
    BY <1>1, <1>6
  <2>2. hass.synced = TRUE => hass.copy \in since
    BY DEF HassInv, CopyOK
  <2>3. op = "bright" => \A i \in {1, 2} : Part(cmd.topic) # i => \E h \in since : h[i] = arg[i]
    <3> SUFFICES ASSUME op = "bright", NEW i \in {1, 2}, Part(cmd.topic) # i
                 PROVE  \E h \in since : h[i] = arg[i]
      OBVIOUS
    <3>1. ~NeedsSync(cmd) /\ op = AskOf(cmd).op /\ arg = AskOf(cmd).arg
      OBVIOUS
    <3>2. cmd.topic \in {"digits", "panels"}
      BY <1>2, <3>1, AskOfIs, HassIs, CommandIs
    <3>3. hass.synced = TRUE
      BY <3>1, <3>2, HassIs DEF NeedsSync
    <3>4. arg[i] = hass.copy[i]
      <4>1. AskOf(cmd).arg = Changed(hass.copy, cmd)
        BY <1>2, <3>2, AskOfIs, HassIs
      <4>2. Changed(hass.copy, cmd)[i] = hass.copy[i]
        BY <1>2, ChangedIs, HassIs
      <4> HIDE DEF op, arg
      <4> QED
        BY <3>1, <4>1, <4>2
    <3> HIDE DEF arg, op
    <3> QED
      BY <2>2, <3>3, <3>4
  <2> HIDE DEF op, arg
  <2> QED
    BY <1>5, <2>1, <2>2, <2>3 DEF CopyOK
<1>11. ReadBackStep
  BY <1>1 DEF ReadBackStep
<1> QED
  BY <1>5, <1>7, <1>8, <1>9, <1>10, <1>11 DEF HassInv

\* The next reading.
LEMMA ReadingStep ==
    ASSUME PathInv, HassInv, Reading
    PROVE  PathInv' /\ HassInv' /\ ReadBackStep
<1>1. /\ hass.pc = "poll" /\ UNCHANGED <<board, line, answers, dsp, back, mqtt, shown, spare, since>>
      /\ Ask("hass", "settings", Both(0)) /\ hass' = [hass EXCEPT !.pc = "read"]
  BY DEF Reading
<1>2. Ended("hass")
  <2>1. "hass" \in Clients /\ call["hass"] = NoCall
    BY <1>1, WaitsIn, ClientsAre
  <2>2. spare' \in [Bounds -> Nat] /\ spare'["late"] = spare["late"]
    BY <1>1 DEF PathInv, PathTypes
  <2> QED
    BY <1>1, <2>1, <2>2, EndedBefore
<1>3. Both(0) \in Pairs /\ "settings" \in Operations /\ "settings" \notin {"text", "ext"}
  <2>1. 0 \in Levels
    BY IdsAre DEF Levels
  <2> QED
    BY <2>1 DEF Operations, Both, Pairs
<1>4. PathInv' /\ call'["hass"].op = "settings" /\ call'["hass"] # NoCall
  <2>1. PathInv' /\ call'["hass"] = [id |-> corr["hass"], op |-> "settings", arg |-> Both(0)]
    BY <1>1, <1>2, <1>3, Asked, ClientsAre
  <2> QED
    BY <2>1 DEF NoCall
<1>5. /\ hass' = [pc |-> "read", cmd |-> hass.cmd, synced |-> hass.synced,
                  copy |-> hass.copy, ext |-> hass.ext]
  BY <1>1, HassIs
<1>6. HassTypes'
  <2>1. hass' \in [pc : Phases, cmd : Commands \cup {NoCmd}, synced : BOOLEAN,
                   copy : Pairs, ext : Words]
    BY <1>5, HassIs DEF Phases
  <2> QED
    BY <1>1, <2>1 DEF HassInv, HassTypes
<1>7. InboxOK'
  BY <1>1, <1>5 DEF HassInv, InboxOK
<1>8. PhaseOK'
  BY <1>4, <1>5 DEF PhaseOK
<1>9. CopyOK'
  BY <1>1, <1>4, <1>5 DEF HassInv, CopyOK
<1>10. ReadBackStep
  BY <1>1 DEF ReadBackStep
<1> QED
  BY <1>4, <1>6, <1>7, <1>8, <1>9, <1>10 DEF HassInv

\* An ask of tg-hass ends.
LEMMA HassWaitEnds ==
    ASSUME PathInv, HassInv, hass.pc \in {"set", "sync", "read", "state"},
           NEW r \in Outcomes("hass"), Ends("hass", r)
    PROVE  /\ Ended("hass") /\ r \in Replies /\ r.ok \in BOOLEAN
           /\ r.value.levels \in Pairs /\ r.value.ext \in Words
           /\ Answers(call["hass"], r, held)
<1>1. "hass" \in Clients /\ call["hass"] # NoCall
  BY WaitsIn, ClientsAre
<1>2. Ended("hass") /\ r \in Replies /\ Answers(call["hass"], r, held)
  BY <1>1, WaitEnds DEF Ended
<1>3. r.ok \in BOOLEAN /\ r.value.levels \in Pairs /\ r.value.ext \in Words
  BY <1>2 DEF Replies, Board
<1> QED
  BY <1>2, <1>3

\* What is published, or what was shown before.
LEMMA PublishIs ==
    ASSUME NEW s \in Board, HassInv, Publish(s)
    PROVE  /\ shown' \in Board
           /\ \A i \in {1, 2} : shown'.levels[i] = s.levels[i] \/ shown'.levels[i] = shown.levels[i]
BY DEF Publish, HassInv, HassTypes

LEMMA ShowsLevelsIs ==
    ASSUME HassInv, NEW r \in Replies
    PROVE  ShowsLevels(r.value) \in Board /\ ShowsLevels(r.value).levels = r.value.levels
<1>1. r.value.levels \in Pairs
  BY DEF Replies, Board
<1>2. ShowsLevels(r.value) = [levels |-> r.value.levels, text |-> shown.text, ext |-> shown.ext]
  BY HassIs DEF ShowsLevels
<1> QED
  BY <1>1, <1>2, HassIs DEF Board

\* The settings before a command: with them it is sent, without it is dropped.
LEMMA SyncEndsStep ==
    ASSUME PathInv, HassInv, SyncEnds
    PROVE  PathInv' /\ HassInv' /\ ReadBackStep
<1>1. /\ hass.pc = "sync" /\ call["hass"].op = "settings" /\ hass.cmd \in Commands
      /\ hass.cmd.topic \in {"digits", "panels"} /\ "hass" \in Clients
      /\ UNCHANGED <<board, line, answers, dsp, mqtt>>
  BY ClientsAre DEF SyncEnds, HassInv, PhaseOK
<1>2. PICK r \in Outcomes("hass") :
        /\ Ends("hass", r)
        /\ IF ~r.ok
           THEN /\ hass' = [hass EXCEPT !.pc = "poll", !.cmd = NoCmd]
                /\ Return /\ UNCHANGED <<pipe, corr, shown, held, since>>
           ELSE /\ hass' = [Synced(hass, r.value) EXCEPT !.pc = "set"]
                /\ Publish(ShowsLevels(r.value))
                /\ Ask("hass", "bright", Changed(r.value.levels, hass.cmd))
                /\ since' = held
  BY DEF SyncEnds
<1>3. /\ Ended("hass") /\ r \in Replies /\ r.ok \in BOOLEAN
      /\ r.value.levels \in Pairs /\ r.value.ext \in Words
      /\ Answers(call["hass"], r, held)
  BY <1>1, <1>2, HassWaitEnds
<1>4. CASE ~r.ok
  <2>1. /\ hass' = [hass EXCEPT !.pc = "poll", !.cmd = NoCmd]
        /\ call' = [call EXCEPT !["hass"] = NoCall] /\ UNCHANGED <<pipe, corr, shown, held, since>>
    BY <1>2, <1>4 DEF Return
  <2>2. PathInv' /\ call'["hass"] = NoCall
    BY <1>1, <1>3, <2>1, Returned
  <2>3. hass' = [pc |-> "poll", cmd |-> NoCmd, synced |-> hass.synced,
                 copy |-> hass.copy, ext |-> hass.ext]
    BY <2>1, HassIs
  <2>4. HassTypes'
    <3>1. hass' \in [pc : Phases, cmd : Commands \cup {NoCmd}, synced : BOOLEAN,
                     copy : Pairs, ext : Words]
      BY <2>3, HassIs DEF Phases
    <3> QED
      BY <1>1, <2>1, <3>1 DEF HassInv, HassTypes
  <2>5. InboxOK'
    BY <1>1, <2>3 DEF HassInv, InboxOK
  <2>6. PhaseOK'
    BY <2>2, <2>3 DEF PhaseOK
  <2>7. CopyOK'
    BY <2>1, <2>2, <2>3, NoCallOp DEF HassInv, CopyOK
  <2>8. ReadBackStep
    BY <2>1 DEF ReadBackStep
  <2> QED
    BY <2>2, <2>4, <2>5, <2>6, <2>7, <2>8 DEF HassInv
<1>5. CASE r.ok
  <2> DEFINE a == Changed(r.value.levels, hass.cmd)
  <2>1. /\ hass' = [Synced(hass, r.value) EXCEPT !.pc = "set"]
        /\ Publish(ShowsLevels(r.value)) /\ Ask("hass", "bright", a) /\ since' = held
    BY <1>2, <1>5
  <2>2. /\ a \in Pairs /\ a[Part(hass.cmd.topic)] = hass.cmd.value
        /\ \A i \in {1, 2} : Part(hass.cmd.topic) # i => a[i] = r.value.levels[i]
    BY <1>1, <1>3, ChangedIs
  <2>3. r.value.levels \in held
    BY <1>1, <1>3, <1>5 DEF Answers
  <2> HIDE DEF a
  <2>4. "bright" \in Operations /\ "bright" \notin {"text", "ext"}
    BY DEF Operations
  <2>5. PathInv' /\ call'["hass"].op = "bright" /\ call'["hass"].arg = a /\ call'["hass"] # NoCall
    <3>1. PathInv' /\ call'["hass"] = [id |-> corr["hass"], op |-> "bright", arg |-> a]
      BY <1>1, <1>3, <2>1, <2>2, <2>4, Asked
    <3> QED
      BY <3>1 DEF NoCall
  <2>6. hass' = [pc |-> "set", cmd |-> hass.cmd, synced |-> TRUE,
                 copy |-> r.value.levels, ext |-> r.value.ext]
    BY <2>1, HassIs DEF Synced
  <2>7. HassTypes'
    <3>1. hass' \in [pc : Phases, cmd : Commands \cup {NoCmd}, synced : BOOLEAN,
                     copy : Pairs, ext : Words]
      BY <1>3, <2>6, HassIs DEF Phases
    <3>2. shown' \in Board
      BY <1>3, <2>1, PublishIs, ShowsLevelsIs
    <3>3. held \subseteq Pairs
      BY DEF PathInv, PathTypes
    <3> QED
      BY <1>1, <2>1, <3>1, <3>2, <3>3 DEF HassInv, HassTypes
  <2>8. InboxOK'
    BY <1>1, <2>6 DEF HassInv, InboxOK
  <2>9. PhaseOK'
    BY <1>1, <2>2, <2>5, <2>6 DEF PhaseOK
  <2>10. CopyOK'
    <3>1. hass'.copy \in since' /\ hass'.cmd = hass.cmd
      BY <2>1, <2>3, <2>6
    <3>2. \A i \in {1, 2} : Part(hass.cmd.topic) # i => \E h \in since' : h[i] = a[i]
      BY <2>1, <2>2, <2>3
    <3> QED
      BY <2>5, <3>1, <3>2 DEF CopyOK
  <2>11. ReadBackStep
    BY <1>3, <2>1, <2>3, PublishIs, ShowsLevelsIs DEF ReadBackStep
  <2> QED
    BY <2>5, <2>7, <2>8, <2>9, <2>10, <2>11 DEF HassInv
<1> QED
  BY <1>3, <1>4, <1>5

\* The echo of a change shows the command, and the other level as before.
LEMMA EchoIs ==
    ASSUME HassInv, NEW cmd \in Commands, cmd.topic # "ext"
    PROVE  /\ Echo(cmd) \in Board
           /\ cmd.topic = "text" => Echo(cmd).levels = shown.levels
           /\ cmd.topic # "text" =>
                /\ Echo(cmd).levels[Part(cmd.topic)] = cmd.value
                /\ \A i \in {1, 2} : i # Part(cmd.topic) => Echo(cmd).levels[i] = shown.levels[i]
<1> DEFINE n == Part(cmd.topic)
           t == With(shown.levels, n, cmd.value)
<1>1. /\ n \in {1, 2} /\ cmd.value \in Levels /\ shown.levels \in Pairs
      /\ cmd.topic = "text" => cmd.value \in Words
  BY CommandIs, HassIs
<1>2. t \in Pairs /\ t[n] = cmd.value /\ \A i \in {1, 2} : i # n => t[i] = shown.levels[i]
  BY <1>1, WithIs
<1>3. CASE cmd.topic = "text"
  <2>1. Echo(cmd) = [levels |-> shown.levels, text |-> cmd.value, ext |-> shown.ext]
    BY <1>3, HassIs DEF Echo
  <2> QED
    BY <1>1, <1>3, <2>1, HassIs DEF Board
<1>4. CASE cmd.topic # "text"
  <2>1. Echo(cmd) = [shown EXCEPT !.levels = t]
    BY <1>4 DEF Echo, With
  <2> HIDE DEF t
  <2>2. Echo(cmd) = [levels |-> t, text |-> shown.text, ext |-> shown.ext]
    BY <2>1, HassIs
  <2>3. Echo(cmd) \in Board /\ Echo(cmd).levels = t
    BY <1>2, <2>2, HassIs DEF Board
  <2> QED
    BY <1>2, <1>4, <2>3
<1> QED
  BY <1>3, <1>4

\* A change ends: kept and shown if it is no refusal.
LEMMA SetEndsStep ==
    ASSUME PathInv, HassInv, SetEnds
    PROVE  PathInv' /\ HassInv' /\ ReadBackStep
<1>1. /\ hass.pc = "set" /\ hass.cmd \in Commands /\ hass.cmd.topic # "ext"
      /\ hass.cmd.topic \in {"digits", "panels"} =>
           call["hass"].op = "bright" /\ call["hass"].arg[Part(hass.cmd.topic)] = hass.cmd.value
      /\ UNCHANGED <<board, line, answers, dsp, pipe, corr, mqtt, held>>
      /\ call' = [call EXCEPT !["hass"] = NoCall] /\ "hass" \in Clients
  BY ClientsAre DEF SetEnds, HassInv, PhaseOK, Return
<1>2. PICK r \in Outcomes("hass") :
        /\ Ends("hass", r)
        /\ IF r.ok THEN Publish(Echo(hass.cmd)) ELSE UNCHANGED shown
        /\ since' = IF r.ok /\ call["hass"].op = "bright" THEN held ELSE since
        /\ hass' = [hass EXCEPT !.pc = "poll", !.cmd = NoCmd, !.copy = Keeps(r.ok)]
  BY DEF SetEnds
<1>3. /\ Ended("hass") /\ r \in Replies /\ r.ok \in BOOLEAN
      /\ Answers(call["hass"], r, held)
  BY <1>1, <1>2, HassWaitEnds
<1>4. PathInv' /\ call'["hass"] = NoCall
  BY <1>1, <1>3, Returned
<1>5. hass' = [pc |-> "poll", cmd |-> NoCmd, synced |-> hass.synced,
               copy |-> Keeps(r.ok), ext |-> hass.ext]
  BY <1>2, HassIs
<1>6. held \subseteq Pairs
  BY DEF PathInv, PathTypes
<1>7. CASE r.ok /\ call["hass"].op = "bright"
  <2>1. since' = held /\ Keeps(r.ok) = call["hass"].arg /\ call["hass"].arg \in held
    BY <1>2, <1>3, <1>7 DEF Keeps, Answers
  <2> QED
    <3>1. Keeps(r.ok) \in Pairs /\ since' \subseteq Pairs
      BY <1>6, <2>1
    <3>2. hass' \in [pc : Phases, cmd : Commands \cup {NoCmd}, synced : BOOLEAN,
                     copy : Pairs, ext : Words]
      BY <1>5, <3>1, HassIs DEF Phases
    <3>3. shown' \in Board
      BY <1>1, <1>2, <1>7, EchoIs, PublishIs
    <3>4. HassTypes'
      BY <1>1, <3>1, <3>2, <3>3 DEF HassInv, HassTypes
    <3>5. InboxOK'
      BY <1>1, <1>5 DEF HassInv, InboxOK
    <3>6. PhaseOK'
      BY <1>4, <1>5 DEF PhaseOK
    <3>7. CopyOK'
      BY <1>4, <1>5, <2>1, NoCallOp DEF CopyOK
    <3>8. ReadBackStep
      <4> SUFFICES ASSUME NEW i \in {1, 2}, shown'.levels[i] # shown.levels[i]
                   PROVE  \E h \in held : h[i] = shown'.levels[i]
        BY DEF ReadBackStep
      <4>1. /\ Echo(hass.cmd) \in Board /\ Publish(Echo(hass.cmd))
            /\ shown'.levels[i] = Echo(hass.cmd).levels[i]
        BY <1>1, <1>2, <1>7, EchoIs, PublishIs
      <4>2. hass.cmd.topic # "text" /\ i = Part(hass.cmd.topic)
        BY <1>1, <4>1, EchoIs
      <4>3. shown'.levels[i] = hass.cmd.value /\ call["hass"].arg[i] = hass.cmd.value
        BY <1>1, <4>1, <4>2, EchoIs, CommandIs
      <4> QED
        BY <2>1, <4>3
    <3> QED
      BY <1>4, <3>4, <3>5, <3>6, <3>7, <3>8 DEF HassInv
<1>8. CASE ~(r.ok /\ call["hass"].op = "bright")
  <2>1. since' = since /\ Keeps(r.ok) = hass.copy
    BY <1>2, <1>8 DEF Keeps
  <2>2. hass' \in [pc : Phases, cmd : Commands \cup {NoCmd}, synced : BOOLEAN,
                   copy : Pairs, ext : Words]
    BY <1>5, <2>1, HassIs DEF Phases
  <2>3. /\ shown' \in Board
        /\ \A i \in {1, 2} : shown'.levels[i] = shown.levels[i]
    <3>1. CASE r.ok
      <4>1. hass.cmd.topic = "text"
        BY <1>1, <1>8, <3>1, CommandIs
      <4>2. Publish(Echo(hass.cmd)) /\ Echo(hass.cmd) \in Board /\ Echo(hass.cmd).levels = shown.levels
        BY <1>1, <1>2, <3>1, <4>1, EchoIs
      <4> QED
        BY <4>2, PublishIs
    <3>2. CASE ~r.ok
      BY <1>2, <3>2 DEF HassInv, HassTypes
    <3> QED
      BY <3>1, <3>2
  <2>4. HassTypes'
    BY <1>1, <2>1, <2>2, <2>3 DEF HassInv, HassTypes
  <2>5. InboxOK'
    BY <1>1, <1>5 DEF HassInv, InboxOK
  <2>6. PhaseOK'
    BY <1>4, <1>5 DEF PhaseOK
  <2>7. CopyOK'
    BY <1>4, <1>5, <2>1, NoCallOp DEF HassInv, CopyOK
  <2>8. ReadBackStep
    BY <2>3 DEF ReadBackStep
  <2> QED
    BY <1>4, <2>4, <2>5, <2>6, <2>7, <2>8 DEF HassInv
<1> QED
  BY <1>7, <1>8

\* The outside value: a reading follows.
LEMMA ExtEndsStep ==
    ASSUME PathInv, HassInv, ExtEnds
    PROVE  PathInv' /\ HassInv' /\ ReadBackStep
<1>1. /\ hass.pc = "set" /\ UNCHANGED <<board, line, answers, dsp, mqtt, shown, since>>
      /\ Ask("hass", "settings", Both(0)) /\ hass' = [hass EXCEPT !.pc = "read", !.cmd = NoCmd]
      /\ "hass" \in Clients
  BY ClientsAre DEF ExtEnds
<1>2. PICK r \in Outcomes("hass") : Ends("hass", r)
  BY DEF ExtEnds
<1>3. Ended("hass")
  BY <1>1, <1>2, HassWaitEnds
<1>4. Both(0) \in Pairs /\ "settings" \in Operations /\ "settings" \notin {"text", "ext"}
  <2>1. 0 \in Levels
    BY IdsAre DEF Levels
  <2> QED
    BY <2>1 DEF Operations, Both, Pairs
<1>5. PathInv' /\ call'["hass"].op = "settings" /\ call'["hass"] # NoCall
  <2>1. PathInv' /\ call'["hass"] = [id |-> corr["hass"], op |-> "settings", arg |-> Both(0)]
    BY <1>1, <1>3, <1>4, Asked
  <2> QED
    BY <2>1 DEF NoCall
<1>6. hass' = [pc |-> "read", cmd |-> NoCmd, synced |-> hass.synced,
               copy |-> hass.copy, ext |-> hass.ext]
  BY <1>1, HassIs
<1>7. HassTypes'
  <2>1. hass' \in [pc : Phases, cmd : Commands \cup {NoCmd}, synced : BOOLEAN,
                   copy : Pairs, ext : Words]
    BY <1>6, HassIs DEF Phases
  <2> QED
    BY <1>1, <2>1 DEF HassInv, HassTypes
<1>8. InboxOK'
  BY <1>1, <1>6 DEF HassInv, InboxOK
<1>9. PhaseOK'
  BY <1>5, <1>6 DEF PhaseOK
<1>10. CopyOK'
  BY <1>1, <1>5, <1>6 DEF HassInv, CopyOK
<1>11. ReadBackStep
  BY <1>1 DEF ReadBackStep
<1> QED
  BY <1>5, <1>7, <1>8, <1>9, <1>10, <1>11 DEF HassInv

\* The settings of a reading.
LEMMA SettingsEndStep ==
    ASSUME PathInv, HassInv, SettingsEnd
    PROVE  PathInv' /\ HassInv' /\ ReadBackStep
<1>1. /\ hass.pc = "read" /\ call["hass"].op = "settings" /\ "hass" \in Clients
      /\ Ask("hass", "state", Both(0)) /\ UNCHANGED <<board, line, answers, dsp, mqtt>>
  BY ClientsAre DEF SettingsEnd, HassInv, PhaseOK
<1>2. PICK r \in Outcomes("hass") :
        /\ Ends("hass", r)
        /\ IF r.ok
           THEN /\ hass' = [Synced(hass, r.value) EXCEPT !.pc = "state"]
                /\ Publish(ShowsLevels(r.value)) /\ since' = held
           ELSE /\ hass' = [hass EXCEPT !.pc = "state"]
                /\ UNCHANGED <<shown, since>>
  BY DEF SettingsEnd
<1>3. /\ Ended("hass") /\ r \in Replies /\ r.ok \in BOOLEAN
      /\ r.value.levels \in Pairs /\ r.value.ext \in Words
      /\ Answers(call["hass"], r, held)
  BY <1>1, <1>2, HassWaitEnds
<1>4. Both(0) \in Pairs /\ "state" \in Operations /\ "state" \notin {"text", "ext"}
  <2>1. 0 \in Levels
    BY IdsAre DEF Levels
  <2> QED
    BY <2>1 DEF Operations, Both, Pairs
<1>5. PathInv' /\ call'["hass"].op = "state" /\ call'["hass"] # NoCall
  <2>1. PathInv' /\ call'["hass"] = [id |-> corr["hass"], op |-> "state", arg |-> Both(0)]
    BY <1>1, <1>3, <1>4, Asked
  <2> QED
    BY <2>1 DEF NoCall
<1>6. /\ hass'.pc = "state" /\ hass'.cmd = hass.cmd
      /\ hass' \in [pc : Phases, cmd : Commands \cup {NoCmd}, synced : BOOLEAN,
                    copy : Pairs, ext : Words]
      /\ shown' \in Board /\ since' \subseteq Pairs
      /\ hass'.synced = TRUE => hass'.copy \in since'
      /\ ReadBackStep
  <2>1. CASE r.ok
    <3>1. /\ hass' = [Synced(hass, r.value) EXCEPT !.pc = "state"]
          /\ Publish(ShowsLevels(r.value)) /\ since' = held
      BY <1>2, <2>1
    <3>2. hass' = [pc |-> "state", cmd |-> hass.cmd, synced |-> TRUE,
                   copy |-> r.value.levels, ext |-> r.value.ext]
      BY <3>1, HassIs DEF Synced
    <3>3. r.value.levels \in held /\ held \subseteq Pairs
      BY <1>1, <1>3, <2>1 DEF Answers, PathInv, PathTypes
    <3>4. shown' \in Board
      BY <1>3, <3>1, PublishIs, ShowsLevelsIs
    <3>5. ReadBackStep
      BY <1>3, <3>1, <3>3, PublishIs, ShowsLevelsIs DEF ReadBackStep
    <3>6. hass' \in [pc : Phases, cmd : Commands \cup {NoCmd}, synced : BOOLEAN,
                     copy : Pairs, ext : Words]
      BY <1>3, <3>2, HassIs DEF Phases
    <3> QED
      BY <3>1, <3>2, <3>3, <3>4, <3>5, <3>6
  <2>2. CASE ~r.ok
    <3>1. hass' = [hass EXCEPT !.pc = "state"] /\ UNCHANGED <<shown, since>>
      BY <1>2, <2>2
    <3>2. hass' = [pc |-> "state", cmd |-> hass.cmd, synced |-> hass.synced,
                   copy |-> hass.copy, ext |-> hass.ext]
      BY <3>1, HassIs
    <3>3. hass' \in [pc : Phases, cmd : Commands \cup {NoCmd}, synced : BOOLEAN,
                     copy : Pairs, ext : Words]
      BY <3>2, HassIs DEF Phases
    <3>4. ReadBackStep
      BY <3>1 DEF ReadBackStep
    <3>5. hass.synced = TRUE => hass.copy \in since
      BY DEF HassInv, CopyOK
    <3>6. shown' \in Board /\ since' \subseteq Pairs
      BY <3>1 DEF HassInv, HassTypes
    <3> QED
      BY <3>1, <3>2, <3>3, <3>4, <3>5, <3>6
  <2> QED
    BY <1>3, <2>1, <2>2
<1>7. HassTypes'
  BY <1>1, <1>6 DEF HassInv, HassTypes
<1>8. InboxOK'
  BY <1>1, <1>6 DEF HassInv, InboxOK
<1>9. PhaseOK'
  BY <1>5, <1>6 DEF PhaseOK
<1>10. CopyOK'
  BY <1>5, <1>6 DEF CopyOK
<1> QED
  BY <1>5, <1>6, <1>7, <1>8, <1>9, <1>10 DEF HassInv

\* The state of a reading.
LEMMA StateEndsStep ==
    ASSUME PathInv, HassInv, StateEnds
    PROVE  PathInv' /\ HassInv' /\ ReadBackStep
<1>1. /\ hass.pc = "state" /\ hass' = [hass EXCEPT !.pc = "poll"]
      /\ UNCHANGED <<board, line, answers, dsp, pipe, corr, mqtt, held, since>>
      /\ call' = [call EXCEPT !["hass"] = NoCall] /\ "hass" \in Clients
  BY ClientsAre DEF StateEnds, Return
<1>2. PICK r \in Outcomes("hass") :
        /\ Ends("hass", r)
        /\ IF r.ok THEN Publish([shown EXCEPT !.ext = hass.ext]) ELSE UNCHANGED shown
  BY DEF StateEnds
<1>3. Ended("hass")
  BY <1>1, <1>2, HassWaitEnds
<1>4. PathInv' /\ call'["hass"] = NoCall
  BY <1>1, <1>3, Returned
<1>5. hass' = [pc |-> "poll", cmd |-> hass.cmd, synced |-> hass.synced,
               copy |-> hass.copy, ext |-> hass.ext]
  BY <1>1, HassIs
<1>6. shown' \in Board /\ \A i \in {1, 2} : shown'.levels[i] = shown.levels[i]
  <2> DEFINE s == [shown EXCEPT !.ext = hass.ext]
  <2>1. s = [levels |-> shown.levels, text |-> shown.text, ext |-> hass.ext]
    BY HassIs
  <2> HIDE DEF s
  <2>2. s \in Board /\ s.levels = shown.levels
    BY <2>1, HassIs DEF Board
  <2>3. Publish(s) \/ shown' = shown
    BY <1>2 DEF s
  <2> QED
    BY <2>2, <2>3, PublishIs DEF HassInv, HassTypes
<1>7. HassTypes'
  <2>1. hass' \in [pc : Phases, cmd : Commands \cup {NoCmd}, synced : BOOLEAN,
                   copy : Pairs, ext : Words]
    BY <1>5, HassIs DEF Phases
  <2> QED
    BY <1>1, <1>6, <2>1 DEF HassInv, HassTypes
<1>8. InboxOK'
  BY <1>1, <1>5 DEF HassInv, InboxOK
<1>9. PhaseOK'
  BY <1>4, <1>5 DEF PhaseOK
<1>10. CopyOK'
  BY <1>1, <1>4, <1>5, NoCallOp DEF HassInv, CopyOK
<1>11. ReadBackStep
  BY <1>6 DEF ReadBackStep
<1> QED
  BY <1>4, <1>7, <1>8, <1>9, <1>10, <1>11 DEF HassInv

-----------------------------------------------------------------------------
(* The invariant holds, and with it the properties of the path.            *)

LEMMA HomeStarts ==
    HomeInit => PathInv /\ HassInv
<1> SUFFICES ASSUME HomeInit PROVE PathInv /\ HassInv
  OBVIOUS
<1>1. <<>> \in Seq(Frames) /\ <<>> \in Seq(Replies) /\ <<>> \in Seq(Packets) /\ Len(<<>>) = 0
  BY EmptySeq
<1>2. 0 \in 0 .. IDS - 1 /\ 1 \in 0 .. IDS - 1 /\ 0 \in Levels /\ TOP \in Levels
  BY IdsAre DEF Levels
<1>3. /\ <<0, 0>> \in Pairs /\ <<TOP, TOP>> \in Pairs /\ Bare \in Board /\ Bare.levels = <<0, 0>>
      /\ [Bare EXCEPT !.levels = <<TOP, TOP>>] \in Board
  <2>1. <<0, 0>> \in Pairs /\ <<TOP, TOP>> \in Pairs
    BY <1>2 DEF Pairs
  <2>2. Bare \in Board /\ Bare.levels = <<0, 0>>
    BY <2>1 DEF Bare, Board, Words
  <2>3. [Bare EXCEPT !.levels = <<TOP, TOP>>] = [levels |-> <<TOP, TOP>>, text |-> 0, ext |-> 0]
    BY DEF Bare
  <2> QED
    BY <2>1, <2>2, <2>3 DEF Board, Words
<1>4. /\ \A c \in Clients : pipe[c] = <<>> /\ back[c] = <<>> /\ call[c] = NoCall /\ corr[c] = 1
      /\ line = <<>> /\ answers = <<>> /\ dsp = [client |-> "none", id |-> 1, owed |-> 0]
      /\ pipe \in [Clients -> {<<>>}] /\ back \in [Clients -> {<<>>}]
      /\ call \in [Clients -> {NoCall}] /\ corr \in [Clients -> {1}]
  BY DEF HomeInit
<1>5. PathTypes
  <2>1. /\ pipe \in [Clients -> Seq(Frames)] /\ back \in [Clients -> Seq(Replies)]
        /\ call \in [Clients -> Frames \cup {NoCall}] /\ corr \in [Clients -> 0 .. IDS - 1]
    BY <1>1, <1>2, <1>4
  <2>2. dsp \in [client : Clients \cup {"none"}, id : 0 .. IDS - 1, owed : 0 .. IDS - 1]
    BY <1>2, <1>4
  <2>3. spare \in [Bounds -> Nat] /\ spare["late"] <= MaxLate
    <3>1. /\ MaxCmds \in Nat /\ MaxRest \in Nat /\ MaxLate \in Nat /\ MaxDrops \in Nat /\ MaxResets \in Nat
      BY HomeAssumption
    <3>2. spare = [cmds |-> MaxCmds, rest |-> MaxRest, late |-> MaxLate,
                   drops |-> MaxDrops, resets |-> MaxResets]
      BY DEF HomeInit
    <3>3. DOMAIN spare = Bounds /\ \A what \in Bounds : spare[what] \in Nat
      BY <3>1, <3>2 DEF Bounds
    <3>4. spare["late"] = MaxLate
      BY <3>2
    <3>5. spare = [what \in Bounds |-> spare[what]]
      BY <3>2 DEF Bounds
    <3> QED
      BY <3>1, <3>3, <3>4, <3>5
  <2>4. board \in Board /\ held \subseteq Pairs /\ board.levels \in held
    BY <1>3 DEF HomeInit
  <2> QED
    BY <1>1, <1>4, <2>1, <2>2, <2>3, <2>4 DEF PathTypes
<1>6. Serving = 0 /\ \A c \in Clients : Served(c) = 0
  BY <1>4, ClientsAre DEF Serving, Served
<1>7. IdsOK
  <2>1. \A c \in Clients : AsksOf(pipe[c], Served(c), dsp.owed, back[c], corr[c], call[c])
    BY <1>1, <1>4, <1>6 DEF AsksOf
  <2>2. AsksOn(line, answers, Serving, dsp.id)
    BY <1>1, <1>4, <1>6 DEF AsksOn
  <2> QED
    BY <2>1, <2>2 DEF IdsOK
<1>8. StaleOK
  <2>1. \A c \in Clients : Stale(c) = 0
    BY <1>1, <1>4, <1>6 DEF Stale, Awaits
  <2>2. StaleOn = 0
    BY <1>1, <1>4, <1>6 DEF StaleOn
  <2>3. spare["late"] = MaxLate
    BY DEF HomeInit
  <2> QED
    BY <2>1, <2>2, <2>3, ClientsAre, IdsAre DEF StaleOK
<1>9. HeardOK
  BY <1>4, ClientsAre DEF HeardOK
<1>10. HassTypes
  <2>1. hass \in [pc : Phases, cmd : Commands \cup {NoCmd}, synced : BOOLEAN,
                  copy : Pairs, ext : Words]
    BY <1>3 DEF HomeInit, Phases, Words
  <2>2. mqtt \in [up : BOOLEAN, topics : 0 .. Len(Topics), inbox : Seq(Packets)]
    <3>1. 0 \in 0 .. Len(Topics)
      BY DEF Topics
    <3> QED
      BY <1>1, <3>1 DEF HomeInit
  <2>3. shown \in Board /\ since \subseteq Pairs
    BY <1>3 DEF HomeInit
  <2> QED
    BY <2>1, <2>2, <2>3 DEF HassTypes
<1>11. PhaseOK
  <2>1. hass.pc = "away" /\ call["hass"] = NoCall
    BY <1>4, ClientsAre DEF HomeInit
  <2> QED
    BY <2>1 DEF PhaseOK
<1>12. InboxOK
  BY <1>1 DEF HomeInit, InboxOK, NoSuback, OneSuback
<1>13. CopyOK
  <2>1. hass.synced = FALSE /\ call["hass"] = NoCall
    BY <1>4, ClientsAre DEF HomeInit
  <2> QED
    BY <2>1, NoCallOp DEF CopyOK
<1> QED
  BY <1>5, <1>7, <1>8, <1>9, <1>10, <1>11, <1>12, <1>13 DEF PathInv, HassInv

\* The steps of tg-display, of the board and of tg-rest do not touch tg-hass.
LEMMA OthersStep ==
    ASSUME PathInv, HassInv,
           \/ \E c \in Clients : Serve(c) \/ DropLate(c)
           \/ OnFrame \/ NoReply \/ TakeAsk \/ ResetBoard \/ Route \/ ReplyHttp
    PROVE  PathInv' /\ HassInv' /\ ReadBackStep
<1>1. since \subseteq Pairs
  BY HassIs
<1>2. CASE \E c \in Clients : Serve(c)
  <2>1. PathInv'
    BY <1>2, ServePath
  <2>2. UNCHANGED <<hass, mqtt, shown, since, call>>
    BY <1>2 DEF Serve
  <2> QED
    BY <1>1, <2>1, <2>2, HassRests DEF ReadBackStep
<1>3. CASE \E c \in Clients : DropLate(c)
  <2>1. PathInv'
    BY <1>3, DropPath
  <2>2. UNCHANGED <<hass, mqtt, shown, since, call>>
    BY <1>3 DEF DropLate
  <2> QED
    BY <1>1, <2>1, <2>2, HassRests DEF ReadBackStep
<1>4. CASE OnFrame
  <2>1. PathInv'
    BY <1>4, OnFramePath
  <2>2. UNCHANGED <<hass, mqtt, shown, since, call>>
    BY <1>4 DEF OnFrame
  <2> QED
    BY <1>1, <2>1, <2>2, HassRests DEF ReadBackStep
<1>5. CASE NoReply
  <2>1. PathInv'
    BY <1>5, NoReplyPath
  <2>2. UNCHANGED <<hass, mqtt, shown, since, call>>
    BY <1>5 DEF NoReply
  <2> QED
    BY <1>1, <2>1, <2>2, HassRests DEF ReadBackStep
<1>6. CASE TakeAsk
  <2>1. PathInv'
    BY <1>6, TakePath
  <2>2. UNCHANGED <<hass, mqtt, shown, call>> /\ since' = since \cup {board'.levels}
    BY <1>6 DEF TakeAsk, Holds
  <2>3. board'.levels \in Pairs
    BY <2>1 DEF PathInv, PathTypes
  <2> QED
    BY <1>1, <2>1, <2>2, <2>3, HassRests DEF ReadBackStep
<1>7. CASE ResetBoard
  <2>1. PathInv'
    BY <1>7, ResetPath
  <2>2. UNCHANGED <<hass, mqtt, shown, since, call>>
    BY <1>7 DEF ResetBoard
  <2> QED
    BY <1>1, <2>1, <2>2, HassRests DEF ReadBackStep
<1>8. CASE Route
  <2>1. PathInv' /\ call'["hass"] = call["hass"]
    BY <1>8, RoutePath
  <2>2. UNCHANGED <<hass, mqtt, shown, since>>
    BY <1>8 DEF Route
  <2> QED
    BY <1>1, <2>1, <2>2, HassRests DEF ReadBackStep
<1>9. CASE ReplyHttp
  <2>1. PathInv' /\ call'["hass"] = call["hass"]
    BY <1>9, HttpPath
  <2>2. UNCHANGED <<hass, mqtt, shown, since>>
    BY <1>9 DEF ReplyHttp
  <2> QED
    BY <1>1, <2>1, <2>2, HassRests DEF ReadBackStep
<1> QED
  BY <1>2, <1>3, <1>4, <1>5, <1>6, <1>7, <1>8, <1>9

\* The session opens, gets its packets, drops and ends; no ask moves.
LEMMA SessionSteps ==
    ASSUME PathInv, HassInv, Connect \/ AwaitSuback \/ EndSession \/ Command \/ Drop
    PROVE  PathInv' /\ HassInv' /\ ReadBackStep
<1>1. HassInv'
  BY ConnectSession, SubackSession, EndSessionSession, CommandSession, DropSession
<1>2. /\ UNCHANGED <<board, line, answers, dsp, pipe, back, call, corr, held, shown>>
      /\ UNCHANGED spare \/ Spend("cmds") \/ Spend("drops")
  BY DEF Connect, AwaitSuback, EndSession, Command, Drop
<1>3. /\ spare' \in [Bounds -> Nat] /\ spare'["late"] <= MaxLate /\ spare'["late"] = spare["late"]
  <2>1. "cmds" \in Bounds /\ "drops" \in Bounds /\ "cmds" # "late" /\ "drops" # "late"
    BY DEF Bounds
  <2>2. CASE UNCHANGED spare
    BY <2>2 DEF PathInv, PathTypes
  <2>3. CASE Spend("cmds") \/ Spend("drops")
    BY <2>1, <2>3, SpendIs DEF PathInv
  <2> QED
    BY <1>2, <2>2, <2>3
<1>4. PathTypes'
  BY <1>2, <1>3 DEF PathInv, PathTypes
<1>5. PathInv'
  BY <1>2, <1>3, <1>4, PathRests
<1> QED
  BY <1>1, <1>2, <1>5 DEF ReadBackStep

LEMMA HomeSteps ==
    ASSUME PathInv, HassInv, HomeNext
    PROVE  PathInv' /\ HassInv' /\ ReadBackStep
<1>1. CASE \/ \E c \in Clients : Serve(c) \/ DropLate(c)
           \/ OnFrame \/ NoReply \/ TakeAsk \/ ResetBoard \/ Route \/ ReplyHttp
  BY <1>1, OthersStep
<1>2. CASE Connect \/ AwaitSuback \/ EndSession \/ Command \/ Drop
  BY <1>2, SessionSteps
<1>3. CASE OnMessage \/ Reading
  BY <1>3, OnMessageStep, ReadingStep
<1>4. CASE SyncEnds \/ SetEnds \/ ExtEnds
  BY <1>4, SyncEndsStep, SetEndsStep, ExtEndsStep
<1>5. CASE SettingsEnd \/ StateEnds
  BY <1>5, SettingsEndStep, StateEndsStep
<1> QED
  BY <1>1, <1>2, <1>3, <1>4, <1>5, ClientsAre DEF HomeNext, Display, Hass, Rest

LEMMA HomeRests ==
    ASSUME PathInv, HassInv, UNCHANGED homeVars
    PROVE  PathInv' /\ HassInv'
<1>1. /\ UNCHANGED <<board, line, answers, dsp, pipe, back, call, corr, hass, mqtt>>
      /\ UNCHANGED <<shown, spare, held, since>>
  BY DEF homeVars
<1>2. PathTypes'
  BY <1>1 DEF PathInv, PathTypes
<1>3. PathInv'
  BY <1>1, <1>2, PathRests
<1>4. HassInv'
  BY <1>1, HassRests, HassIs
<1> QED
  BY <1>3, <1>4

LEMMA HomeHolds == HomeSpec => [](PathInv /\ HassInv)
<1>1. HomeInit => PathInv /\ HassInv
  BY HomeStarts
<1>2. (PathInv /\ HassInv) /\ [HomeNext]_homeVars => (PathInv /\ HassInv)'
  BY HomeSteps, HomeRests
<1> QED
  BY <1>1, <1>2, PTL DEF HomeSpec

\* The types of the settings' path, and its bounds: neither a pipe nor the line
\* holds more asks than one and those that timed out, whatever the ids do.
THEOREM PathIsBounded == HomeSpec => []HomeTypeOK
<1>1. ASSUME PathInv, HassInv PROVE HomeTypeOK
  <2>1. ASSUME NEW c \in Clients
        PROVE  /\ corr[c] \in 0 .. IDS - 1
               /\ Len(pipe[c]) <= 1 + MaxLate /\ Len(back[c]) <= 1 + MaxLate
               /\ call[c] = NoCall \/ [op |-> call[c].op, arg |-> call[c].arg] \in Requests
    <3>1. /\ Len(pipe[c]) \in Nat /\ Len(back[c]) \in Nat /\ Served(c) \in Nat
          /\ corr[c] \in 0 .. IDS - 1 /\ call[c] \in Frames \cup {NoCall} /\ spare["late"] \in Nat
      BY <1>1, PathIs DEF PathInv
    <3>2. OnWay(c) <= 1 + MaxLate - spare["late"] /\ OnWay(c) = Len(pipe[c]) + Served(c) + Len(back[c])
      BY <1>1, Rooms DEF PathInv, OnWay
    <3>3. Len(pipe[c]) <= 1 + MaxLate /\ Len(back[c]) <= 1 + MaxLate
      <4> DEFINE x == Len(pipe[c])
                 y == Len(back[c])
                 n == Served(c)
      <4>1. x + n + y <= 1 + MaxLate - spare["late"]
        BY <3>2
      <4>2. x \in Nat /\ y \in Nat /\ n \in Nat /\ spare["late"] \in Nat /\ MaxLate \in Nat
        BY <3>1, IdsAre
      <4> HIDE DEF x, y, n
      <4>3. x <= 1 + MaxLate /\ y <= 1 + MaxLate
        BY <4>1, <4>2
      <4> QED
        BY <4>3 DEF x, y
    <3>4. call[c] = NoCall \/ [op |-> call[c].op, arg |-> call[c].arg] \in Requests
      <4> SUFFICES ASSUME call[c] \in Frames PROVE [op |-> call[c].op, arg |-> call[c].arg] \in Requests
        BY <3>1
      <4>1. /\ call[c].op \in Operations /\ call[c].arg \in Pairs
            /\ call[c].op \in {"text", "ext"} => call[c].arg[1] \in Words
        BY DEF Frames, Fits
      <4> QED
        BY <4>1 DEF Requests, Fits
    <3> QED
      BY <3>1, <3>3, <3>4
  <2>2. Len(line) <= 1 + MaxLate /\ Len(answers) <= 1 + MaxLate
    <3>1. OnTheLine <= 1 + MaxLate - spare["late"] /\ OnTheLine = Len(line) + Len(answers)
      BY <1>1, Rooms DEF PathInv, OnTheLine
    <3>2. Len(line) \in Nat /\ Len(answers) \in Nat /\ spare["late"] \in Nat /\ MaxLate \in Nat
      BY <1>1, PathIs, IdsAre DEF PathInv
    <3> QED
      BY <3>1, <3>2
  <2>3. /\ board \in Board
        /\ dsp \in [client : Clients \cup {"none"}, id : 0 .. IDS - 1, owed : 0 .. IDS - 1]
    BY <1>1 DEF PathInv, PathTypes
  <2>4. /\ shown \in Board /\ hass.pc \in Phases
        /\ hass.copy \in Pairs /\ hass.ext \in Words /\ hass.cmd \in Commands \cup {NoCmd}
        /\ mqtt.topics \in 0 .. Len(Topics)
    BY <1>1 DEF HassInv, HassTypes
  <2> QED
    BY <2>1, <2>2, <2>3, <2>4 DEF HomeTypeOK, Phases
<1> QED
  BY <1>1, HomeHolds, PTL

\* A level that tg-hass publishes is one the board held after tg-hass asked for
\* it: the ids of both layers keep an answer that comes after its time-out from
\* standing for a later one.
THEOREM ReadBackFollows == HomeSpec => ReadBackWasHeld
<1>1. (PathInv /\ HassInv) /\ [HomeNext]_homeVars =>
        [\A i \in {1, 2} : shown'.levels[i] # shown.levels[i]
          => \E h \in held : h[i] = shown'.levels[i]]_shown
  BY HomeSteps DEF ReadBackStep, homeVars
<1> QED
  BY <1>1, HomeHolds, PTL DEF HomeSpec, ReadBackWasHeld

\* A change of one level sends for the other one a level that the board held
\* since the last answer: never the default, and never a level it refused.
THEOREM PartnerIsKnown == HomeSpec => PartnerWasHeld
<1>1. (PathInv /\ HassInv)' =>
        [\A i \in {1, 2} :
           /\ call'["hass"].op = "bright" /\ Part(hass'.cmd.topic) # i
           => \E h \in since' : h[i] = call'["hass"].arg[i]]_call
  BY DEF HassInv, CopyOK
<1> QED
  BY <1>1, HomeHolds, PTL DEF PartnerWasHeld

=============================================================================
