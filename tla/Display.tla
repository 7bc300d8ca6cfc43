------------------------------ MODULE Display -------------------------------
(***************************************************************************)
(* The two dot panels of the board (stm32_display.c, sm1626d.c).  The task *)
(* "ipc" serves the requests and the task "scan" draws the content of the  *)
(* board and moves the animations; both draw into the image that is not on *)
(* the panel, under one lock.  The interrupt of the last row swaps the two *)
(* images of a panel.  It takes no lock.                                   *)
(*                                                                         *)
(* A panel is a few parts, and a drawing fills them one after another.     *)
(***************************************************************************)
EXTENDS Integers, Sequences

CONSTANTS Parts,        \* the parts of a panel that a drawing fills apart
          Middle,       \* the parts of a text in the middle
          Areas,        \* the parts that another drawing may take
          LongVersion,  \* the version of the build is too wide for the main panel
          LastDay,      \* bound: the days are 0 .. LastDay
          MaxRequests,  \* bound: the requests for a panel
          OnePanel      \* bound: all requests are for the same panel

ASSUME DisplayAssumption ==
    /\ Middle \subseteq Parts /\ Middle # {}
    /\ Areas \subseteq SUBSET Parts \ {{}} /\ LastDay \in Nat
    /\ Parts \subseteq Nat /\ MaxRequests \in Nat /\ OnePanel \in BOOLEAN
    /\ LongVersion \in BOOLEAN

VARIABLES
    fb, front, dirty, swap, \* struct sm1626d_dev_s of each panel
    default, wday,          \* g_main_default and g_sub_default, g_sub_wday
    anim, src,              \* g_anim, g_anim_src_main and g_anim_src_sub
    greeted, day,           \* version_left is 0; the day of the clock
    phase,                  \* where the scanner is in its round
    lock, job, left, pen,   \* g_fblock; the drawings of a task, the one in work
    count,                  \* how many requests came
    ideal, raced            \* history: see Panel below

imageVars == <<fb, front, dirty, swap>>
boardVars == <<default, wday, anim, src>>
scanVars  == <<greeted, phase>>
drawVars  == <<lock, left, pen>>
vars == <<imageVars, boardVars, scanVars, day, drawVars, job, count, ideal, raced>>

-----------------------------------------------------------------------------
Panels == {"main", "sub"}
Tasks  == {"ipc", "scan"}
Days   == 0 .. LastDay
None   == "none"

\* What one part of a panel holds: nothing, a text or picture of the edge MCU,
\* a content of the board, or the pixels of a file that broke off.
Blank    == [by |-> "none", n |-> 0]
Edge(n)  == [by |-> "edge", n |-> n]
Broken   == [by |-> "file", n |-> 0]
Version  == [by |-> "board", n |-> 0]
Greeting == [by |-> "board", n |-> 1]
Day(d)   == [by |-> "board", n |-> d + 2]

Content == {Blank, Broken, Version, Greeting}
           \cup {Edge(n) : n \in 1 .. MaxRequests} \cup {Day(d) : d \in Days}
Image   == [Parts -> Content]

\* The steps of a task that need the lock: a drawing, the first frame of an
\* animation, a later frame, the read of a file, and what release does last.
Step == [kind : {"draw", "start", "frame", "read", "release"}, panel : Panels,
         parts : SUBSET Parts, what : Content]

Item(k, p, parts, c) == [kind |-> k, panel |-> p, parts |-> parts, what |-> c]
Draw(p, parts, c) == Item("draw", p, parts, c)
Clear(p)          == Draw(p, Parts, Blank)

Still == [active |-> FALSE, parts |-> {}]

TypeOK ==
    /\ fb \in [Panels -> [{0, 1} -> Image]] /\ front \in [Panels -> {0, 1}]
    /\ dirty \in [Panels -> BOOLEAN] /\ swap \in [Panels -> BOOLEAN]
    /\ default \in [Panels -> BOOLEAN] /\ wday \in Days \cup {-1}
    /\ anim \in [Panels -> [active : BOOLEAN, parts : SUBSET Parts]]
    /\ src \in [Panels -> Content]
    /\ greeted \in BOOLEAN /\ day \in Days
    /\ phase \in {"sleep", "main", "sub", "greet", "day"}
    /\ lock \in Tasks \cup {None} /\ job \in [Tasks -> Seq(Step)]
    /\ left \in SUBSET Parts /\ pen \in Content
    /\ count \in [Panels -> 0 .. MaxRequests]
    /\ ideal \in [Panels -> Image] /\ raced \in [Panels -> BOOLEAN]

Filled(image, parts, c) == [r \in Parts |-> IF r \in parts THEN c ELSE image[r]]
AllBlank == [r \in Parts |-> Blank]
AtStart  == [p \in Panels |->
                IF p = "main" THEN Filled(AllBlank, Middle, Version) ELSE AllBlank]

\* draw_text_or_scroll: a version that is too wide scrolls, and the panel is then
\* as if the edge MCU had taken it.  The other texts of the board have room in
\* every font that fontext_load takes.
Scrolls(p) == p = "main" /\ LongVersion

\* hazk03_display_init has drawn the version.
Init ==
    /\ fb = [p \in Panels |-> [i \in {0, 1} |-> IF i = 1 THEN AtStart[p] ELSE AllBlank]]
    /\ front = [p \in Panels |-> 0]
    /\ dirty = [p \in Panels |-> p = "main"] /\ swap = dirty
    /\ wday = -1
    /\ default = [p \in Panels |-> ~Scrolls(p)]
    /\ anim = [p \in Panels |-> IF Scrolls(p) THEN [active |-> TRUE, parts |-> Middle] ELSE Still]
    /\ src = [p \in Panels |-> IF Scrolls(p) THEN Version ELSE Blank]
    /\ greeted = FALSE /\ day = 0 /\ phase = "sleep"
    /\ lock = None /\ job = [t \in Tasks |-> <<>>] /\ left = {} /\ pen = Blank
    /\ count = [p \in Panels |-> 0] /\ ideal = AtStart /\ raced = [p \in Panels |-> FALSE]

-----------------------------------------------------------------------------
(* The work of a task.  The server has the higher priority: the scanner    *)
(* runs when the server has nothing to do or waits for the lock.           *)

Todo(t)  == job[t] # <<>>
First(t) == Head(job[t])
MayRun(t) == Todo(t) /\ (t = "scan" => lock = "scan" \/ ~Todo("ipc"))
Done(t)  == job' = [job EXCEPT ![t] = Tail(@)]
Back(p)  == 1 - front[p]

History == <<count, ideal, raced>>

NoCopy(p) == fb[p][Back(p)]

\* sm1626d_begin: the first change after a swap starts from what the panel shows.
Begun(p) == IF dirty[p] THEN fb[p][Back(p)] ELSE fb[p][front[p]]

StartImage(p) ==
    /\ fb' = [fb EXCEPT ![p][Back(p)] = Begun(p)]
    /\ dirty' = [dirty EXCEPT ![p] = TRUE]
    /\ UNCHANGED <<front, swap>>

\* The lock, then what changes before the first pixel: a new animation takes
\* its source and its place, and a frame takes them from the animation.
Begin(t) ==
    /\ MayRun(t) /\ lock = None
    /\ First(t).kind \in {"draw", "start", "frame"}
    /\ lock' = t
    /\ LET s == First(t) p == First(t).panel IN
         /\ StartImage(p)
         /\ \/ s.kind = "draw" /\ left' = s.parts /\ pen' = s.what /\ UNCHANGED <<anim, src>>
            \/ /\ s.kind = "start" /\ left' = s.parts /\ pen' = s.what
               /\ anim' = [anim EXCEPT ![p] = [active |-> TRUE, parts |-> s.parts]]
               /\ src' = [src EXCEPT ![p] = s.what]
            \/ s.kind = "frame" /\ left' = anim[p].parts /\ pen' = src[p]
               /\ UNCHANGED <<anim, src>>
    /\ UNCHANGED <<default, wday, scanVars, day, job, History>>

FillPart(t) ==
    /\ lock = t /\ left # {}
    /\ \E r \in left :
         /\ \A q \in left : r <= q
         /\ fb' = [fb EXCEPT ![First(t).panel][Back(First(t).panel)][r] = pen]
         /\ left' = left \ {r}
    /\ UNCHANGED <<front, dirty, swap, boardVars, scanVars, day, lock, pen, job, History>>

Commit(t) ==
    /\ lock = t /\ left = {}
    /\ swap' = [swap EXCEPT ![First(t).panel] = TRUE]
    /\ lock' = None /\ pen' = Blank /\ Done(t)
    /\ UNCHANGED <<fb, front, dirty, boardVars, scanVars, day, left, History>>

\* The file of an animation comes into the buffer of the running one.
ReadFile ==
    /\ MayRun("ipc") /\ lock = None /\ First("ipc").kind = "read"
    /\ src' = [src EXCEPT ![First("ipc").panel] = First("ipc").what]
    /\ Done("ipc")
    /\ UNCHANGED <<imageVars, default, wday, anim, scanVars, day, drawVars, History>>

KeepsWeekday ==
    /\ MayRun("ipc") /\ First("ipc").kind = "release"
    /\ default' = [default EXCEPT !["sub"] = TRUE]
    /\ Done("ipc")
    /\ UNCHANGED <<imageVars, wday, anim, src, scanVars, day, drawVars, History>>

\* The end of hazk03_display_release.
GiveBack ==
    /\ MayRun("ipc") /\ First("ipc").kind = "release"
    /\ wday' = -1 /\ default' = [default EXCEPT !["sub"] = TRUE]
    /\ Done("ipc")
    /\ UNCHANGED <<imageVars, anim, src, scanVars, day, drawVars, History>>

Work(t) == Begin(t) \/ FillPart(t) \/ Commit(t)
Server  == Work("ipc") \/ ReadFile \/ GiveBack

-----------------------------------------------------------------------------
(* The requests of the edge MCU.  A request comes in at any point of the   *)
(* scanner.  Its history is the image it asks for, and whether it overtook *)
(* a drawing of the scanner that was decided and had not begun.            *)

New(p) == Edge(count[p] + 1)

Overtakes(p) == Todo("scan") /\ First("scan").panel = p /\ lock # "scan"

Request(p, steps, parts, whole) ==
    /\ ~Todo("ipc") /\ count[p] < MaxRequests
    /\ OnePanel => \A q \in Panels \ {p} : count[q] = 0
    /\ count' = [count EXCEPT ![p] = @ + 1]
    /\ job' = [job EXCEPT !["ipc"] = steps]
    /\ ideal' = [ideal EXCEPT ![p] =
                    Filled(IF whole THEN AllBlank ELSE @, parts, New(p))]
    /\ raced' = [raced EXCEPT ![p] = Overtakes(p) \/ (~whole /\ @)]
    /\ UNCHANGED <<imageVars, wday, src, scanVars, day, drawVars>>

Take(p) == default' = [default EXCEPT ![p] = FALSE]
Stop(p) == anim' = [anim EXCEPT ![p].active = FALSE]

\* A text in the middle clears the panel first.  One that is too wide scrolls.
Text(p) ==
    /\ Take(p) /\ Stop(p)
    /\ \E kind \in {"draw", "start"} :
         \/ Request(p, <<Clear(p), Item(kind, p, Middle, New(p))>>, Middle, TRUE)
         \/ \E parts \in Areas :
               Request(p, <<Item(kind, p, parts, New(p))>>, parts, FALSE)

\* Two lines of the small font are one drawing.
TwoLines(p) ==
    /\ p = "main" /\ Take(p) /\ Stop(p)
    /\ Request(p, <<Draw(p, Parts, New(p))>>, Parts, TRUE)

\* Pixels leave an animation as it is.
Pixels(p) ==
    /\ Take(p) /\ UNCHANGED anim
    /\ \E parts \in Areas :
          Request(p, <<Draw(p, parts, New(p))>>, parts, FALSE)

\* A file may be missing or too large, or break off while it is read.
Animate(p) ==
    /\ Take(p) /\ UNCHANGED anim
    /\ \/ \E parts \in Areas, read \in {<<>>, <<Item("read", p, {}, New(p))>>} :
             Request(p, read \o <<Item("start", p, parts, New(p))>>, parts, FALSE)
       \/ Request(p, <<Item("read", p, {}, Broken)>>, {}, FALSE)
       \/ Request(p, <<>>, {}, FALSE)

AnimStop(p) == Stop(p) /\ UNCHANGED default /\ Request(p, <<>>, {}, FALSE)

ClearPanel(p) == Take(p) /\ Stop(p) /\ Request(p, <<Clear(p)>>, {}, TRUE)

Release(p) ==
    /\ Take(p) /\ Stop(p)
    /\ Request(p, IF p = "sub" THEN <<Clear(p), Item("release", p, {}, Blank)>>
                  ELSE <<Clear(p)>>, {}, TRUE)

-----------------------------------------------------------------------------
(* The scanner, one round every 20 ms.                                     *)

ScanFree == ~Todo("ipc") /\ ~Todo("scan")

Decide(p, step, parts, c) ==
    /\ job' = [job EXCEPT !["scan"] = <<step>>]
    /\ ideal' = [ideal EXCEPT ![p] = Filled(@, parts, c)]

Nothing == UNCHANGED <<job, ideal>>

ScanOnly == UNCHANGED <<imageVars, default, anim, src, day, drawVars, count, raced>>

Tick == /\ phase = "sleep" /\ ScanFree /\ phase' = "main"
        /\ Nothing /\ UNCHANGED <<wday, greeted>> /\ ScanOnly

\* anim_tick, and then the rest of the round if a second is over.
MoveAnim(p) ==
    /\ phase = p /\ ScanFree
    /\ phase' \in IF p = "main" THEN {"sub"} ELSE {"sleep", "greet"}
    /\ \/ /\ anim[p].active
          /\ Decide(p, Item("frame", p, {}, Blank), anim[p].parts, src[p])
       \/ Nothing
    /\ UNCHANGED <<wday, greeted>> /\ ScanOnly

\* The greeting comes once, when the time of the version is over.
Greet ==
    /\ phase = "greet" /\ ScanFree
    /\ \/ ~greeted /\ phase' = "sleep" /\ Nothing /\ UNCHANGED greeted
       \/ /\ phase' = "day" /\ greeted' = TRUE
          /\ IF ~greeted /\ default["main"]
             THEN Decide("main", Draw("main", Middle, Greeting), Middle, Greeting)
             ELSE Nothing
    /\ UNCHANGED wday /\ ScanOnly

ShowDay ==
    /\ phase = "day" /\ ScanFree /\ phase' = "sleep"
    /\ IF default["sub"] /\ day # wday
       THEN /\ wday' = day
            /\ Decide("sub", Draw("sub", Middle, Day(day)), Middle, Day(day))
       ELSE Nothing /\ UNCHANGED wday
    /\ UNCHANGED greeted /\ ScanOnly

Scanner == Work("scan") \/ Tick \/ (\E p \in Panels : MoveAnim(p)) \/ Greet \/ ShowDay

-----------------------------------------------------------------------------
NextDay == /\ day < LastDay /\ day' = day + 1
           /\ UNCHANGED <<imageVars, boardVars, scanVars, drawVars, job, History>>

Busy(p) == lock # None /\ First(lock).panel = p

\* display_ontimer, at the last row: sm1626d_swapnow of both panels.
EndOfImage ==
    /\ \E p \in Panels : swap[p]
    /\ front' = [p \in Panels |-> IF swap[p] THEN Back(p) ELSE front[p]]
    /\ dirty' = [p \in Panels |-> dirty[p] /\ ~swap[p]]
    /\ swap'  = [p \in Panels |-> FALSE]
    /\ raced' = [p \in Panels |-> raced[p] \/ (swap[p] /\ Busy(p))]
    /\ UNCHANGED <<fb, boardVars, scanVars, day, drawVars, job, count, ideal>>

Next == \/ Server \/ Scanner \/ NextDay \/ EndOfImage
        \/ \E p \in Panels : \/ Text(p) \/ TwoLines(p) \/ Pixels(p) \/ Animate(p)
                             \/ AnimStop(p) \/ ClearPanel(p) \/ Release(p)

Spec == Init /\ [][Next]_vars

-----------------------------------------------------------------------------
Quiet(p) == \A t \in Tasks : ~Todo(t) \/ First(t).panel # p
Settled(p) == Quiet(p) /\ ~swap[p]
Shown(p) == fb[p][front[p]]

\* Whatever the order of the tasks and the interrupt, a panel at rest shows what
\* its drawings ask for, one after the other and each of them whole, unless a
\* request overtook a decided drawing of the scanner or the interrupt swapped
\* the images under a drawing (sm1626d_begin, sm1626d_commit, sm1626d_swapnow).
ShowsIdeal == \A p \in Panels : Settled(p) /\ ~raced[p] => Shown(p) = ideal[p]

\* The panels, the tasks and the lock keep their types, and a panel at rest shows
\* its drawings.
Inv == TypeOK /\ ShowsIdeal

\* The claim of the source without the exceptions: "a new text replaces that
\* scroll", "the content of the board does not return over its text"
\* (hazk03_display_text), "no scan ever shows a partial image" (sm1626d.h).
LastRequestStays == \A p \in Panels : Settled(p) => Shown(p) = ideal[p]

\* The day that g_sub_wday names is on the panel as long as the board owns it:
\* a panel that was taken and given back gets the day again (display_defaults,
\* hazk03_display_release).
DayIsShown ==
    default["sub"] /\ wday # -1 /\ Settled("sub") /\ ~raced["sub"]
        => \A r \in Middle : Shown("sub")[r] = Day(wday)
=============================================================================
