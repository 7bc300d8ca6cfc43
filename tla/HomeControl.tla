---------------------------- MODULE HomeControl ----------------------------
(***************************************************************************)
(* The path of a setting from Home Assistant and from HTTP to the board.   *)
(* Two clients, tg-hass and tg-rest, write requests into their own pipes.  *)
(* tg-display takes one request at a time, asks the broker and gives the   *)
(* client the answer.  Both waits end by a time-out, and the answer that   *)
(* comes after it is told from the answer of the next request by its       *)
(* correlation id.  tg-hass reads its commands from an MQTT session that   *)
(* may drop, keeps a copy of the settings, and publishes read-backs.       *)
(*                                                                         *)
(* The period without light (set_dnd) has the shape of the two levels: two *)
(* values, sent together, one changed.  The pair here stands for both.     *)
(***************************************************************************)
EXTENDS Naturals, Sequences

CONSTANTS TOP,        \* the default copy of a level in tg-hass, above what is asked
          IDS,        \* correlation ids before they start again
          Wanted,     \* the commands Home Assistant may give
          Posted,     \* the requests HTTP may give
          MaxCmds,    \* how many commands come
          MaxRest,    \* changes by HTTP
          MaxLate,    \* time-outs, and requests of which the broker hears nothing
          MaxDrops,   \* MQTT sessions that drop
          MaxResets   \* resets of the board

Clients == {"rest", "hass"}
Levels == 0 .. TOP
Pairs == Levels \X Levels
Topics == <<"text", "digits", "panels", "ext">>      \* subscribe_all, in its order
Words == {0, 1}                   \* no text or one, no outside value or one
Next1(id) == (id + 1) % IDS
Part(topic) == IF topic = "digits" THEN 1 ELSE 2

Operations == {"settings", "state", "release", "text", "ext", "bright"}
Fits(ask) == ask.op \in {"text", "ext"} => ask.arg[1] \in Words
Requests == {ask \in [op : Operations, arg : Pairs] : Fits(ask)}
Commands == [topic : {"digits", "panels"}, value : 0 .. TOP - 1]
              \cup [topic : {"text", "ext"}, value : Words]
Suback == [topic |-> "suback", value |-> 0]
NoCmd == [topic |-> "none", value |-> 0]
NoCall == [id |-> IDS, op |-> "none", arg |-> <<0, 0>>]
Both(v) == <<v, v>>                      \* an argument that is one value, or none
Board == [levels : Pairs, text : Words, ext : Words]
Bare == [levels |-> <<0, 0>>, text |-> 0, ext |-> 0]
Silence(id) == [id |-> id, ok |-> FALSE, value |-> Bare]

ASSUME HomeAssumption ==
    /\ Wanted \subseteq Commands /\ Posted \subseteq Requests
    /\ TOP \in Nat \ {0} /\ IDS \in Nat \ {0, 1} /\ IDS > MaxLate
    /\ {MaxCmds, MaxRest, MaxLate, MaxDrops, MaxResets} \subseteq Nat

VARIABLES board,   \* what the board holds: the two levels, the text, the outside value
          line,    \* asks of tg-display on their way to the board
          answers, \* replies on their way back
          dsp,     \* tg-display: the client it serves and the id it asked with
          pipe,    \* per client: requests that wait
          back,    \* per client: replies that wait
          call,    \* per client: the ask it waits for
          corr,    \* per client: the next id
          hass,    \* tg-hass: where it is, and its copy of the settings
          mqtt,    \* the session: packets to tg-hass, topics, and whether it is up
          shown,   \* the retained read-backs
          spare,   \* what is left of each bound
          held,    \* levels the board held since the ask of tg-hass began
          since    \* levels it held since the last ask that succeeded began

homeVars == <<board, line, answers, dsp, pipe, back, call, corr, hass, mqtt,
              shown, spare, held, since>>

HomeTypeOK ==
    /\ board \in Board /\ shown \in Board
    /\ dsp \in [client : Clients \cup {"none"}, id : 0 .. IDS - 1,
                owed : 0 .. IDS - 1]
    /\ \A c \in Clients :
          /\ corr[c] \in 0 .. IDS - 1
          /\ Len(pipe[c]) <= 1 + MaxLate /\ Len(back[c]) <= 1 + MaxLate
          /\ call[c] = NoCall \/ [op |-> call[c].op, arg |-> call[c].arg] \in Requests
    /\ Len(line) <= 1 + MaxLate /\ Len(answers) <= 1 + MaxLate
    /\ hass.pc \in {"away", "subscribing", "poll", "set", "sync", "read", "state"}
    /\ hass.copy \in Pairs /\ hass.ext \in Words
    /\ hass.cmd \in Commands \cup {NoCmd}
    /\ mqtt.topics \in 0 .. Len(Topics)

HomeInit ==
    /\ board = Bare
    /\ line = <<>> /\ answers = <<>>
    /\ dsp = [client |-> "none", id |-> 1, owed |-> 0]
    /\ pipe = [c \in Clients |-> <<>>] /\ back = [c \in Clients |-> <<>>]
    /\ call = [c \in Clients |-> NoCall] /\ corr = [c \in Clients |-> 1]
    /\ hass = [pc |-> "away", cmd |-> NoCmd, synced |-> FALSE,
               copy |-> <<TOP, TOP>>, ext |-> 0]
    /\ mqtt = [up |-> FALSE, topics |-> 0, inbox |-> <<>>]
    /\ shown = [Bare EXCEPT !.levels = <<TOP, TOP>>]
    /\ spare = [cmds |-> MaxCmds, rest |-> MaxRest, late |-> MaxLate,
               drops |-> MaxDrops, resets |-> MaxResets]
    /\ held = {<<0, 0>>} /\ since = {}

Spend(what) == spare[what] > 0 /\ spare' = [spare EXCEPT ![what] = @ - 1]

-----------------------------------------------------------------------------
(* The client side: tg_dsp_ask and its on_frame.                            *)

\* A request goes into the pipe of the client, and the client waits for its id.
Ask(c, op, arg) ==
    /\ call' = [call EXCEPT ![c] = [id |-> corr[c], op |-> op, arg |-> arg]]
    /\ pipe' = [pipe EXCEPT ![c] = Append(@, call'[c])]
    /\ corr' = [corr EXCEPT ![c] = Next1(@)]
    /\ held' = IF c = "hass" THEN {board.levels} ELSE held

AnyReply(call_, reply) == TRUE

\* A reply is the answer of the ask in flight when it carries its id.
IsOwn(call_, reply) == reply.id = call_.id

\* The ask of c ends: with its own reply, or with none in time.
Ends(c, reply) ==
    \/ /\ back[c] # <<>> /\ reply = Head(back[c]) /\ IsOwn(call[c], reply)
       /\ back' = [back EXCEPT ![c] = Tail(@)]
       /\ UNCHANGED spare
    \/ /\ reply = Silence(call[c].id)
       /\ Spend("late") /\ UNCHANGED back

Outcomes(c) == {Silence(call[c].id)} \cup {back[c][i] : i \in {1} \cap DOMAIN back[c]}

\* The client waits and reads a reply of an earlier ask: it drops it.
DropLate(c) ==
    /\ call[c] # NoCall /\ back[c] # <<>> /\ ~IsOwn(call[c], Head(back[c]))
    /\ back' = [back EXCEPT ![c] = Tail(@)]
    /\ UNCHANGED <<board, line, answers, dsp, pipe, call, corr, hass, mqtt,
                   shown, spare, held, since>>

-----------------------------------------------------------------------------
(* tg-display: pump_clients, the requests, ask, on_frame, to_client.        *)

\* What a request asks of the board, under the id of tg-display.
OfBoard(ask) == [id |-> dsp.id, op |-> ask.op, arg |-> ask.arg]

Serve(c) ==
    /\ dsp.client = "none" /\ pipe[c] # <<>>
    /\ line' = Append(line, OfBoard(Head(pipe[c])))
    /\ dsp' = [client |-> c, id |-> dsp.id, owed |-> Head(pipe[c]).id]
    /\ pipe' = [pipe EXCEPT ![c] = Tail(@)]
    /\ UNCHANGED <<board, answers, back, call, corr, hass, mqtt, shown, spare,
                   held, since>>

NeverWraps(ok, value) ==
    /\ back' = [back EXCEPT ![dsp.client] =
                   Append(@, [id |-> dsp.owed, ok |-> ok, value |-> value])]
    /\ dsp' = [client |-> "none", id |-> dsp.id + 1, owed |-> 0]

\* The client gets the reply under the id it asked with, and the next ask of
\* tg-display takes the next id.
ToClient(ok, value) ==
    /\ back' = [back EXCEPT ![dsp.client] =
                   Append(@, [id |-> dsp.owed, ok |-> ok, value |-> value])]
    /\ dsp' = [client |-> "none", id |-> Next1(dsp.id), owed |-> 0]

Hears(reply) == IsOwn(dsp, reply)

OnFrame ==
    /\ dsp.client # "none" /\ answers # <<>>
    /\ answers' = Tail(answers)
    /\ IF Hears(Head(answers))
       THEN ToClient(Head(answers).ok, Head(answers).value)
       ELSE UNCHANGED <<back, dsp>>
    /\ UNCHANGED <<board, line, pipe, call, corr, hass, mqtt, shown, spare,
                   held, since>>

\* No reply in REPLY_MS: the client gets BUSY.
NoReply ==
    /\ dsp.client # "none" /\ Spend("late") /\ ToClient(FALSE, Bare)
    /\ UNCHANGED <<board, line, answers, pipe, call, corr, hass, mqtt, shown,
                   held, since>>

-----------------------------------------------------------------------------
(* The broker and the board, as tg-display sees them.                       *)

Applied(ask) ==
    CASE ask.op = "bright" -> [board EXCEPT !.levels = ask.arg]
      [] ask.op = "text" -> [board EXCEPT !.text = ask.arg[1]]
      [] ask.op = "release" -> [board EXCEPT !.text = 0]
      [] ask.op = "ext" -> [board EXCEPT !.ext = ask.arg[1]]
      [] OTHER -> board

Holds(b) == /\ held' = held \cup {b.levels}
            /\ since' = since \cup {b.levels}

\* The board takes the next ask and answers it.  A reply that the line loses
\* in every attempt ends as NACK though the board took the request; a line in
\* raw mode refuses it.
TakeAsk ==
    /\ line # <<>> /\ line' = Tail(line)
    /\ LET ask == Head(line)
       IN \/ /\ board' = Applied(ask) /\ Holds(board') /\ UNCHANGED spare
             /\ answers' = Append(answers, [id |-> ask.id, ok |-> TRUE,
                   value |-> IF ask.op = "settings" THEN board ELSE Bare])
          \/ /\ board' \in {board, Applied(ask)} /\ Holds(board')
             /\ Spend("late")
             /\ answers' = Append(answers, Silence(ask.id))
    /\ UNCHANGED <<dsp, pipe, back, call, corr, hass, mqtt, shown>>

\* A reset of the board: the levels are in the flash, the rest is not.
ResetBoard ==
    /\ Spend("resets")
    /\ board' = [Bare EXCEPT !.levels = board.levels]
    /\ UNCHANGED <<line, answers, dsp, pipe, back, call, corr, hass, mqtt,
                   shown, held, since>>

-----------------------------------------------------------------------------
(* tg-rest: one HTTP request, answered when the ask ends.                   *)

Route ==
    /\ call["rest"] = NoCall /\ Spend("rest")
    /\ \E ask \in Posted : Ask("rest", ask.op, ask.arg)
    /\ UNCHANGED <<board, line, answers, dsp, back, hass, mqtt, shown, since>>

ReplyHttp ==
    /\ call["rest"] # NoCall
    /\ \E r \in Outcomes("rest") :
          Ends("rest", r)
    /\ call' = [call EXCEPT !["rest"] = NoCall]
    /\ UNCHANGED <<board, line, answers, dsp, pipe, corr, hass, mqtt, shown,
                   held, since>>

-----------------------------------------------------------------------------
(* The MQTT session of tg-hass.                                             *)

Subscribe(m, n) == [up |-> TRUE, topics |-> n, inbox |-> Append(m.inbox, Suback)]

\* The session opens, and the first command topic is subscribed.
Connect ==
    /\ hass.pc = "away"
    /\ hass' = [hass EXCEPT !.pc = "subscribing"]
    /\ mqtt' = Subscribe(mqtt, 1)
    /\ UNCHANGED <<board, line, answers, dsp, pipe, back, call, corr, shown,
                   spare, held, since>>

\* await_packet: anything that is not the SUBACK is discarded, a command too.
\* After the last SUBACK the session serves, and its first reading is due.
AwaitSuback ==
    /\ hass.pc = "subscribing" /\ mqtt.inbox # <<>>
    /\ LET got == Head(mqtt.inbox) = Suback
           rest == [mqtt EXCEPT !.inbox = Tail(@)]
       IN \/ /\ ~got
             /\ mqtt' = rest /\ UNCHANGED hass
          \/ /\ got /\ mqtt.topics < Len(Topics) /\ mqtt.up
             /\ mqtt' = Subscribe(rest, mqtt.topics + 1) /\ UNCHANGED hass
          \/ /\ got /\ mqtt.topics = Len(Topics)
             /\ mqtt' = rest /\ hass' = [hass EXCEPT !.pc = "poll"]
    /\ UNCHANGED <<board, line, answers, dsp, pipe, back, call, corr, shown,
                   spare, held, since>>

\* Home Assistant sets an entity: the broker of MQTT gives the command to a
\* session that has the topic, and to nobody otherwise.
Command ==
    /\ Spend("cmds") /\ mqtt.up
    /\ \E cmd \in Wanted :
          /\ \E i \in 1 .. mqtt.topics : Topics[i] = cmd.topic
          /\ mqtt' = [mqtt EXCEPT !.inbox = Append(@, cmd)]
    /\ UNCHANGED <<board, line, answers, dsp, pipe, back, call, corr, hass,
                   shown, held, since>>

Drop ==
    /\ mqtt.up /\ Spend("drops") /\ mqtt' = [mqtt EXCEPT !.up = FALSE]
    /\ UNCHANGED <<board, line, answers, dsp, pipe, back, call, corr, hass,
                   shown, held, since>>

\* The session ends where the wapp reads the socket, with what is unread.
EndSession ==
    /\ hass.pc \in {"subscribing", "poll"} /\ ~mqtt.up
    /\ hass' = [hass EXCEPT !.pc = "away"]
    /\ mqtt' = [up |-> FALSE, topics |-> 0, inbox |-> <<>>]
    /\ UNCHANGED <<board, line, answers, dsp, pipe, back, call, corr, shown,
                   spare, held, since>>

\* A retained read-back, lost when the session is down.
Publish(s) == shown' = IF mqtt.up THEN s ELSE shown

-----------------------------------------------------------------------------
(* tg-hass: on_message, the setters, sync_settings, publish_state.          *)

\* The pair a change of one part sends: the other part is the copy.
Changed(copy, cmd) == [copy EXCEPT ![Part(cmd.topic)] = cmd.value]

\* What a command asks, once the settings are known if it needs them.
AskOf(cmd) ==
    CASE cmd.topic = "text" ->
            IF cmd.value = 0 THEN [op |-> "release", arg |-> Both(0)]
                             ELSE [op |-> "text", arg |-> Both(cmd.value)]
      [] cmd.topic = "ext" -> [op |-> "ext", arg |-> Both(cmd.value)]
      [] OTHER -> [op |-> "bright", arg |-> Changed(hass.copy, cmd)]

NoWait(cmd) == FALSE
NeedsSync(cmd) == cmd.topic \in {"digits", "panels"} /\ ~hass.synced

OnMessage ==
    /\ hass.pc = "poll" /\ mqtt.inbox # <<>>
    /\ LET cmd == Head(mqtt.inbox)
       IN IF NeedsSync(cmd)
          THEN /\ Ask("hass", "settings", Both(0))
               /\ hass' = [hass EXCEPT !.pc = "sync", !.cmd = cmd]
          ELSE /\ Ask("hass", AskOf(cmd).op, AskOf(cmd).arg)
               /\ hass' = [hass EXCEPT !.pc = "set", !.cmd = cmd]
    /\ mqtt' = [mqtt EXCEPT !.inbox = Tail(@)]
    /\ UNCHANGED <<board, line, answers, dsp, back, shown, spare, since>>

\* The next reading is due, and no command waits.
Reading ==
    /\ hass.pc = "poll" /\ mqtt.inbox = <<>> /\ mqtt.up
    /\ Ask("hass", "settings", Both(0))
    /\ hass' = [hass EXCEPT !.pc = "read"]
    /\ UNCHANGED <<board, line, answers, dsp, back, mqtt, shown, spare, since>>

Return == call' = [call EXCEPT !["hass"] = NoCall]

\* The settings as the board gave them: the copy and the read-backs follow.
Synced(h, value) ==
    [h EXCEPT !.synced = TRUE, !.copy = value.levels, !.ext = value.ext]
ShowsNothing(value) == shown
ShowsLevels(value) == [shown EXCEPT !.levels = value.levels]

\* ensure_synced before a command: without the settings it is dropped.
SyncEnds ==
    /\ hass.pc = "sync"
    /\ \E r \in Outcomes("hass") :
          /\ Ends("hass", r)
          /\ IF ~r.ok
             THEN /\ hass' = [hass EXCEPT !.pc = "poll", !.cmd = NoCmd]
                  /\ Return /\ UNCHANGED <<pipe, corr, shown, held, since>>
             ELSE /\ hass' = [Synced(hass, r.value) EXCEPT !.pc = "set"]
                  /\ Publish(ShowsLevels(r.value))
                  /\ Ask("hass", "bright", Changed(r.value.levels, hass.cmd))
                  /\ since' = held
    /\ UNCHANGED <<board, line, answers, dsp, mqtt>>

KeepsAlways(ok) ==
    IF call["hass"].op = "bright" THEN call["hass"].arg ELSE hass.copy

\* What tg-hass keeps of a change that ended with ok.
Keeps(ok) == IF ok /\ call["hass"].op = "bright" THEN call["hass"].arg
                                                 ELSE hass.copy

\* What the read-backs show of it: the one entity of the command.
Echo(cmd) ==
    IF cmd.topic = "text" THEN [shown EXCEPT !.text = cmd.value]
                          ELSE [shown EXCEPT !.levels[Part(cmd.topic)] = cmd.value]

SetEnds ==
    /\ hass.pc = "set" /\ hass.cmd.topic # "ext"
    /\ \E r \in Outcomes("hass") :
          /\ Ends("hass", r)
          /\ IF r.ok THEN Publish(Echo(hass.cmd)) ELSE UNCHANGED shown
          /\ since' = IF r.ok /\ call["hass"].op = "bright" THEN held ELSE since
          /\ hass' = [hass EXCEPT !.pc = "poll", !.cmd = NoCmd, !.copy = Keeps(r.ok)]
    /\ Return
    /\ UNCHANGED <<board, line, answers, dsp, pipe, corr, mqtt, held>>

\* The outside value: whatever the answer, a reading follows.
ExtEnds ==
    /\ hass.pc = "set" /\ hass.cmd.topic = "ext"
    /\ \E r \in Outcomes("hass") : Ends("hass", r)
    /\ Ask("hass", "settings", Both(0))
    /\ hass' = [hass EXCEPT !.pc = "read", !.cmd = NoCmd]
    /\ UNCHANGED <<board, line, answers, dsp, mqtt, shown, since>>

\* The settings of a reading: with them or without, the state is read next.
SettingsEnd ==
    /\ hass.pc = "read"
    /\ \E r \in Outcomes("hass") :
          /\ Ends("hass", r)
          /\ IF r.ok
             THEN /\ hass' = [Synced(hass, r.value) EXCEPT !.pc = "state"]
                  /\ Publish(ShowsLevels(r.value)) /\ since' = held
             ELSE /\ hass' = [hass EXCEPT !.pc = "state"]
                  /\ UNCHANGED <<shown, since>>
    /\ Ask("hass", "state", Both(0))
    /\ UNCHANGED <<board, line, answers, dsp, mqtt>>

\* The state document carries the copy of the outside value.
StateEnds ==
    /\ hass.pc = "state"
    /\ \E r \in Outcomes("hass") :
          /\ Ends("hass", r)
          /\ IF r.ok THEN Publish([shown EXCEPT !.ext = hass.ext])
                     ELSE UNCHANGED shown
    /\ hass' = [hass EXCEPT !.pc = "poll"]
    /\ Return
    /\ UNCHANGED <<board, line, answers, dsp, pipe, corr, mqtt, held, since>>

-----------------------------------------------------------------------------
Display == (\E c \in Clients : Serve(c)) \/ OnFrame
Hass == \/ Connect \/ AwaitSuback \/ EndSession \/ OnMessage \/ Reading
        \/ SyncEnds \/ SetEnds \/ ExtEnds \/ SettingsEnd \/ StateEnds
        \/ DropLate("hass")
Rest == Route \/ ReplyHttp \/ DropLate("rest")

HomeNext == Display \/ NoReply \/ TakeAsk \/ ResetBoard \/ Rest \/ Command \/ Drop \/ Hass

HomeSpec == HomeInit /\ [][HomeNext]_homeVars

\* The three wapps run loops that do not stop, and the broker answers each
\* ask in a bounded time.
HomeFairSpec == /\ HomeSpec /\ WF_homeVars(Display) /\ WF_homeVars(Hass)
                /\ WF_homeVars(TakeAsk) /\ WF_homeVars(ReplyHttp \/ DropLate("rest"))

-----------------------------------------------------------------------------
(* Properties.                                                              *)

\* "A read-back follows the board": a level that tg-hass publishes is one the
\* board held after tg-hass asked for it, whatever timed out before, because
\* both correlation ids keep a late reply from answering a later request.
ReadBackWasHeld ==
    [][\A i \in {1, 2} : shown'.levels[i] # shown.levels[i]
          => \E h \in held : h[i] = shown'.levels[i]]_shown

\* A change of one entity sends for its partner a level that the board held
\* since the last answer tg-hass got: never the default it started with, and
\* never a level the board refused.
PartnerWasHeld ==
    [][\A i \in {1, 2} :
         /\ call'["hass"].op = "bright" /\ Part(hass'.cmd.topic) # i
         => \E h \in since' : h[i] = call'["hass"].arg[i]]_call

\* "A change to one entity keeps its partner": a command that tg-hass takes
\* while no other request is under way sends for its partner the level that the
\* board holds.  A change by HTTP since the last reading breaks it.
PartnerKept ==
    [][\A i \in {1, 2} :
         /\ hass.pc = "poll" /\ call'["hass"].op = "bright"
         /\ call["rest"] = NoCall /\ pipe["rest"] = <<>> /\ line = <<>>
         /\ Part(hass'.cmd.topic) # i
         => call'["hass"].arg[i] = board.levels[i]]_call

\* "The next reading restores what the board holds": once commands, time-outs,
\* dropped sessions and resets are over, the read-backs and the copy of
\* tg-hass end at the settings of the board, and stay.
ReadBacksSettle ==
    <>[](/\ shown.levels = board.levels /\ hass.copy = board.levels
         /\ shown.ext = board.ext)

=============================================================================
