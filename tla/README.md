# Formal models of the Telegraph display firmware

This directory holds TLA+ models of the firmware of the HAZK-03 display board
(`src/boards/hazk03-stm32f105rb`), of the protocol library it shares with its
edge MCU (`src/ipc`) and of the wapps of the edge MCU (`src/wapps`). TLC checks
small instances of the models; TLAPS proves the central theorems for every
value of the constants. `PROJECT.json` lists the components, the runs, the
mutants, the source lines of each definition, the hazards and the theorems.

## The system

```
 clients (HTTP, MQTT, console)
        |
 wapps: tg-rest tg-hass tg-time        tg-usb  tg-ota  tg-probe  tg-logs
            \     |     /                 |       |        |        |
             tg-display  (named pipes)    |       |        |        |
                    \_____________________|_______|________|________|
                                     tg-broker          (named pipes)
                                          |
                                     serial line         (frames, CRC)
                                          |
        board: task "ipc" (stm32_ipc.c) ---- display tasks and scan interrupt
                    |         |                     (stm32_display.c)
              settings and    USB channel readers
              assets in flash (stm32_flash.c)
```

| Component | State it keeps | Operations | What makes it correct |
| :--- | :--- | :--- | :--- |
| tg-broker (`broker.c`) | request in flight, next identifier, holder of raw mode, pipes | pump the link, pump the peers, attempt again, give up, raw mode | an answer goes to its own request; one answer for each request; what is refused never runs; the line belongs to the holder of raw mode; everyone is answered |
| Settings store (`stm32_flash.c`, bring-up, setters) | two records, slot, sequence, cached values, error of the last save | load, save, setters, report of a failure | loss of power leaves the old settings or the new; an ACK without a warning means stored |
| Protocol server (`stm32_ipc.c`) | open asset file, USB descriptors, sequence of the last USB write, ring of a followed channel | one handler for each opcode, push | a repeated frame changes nothing; bytes of a channel keep order and name |
| Display (`stm32_display.c`, `sm1626d.c`, `tm1629a.c`) | two panels with a shadow buffer, texts, animations, brightness, sleep period | text, pixels, animate, clear, brightness, scan, tick | a panel shows whole drawings; the sleep period and the requests agree on the level |
| Frame codec (`src/ipc`) | buffer of the parser | push bytes, idle timeout, encode | a true frame is found after any damage before it |
| tg-usb (`usb.c`) | sequence and buffer of each channel | write, read, subscribe, storage | an answer "ok" means the bytes reached the device once, in order |
| tg-ota (`ota.c`) | phase of the update | enter the bootloader, write, verify, leave | a success is reported for a verified image alone |
| tg-display (`display.c`) | clients and the one request at the broker | serve a client | answers go to the client that asked |
| tg-hass (`hass.c`, `mqtt.c`) | cached settings, MQTT session | commands, publications, keep-alive | a read-back is true; a command sends for the other field a level the board held |
| tg-time (`time.c`, `timepolicy.c`) | counter of the board at the last reading, whether the offset is due | read, decide, write one of the clocks | the clocks meet within the threshold; an offset the board lost is sent again |
| tg-rest, tg-logs, tg-probe | nothing between two requests | one request at a time | |

How they interact: a wapp writes frames into its request pipe and reads its
response pipe; the broker carries one request at a time over the line and
matches the reply by an identifier of the link; the board handles one frame at
a time in the task "ipc", which shares the panels with the display tasks under
one mutex and the ring of a followed USB channel with the reader of that
channel under no lock.

What is hard here: late and repeated replies, attempts of requests that change
the state of the board by more than a value, raw mode that takes the line from
everyone, power that goes during a save, tasks of the board that read shared
variables without a lock, and peers that restart while the board keeps what
they told it. `PROJECT.json` lists each of these under `hazards`.

## The modules

| Module | What it is |
| :--- | :--- |
| `RequestService` | what a peer may rely on about one request: at most one answer, "reply" means it ran, a refusal means it never runs |
| `BrokerLink` | tg-broker with its peers, the line and the board; implements `RequestService` |
| `MCBrokerLink` | instances for TLC |
| `BrokerLinkProofs` | the inductive invariant and the safety of `BrokerLink`, the bound of the attempts, ownership of the line in raw mode, and that `BrokerLink` implements `RequestService` |
| `AtomicSettings` | the register a store of settings promises to be |
| `ConfigStore` | load, save, setters and loss of power; implements `AtomicSettings` |
| `MCConfigStore` | instances for TLC |
| `DeviceStream` | the stream of bytes a channel to a USB device promises to be |
| `UsbStream` | writes and subscribes from the HTTP client to the device; implements `DeviceStream` |
| `MCUsbStream` | instances for TLC |
| `UsbStreamProofs` | the invariant, the properties and the refinement of `UsbStream`, and what it keeps with clients of any kind |
| `FrameQueue` | the bounded queue that the ring of a followed channel promises to be |
| `UsbFollow` | bytes from a device to an HTTP client: readers, ring, pushes, the buffer of tg-usb; its ring implements `FrameQueue` |
| `MCUsbFollow` | instances for TLC |
| `UsbFollowProofs` | the invariant of the ring, its refinement, the buffer of tg-usb and the whole way of a byte |
| `Display` | the two dot panels: requests, scanner, animations and the interrupt that swaps the images |
| `MCDisplay` | instance for TLC |
| `DisplayProofs` | what the panels show, and the safety of `HomeControl` |
| `DisplayLevels` | the levels of digits and panels, and the sleep period |
| `MCDisplayLevels` | instance for TLC |
| `Storage` | files of the board, written, read, listed and removed part by part over the network |
| `MCStorage` | instance for TLC |
| `FlashProofs` | what the board keeps in its flash: the safety of `Storage`; the invariant, the properties and the refinement of `ConfigStore` |
| `Ota` | the update of the board by tg-ota, with pins, bootloader and broker |
| `MCOta` | instance for TLC |
| `OtaProofs` | the update: its types, a success means a whole image, a whole image stays |
| `HomeControl` | a setting on its way from Home Assistant and HTTP through tg-display to the board, and back |
| `MCHomeControl` | instance for TLC |
| `TimeKeeper` | tg-time between the clocks of the engine and of the board |
| `MCTimeKeeper` | instance for TLC |
| `DayProofs` | the time of the board and the levels that follow it: the safety of `TimeKeeper` and of `DisplayLevels` |
| `FrameParser` | the parser of the line and the frame that is encoded |
| `MCFrameParser` | instance for TLC |
| `FrameParserProofs` | the inductive invariant of the parser and its safety |

### BrokerLink

The broker is one task; `pc` follows its main loop: `pump_link` (`ReadLink`,
`LeaveLink`), `pump_peers` with one `turn` for each peer (`SkipPipe`,
`ReadPipe`, `HandleFrame`), `check_timeout` (`Resend`, `Fail`, `NoTimeout`).
Between any two of its steps a peer asks, takes an answer or stops waiting, the
board runs the frame at the head of the line, and the line loses a frame.

* `inflight`, `next_id`, `raw` are `g_inflight`, `g_next_id`, `g_raw`; `raw = 0`
  is the -1 of the code.
* A frame is one element of a sequence. `src` names the request a frame belongs
  to. The code knows the identifier of the link alone, and the model of the
  broker reads nothing else; `src` is for the board and for the properties.
* `left` is the number of frames in the chunk that one `read` gave: the parser
  hands them to `on_peer_frame` one after the other, and `inflight.busy`, read
  once before the first pipe, may change on the way.
* `verdict`, `answers`, `runs` are history.

Abstractions. The bytes of frames and the parser: a damaged frame is a lost
one. Time: 200 ms may be over at any pass, because the board and the engine
that runs the wapps have no bound. `write_all`: the broker waits for room in a
pipe, and gives up only on a peer of the set `Slow`; a pipe whose reader never
opened it is one of those. The failure of `ipc_encode` in `start_request` is
out of reach, because the payload of a peer passed the same bound in the
parser. A line that `set_line` set up by half is a line that loses everything.
The identifier wraps at `LINK_IDS`, 3 in the runs; `Aged` takes the frames with
an identifier off the line when that identifier comes up again, which takes
65535 requests in the code.

### ConfigStore

`flash` holds a record or `NoRecord` for each slot: magic, length and check
value are what `Holds` stands for. `mtd`, `slot`, `seq`, `cur`, `valid` are the
globals of `stm32_flash.c`; `setting` is the settings of the display and
`save_err` is `g_save_err`. A field of the model is what one request changes
(SET_BRIGHTNESS and the sleep period each carry two bytes). A save has the
steps `Set` (the setter, `display_persist` and the shortcut of
`hazk03_config_save`), `Erase`, `Write` and `Answer`; each driver call may
fail, and the power goes at any point, with or without the effect of the call
that runs. `BootFails` is a `hazk03_flash_initialize` that returns an error,
before it has set `g_config_mtd` (`stm32_flash.c:366`) or after it, when the
assets do not come up (`stm32_flash.c:376`). The boot note tells the edge MCU
of both (`warned`), and no record is read. `blind` marks the second kind: the
board has a flash to save to and does not know what is in it, so that its first
save takes slot 0 with sequence 1, whatever record is there.

`blind` is the one exception of the properties: `AckedIsStored` and
`SaveIsAtomic` hold for every other start, and again for the next start after a
blind one. `AtomicSettings` has the same exception, as the step `Spoil` of a
board that runs `unread`.

A store without a record leaves the display on what it was compiled with:
brightness 4 (`stm32_display.c:50,166-167`), not 5 and 8 of
`HAZK03_CONFIG_DEFAULTS`, which `hazk03.h:162` calls the settings of an empty
store and which fill only the fields an older record lacks. The model's initial
settings are those of the display.

### UsbStream

The path of a write from an HTTP client to a device, through four programs:
the client, tg-usb (`usb.c`), the broker, and the board (`ipc_usb_open`,
`ipc_usb_write`, `ipc_usb_sub`). `DeviceStream` says what a channel promises:
the writes stand in the stream of the device once each and in order, a part of
a write may stand before the whole of it, and success is reported for a write
that is there.

* `chseq` is `ch->seq` of tg-usb; `opened`, `chan`, `last`, `valid` are the
  globals `g_usb_*` of the board. `chan` also stands for `g_usb_fd`.
* `ops` is what the clients asked for, `said` what they were told; `asks`
  numbers the requests tg-usb made, and a client may ask for one write more
  than once (`Repeat`). `takes` is history.
* The broker is what one peer sees of `BrokerLink`: it carries one request,
  sends it `REPLY_TRIES` times, gives up, or refuses. The line keeps the order
  and loses frames.
* `waiting` is the time inside `ask()` of tg-usb. Any frame of the pipe ends
  the wait, because `ask()` compares no identifier.

The environment is in five constants. `CallersRepeat`: a client repeats a
write until it is told of success, before anything else is asked of tg-usb.
`Resubscribes`: a client subscribes to a channel it has written to.
`LongBodies`: it writes more than a frame holds. `Hasty`: the 3 s of tg-usb are
over before the broker answers. `MayRestart`: tg-usb restarts. `Careful` is
the case in which the code keeps its promise; the ways out of it are under
"Where the code and the text part".

Abstractions. The bytes of a write are its number and whether they are all
there. The sequence wraps at `SEQ_MOD`, 2 in the runs and 256 in the code. The
wait of `write()` in the driver of the device is left out: a device that takes
no bytes holds the task of the protocol for as long as the driver does.

### UsbFollow

The other direction: what a device sends. On the board a task for each open
channel (`ipc_chan_reader`) reads its device and puts the bytes of the followed
channel into a ring; the server of the protocol takes them out
(`ipc_chan_take`) and sends them as pushes; tg-usb keeps the newest bytes of
each channel until a client reads them (`channel_fill`, `route_read`).

* `rpc` and `rbuf` are where each reader is in its loop, and its chunk; `ring`,
  `head`, `tail`, `sub`, `chan`, `readers` are the globals `g_chan_*` and
  `g_usb_*` of the board. `spc`, `left` and `part` are the server: its place in
  the loop, the pushes it may still send before it looks at the link, the
  payload it fills. `subscribed`, `buf` and `dropped` are the channels of
  tg-usb; `filled` and `got` are history.
* No lock guards the ring, so each store to a slot or to an index is a step
  (`Store`, `Publish`, `Fetch`, `Advance`). The readers have one priority and
  the board sets no time slice: a reader runs until it waits in its read. The
  server has another priority and may run between any two of its steps. A slot
  is stored before its index, which is the order of the source.
* `CheckSub` and `CheckChan` are two reads of what the server may change in
  between.
* A byte is the device it came from and its number.

`OnWrite` opens its channel, as the board does for each write: from then on the
bytes of the channel the client follows are discarded, although no one stopped
it (`stm32_ipc.c:1068`; compare `docs/ipc-protocol.md:732`). The write itself is
in `UsbStream`. A full pipe of the broker and a lost push are `Lose`.

### Display

Two tasks draw: the server of the protocol (`job["ipc"]`, the steps a request
still has to take under `g_fblock`) and the scanner (`job["scan"]`, its greeting,
the day on the sub panel and the frames of an animation). Each panel has two
images; `Begin` is `sm1626d_begin` (the copy of the shown image when the other
one is two images old), `FillPart` the drawing, `Commit` `sm1626d_commit`.
`EndOfImage` is the interrupt of the last row, which takes no lock and swaps.

* The server has the higher priority: while it has work the scanner runs only
  as long as it holds the lock (`MayRun`).
* The scanner looks at a flag first and draws later (`Tick`, `MoveAnim`,
  `Greet`, `ShowDay` decide; `Begin` draws), as the code does without the lock.
* `ideal` is the image that the drawings ask for in their order; `raced` marks
  a panel whose image a request or a swap met in a way the code does not order.
* `Scrolls` is the choice of `draw_text_or_scroll` for the texts of the board. A
  version that is too wide for the main panel (`git describe` far from a tag)
  starts an animation at `Init` (`LongVersion`). The greeting is 65 of 70 columns
  and a day of the week 17 of 21, in each font that `fontext_load` takes: neither
  ever scrolls.

A panel is two parts and a drawing fills them one after the other: the smallest
case in which a swap falls into a drawing and a part is left as it was. Left
out: the glyphs, the speed of an animation, the shifting of rows on the pins.

### DisplayLevels

`asleep`, `bright`, `period`, `offset` are the globals of `stm32_display.c`,
`digits` and `panels` the levels in the two drivers. A request for a level
(`SetBrightness`, then `ServerPanels` once the lock is free), for a period or
for a time comes at any point of the scanner, which looks at the minute once in
a second (`Second`, `Look`), carries the levels over an edge of the period in
its arguments (`Edge`, `ApplyDigits`, `ApplyPanels`), and writes the digits
(`Flush`, `Store`: the level is read before twelve bytes and written after
them). `late` marks a request that came between such a read and its store.

### Storage

The files of the board over HTTP: `Route` is one request of a client to tg-usb,
`Attempt`, `GiveUp` and `OnReply` the broker, `Board` the handlers
`ipc_fs_write`, `_read`, `_list`, `_delete` and `_mkdir`, `Restart` a reset
between two parts. `fd` is `g_asset_fd` as the path it writes: the board has one
descriptor for all writers. A part of a file is the transfer and the place it
belongs to; a part of it may be missing (`whole`). `reader` and `lister` follow
the offset and the index as a client does, and their properties speak of a file
or a directory that did not change meanwhile (`clean`). `Entries` is the
directory in the order in which the file system gives it.

The pages of a list have two sizes. A reply of the board holds `REPLY_ROOM`
entries, and its index says where the next reply begins; an answer of tg-usb
holds `BODY_ROOM`, and `CutNames` leaves out the others of that reply, as
`route_list` does (`usb.c:513-520`). In the code the reply has 516 bytes and the
JSON body 768, so that the answer often holds fewer. `CannotEnd` is the answer
500 of a body that is so full that its end has no room. Files that are there
before (`"old"` in the mix) make a directory of several pages without a request
for each of them; clients write, read and remove those in `Targets`.

`ListIsDirectory` says exactly which entries a client gets: of each page the
first ones that have room (`HasRoom`), in order, none twice. That it gets all of
them is `ListIsWhole`, which does not hold.

`TransferIsFile` speaks of a file of more than one part. The last part is
answered with success whatever `close` says (`stm32_ipc.c:899-904`), so
`TakePart` has no failure there.

### Ota

`pc` follows `main` of `ota.c`: the version, raw mode, the pins, the sync byte,
the bootloader's commands (AN3155), erase, the parts of the image, the pins
again, the line given back, the version again. A place that ends in "?" waits.
`Rom` is the bootloader of the STM32, which answers late, loses an answer or
refuses; `Broker` is what one peer sees of `BrokerLink`. A byte of the image is
its place in it, so that a byte at the wrong address is seen. `Stop` cuts a run
off at any place, `Reset` is a reset the wapp did not ask for.

`versioned` says whether the package has `/firmware.version`. An image without
a version is like none that runs (`ota.c:769`): each start of the wapp writes it,
and the version after the update decides nothing (`ota.c:799`).

The wapp waits for the answer to the last request it wrote. Answers to earlier
requests in the pipe, of a run that was cut off, are not for it (`Answer`).

### HomeControl

Two clients ask tg-display at once: tg-hass for Home Assistant, tg-rest for
HTTP. `Serve`, `OnFrame`, `ToClient` and `NoReply` are tg-display; `TakeAsk` is the
broker and the board as tg-display sees them; `OnMessage`, `SyncEnds`,
`SetEnds`, `ExtEnds`, `SettingsEnd` and `StateEnds` are tg-hass, `Connect`,
`AwaitSuback`, `EndSession` its MQTT session. Two limits run: the one of
`tg_dsp_ask` and the one of tg-display, and both layers have ids that start
again. `held` and `since` are the levels the board held since the ask of tg-hass
began and since its last answer. The do-not-disturb period is two values sent
together, as the two levels are; the pair stands for both. Left out: parsing,
the discovery documents, the keep-alive of a session that is up.

### TimeKeeper

A clock is its error against the true time, so that a step which takes time
changes what was read before it. `ReadEngine`, `WriteEngine`, `Push` and
`Nothing` are the step of `time.c`; `IsReset` and `Decision` are
`tg_time_stm_reset` and `tg_time_decide`; `Take` is the board, which may answer
after `SLOW` seconds; `GiveUp` is an ask that ends by its limit while its
request stays on the line; a NACK of SET_TIME, after which the wapp goes on as
after its limit, is no step of its own. `SetClock` is the control plane at any point. `unread`
and `missed` are history: a reset since the last reading, and one that a reading
did not tell, because the counter had already passed its last value.

### FrameParser

`ipc_parser.c` and the frame of `ipc_encode.c`. The bytes of the line are chosen
at the start and the parser sees those that came, in chunks of any size
(`Receive`). Its buffer is the window from `base + 1` to `fed`: `ipc_discard`
moves `base`, the copy of a chunk moves `fed`. `Accept`, `Recover` and `Break`
are the three ways through a round of `ipc_drain`, `Timeout` and `EndTimeout`
are `ipc_parser_timeout`, which the readers call when no byte came for 20 ms and
a frame is pending; `cuts` remembers when. LEN and CRC are one byte, and the
checksum is any function of the bytes. Left out: the counters, the limits of
the buffer of `ipc_encode`, and `ipc_parser_init` at a change of raw mode
(`broker.c:360`; the driver throws its receive buffer away at that moment too).

`Full` is `ipc_parser.c:175`, a full buffer without a frame. No state enables
it: `ParserHasRoom` proves it, since a buffer of the largest frame always gives
a frame or a byte to throw away.

## The runs

| Run | Bounds | What it shows |
| :--- | :--- | :--- |
| `broker` | 2 peers, 2 attempts, identifiers 1 and 2, pipes and line of 1 frame, 1 push; peer 1 writes one request and waits for it, peer 2 writes two, has raw mode, gives up and leaves its pipe full | the invariants, `RawOwnership`, the refinement of `RequestService`, and `EveryPeerAnswered`. Late replies of an earlier identifier and of an earlier attempt, a wrap and raw mode against attempts all happen |
| `config_save` | 2 fields of 2 values, one of them in the earlier layout, sequence up to 6 | `AckedIsStored` and the refinement of `AtomicSettings`, with driver errors and loss of power at every step, and starts that fail before or behind `g_config_mtd` |
| `usb_stream` | 2 channels, 3 requests of clients asked for at most 4 times, 2 attempts, sequence modulo 2; careful clients | `AckedWriteReached` and the refinement of `DeviceStream`. Lost answers, repeats of the broker and of the client, parts of a write, a change of the channel and a wrap of the sequence all happen |
| `usb_wild` | 2 channels, 2 requests asked for at most 3 times, every assumption on the clients dropped | `AttemptsTakeOnce`: the attempts of one request give its bytes once, whoever does what around it |
| `usb_follow` | 2 channels, ring of 3 slots, reads and pushes of 2 bytes, 1 push between two requests, 3 bytes, 2 requests of 2 attempts, 1 frame on the line; buffer of 2 bytes | `BytesOnceInOrder`, `BufferIsNewest`, the refinement of `FrameQueue` and `RingDrains`. A full ring, a wrap of both indexes, a change of the channel under a reader, lost pushes and a buffer that overflows all happen |
| `display_panels` | panels of 2 parts, 2 requests for one panel of any kind, 2 days, a version that fits | a panel at rest shows each drawing whole and in order, but for the two races of `raced`; the day comes back after a release |
| `display_levels` | a day of 4 minutes, 3 levels, 4 periods (within the day, through midnight, without length, none), 2 offsets, 3 requests | dark in the period, the last level outside of it, the period against a reference definition, and that the edge is followed |
| `storage` | 3 files, of which the clients write 2, 2 transfers of 3 parts, replies of 2 entries and answers of 1, 2 attempts, 4 requests, 1 restart; one behaviour has writes beside reads, or lists, or changes of the directory (`Mixes`) | what was answered with success is in the file; a reader gets the file, a lister of each page the entries that have room |
| `ota` | an image of 5 bytes in writes of 4 and words of 2, 2 sync bytes, 3 runs, 2 resets, a run that is cut off, with a version and without | a success means a whole image; the board ends with its firmware; a whole image with a version stays; each run ends and gives the line back |
| `home` | 2 levels, ids 0 and 1, 2 commands, 1 change by HTTP, 1 time-out, 1 dropped session, 1 reset | a read-back was true since it was asked for, and becomes true again; the level sent for the other entity was held |
| `time` | counter modulo 5, threshold 2 s, slow asks of 5 s, 1 slow ask, 2 resets, 1 restart, 4 errors of the clock at the start | a lost offset is due and is sent; the clocks meet; an engine without a clock gets one |
| `parser` | every line of 7 bytes over 3 values, 1 byte of payload, chunks of every size, idle at any point | no frame is lost but behind one that was taken or cut; a frame that is encoded is taken; a false start byte does not hold the line for ever |

Why the bounds are enough. A third peer of the broker adds no kind of step: the
peers differ by what they may do, and each of these is in the run; two requests
of a peer and two attempts are the smallest numbers with a late reply of an
earlier request and of an earlier attempt. Six saves take each slot three times.
Three requests on two channels are the smallest case in which a channel is left
and taken up again; with a modulus of 2 the sequence wraps in it. A ring of 3
slots holds 2 bytes, so a chunk can fill it and the third byte wraps both
indexes. A transfer of 3 parts has a first, a middle and a last one, which the
board treats apart. The image of 5 bytes ends in a word that is not full, after
one whole write. Seven bytes hold two frames with a false start byte before
them, since the largest frame has 4. Where a bound cuts a behaviour off, the
theorems below hold without it.

The runs but `broker` and `config_save` do not check deadlock, because their
environment ends: clients that asked `MaxOps`, `MaxAsks` or `MaxRequests`
times, devices after `MaxBytes` bytes, a line after its last byte, `MaxRuns`
runs of the update, and so on. `storage` uses symmetry of the two transfers,
which nothing but their name tells apart; it checks no liveness.

Fairness, and what in the code gives it:

* `broker`: the main loop never stops (weak fairness of `BrokerStep`); the
  200 ms of a request in flight end (strong fairness of `Resend \/ Fail`, which
  are enabled at one point of each pass); a peer that is not in `Slow` reads its
  pipe. Nothing is assumed of the board or of the line.
* `usb_follow`: the loops of the server and of tg-usb never stop.
* `display_levels`: the server gets the lock in the end, because the scanner
  gives it back; the scanner runs; a new second is seen although requests keep
  coming (strong fairness of `Second`).
* `ota`: each wait of the wapp has a limit, so `Wapp` is always able to go on;
  the broker reads its pipes.
* `home`: the loops of the three wapps never stop, and the broker answers each
  ask in a bounded time (which `EveryPeerAnswered` shows of it).
* `time`: the loop of tg-time runs, and the broker brings its requests to the
  board.
* `parser`: a call of the parser runs to its end, and the poll of a reader has
  a limit while a frame is pending (`broker.c`, `stm32_ipc.c:1430-1481`).

Nothing is assumed of devices, clients, Home Assistant, resets or losses.

## The proofs

Every theorem rests on the named assumption of its component about the
constants, and on no other but where it says so. An inductive invariant is not
among the properties of the runs, since a proof holds for the instances of TLC
as for all others; it was given to TLC before it was proved, and TLC agrees when
it is added to a `.cfg`. Three proof modules take two components each
(`FlashProofs`, `DayProofs`, `DisplayProofs`); the names of `Storage`,
`TimeKeeper` and `HomeControl` that the other component has as well carry a
prefix for that (`FilesSpec`, `TimeSpec`, `HomeSpec`).

`BrokerLinkProofs` proves `Spec => []IInv`. `IInv` adds to the properties what
makes them inductive: the identifiers in a pipe are consecutive (`PipeOK`), a
request still in a pipe has neither run nor been answered (`RequestOK`), the
request in flight is unanswered and excludes raw mode (`BusyOK`), and a frame
on the line belongs to a request that was taken and not refused, and carries
the identifier in flight only if it is the request in flight (`FrameOK`). From
it follow `BrokerTypeOK`, `BrokerReplyIsOwn`, `BrokerOneAnswer`,
`BrokerRefusedNeverRuns`, the action property `BrokerRawOwnership` and the
refinement `BrokerImplementsService`. `BrokerRunsBounded` needs a count:
`AttemptsOK` says that the runs of a request and its copies on the line are no
more than the attempts the broker has made; a step of the line moves one copy
from the line to a run, or loses it.

`FlashProofs` proves of the settings the invariant `IInv` and with it
`AckedIsStored`, `NoNeedlessErase`, `SaveIsAtomic` and `AtomicSpec`, for every
kind of start. The invariant says that what the task remembers is the newest
record, if it read the records (`Remembered`), that a save in progress works on
the other record (`InSave`) and that an answer follows a stored value or an error
(`Told`). A blind start is outside of `Remembered`: there the theorems say that
the edge MCU was told, that only the erase and the write of a save change what a
start gives, and that the next start is again as it should be, with two records
of one sequence number too (`Newest` takes slot 0 of these, as `Take` does).

Of the files it proves `StorageInv`, `ReadsAreFiles` and `ListsAreDirectory`.
All three rest on `AskInv`: the line keeps the order of the requests, only the
last request has copies once it has an answer (`QueueOK`), the copies and the
attempts left add up (`RoomOK`, which also is the room of the line), and the
client waits for what comes next (`ClientsOK`, `AnswerOK`). `FileInv` then
follows a transfer from its first part to its last. `Acked` is the last part
answered with success, whether the client was told or not. While the file is
open it holds the first `m` parts, the acknowledged ones among them, and no copy
on the line is further than part `m + 1`; once the last part was acknowledged
the file is whole and closed, and no copy that is left can open it again
(`FileOf`, with `PartsOK` about the copies: behind a first part there are only
its copies and the second part). `ReadOK` says that what a client has is the start of the file and the
answer on its way the next piece. `ListOK` says that the names a client has are
those that had room of the pages before its index (`Shown`), that its index is
the start of a page (`AtPage`), and that the answer on its way is the page there;
`ShownPage` and `CutIs` follow one page through `CutNames`, for every
`REPLY_ROOM` and `BODY_ROOM`. Two hypotheses are conditions and not facts of the
code:

* `StorageInv` assumes `PARTS > 1`; "Where the code and the text part" says what
  happens to a file of one part.
* `ListsAreDirectory` assumes that a directory has at most 65535 entries, since
  the index 65535 ends a list.

The order of the entries is a `CHOOSE`; that there is one to choose is the lemma
`InOrder`: a finite set of numbers has an enumeration in their order.

`UsbStreamProofs` proves, under `Careful`, the invariant `IInv`,
`AckedWriteReached` and the refinement `DeviceSpec`. The invariant follows one
request at a time: it is at one place (`PlaceOK`), every earlier write was told
of success (`DoneOK`), and the copies on the line stand in order and carry the
sequence of their channel (`LineOK`). Its core is `SequenceOK`: as long as
tg-usb waits to hear of a write the board took, both hold the same sequence, and
after that tg-usb is one ahead. With `CopiesOK` the board then knows a repeat
from a new write. `UsbTypeOK` and `AttemptsReachOnce` are proved without
`Careful`, whatever the clients do and whenever tg-usb restarts, by `WildInv`:
the attempts stand on the line in the order of their requests (`OrderOK`), so
that a request which the board took is passed by no other before its last copy
(`TakesOK`), and to each copy that is left the board holds the sequence and the
channel it took it with (`SeenOK`).

`UsbFollowProofs` proves the invariant `IInv`, the refinement `QueueSpec` and
`BufferIsNewest`. The invariant says that at most one reader is outside of its
read and that a byte which waits for its index is in the slot at the head with
room behind it (`ReaderOK`), that each slot between the indexes was filled by a
reader (`SlotsOK`), and that the server has something for each push
(`ServerOK`). `ReaderOK` is what a second reader in `ipc_chan_put` would break:
the ring is right because the readers share one priority, not because of its
code. `BytesReachOnceInOrder` follows a byte from the device to the client, with
`PathInv` beside `IInv`: the client's bytes and its buffer (`WappOK`), the pushes
on the line (`LineOK`), the chunk of the server and the ring (`BoardOK`) and the
byte a reader holds (`HeldOK`) rise each in itself, each place is behind the one
before it (`WayOK`), and no place holds a byte that was not given (`GivenOK`).

`OtaProofs` proves `OtaInv`, `SuccessIsWholeAlways` and `ImageIsKept` for every
length of the image, of a write and of a word, and for any number of runs.
`RunInv` is about the wapp alone: where it is in the image (`PlaceOK`, whole
words before it), its code (`CodeOK`) and the pins (`PinsOK`). `TalkInv` is about
what stands in the pipes: the answers it may still take when it asks for raw
mode (`AskOK`), late sync bytes and the one answer behind them (`SyncOK`), one
message and one answer at a time after that (`MessageOK`), the address the
bootloader waits at (`RomOK`). On these rests `FlashOK`, that the flash holds the
image up to the address of the wapp; `DoneOK` and `PendingOK` (an order to erase
or to write an image with a version stands in the pipe only before a flash
without that image, `MayWrite`) give the two results. `ImageIsKept` speaks of an
image with a version: one without is written at every start.

`RunsGoForward` is the part of `RunEnds` that can be proved: a run has no way
around in a circle. Its `Measure` compares first the stage of the run, then what
is left to read of the image, the attempts left, the place between two requests,
and what is on its way through the pipes. Each step of the wapp, the broker and
the bootloader lowers it, so that a byte which is late or lost costs an attempt
and none is won back within a stage; a reset leaves it as it is; only the next
run sets it up again. `BeforeEnds` says that its order has no endless descent,
by the library's theorem on lexicographic products. What is missing to `RunEnds`
is that a step is taken at all, the fairness that each wait has a time, and this
TLC checks.

`DisplayProofs` proves `DisplayInv` and `DayStaysShown` for every cut of a panel
into parts, any number of requests and days, requests for both panels, and a
version of any width. `DisplayInv` does not speak of a panel that is `raced`: a
request that came between the scanner's decision and its drawing
(`stm32_display.c:444`), or a swap inside a drawing (`sm1626d.c:135`), may leave
a wrong image there until the next drawing of the whole panel.
`RunInv` says what the two tasks may carry and that the lock is held for a
drawing. The core of `ImageInv` is `PanelOK`: what is drawn and what is left to
draw, by the task that holds the lock and by the server behind it, give the image
that was asked for, as long as no request overtook a drawing and no swap fell
into one (`raced`); and a panel that changed is shown in the end, or somebody
still draws it. `DayOK` adds that a sub panel of the board shows no request.

Of the path of a setting, `DisplayProofs` proves `PathIsBounded`,
`ReadBackFollows` and `PartnerIsKnown`, for any number of commands, requests,
time-outs, dropped sessions and resets. The ids of both layers start again, so
the proof counts: the asks of a client that are on their way carry the ids
before its next one, without a gap and in order through pipe, tg-display and
answers (`AsksOf`), and so do the asks of tg-display (`AsksOn`). An ask that
nobody waits for any more has cost a time-out at one of the layers (`StaleOK`);
as long as there are fewer of these than ids, an answer with the id of the ask
in flight is the answer of it. `HeardOK` carries what that answer says of the
board back along the way, against `held`. The assumption is
`IDS > MaxLate`: the model bounds all time-outs of a behaviour by it, where the
proof needs it only of the asks that are still on their way. The code has 65535
ids, and no more requests than the pipes hold. `PhaseOK`, `InboxOK` and `CopyOK`
are tg-hass: what it waits for at each of its waits, that no command is taken
for a SUBACK, and that its copy was held since the last answer.

`DayProofs` proves of the levels `IInv` and with it `AsleepIsDark`,
`AwakeIsBright` and `StaysDark`. The invariant says what the scanner may carry:
into the sleep period no level but dark (`Darkens`), and out of it none but that
of the settings unless a request came in between (`Brightens`), with the lock in
the hand of the scanner where it draws. `PeriodsAreArcs` compares the
comparisons of `InSleep` with the arc of the clock, for a day of every length;
the remainders in the reference definition are settled by `RemainderIs`. Of
tg-time it proves the types and `OffsetIsDue`, by `TimeInv`: the request the
wapp waits for is the last one of the line (`WaitOK`), so that the ACK that
clears the flag is the ACK of a push that the board has just carried out,
whatever slow requests stood before it.

`FrameParserProofs` proves `IInv` and with it `TakenAreFrames`,
`NothingSkipped` and `RoomForMore`. The core is `Hopeless`: a byte that was
thrown away begins no frame whatever comes behind it, before the line is idle.
The parser never keeps a first byte that it could reject (`Waits`), and that is
why its buffer has room. `EncodedIsTaken` needs two facts more. `EncodedIsFrame`
says of the bytes of `ipc_encode`, one by one, that they make a frame for
`ipc_drain` wherever they lie, for every payload and every checksum. `CutsInv`
says that an idle line leaves nothing in the buffer and that no frame taken
goes on behind it: a frame that begins there is covered by no other, so that
`NothingSkipped` leaves it only to be taken or cut.

`CallsGoForward` says the same of the loops of the parser: `ToDo`, the bytes to
copy and the bytes of the buffer with a weight for each, is a natural number
that every turn of `ipc_drain` and of `ipc_parser_push` lowers. A resync that
discarded nothing, or a full buffer that was left full, would break it; that the
second does not happen is `RoomForMore`.

Every safety property of the runs is a theorem. Model-checked only: all
liveness (`EveryPeerAnswered`, `RingDrains`, `PeriodIsFollowed`, `RunEnds`,
`LineComesBack`, `ReadBacksSettle`, `OffsetSettles`, `ClocksMeet`,
`EngineGetsTime`, `LineRecovers`), which is out of reach of the prover. Of two
of them the half that needs no fairness is proved: that a run of the update and
a call of the parser always go forward (`RunsGoForward`, `CallsGoForward`).

## Where the code and the text part

The runs ask what the code keeps. Beside them TLC shows these statements of the
documents, or of comments, not to hold as they are written. A `.cfg` that is
named here is not one of the runs; `tlc -config <cfg> <module>` gives the
counterexample.

* **BUSY without raw mode** (`broker_busy.cfg`, `BusyIsForRawMode`).
  `pump_peers` reads `g_inflight.busy` once, before the first peer
  (`broker.c:496`), and reads every pipe of that pass: a second request of the
  pass takes BUSY, while `docs/broker.md:37-42` lets it wait in its pipe.
* **A start without assets** (`config_no_assets.cfg`, `NeverAnOlderRecord`).
  The settings partition keeps the record from before a write
  (`README.md:126-128`). But `hazk03_flash_initialize` sets `g_config_mtd`
  (`stm32_flash.c:366`) and may then fail for the assets; the settings are never
  loaded, and the next save takes slot 0 with sequence 1 and may erase the newest
  record.
* **Settings that no store holds** (`config_failed_save.cfg`,
  `SettingsAreStored`). After a save that failed the display keeps the new
  values, and GET_SETTINGS gives those; `docs/ipc-protocol.md:272` calls them
  the settings of the store.
* **A subscribe between two writes** (`usb_resubscribe.cfg`,
  `AckedWriteReached`). tg-usb sets its sequence back, the board does not
  (`usb.c:451`): the second write passes for a repeat and is answered with
  success. A restart of tg-usb does the same to its first write (`usb.c:75`;
  compare `docs/ipc-protocol.md:713-714`), and so does a new write after one
  that failed (`usb.c:394`). A body that is longer than a frame is cut and
  answered 200 (`usb.c:383`; compare `docs/usb-http.md:94-96`).
* **A late answer in tg-usb** (`usb_late_reply.cfg`, `AckedWriteReached`).
  `ask()` takes any frame of its pipe that is no push for the reply it waits
  for (`usb.c:170`).
* **Bytes under the name of another channel** (`usb_mixed.cfg`,
  `PushIsOfChannel`). A push carries the channel of the moment it is sent
  (`stm32_ipc.c:1224`), and the ring may hold bytes from before. A write to
  another channel moves the followed one away without a word
  (`stm32_ipc.c:1068`).
* **A request that overtakes a decided drawing** (`display_overtaken.cfg`,
  `LastRequestStays`). `anim_tick` and the content of the board decide without
  the lock and draw after it; a swap of the images may fall into a drawing
  (`sm1626d.c:135`). The next drawing puts both right.
* **Entries between two pages** (`storage_list.cfg`, `ListIsWhole`).
  `docs/usb-http.md:70-72`: "A directory longer than one reply takes another
  request with `?index=<next>`; `next` is 65535 once no entry remains." tg-usb
  leaves out the entries its body has no room for (`usb.c:513-520`), and the next
  index is that of the board: a client that follows it never sees them.
  `ListIsDirectory` says what it does see.
* **A part that goes again** (`storage_repeat.cfg`, `RepeatChangesNothing`).
  `docs/ipc-protocol.md` says that a second arrival of a request gives the
  result of the first; FS_WRITE appends (`stm32_ipc.c:892`). A file of one part
  is not written twice but anew: when the repeat arrives behind the answer of
  the first attempt and fails, the file is empty although its client was told of
  success (`TransferIsFile` with `PARTS = 1`).
* **The partner of an entity** (`PartnerKept` of `HomeControl`, with
  `MaxLate`, `MaxDrops` and `MaxResets` 0 and `MaxCmds` 1). `docs/hass.md` says
  that a change of one entity keeps its partner; the level sent for the partner
  is the one of the last reading, and HTTP may have changed it since.
* **The clock of the control plane** (`time_trusted.cfg`, `TrustedIsKept`).
  `docs/time.md` says that the wapp never writes a clock that the control plane
  set; the source is read before the ask for the state (`time.c:296`), and a
  clock that is set in between is overwritten.
* **The version after an update.** `docs/ota.md:33-34` takes it as read; when
  it cannot be read the run ends with the code of success (`ota.c:797`). The
  image is whole all the same (`SuccessIsWhole`).
* **A build with local changes.** `docs/ota.md:61-63` and the comment at
  `ota.c:761-764` say that a `-dirty` build never matches the board and is
  written at every start. The board reports the version it was compiled with
  (`HAZK03_VERSION`, `stm32_ipc.c:242`), and `Makefile:342-343` puts the same
  string, with its suffix, into the package: it matches, and the flash is not
  written again. Two builds with different changes on one commit match each other
  too. What is written at every start is an image without `/firmware.version`.
* **PUT /clock without an offset** sends the offset 0 (`rest.c:218`), and not
  the one the board has; tg-time sends its own again only after a reset.

## What is left

The plan of the project is done but for: an abstract specification of a panel
that `Display` implements; the digits' text and the temperature, when they keep
more state than a register.

## Not modelled

* The USB host (`stm32_usbhost.c`) starts two tasks of NuttX and waits for
  connections; a device that comes and goes is an open that fails. A device
  that takes no bytes holds the task of the protocol inside `write`
  (`stm32_ipc.c:1179`): the wait is in the driver of NuttX.
* Fonts and assets, clock and temperature, board support: tables, register
  access and the formatting of one value, with no state that two steps share.
* The bits on the pins of the digits (`tm1629a.c:95`): a command is one step
  here. No lock keeps a command whole between the server and the scanner; the
  next flush, a second later, writes all again.
* tg-logs serves the files of a log mount by HTTP and keeps nothing between two
  requests; tg-probe is a peer of the broker with one command at a time.
* A serial port that `set_line` set up by half (`broker.c:309`): a line that
  loses everything. A transient read error of the flash at the start
  (`stm32_flash.c:120`): `hazk03_config_load` cannot tell it from an empty slot.
* What is left in the pipes of a client that restarts (`dspclient.c:65`): that
  is for the engine that runs the wapps.
* The computation of the CRC, and the checks of single payloads: every frame of
  the models is one that passed them.
* The build tools run on a developer's machine.

`PROJECT.json` gives the status of each component.
