# A TLA+ model of haldex-flasher

haldex-flasher reads and writes the flash of a VW Haldex Gen4 controller over
CAN. What it must not do is report a controller as programmed that is not, leave
one damaged without saying so, put bytes in the wrong place, or hang. This
directory models the program layer by layer, checks the layers with TLC on small
instances, and proves with TLAPS, for every size, the safety of the flash lifecycle,
that it implements its contract, and the safety of the framing, the transport and its
channels, the KWP client, the readout, the image tools and the dumper.

All paths below are relative to the repository, whose sources lie under `src/`.


## 1. Inventory

    runner.py ──run_flash──> haldex_flasher.py ──> KWPClient ──> TP2Transport ──> adapter ~~ gateway ~~ controller
        │                        └─ artifacts.py ──> haldex_patcher.py
        └────run_readout──> haldex_flash.py (ApplicationReader, capture) ──> KWPClient ──> TP2Transport

| Component | State it keeps | Operations | What is hard | What makes it correct |
|---|---|---|---|---|
| Flash lifecycle, `HaldexFlasher` | `abort_requested`, `recovery_required`, `last_result`, transport, adapter | `flash_binary` with `reconnect_tp`, `_routine_done`, `_cancel`, `close` | a reply that is lost after its request took effect, A8 at any time, power cycles, a user who cancels from another thread, runs that follow a failed run | "ok" means programmed; "error" means untouched; each block in its place; checksum before commit; a failed run can be repeated |
| Controller (external) | session, key, loader pointer, routine, flash, stay flag | the services the flasher sends | it acts whether or not the reply arrives | it is what the others are measured against |
| TP2 framing | length and bytes of a partial message, expected number | `segment_message`, `feed` | boundaries of frames, lengths and sequence numbers, repeated frames | what goes in comes out |
| TP2 transport | `tx_seq`, `rx_seq`, `last_acked_rx_frame`, `msgs`, `connected`, the channel's addresses | `open_channel`, `intercept_channel`, `send`, `wait_for_ack`, `recv`, `send_keep_alive`, `disconnect` | lost and repeated frames, frames met in the wrong wait, late answers, wait frames, a channel closed under it, what an earlier channel or attempt left on its way | once, whole and in order, also across channels; both ends agree on the numbers; no channel is left open; every call ends |
| KWP client | `pending_count`, `busy_count` of a call | `request` | answers of earlier calls, pending for ever, busy | answers belong to their requests; what changes state is sent once; every call ends |
| Readout | `special_session`, `upload_active`, files, report, the adapter | `identify`, `enter`, `read_window`, `leave`, `capture`, `run_readout` | uncertain replies, cleanup that fails in part, Ctrl-C | bytes at their addresses; controller and adapter left as they were, where Ctrl-C does not break the cleanup off; success only where all is clean |
| Image tools | the image file | `patch_firmware`, `checksum_image`, `application_checksums`, `prepare_image` | sectors patched and flashed apart, in any order, from a file edited in between | nothing outside the selection; no hook without its routine; checksums that hold |
| Adapters | the driver's handles, the Panda's mode | `open_adapter`, `close`; frames | a driver that fails in the middle of the setup, in `close`, or by a status nobody reads | the handle is given back, whatever failed |
| BSL dumper | the image of the flash, the dump file | handshake, payload and answer of a chunk; save; resume | resets of the watchdog, late bytes, a stop between saves or during one | the right bytes at the right addresses; what was saved stays |
| Runner, facades, other BSL scripts | none to speak of | command line, re-exports, one payload | | see section 8 |

Components interact by calls downwards and exceptions upwards; there are two
threads at most, the one that runs and one that sets `abort_requested`. The
concurrency that matters is that of the controller, the gateway and the link.
Every hazard that we found is in `PROJECT.json` with its line and the property
that watches it, or the reason why none does.


## 2. Modules

| Module | Models | Builds on |
|---|---|---|
| `FlashContract` | what a flash run promises its caller (abstract) | |
| `HaldexController` | the controller and the diagnostic channel, as the flasher relies on them (external) | |
| `HaldexFlasher` | `flash_binary` and all it calls, on that controller; implements `FlashContract` | `HaldexController`, `FlashContract` |
| `HaldexFlasherInv` | the inductive invariant | `HaldexFlasher` |
| `HaldexFlasherProofs` | the theorems, and the refinement of `FlashContract` | `HaldexFlasherInv` |
| `MessageLink` | a link that hands over every message in order, and may lose some once a call has raised (abstract) | |
| `Tp2Frames` | `segment_message` and `TP2MessageReassembler` as operators | |
| `Tp2Framing` | a message cut by the one and fed to the other | `Tp2Frames` |
| `Tp2Transport` | the calls of `TP2Transport` on an open channel, a peer, a link; implements `MessageLink` | `Tp2Frames`, `MessageLink` |
| `Tp2TransportInv`, `Tp2TransportProofs` | the inductive invariant of calls that did not raise, for messages that leave two numbers over; the theorems about framing and transport | `Tp2Transport`, `Tp2Framing` |
| `Tp2Reading` | the inductive invariant while only ACKs are lost and frames repeated, for messages of any length | `Tp2TransportInv` |
| `Tp2Channel` | channels opened, given up and opened anew round those calls | `Tp2Transport` |
| `Tp2ChannelInv`, `Tp2ChannelProofs` | the inductive invariant of channels; the theorems about one channel that loses ACKs only, and about several | `Tp2Channel`, `Tp2Reading`, `Tp2TransportProofs` |
| `KwpClient` | `KWPClient.request`, a serving controller | |
| `KwpClientInv`, `KwpClientProofs` | the inductive invariant; the theorems | `KwpClient` |
| `CanAdapter` | `open_adapter` and the adapters' `close` as operators | |
| `Readout` | `ApplicationReader`, `capture`, `run_readout`, a controller, the adapter | `CanAdapter` |
| `ReadoutInv`, `ReadoutProofs` | the inductive invariant; the theorems | `Readout` |
| `ImagePatcher` | the image file, the tools, and the flash they fill | |
| `ImagePatcherProofs` | the theorems | `ImagePatcher` |
| `BslDumper` | `run_dumper`, the dump file, the boot loader and its watchdog | |
| `BslDumperInv`, `BslDumperProofs` | the inductive invariant; the theorems | `BslDumper` |
| `SequenceLemmas` | what queues and windows of sequences do, index by index: the lemmas the proofs share | |
| `MC...` | instances for TLC | |

The properties of a component stand in its module; an `...Inv` module, where there is
one, adds the inductive invariant, so that TLC can check it before it is proved.

The layers are composed by their promises, not by one product of all of them:
`Tp2Transport` and `Tp2Channel` show that channels are the link of
`MessageLink`, which hands messages over once, whole and in order, and loses none before a call has raised (within the limit that the run `tp2_repetition` shows); `KwpClient` takes that for its line and shows that a call ends on its
own answer, on a left-over answer of its kind, or raises; `HaldexFlasher` and
`Readout` take for each request what remains possible then: the answer, a
left-over answer, an error, or an A8, with the request served or not.

### The abstract specifications and their refinements

`FlashContract` knows four things of a flash run: what the controller holds (the
old image or the first k blocks of the new one), whether it takes that for
complete, the verdict, and whether the run counts itself as destructive. Its
steps are those a caller may rely on: what the controller holds changes only
while it is exposed, block by block from an erase on; a run succeeds only when
the controller holds and accepts the image; a run that fails says
`recovery_required` if it was exposed and `error` if not. `HaldexFlasher` maps to
it by `held <- Held`, `verdict <- last.status` and `exposed <- Exposed` (the run
has marked itself, or a destructive request is still under way), and
`KeepsContract` says that every step of it is one of the contract's, or none.

`MessageLink` has the requests begun, what the other end was handed, what
`recv` returned, and whether a call has raised (`broken`). Until one has, the
requests are served and the replies returned one by one, each reply behind its
request, and none is left out. Behind it any message may get lost; what arrives
is still whole, once and in order. `ImplementsLink` is that of `Tp2Transport`, whose
frames, numbers, ACKs, keepalives and exceptions it does not see, by
`broken <- failed`; `LinkUntilRaise` is its first part, which is proved. In the run
`tp2_channel`, `ImplementsLinkThroughout` is the same of several channels, broken from the
first failure on any of them.

### HaldexController and HaldexFlasher

`pc` is the statement of `flash_binary` that runs next, named by the request it
sends (`session89`, `appSeed`, ..., `erase`, `eraseResult`, `transfer`, ...,
`stop20`, `stop82`) or the connection it opens (`connect`, `reconnLoader`,
`reconnErase`, `reconnChecksum`, `verify`). A request is two steps, `Send` and
`Receive`, because that is where the controller, the link and the user come in
between. `kwp` holds the address and the heartbeat of the transport the client
uses and, in `held`, whether the local variable `tp` is still that transport, on
which line 261 depends. `req` and `rsp` are the requests and responses under way
on the one channel that is open; a channel opened anew starts empty, as
`can_clear` and the new sequence numbers see to. Data is abstracted to blocks:
block i of the image is the number i, an erased one is `Blank`, and a block
written in the wrong place is there to be seen.

The controller acts on a request whether or not its response arrives. It may lose
power at any time, close the channel, answer in a form of its own, refuse, or let
a routine fail. The C5 comparison is over a sum: the model lets it match only if
the bytes are right (`SumMatches`), since a sum that happens to match is beyond
what the program can know.

### Tp2Frames and Tp2Transport

A frame is a record of op, number and bytes. The transport has one action per
branch of its three waiting loops, which share `WaitFrame`, `Ping`, `Closed`,
`Ignored` and `TimeOut`. `call` holds the locals of the call at hand. `Raise` is
every exception: it keeps `rx_seq` and `last_acked_rx_frame`, drops the partial
message, and puts back what a keepalive deferred. Time is counted in the second
that a wait frame grants. The client of the model goes on after an exception,
as the cleanups of the readout and the flasher do.

A 0x93 stands for a wait frame in `wait_for_ack` and `recv` but answers a
keepalive: a peer that sends it for the latter is the one that sends a pong.

### Tp2Channel

A client opens a channel (`Open`, `SetupReceives`, `Timing`, with `Probe` for
`intercept_channel`, which sends C0 again and again), makes its calls, gives the
channel up (`Disconnect`, or `Abandon`, where `_routine_done` drops a transport
whose channel the gateway closed), and opens the next over the same adapter and
the same peer. What was on its way stays there: `can_clear` drops any part of what
has arrived, since `SocketCANAdapter.can_clear` may give up and a frame may come
a moment later. Every channel has the same addresses: the worst a gateway can
assign, as frames of one channel are then taken for another's.

The D0 carries nothing that tells which C0 it answers, so a late one of an
earlier attempt is taken for the answer to this one. `SyncedAgain` shows that this does
no harm while at most two constructors or calls have raised (one for
`intercept_channel`). That premise, `FewFailed`, is a limit of the code: with one
more, a client can have its D0 and A1 from earlier attempts, be on a channel
that the peer replaces at the next C0 under way, and count from another number.

### KwpClient

Each request is a service and a subfunction. `to` in a response is a history
variable, the sending it answers; `astray` is one, too, and is set when a call
gives up with its answer still to come.

### Readout

`stage` is the exchange at hand. A byte that is read stands for its address. The
answer to an exchange that was given up stays on the line, and every exchange of
`leave` then meets the answer of the one before: `Service` says which of them
look alike (both 10 89, both 37). The range is cut into windows and a window
into blocks as `capture` and `read_window` do; a controller may answer short, and
asked for more than the upload has it sends whatever lies behind it.

`device` is the adapter. `CanAdapter` gives for each kind the calls of the driver
that set it up, any of which may fail or be interrupted; the one that gives the
handle is the first, and for the J2534 device and the Panda it is not the one
behind which frames go out. `refused` is what the driver did not give back.
`PassThruClose` tells its failure by a status that `J2534Device.close` drops:
that is why `SuccessMeansClean` excepts it.

Ctrl-C is no `Exception`. In the setup and in the body (`OpenFails`, `Open`, `Interrupted`) it leads into
the `finally` of `run_readout`, with the status as it was. In that `finally`
(`CleanupInterrupted`: while `leave` waits for an answer, in `disconnect` or in `close`) it ends
the run where it stands, in the stage `broken`: the rest of the cleanup is skipped,
`device.close()` among it, and no report is written.

### ImagePatcher

A word stands for as many bytes as a piece of the firmware has; addresses are
positions. `Flash` is `prepare_image` and the transfer of its result, whose own
failures are `HaldexFlasher`'s.


### BslDumper

A zero byte is acknowledged by a loader that waits for one, and otherwise taken
for a byte of a program; a payload becomes a program only when it comes right
behind an acknowledgement. The watchdog resets the controller at any time. A
byte stands for its address; `LooksLikeAck` are the bytes of the flash that
are 0xD5. `late` counts bytes that come behind a wait or a flush that should
have had them. Chunk numbers leave the gap between the sectors out
(`ChunkToFlashAddr`), the file has it. Runs follow each other over any ranges and
may stop anywhere, also between the truncation of the file and its contents.

A misaligned payload is taken to send nothing before the watchdog's reset. The run's
last message says "Full ... bytes read" and "Verified and saved" for a range of any
size, and nothing is verified: the script compares no byte.


## 3. Runs

`pass` runs:

| Run | Question | Instance, and why it is enough |
|---|---|---|
| `flasher` | can any adversity make a run claim or do what is not so, or keep it from its end? | 3 blocks (first, middle, last), 2 attempts to connect, 3 polls (a reconnection between two polls), adverse events unbounded: the bounds of the code are the only ones |
| `flasher_resumes` | can a failed run be repeated with success? | 1 block, 1 attempt, 2 in the loader, 2 polls; 3 adverse events, after which all goes well |
| `tp2_frames` | do messages of all shapes survive framing? | 7 bytes to a frame, 16 numbers as in the code; sizes round each frame boundary and round 256; every start |
| `tp2` | what do lost, repeated and late frames, omitted ACKs, wait frames, pings and A8 do to what is handed over? | 3 bytes to a frame, 4 numbers, so that 3 exchanges of messages of one and two frames make them wrap; blocks of one frame, so that each waits for its ACK; 2 events (one to break a call, one for the calls behind it), 3 repetitions of a frame, 4 frames in the adapter, so that repetitions, an ACK and the frame behind it make one batch |
| `tp2_channel` | what does an earlier channel do to the next, is one left open, does every call end? | 2 channels, 2 attempts for each, 2 requests; 3 events, so that an attempt, a call and the next attempt can fail; wait frames without bound |
| `kwp` | whose answer does a call return, and does it end? | a read, two routines and a poll; 2 retries, 2 pendings within the limit, events and pendings unbounded |
| `readout` | are files right, are controller and adapter left, does the run end? | 5 bytes in windows of 3 and blocks of 2, so that the last window and the last blocks are cut off, in 2 passes; all three adapters; events unbounded |
| `patcher` | do selections, edits and repairs compose? | 3 sectors, hook and routine in the middle one; words of 4 bits, 2 edits |
| `dumper` | is the file right, and what can it lose? | 4 chunks of 2 bytes in two sectors with a gap, saves every 2, 2 probes and 2 attempts, 2 late bytes, a whole chunk that looks like acknowledgements; runs and resets without bound |

`MaxUpsets` counts what goes wrong (`NoBound`, -1, in the flasher: no bound; in TP2
what is in `Unbounded` is not counted); `MaxRepeats` bounds the repetitions of one frame, `MaxQueue` what the
adapter holds, `MaxOpens`, `MaxProbes` and `MaxLate` the channels, the repeated C0s and the late bytes, `MaxPending` the pendings to one request, `MaxEdits` the edits.
`CHECK_DEADLOCK FALSE` is set where a client has no more to do at the end of its
script (TP2, KWP) or its run (readout).

Two properties have a premise that is tight, which TLC shows by a counterexample
when it is widened by one: `FewFailed` of `Tp2Channel`, and `late <= 1` of
`DumpFaithful`. Both are limits of the code, not of the bounds. The second is narrower
than an instance with a single byte like an acknowledgement suggests: the attempt
to prove it for every contents showed that a second late byte can shift a chunk that
consists of such bytes, and the script, which compares nothing, saves it.

`violation` runs, each a sentence of the repository that the code does not keep:

| Run | Sentence | What happens |
|---|---|---|
| `flasher_heartbeat` | `haldex_flasher.py:258-260`: no heartbeat at commit | behind a reconnection in `_routine_done` line 261 turns it off on the old transport |
| `flasher_completion_check` | `haldex_flasher.py:273`: cancellation cannot replace the completion check | a request that arrives behind line 275 does |
| `tp2_repetition` | `vag_protocols/README.md:8-10`: `tp2.py` owns retransmission handling | a repetition that stands for an ACK is put behind the reply's first 15 frames, has the number expected then, and is taken for the 16th |

`tp2_repetition` needs no loss and no failure: the gateway repeats the last frame of a
reply as its ACK is slow, and the thread is late enough that this frame, the ACK of the next
request and the first block of its reply make one batch of the adapter. Only a reply of exactly
16 frames (104 to 110 bytes), whose last is as long as the repeated one, is corrupted. Behind
a reply of 15 frames the old one has the number expected next: if it was a reply of its
own (5 bytes at most), it is returned once more, as the answer to the next request. With any
other reply it has a number that `feed` refuses, so that this call or the next raises: this is
why `RetransmissionHandled` counts an overtaken frame among the things that go wrong. The
theorems about the transport in adversity assume that a reply leaves two numbers over (`Short`),
and the proof shows that nothing else is needed; `InOrderUnspoilt` does without, as it
ends where a frame is overtaken.

Differences without a run: `README.md:69-70` has the report of a readout record the saved
ranges even on failure; `run_readout` (256) sets them behind `capture` only. `tp2.py:65` speaks of the frames "allowed before an
intermediate ACK"; `wait_for_ack` (341-343) takes any data frame for that ACK,
the repetition of an old reply among them, and the next block then follows one
that was not acknowledged. The caution of `haldex_flasher.py:169-171`, no
second A8 to a stale address, is that of one handler: `disconnect` (441) does
not look at `connected`, and the other ways out of a run do send it. And the A8
of a loader that erases (161-163) is tolerated behind a poll, not behind
the response to the erase itself, where the keepalive of line 238 meets it and the
run ends `recovery_required`. All four are behaviours of the models (`report.ranges`, `AckByData`,
`Disconnect`, `KeepAliveFails`).

### What the properties say

* `OkMeansProgrammed`, `DamageReported`, `WritesInPlace`, `InStep` and
  `ChecksumBeforeCommit` are what the owner of a controller relies on. `InStep`
  is the reason for `WritesInPlace`: the block under way is the one the loader's
  pointer is at.
* `Resumable` says that a controller left for recovery, from whichever point, can
  be flashed by a later run.
* `KeepsContract` puts them into one statement: the run as its caller sees it.
* `InOrder` and `InSync` say what the transport promises while no call raises,
  `RetransmissionHandled` that none does for repetitions that overtake nothing and for lost ACKs,
  as long as no more of them are lost than the peer repeats a frame, and
  `ImplementsLink` what it promises in any case. All but `RetransmissionHandled` hold for replies that leave two
  sequence numbers over and requests of at most as many frames as there are numbers, and three premises more of the last are met by its instances
  since the code meets them too: a receive that times out keeps its sequence number and drops
  the bytes, so that the next one reads the rest of the message as if it were the
  start of one, and the peer does the same with a request. A reply must
  not have a tail that begins with its own length. A request that follows a failure must
  fit one frame, or the peer takes its frames for the rest of the broken one and is
  served bytes of both (TLC shows it with two requests of two frames, one of which is lost):
  the requests of the cleanup (37, 20, 10 89) and of the commit (20, 82) do. And the
  link must not repeat frames into another message, which `Short` is about.
* How many frames are too many is no accident of the proofs. The run `tp2_repetition` has a
  reply of as many frames as there are numbers. For requests: with a frame more than
  there are numbers, that many of them lost and each block taken for acknowledged by an
  old data frame (`AckByData`), the last frame is served as a message of its own, and no
  call raises. The blocks of a flash (240 bytes: 35 frames) and long answers of a readout
  (200 bytes: 29 frames) are outside of `Short`: behind lost frames, what tells a broken one
  from a whole one is the checks of the layers above (the controller's answer to a block, the
  address and length that an answer repeats).
* `Released` says that no channel is left open at the gateway, where no A8 was lost:
  a constructor that fails behind the D0 is the only one to know its address.
* `InStep` of `KwpClient` needs that no call gave up; `OwnKind` does not: a
  left-over answer is taken only for one of the same service and, where answers
  repeat it, the same subfunction. `DoneOnce` is why the profile retries
  reads alone.
* `SessionLeft` holds though the answer to 10 84 may be lost, since the flag is
  set before the request is sent, and though the cleanup may meet late answers;
  what it needs is that the request to stop reaches the controller, and so that
  Ctrl-C does not end `leave` before the request is sent.
* `FilesFaithful` is why a 36 is never sent twice; `AdapterReleased` is about
  the ways in which opening, running and closing may be cut short. Where the run comes
  to its end, the handle was given back, but for what the driver refused. Where Ctrl-C breaks
  the cleanup off, nobody closes the adapter, since `runner.py:270-281` catch `Exception`
  only; the property then says that the adapter is closed, or still as `open_adapter`
  returned it, for the process to end with. A call of `close` that Ctrl-C cuts short
  counts as refused.
* `DumpFaithful` holds for the double flush behind the D5, `SavedKept` since a run
  starts from the file and only adds to it, `LossBounded` says what a stop costs:
  the chunks since the last save, or all of a file that was being written.
* `FlashBoots` says that no order of patching, editing and flashing parts leaves
  a hook that calls a routine that is not there, or a checksum that fails at boot.


## 4. Fairness

* `HaldexFlasher`: `WF` of the run (the thread goes on; every wait has a
  deadline) and of the controller's own steps (it boots, routines end), none of
  requests or responses arriving. `ResumingSpec` adds `SF` of a new run: the
  user tries again as long as it is possible.
* `KwpClient`, `Readout`: `WF` of the tester's thread only, whose
  waits end by the clock. Nothing is expected of the peer or the link, nor of
  a user who might press Ctrl-C (`CtrlC` of `Readout` is outside of `Thread`).
* `Tp2Channel`: `WF` of the client, and of the peer's own steps. A peer that does
  not answer in time is an adverse event there (`late`), not a lack of fairness:
  a wait ends by the clock in any case, since a deadline passes where nothing
  arrives, and wait frames, which the peer may send for ever, move it only as far
  as the hard one.
* `BslDumper`: `WF` of the script, whose reads and handshakes have deadlines, and
  of the controller's program or its watchdog, one of which always ends it.


## 5. Proofs

All theorems hold for every value of the constants that the named assumptions admit,
and no theorem uses another assumption. Liveness aside, they cover every property
of the runs but those of section 6.

| Module | Theorem | Result |
|---|---|---|
| `HaldexFlasherProofs` | `Inductive` | `Spec => []IInv` |
| | `TypeCorrect`, `OkMeansProgrammedHolds`, `DamageReportedHolds`, `InStepHolds`, `ChecksumBeforeCommitHolds` | `Spec => []P` for each property P |
| | `WritesInPlaceHolds` | `Spec => WritesInPlace` |
| | `HeldInductive` | `Spec => []HeldInv` |
| | `KeepsContractHolds` | `Spec => KeepsContract`: `HaldexFlasher` implements `FlashContract` |
| `Tp2TransportProofs` | `FramingInductive`, `RoundTripHolds` | `FramingSpec => []RoundTrip` |
| | `TypesHold` | `Spec => []TypeOK` |
| | `Inductive`, `InOrderHolds`, `InSyncHolds` | `Short => (Spec => []P)` |
| | `LinkUntilRaiseHolds` | `Short => (Spec => LinkUntilRaise)`: `Tp2Transport` implements `MessageLink` until a call raises |
| `Tp2ChannelProofs` | `ExactInductive`, `RetransmissionHandledHolds` | `Spec => []P` |
| | `InOrderUnspoilt` | `Spec => [](~spoilt /\ pc # "closed" => InOrder)` |
| | `ChannelInductive`, `ReleasedHolds` | `ChannelSpec => []P` |
| `KwpClientProofs` | `Inductive`, `TypesHold`, `OwnKindHolds`, `DoneOnceHolds`, `InStepHolds` | `Spec => []P` |
| `ReadoutProofs` | `Inductive`, `TypesHold`, `FilesFaithfulHolds`, `SuccessMeansCleanHolds`, `SessionLeftHolds`, `AdapterReleasedHolds` | `Spec => []P` |
| `ImagePatcherProofs` | `FlashBootsHolds` | `Spec /\ FlashBoots => []FlashBoots` |
| | `TypesHold`, `PreparedInSelectionHolds`, `RowsAgreeHolds` | `Spec => []P` |
| | `EditsShowHolds` | `Spec => EditsShow` |
| `BslDumperProofs` | `Inductive`, `DumpFaithfulHolds`, `SuccessMeansDumpedHolds`, `LossBoundedHolds`, `SavedKeptHolds` | `Spec => []P` |

The assumptions are those of the constants, and TLC evaluates each on the instances:

* `ControllerAssumption`, `FlasherAssumption`: at least one block, attempt and poll,
  and a bound on adverse events that is a number or none.
* `FramesAssumption`, `FramingAssumption`: two bytes to a frame and two sequence numbers
  at least; messages of bytes, of a length that has two of them (`segment_message`
  refuses an empty one, and `struct.pack` a longer one).
* `TransportAssumption`: messages that can be sent, requests of which no two are the same,
  replies to each. `Short` is a premise of four theorems and not of the model.
* `KwpAssumption`: a script, and limits that are numbers.
* `ReadoutAssumption`: ranges, windows and blocks are not empty; one pass or two.
* `PatcherAssumption`, `CodeAssumption`: sectors do not overlap, and the code that is
  put in lies in one of them in front of its checksum, at places of its own; what is put in or
  edited are words.
* `DumperAssumption`, `SectorsAssumption`: chunks of two bytes at least; the table of
  sectors covers the chunks in order, without overlap.

### The flash lifecycle

None of its properties is inductive. `OkMeansProgrammed` speaks of a run that is
over; that it holds comes from `stop82` answered by a loader that had answered
`stop20`, which comes from a loader that had a right checksum, which comes from a
flash that held the image when the checksum was taken, which comes from every
block having been written at its place, which comes from there being one request
at most under way and from no request being sent twice. `IInv` says so at each
statement:

* `QueueInv`: which requests may still be with the controller and which responses
  under way, at each `pc`; but for the commit there is one in all.
* `MarkInv`: before the erase is sent the flash is as it was.
* `ProgressInv`: what the flash holds and where the loader's pointer is, erase,
  blocks, and what comes behind them.
* `TransferInv`, `CheckInv`, `CommitInv`: what a request may assume of the
  loader it meets, and what an answer under way promises.

`InitInv` shows it of the initial states, `EnvironmentStep` of the controller and
the link, the `Host...` lemmas of each action of the run, `UserStep` of the user.
A reconnection is the hard case, since it drops what is under way: the conjuncts
speak of the loader only while the channel is `open`, and of what the flash holds
in any case.

### The contract

`held` of `FlashContract` is computed from the flash. `HeldInv` says that the flash
is the old image or the first k blocks of the new one, also while a block is
under way; it is inductive together with `IInv`. Since the contents tell k
(`FirstBlocksDiffer`), an erase maps to a step of `held` to 0, a block to one from k
to k + 1, and anything else of the controller to a stutter. The end of a run maps to
the contract's by the theorems above, and the marks of a run cover its destructive
requests until they are served or dropped.

### Framing

`Whole` says that the reassembler holds the wire form up to where the frames fed so far
end, and its length, once a frame has brought both bytes of it. `NextFrame` is the
step: the number of the next frame is the one expected, its bytes continue the wire form
(`ChunkFacts`), and it is final exactly when all of it has come. The rest is
arithmetic of the last, cut off frame (`EndFacts`) and of numbers that wrap
(`NextSeq`). The frames are a function of the message, so that no induction over its
length is needed.

### The transport

A message is tied to the wire by numbers that wrap, so that `InSync` and `InOrder` need
to know every frame and ACK that may be under way. While no call has raised, `IInv` says:

* `AskingInv`: which frames of the request the transport has still to send, and which ACK it
  waits for.
* `ServedInv`: the peer was given the requests in their order; of the last one it holds the
  frames up to some place, and the data frames on their way are later ones (`Carries`).
* `GivenInv`: what was returned, what a keepalive holds back and what is still due
  are together the answers to the requests sent.
* `Between` or `Sending`: no reply is under way, or one is of which the peer sent `Gone`
  frames and the transport took `Got`. `Flight` has the frames between them: some that earlier
  replies left in front, then those of this reply in their order, and repetitions among
  them that have been taken. `Acks` has the ACKs on their way back, the older in front.

The hard step is `AckByData`, which turns the queue (`FlightFitsRotate`): while a request is
under way all of the queue is left over from earlier replies or none of it. What comes
behind, a frame of the next reply that has its number by chance, is what `Short` excludes,
and `Opposite` and `ReplyNumbers` compute. The end of a reply (`OrderedWhole`) leaves
its last frame as the only one that may come again. A call that raises ends what the theorems
say, as it ends `InOrder`.

`LinkUntilRaiseHolds` follows each step to `MessageLink`. `GivenInv` on both
sides of a `recv` that returns a message says which answer it is, and `ServedInv` that its request
was served (`LinkReturn`); `ServedInv` on both sides of a step of the peer says which request that
was (`LinkServe`). Other steps leave the link alone.

`FlattenSeq`, which `Answers` uses, and `Without` are functions that recur. The library's
induction takes an operator, which the provers cannot instantiate; `Counting` of
`SequenceLemmas` is induction over a set instead (a set of numbers that holds 0 and with every
number the next), and rests on an injection of a finite set into itself being onto it. `Recursion`
concludes from it that such a function exists (`Chain`).

### A channel that loses ACKs

`RetransmissionHandled` has no premise on lengths, so that no number tells which frame is meant.
`ExactInv` of `Tp2Reading`, proved in `Tp2ChannelProofs`, says instead what an end will have
read behind all that is on its way to it (`Behind`, a fold of `feed` over the queue), while
nothing went wrong but the loss of ACKs:

* `RequestsInv`: behind `toPeer` the peer has the requests, the last as far as it was sent, and
  was refused no frame on the way.
* `RepliesInv`: behind `msgs` and `toTester` the client has the answers to what the peer has served,
  the last as far as it was sent (`Replying`), or exactly (`Resting`), and waits for the number that
  the peer sends next.
* `CopiesInv`: for each repetition of the frame that awaits its ACK, a copy is on its
  way, or an ACK of it, or one was lost. With no more losses than repetitions the
  peer is therefore never out of them with no copy and no ACK under way.
* `DueInv`: what the call still has to return is what the answers have beyond the results.
* `ComingInv`: the ACK or the pong that a call waits for is on its way, or what it answers is.

A step at the head of a queue leaves the end of the fold as it is, one at its end takes it one
step further. A repetition changes nothing of it either: the client has read that frame
before, and `feed` drops it. What may raise is a refused frame, which `RequestsInv` and `RepliesInv`
exclude, and a deadline that passes: a peer that is quiet has nothing under way
(`NothingMissed`), so that what the call waits for is already there (`NoRaise`). `InOrder` follows
from the same two conjuncts (`ExactInOrder`).

### The channels

`Released` is about an A8 that is sent, or known from the gateway, and a C0 behind it that opens
the channel again. `ReleasedInv` says what must be so when a channel is given up: the peer has
closed it and no C0 is on its way, or an A8 is, with no C0 behind it (`Ending`). For a constructor
or a `disconnect` that sends the A8 this is plain. The hard case is `Abandon`, where
`_routine_done` believes an A8 from the gateway and sends none (`EndedInv`): that A8 must come
from the channel at hand, and no C0 of an earlier attempt may be left. So `CallInv` says that while
calls are made no C0 is on its way, which comes from the constructor (`TimingInv`): the A1 it
took is behind all C0s, since the peer answers a C0 with a D0, and the A0 sent behind that D0
with an A1. The D0 may have answered an earlier attempt, though, and the A1 an earlier A0: `SetupInv` and
`ClosedInv` keep track of which of them can be left. With no failure yet none is (`Unasked`), with one
the C0 of that attempt or its D0 (`OneSetup`), but not both and an A1. Three failures can leave a
D0, an A1 and an A8 of an abandoned channel, in that order, and the client takes them for its
own: that is where `FewFailed` ends.

The steps of the transport and the peer are read off once each (`TesterEffects`, `PeerEffects`); the
invariant speaks of which control frames are in a queue and which precede which (`Contains`,
`Precedes`), and lemmas on heads, ends and batches of a queue carry that through a step. The types
are those of the transport (`Types`), which hold while a channel is opened, too.

### The KWP client

`Genuine` says of a response on the line that it repeats service and subfunction of a
sending: `OwnKind` follows however many calls were given up. `OnceInv` has the
profile's part: a request that busy does not repeat is sent once in its call.
`InStep` rests on `StepInv`, which speaks while no call was given up (`~astray`): one
request is under way at most, its pending responses in front of the one final one,
and none of it outside a call.

### The readout

The readout goes on after errors, so that most conjuncts of `IInv` are about a run in
which nothing has gone wrong (`Sound`): there the exchanges follow each other
(`LineInv`), and the controller's upload stands where the data do (`UploadInv`). `DataInv`
and `FilesInv` hold in any case, which is why a failed run has no wrong byte either. `SessionInv` is
the argument for the cleanup: the special session, once asked for, is either noted until the
request to stop is sent, or that request is in the queue behind the one for the session.
`DeviceInv` says who has the adapter at each stage of a run, and that the closing is reached with it.
A run that Ctrl-C breaks off in its cleanup has no step left: `AdapterReleased` and `SessionInv`
are shown of the step that breaks it off, from where the adapter and the request to stop were then.

### The image tools

`FlashBoots` is inductive but for the types (`WholeInv`). An edit does not touch the
controller. A flash replaces whole sectors by those of a prepared image, whose checksums
hold whatever `Checksum` computes (`Prepared` sets the last word to the sum of the others, and
the sum of the others does not depend on it), and the hook, its routine and the traps lie in one sector, which
is replaced or not. That the controller starts to begin with is a premise
on the first state: it says something about the checksums of the image a
factory delivers. `EditsShow` is about the sum itself: one word more or less is as much more
or less in the total (`OneWord`), and two totals with the same remainder are a whole width
apart (`SameRemainder`), which two words never are.

### The dumper

`RangeInv`, `ImageInv` and `SavedInv` follow the file behind the image:
a chunk that is not in the file was read since the last save was due. `FaithfulInv` has the
serial line. With no late byte a handshake takes more of what is left over than it adds, so that
a byte of an earlier program is never under way behind an acknowledgement
(`NoneLateInv`); with one, such bytes are too few for a chunk (`OneLateInv`), and
the read times out.

Each inductive invariant was checked by TLC on the run's instance before it was proved.


## 6. Model-checked only

* Liveness (`Terminates`, `Resumable`, `CallsReturn`, `CallsEnd`, `RunEnds`), which with
  fairness and ENABLED is out of the prover's reach.
* `ImplementsLink` behind a call that raised, `SyncedAgain` and
  `ImplementsLinkThroughout` of `Tp2Channel`: they speak of numbers and messages behind a failure, where
  `IInv` says nothing. A proof needs an invariant for partial messages and numbers that are out
  of step.


## 7. Plan

Written first: the flash lifecycle, where a mistake costs a controller, with its
proof; then the layers below and beside it; then channels, dumper, adapters and
the abstract specifications; then the theorems of section 5. What is left, in this order:

1. `ImplementsLink` of `Tp2Transport` behind a failure: what partial messages can be taken for.
2. `SyncedAgain` and `ImplementsLinkThroughout` of `Tp2Channel`.


## 8. Not modelled

* The drivers behind the adapters, and what `can_send` and `can_recv` convert: what
  they may do to frames (lose, delay, hand over in batches, drop unread) is the link
  of `Tp2Transport` and `Tp2Channel`. `set_ignition`, `can_recv_ts` and the
  DLL's discovery keep no state.
* `tp20.py`, `kwp2000.py`, the `__init__` modules: names and wrappers for one
  request each.
* The command line, its confirmations and logging; `read_ecu_info`. `run_flash` does
  not close the adapter when `flash_binary` fails to prepare the image a second
  time: the process ends there.
* `recover` of `capture`, `raise_negative` and `validate_positive` of `request`,
  `harden_traps`, `send_ack`, `fixed_channel`: options that nothing in `src/` uses.
* `st10_bsl_flasher.py`, `enter_can_bootloader.py`, `test_bsl_beacon.py`: one-shot
  scripts, with the handshake of the dumper and a payload of which nothing is read back.
* Ctrl-C inside the constructor of a transport as `Tp2Channel` has it (no A8 is sent then), and
  Ctrl-C between two statements of `run_readout` that call nothing, such as behind the return of
  `open_adapter` and before its result is assigned; broadcasts in the queue of the
  transport; a change of the image file between confirmation and transfer.
