# TLA+ verification of profinet-rs

profinet-rs is a PROFINET IO controller in Rust: it discovers devices (DCP), sets
up an application relation (AR) over DCE/RPC, exchanges cyclic real-time frames,
receives alarms, and offers a command line whose `serve` mode lets another
program command the outputs of a device. This directory holds TLA+ models of the
parts that carry state and concurrency, the TLC configurations that check them,
and TLAPS proofs. Paths are relative to the repository root `src/`.

    tlc -workers 2 -config CyclicStop.cfg CyclicController
    tlc -workers 2 -config Takeover.cfg MCTakeover
    tlapm CyclicControllerProofs.tla

## 1. Inventory

| component | state it keeps | operations | what is hard |
|---|---|---|---|
| cyclic controller, `src/cyclic.rs` | `Shared`: state, run flag, output builder, safe image, statistics, input image; thread handles | start, set_output_data, set_safe_output, stop, stop_safe, drop; TX loop; RX loop with watchdog | three threads over separately locked fields; the order of a stop; restart; FAULT and recovery |
| real-time frames, `src/rt.rs` | the double-buffered image | set_data, set_all_iocs, swap, build | what is in which buffer when it is swapped |
| alarm listener, `src/alarm_listener.rs` | RTA sequence counters, one pending AlarmAck, a queue | start, stop, one loop pass per frame or deadline | loss, duplicates, counter wrap, a window of one |
| serve command layer, `src/bin/profinet.rs` | level bits, pulse shapers, dead-man timer, shutdown flags | one loop pass, safe_shutdown, signal handler | timers against blocking calls; every exit must leave the outputs safe |
| RPC session, `src/transport.rs`, `src/rawudp.rs` | sequence number, `connected`, two receive channels | connect, prm_end, prm_begin, application_ready, reads, writes, release, Drop | late answers, foreign traffic, an AR left behind |
| acyclic requests of `serve`, `src/bin/profinet.rs` | a queue of lines, the request under way, an AR | read a line, answer, retry on BUSY, keepalive, end | over-long lines, retries of what was done, every way a session ends |
| takeover and the cyclic command, `start_cyclic_tier` and `cmd_cyclic` in `src/bin/profinet.rs` | two ARs one after the other, a controller | probe, release, connect, start, PrmEnd, ApplicationReady | error paths with threads and an AR half set up; a second controller |
| device facade, `src/device.rs` | an optional session | lazy connect, disconnect | an AR the device no longer has |
| DCP, `src/dcp.rs`, `src/pcap.rs` | none beyond a call | discover, resolve, get, set, blink, reset | foreign, late and repeated answers in one window |
| connect request and slots: `gsdml.rs`, `connect.rs` | none | match slots, lay out the IOCRs | the layout is computed twice |
| parsers and builders: `blocks.rs`, `rpc.rs`, `epm.rs`, `im.rs`, `alarms.rs`, `diagnosis.rs` | none | walk blocks of a record | lengths that lie, padding, alignment |
| tables: `errors.rs`, `indices.rs`, `vendors.rs`, `util.rs` | none | lookup | – |

How they interact. `serve` takes a device over with an RPC session, hands the
frame ids it was assigned to a cyclic controller, and from then on uses the
session for acyclic reads and the controller for the outputs. The controller's
threads talk to the command layer only through the state, `ever_faulted`, the
input image and callbacks; the command layer talks to the TX thread only through
the output builder. The alarm listener has a thread and counters of its own and
shares nothing with the others but the AR.

What makes each part correct:

* controller: a stop leaves the safe image and a STOP frame as the last thing the
  device saw, with no thread behind; FAULT means what it says and is not lost;
  a silent device is noticed.
* alarms: each alarm is shown once and in order, and every one is answered.
* serve: nothing is driven that was not armed; every exit holds zero before it
  stops, and says "verified" only of something that lasts.
* session: Ok means that the device did it; no call hangs; no AR stays behind.
* requests: each line is answered once, nothing is carried out twice, and a session
  ends.
* takeover: no way out leaves an AR or a thread; the gate cuts off no command that
  shows in the byte it reads.
* layout: device and controller mean the same bytes.
* parsers: no declared length leads outside the bytes that arrived or into a loop
  without end, and what is well formed is decoded whole.
* DCP: what a command reports was caused by its own request.

The hazards, each at its line, are in `PROJECT.json`.

## 2. Modules

### CyclicController (`src/cyclic.rs`, `src/rt.rs`)

One step is the code between two acquisitions of a lock or an atomic, so a value
checked under one lock may be stale under the next. The owner's calls do not
overlap (`&mut self`); each start is a *generation* with its own TX and RX
thread, and old generations live on when nobody joins them. `state`, `running`,
`out`, `safe`, `counter`, `everFaulted` are the fields of `Shared`; `opc`,
`txpc[g]`, `rxpc[g]` are program counters. The image is one abstract value plus
the consumer status. The timeout streak is saturated at `MaxTimeouts`, the only
number it is compared with. Time is the action `Elapse`: a watchdog period passes
without a usable frame.

Left out: the bodies of callbacks (they change no state of the controller) and the
public `transition` hook that exists for tests. The statistics, on which no decision
of the controller depends except the timeout streak, are in RxStats.

### RtaAlarm and AlarmDelivery (`src/alarm_listener.rs`)

`RtaAlarm` is one priority of the listener with a device that runs the mirror
image of the protocol, over lossy bounded channels. The two priorities share
nothing, so one stands for both, for a device that sends the alarms of a priority in
frames of that priority: the code takes the channel of the AlarmAck from the block type
of the notification and that of everything else from the frame (`:789`). `AlarmDelivery` is the abstract promise: alarms
are taken one by one in the order raised, and shown unless they do not parse.
`DeliversInOrder` states that `RtaAlarm` implements it; the refinement mapping is
the identity on `raised`, `accepted` and `delivered`. A lost frame and a
retransmission timer that fires while something is still under way (`TimerFires`)
are paid from one `LossBudget`; a frame that finds its channel full is lost too, and
`MaxOvertakes` frames may arrive before the one sent ahead of them.

### ServeControl (`src/bin/profinet.rs`)

The command loop (`Poll`, `Recv`, `Drive`, `Readback`, `Tick`, `DeadMan`), the
safe shutdown (rounds of write, hold, readback; stop; verdict; teardown) and the
signal handler, which may run between any two steps. A control byte is the set of
its bits. The controller appears through its interface: the image, its state and
`ever_faulted`. Elapsed time is counted in output frames; since the loop and the
TX thread are not aligned, `Tick` may see one cycle less than frames were sent.
Towards the device a frame may be lost: it then holds its last byte (`missed`) and after
`DataHold` cycles, the `--watchdog-factor` of the Connect, applies substitutes, which
read back as zero with the substitute flag. The 50 ms between two refused writes and the
100 ms floors of the sleeps are left out; they only lengthen what is modelled.
The acyclic requests of the same loop are in ServeRequests.

### RpcSession (`src/transport.rs`, `src/rawudp.rs`)

One `RpcConn`, its callers' order of calls, the network and an external device.
A datagram is its packet class, whether its activity UUID is ours, its sequence
number and the status its body yields: the byte-order handling of the UUID is
what "ours" abstracts, and runts, REJECT and unknown packet types behave as
`fault`. `RawL2` selects between the two transports: one capture that carries
answers and ApplicationReady alike, or a socket for each. A call's deadline is
`left` clock ticks. What goes wrong is bounded by one budget, `FaultBudget`: a lost,
repeated or late datagram, an error packet meant for somebody else, and a local send
or receive failure cost one each. Foreign responses, echoed requests and ApplicationReady
of other devices are free; one of an earlier parameter phase of ours (`dev.call` numbers
the device's calls) is a late or a repeated datagram. `misled` is history: the caller took
an announcement that was not this device's for this phase.
The device executes each sequence number at most once and repeats its last
answer; it repeats ApplicationReady `Retries` times and then drops the AR. Its
own AR timeouts are left out: they only shorten how long an AR stays behind.

### BlockWalk (`dcp.rs`, `transport.rs`, `blocks.rs`, `alarms.rs`, `diagnosis.rs`, `epm.rs`, `im.rs`, `util.rs`)

Eighteen loops that walk a received PDU. A PDU is the sequence of units its sender
encoded, each with the bytes it occupies and the length or count it declares; any
prefix of it may have arrived, one field may lie, and layer-2 frames may be padded.
A loop that lands on a unit's first byte reads that unit, one that lands elsewhere
reads garbage (any type and any field). One step is one iteration of the code's loop:
`off` is its offset, `lim` the remaining length, end or count it keeps beside it,
`left` the counts of the loops around it. `touched` is the furthest byte a slice or
index reached. Field contents are left out; what is decoded is the set of units.
`WalkInit` enumerates the PDUs of the run; for the proofs `AnyInit` admits all of them, and
`HonestInit` all that are true to their fields and arrived whole.

### RxStats (`src/cyclic.rs`)

The statistics of the receive path: `process_input_frame`, `track_cycle_counter`,
the watchdog and the reset by `start`. Device frames are numbered, and the wire
loses, repeats and swaps them; the events are kept in a log that the properties
evaluate as a whole, instead of restating the increments.

### Dcp (`src/dcp.rs`, `src/pcap.rs`, commands in `src/bin/profinet.rs`)

The commands `set-*`, `signal`, `reset`, `get-param`, `discover` and the resolution of a
station, against devices, a second controller and alarms on the same segment. Frames
may be received once, again or never, late included; what a frame really answers
(`origin`) is history that the code cannot see.

### MCReceive

BlockWalk, RxStats and Dcp share no variable. MCReceive checks them in one run as
a sum: one of the machines moves, the two others rest.

### ServeRequests (`src/bin/profinet.rs`)

`serve` without `--cyclic`: the reader thread with its bounded reads, the channel, the
vocabulary of a line, the main loop, BUSY retries, the keepalive read, the loss of
the AR and both signals. A line is its command, whether it has an id and its fields,
and its size against the buffer. The device may answer, refuse, be busy or stay
silent, in the last case having done the request or not.

### IoLayout and Takeover (`gsdml.rs`, `connect.rs`, `rt.rs`, `device.rs`, `src/bin/profinet.rs`)

`IoLayout` has no state: the slots of a device fitted as its GSDML says
(`build_io_slots`), the match of discovered slots with the catalog, the blocks of the
Connect request with their 16-bit fields, and the IOCR configurations of the cyclic
controller, each translated on its own. A list that a loop over the slots builds is a
function from the places of the slots that are in it, and `Moving` is the offset that
the loop carries along. `build_io_slots` carries no property of its own: it provides the
device that is fitted as its GSDML says, one of those the layouts are compared for.

`Takeover` is one run of a command: dispatch and its refusals, the record commands,
`cyclic`, the takeover of `serve --cyclic`, or the library facade. It composes the
session and the controller through their interfaces: a call of `RpcConn` is one step
with the outcomes that RpcSession has, `start` and `stop` are one step with the
outcomes of CyclicController. Every `?` is a way to `unwind`, where the drops run in
the order of the declarations. Another controller may claim the device, command it
and leave whenever the device lets it. Of the device's output the model keeps which part
is driven: the *gate byte*, the first data byte of the first submodule with outputs, which
is all the ownership gate reads, and the rest. `MCTakeover` holds the topologies and GSDMLs.

### Variants

Operators named `X_Something` directly above `X` are plausible mistakes in the
code `X` models (a dropped guard, a missing reset, a swapped order). They occur in
no specification; `PROJECT.json` pairs every one of them with a property that detects it.

## 3. Runs

Passing runs:

| run | module / cfg | shows |
|---|---|---|
| cyclic_stop | CyclicController / CyclicStop | a stop latches the safe image and leaves no thread, over two starts with failing sockets, spawns and sends |
| cyclic_fault | … / CyclicFault | FAULT is justified and remembered; the input listener agrees with the stored image; frames in the watchdog's FAULT carry IOCS BAD; counters on the wire never skip or repeat, through wrap and stop |
| cyclic_live | … / CyclicLive | stop returns; a silent device is noticed |
| rta_alarms | RtaAlarm / RtaAlarms | refinement of AlarmDelivery; AlarmAcks follow delivery; one taken for acknowledged was accepted; every alarm that parses is answered while losses stay within the retries |
| serve_safety | ServeControl / ServeSafety | allow mask, hold before stop unless a dead link refused it, verification that is ours and lasts, with lost frames, substitutes and a link that dies and recovers |
| serve_live | … / ServeLive | dead-man, pulse end, fault end, bounded shutdown, harmless hard exit, with a link that dies and recovers |
| serve_requests | ServeRequests / ServeRequests | each line that fits is answered once and in order, no piece of an over-long one becomes a command, no request is carried out twice, a session ends with its AR released |
| rpc_calls | RpcSession / RpcCalls | Ok means executed; every call returns by its deadline; while nothing goes wrong, no AR stays behind, and PrmEnd leads to data exchange for a caller that no stray announcement misled |
| takeover | MCTakeover / Takeover | no way out leaves an AR or a sending thread; a device whose probed byte is driven is taken over only when the other controller came after the probe; Connect request and controller lay out the same frames without overlap |
| receive_paths | MCReceive / Receive | walkers stay in bounds, decode what is honest and whole, and end; loss, repetition and jitter are accounted for exactly; a DCP command reports only what its own request caused |

Runs that end in a violation state a sentence of the repository about the code
and show how the code departs from it; `findings` in `PROJECT.json` quotes it:

| run | departure |
|---|---|
| cyclic_restart | a start in FAULT abandons running threads, whose frame may follow the STOP frames |
| serve_fault | the shutdown on a lost link cannot write zero: FAULT locks the image |

Further departures and limits met while modelling. Unless marked (–), the models take
these steps and the properties are stated so that they stop short of them:

* controller: a receive error while `start` is still in STARTING ends the RX thread
  without FAULT, and `start` then reports RUNNING (`src/cyclic.rs:784`); FAULT entered
  by a receive error leaves IOCS GOOD in the frames that go on (`:785`); the watchdog
  checks RUNNING and moves to FAULT under two lock acquisitions, so FAULT may follow
  STOPPING (`:609`); `start` keeps the input image of the previous run (`:1059`, –);
* statistics: an outage of more than half the counter period counts as one frame out
  of order; a frame that overtook others makes `frames_missed` count too many
  (`src/cyclic.rs:557`);
* alarms: an AlarmAck goes out on the channel of the notification's block type, not
  of its frame (`:789`, –); a piggybacked acknowledgment advances the send counter and leaves the
  AlarmAck pending, so that it is repeated (`src/alarm_listener.rs:514`); a receive
  error ends the thread while `is_running` stays true (`:728`); after giving up, a
  sequence number is used twice and the second AlarmAck is lost silently (`:572`;
  RtaAlarm shows it with `LossBudget` above `Retries`); a listener that is started
  again on the same AR begins with fresh counters (`:707`, –);
* serve: cycles that pass while the loop is blocked count as pulse cooldown, so two
  pulses of a bit may have no clear frame between them (`src/bin/profinet.rs:3252`);
  a malformed line is answered without its id; lines queued behind a `quit` or a lost
  AR get no answer; a line that is not UTF-8 ends the reader as the end of stdin does
  (–); a last line without a newline of exactly the buffer's size is called too long
  (–); on a dead link that refuses the safe image, a zero the device holds from before
  the command, while the frames of the command are lost, would pass for proof: the
  readback tells it by nothing, and only the sleeps before it outlast the data hold time, up to
  `--watchdog-factor 7` (`:3619`; ServeSafety with `DataHold = 8` violates
  VerifiedStaysSafe, and the option admits 1024);
* session: a FAULT or runt that answers another tool's call ends ours
  (`src/transport.rs:247`); an AR whose submodules are withheld is not released
  (`:1105`, against the comment at `:1461`); an error by timeout says nothing about
  whether the device did what it was asked; `application_ready` compares no AR UUID
  (`:1208`), so it returns Ok for an ApplicationReady of another device or of an earlier
  parameter phase, and sends the DONE there;
* takeover: a second controller may come between probe and Connect
  (`src/bin/profinet.rs:2566`); the gate refuses "unless the device's current output image
  is already the safe image" (`:2532`) but judges the first data byte of the first
  submodule with outputs (`:2544`, `:1526`), so a device that is driven in another byte or
  submodule is taken over with nobody in the gap; only the first submodule with inputs is verified, and
  `cyclic` verifies none; a signal ends `cyclic` without STOP frames or Release; the
  Connect fields truncate at 16 bits while `MAX_IO_DATA_LEN` admits
  65536 bytes for one submodule; the
  facade does not notice an AR that the device dropped (`src/device.rs:411`);
* DCP and parsers: the last block of a response is skipped when it has only its
  BlockInfo, so reading the name of an unnamed device times out; a `get` that the
  device does not support times out as well; answers are told by transaction id and
  not by source address (–); of two stations of one name the first to answer is taken;
  the location heuristic of `parse_diagnosis_block` takes an entry for channel 0 with a
  structure identifier below 0x8000 for a location (–).

Bounds. `MaxStarts = 2` is the least at which a restart and an abandoned
generation exist; a third generation adds no new pair of threads. `Values` has
the zero image and one command. `CounterMod`/`CounterStep` make the counter wrap
within three frames where it matters and keep it constant elsewhere. `SeqMod = 3`
with five alarms makes RTA counters leave their initial value and wrap, and keeps one
overtaken frame apart from the next use of its number, as 2^15 does in the code;
`LossBudget` equals the retries; `ChannelCap` holds a retransmission, an
acknowledgment and a DATA PDU at once. ServeControl has one pulse bit, one level bit, and
in the safety run one bit outside the mask, which a level and a pulse command ask for.
`DataHold = 6` is the code's default, longer than the sleep of a round alone.
`MaxSeq = 5` allows connect, PrmEnd, PrmBegin, a second PrmEnd and the release, the least
at which an announcement is stale, and `RecordBound = 3` lets reads and writes take the
place of the later ones; `FaultBudget = 1` lets one thing go wrong at any
place. rpc_calls takes `RawL2 = TRUE`, whose single capture hands a call everything
the sockets of the UDP transport would, and more. No symmetry is used: the few model
values are not interchangeable.

`Lies` holds a length below the header, an odd one and one beyond most units; every
field of every unit is replaced by each, and every prefix of every PDU arrives. The
honest PDUs have two or more units of each kind a walker tells apart, so that each
loop iterates, nests and is left early. `Modulus = 16` with `Step = 2` has eight frames
per round, `FirstFrame` is two before the wrap, and `Jumps` reaches exactly half of it;
`MaxEvents = 5` is a frame, a disturbance, a recovery, a second disturbance and a
frame. `MaxXid = 2` is a command after a command, or one beside another controller's.
ServeRequests has two lines, the least that can be out of order, with a buffer of 2
bytes (4096 in the code) and `Sizes` such that lines of one, two and three chunks exist, and 3
attempts instead of 5. The facade opens three connections, and `paced_read` makes 2 attempts
instead of 4. The GSDMLs give three submodules each of four pairs of lengths
(nothing, inputs only, outputs only, both with more than the minimal C_SDU), and one
GSDML exceeds 16 bits.

Deadlock is checked except where the system really ends: all alarms raised
(RtaAlarm), connection dropped (RpcSession), process exited (ServeRequests,
Takeover), walk over or bound of events reached (MCReceive).

Fairness. TX and RX loops and the owner inside a call are weakly fair: they never
block on one another except in join, and every sleep and receive has a timeout.
`Elapse`, `Cycle`, `SilenceGrows` and `Tick` are time. The reader thread and the main
loop of ServeRequests are weakly fair: the caller's stdin is a given sequence of lines
that ends, an RPC attempt returns by its deadline (CallReturns of RpcSession), and the
keepalive is not owed. Nothing is assumed of the owner between calls, of the caller of
`serve`, of signals, losses or errors. The device is fair in RtaAlarm and RpcSession,
where the properties are about the exchange with it. Takeover and MCReceive state
safety only.

Conditions built into properties. HeldUnlessRefused is HeldBeforeStop without the one
case that serve_fault shows, a link that died and refused the zero image. VerifiedStaysSafe
depends on the data hold time (above). TakenFromSafe is about the byte the gate reads.
NoDeadAR and TakeoverCompletes say nothing once something has gone wrong (`faults > 0`),
and TakeoverCompletes nothing of a caller that was misled:
`connect` cannot know of an AR whose answer it never sees, and release and DONE are
one datagram each; NoDeadAR and NothingLeft also except withheld submodules. FaultFramesBad is
about the watchdog's FAULT. ConfirmedWasAccepted needs losses within the retries.
LossAccounted is exact for frames in order with outages up to half the counter, a lower bound
for `frames_missed` otherwise. LayoutAgrees is about images below 64 KiB. ExecutedOnce
takes BUSY for what it says, that the device did not carry the request out.

## 4. Proofs

The theorems hold for every value of the constants that the `ASSUME`s of the modules
admit: any number of starts, devices, requests, retries, lost or repeated messages and
bytes. Where a theorem has a hypothesis it is part of the statement and named below.
Every argument has the same form: an invariant that contains the property, one lemma
per action or group of actions that leaves what the lemma names alone, and a last
step by temporal logic. The inductive invariants were tried with TLC on small instances
before they were proved.

**CyclicControllerProofs.** `TypeCorrect` (TypeOK is inductive: it includes the relation
between the owner's program counter, the generation and the STOP frame index), and, if
start is not called in FAULT (`FaultRestart = FALSE`; without it cyclic_restart refutes
the first), `StopIsSafe` (StopLatchesSafe) and `StopIsQuiet` (StoppedIsQuiet). The
invariant is `StopInv`:

* `ThreadsOwned`: a live thread is the one whose handle the owner holds, so joining the
  handle joins every thread there is;
* `QuietPhases`: which threads are gone at each point of start and stop;
* `SafeImage`: from `apply_safe_output` on, both buffers hold the safe image, so any
  swap by a TX thread that is still running keeps it, and so does the frame built from
  it;
* `Promise`: once the STOP frame is out no TX thread is left to overwrite it.

On top of StopInv, and with its hypothesis, there is one invariant for each of five more
promises:

| theorem | property | invariant, and what it adds |
|---|---|---|
| `FaultIsRemembered` | FaultRemembered | `RecordInv`: a FAULT not yet recorded is one whose thread is at the store of `ever_faulted`, and the state has not left it |
| `FaultIsJustified` | FaultJustified | `StreakInv`: the count an RX thread acts upon is still the shared one, since only the thread of this generation changes it |
| `FaultFramesAreBad` | FaultFramesBad (action property) | `IocsInv`: the write buffer is BAD before FAULT is entered and until the thread that leaves it is at its own write |
| `ListenerIsInSync` | ListenerInSync | `ListenerInv`: what the report under way will leave the listener with |
| `FramesInSequence` | WireInSequence (action property) | `CounterInv`: at most one frame is between the counter's step and the send; needs `SendErrors = FALSE` too, a frame that was not sent is a number skipped |

**ServeControlProofs.** `TypeCorrect`; `AllowMaskHolds` (WithinAllowMask) from `AllowInv`,
which follows the bits from the command through levels, pulse shapers, image, wire and
device; `SignalsAreHarmless` (HardExitHarmless) from `ExitInv`, which ties the flag the
signal handler reads to the verdict; `SafeImageIsHeld` (HeldUnlessRefused) from `HoldInv`,
which counts the zero frames sent against the cycles slept: once a round has slept
(`RoundSlept`) with the zero image written, it is `Held`, whatever the link does later; and,
for a data hold time of up to seven cycles (`DataHold <= 7`, refuted by TLC for 8),
`VerdictIsFinal` (VerifiedStaysSafe) from `VerdictInv`. Its part `Stale` is about the device:
a byte that is neither the image nor a substitute is older than the write of the image,
and the frames lost since then are counted against the data hold time, which runs out
before the readback.

**RpcSessionProofs.** `TypeCorrect` with the bound that a number is left for the release
(`BoundInv`). `OkIsEarned` (OkMeansDone) from `NumberInv` (a sequence number names one
request, the outstanding one is the last) and `AnswerInv` (a positive answer on the wire
or kept for repetition was earned). `DropReleases` (NoDeadAR) from `PhaseInv` (only the end
of a connection sends a release, and who waits for ApplicationReady has ended the
parameter phase) and `CleanInv`, which says of a session in which nothing has gone wrong what is under way
during a call (`CallClean`), between calls (`RestClean`) and who knows of the device's AR
(`HeldClean`), stray announcements included. None has a hypothesis; NoDeadAR itself is about `faults = 0`.

**TakeoverProofs.** `EveryExitCleansUp` (NothingLeft) from `LeftInv`: at which points of a
command there is a connection, and that a connection that is gone leaves only orphans.
`TakeoverIsGated` (TakenFromSafe) from `SeizeInv`: between probe and Connect the gate byte
is safe as it was read, unless another controller has been there. It says nothing of the
other output bytes, which the code does not look at.
`LayoutIsAgreed` (LayoutAgrees) from `SlotsInv`, which only says that the matched slots are a
list of typed IoSlots; the rest is about lists of any length. Each of the two
translations is an offset that moves over the slots (`Moving`, a recursive function), and
what it computes is shown by induction over the places: the set of places for which the
statement holds has no least number outside it (`AllNumbers`, from the well-foundedness of
`<`). The lemmas are that offsets only grow (`Forward`), that both translations place object
i at the same offset and end at the same length (`ToldIsUsed`), that two objects are at
least a length and a status byte apart (`ObjectsApart`), and that the expected
configuration has an entry for every object (`ExpectedHasAll`). Below 64 KiB (`Fits`, part
of LayoutAgrees) the 16-bit fields change nothing.

**ServeRequestsProofs.** `RequestsRunOnce` (ExecutedOnce) from `OnceInv`: what the reader
queued is in order and ahead of the loop, what was carried out is behind it, the request
under way was not carried out, and every answer tells the truth about its line.
`OneAnswerForEachLine` (OneAnswerEach) from `EachInv`, which adds the reader (`ReaderInv`:
what of a line was read and whether its rest is being dropped), the channel (`TakenInv`:
the lines that fit and were read, each once), the request under way (`RequestInv`), and
that the loss of the AR is the last thing the loop answers (`LossInv`). The sizes of
lines and buffer are constants.

**RtaAlarmProofs.** As long as no counter wraps (`NoWrap`: at most `SeqMod` alarms, 2^15 in
the code), `CountersInStep` (the invariant itself), `AlarmAcksFollow` (AcksFollowDelivery)
and `ListenerImplementsDelivery`: the listener implements AlarmDelivery, that is, Init
implies the abstract Init and every step is an abstract step or a stutter. `CounterInv`
says that the six counters are functions of what was raised, accepted and acknowledged;
`OrderInv` that AlarmAcks waiting, under way and received are in the order of delivery;
`FrameInv` which frames can be under way, lost and repeated ones included.

`ConfirmedUnlessGivenUp` (ConfirmedWasAccepted) is about behaviours in which no pending
AlarmAck is given up, `[][~GivesUp]_vars`: the code uses the number of an AlarmAck it
gave up again for the next one, so that an acknowledgment of the first passes for one of
the second (section 3). `GivesUp` is only the GiveUp of an AlarmAck that carries the
present send counter; one that was acknowledged through a piggybacked number may be
given up.
The invariant adds to the one above what occupies the send window (`Window`): the device
has accepted all that was confirmed and at most the pending one, whose number no other
frame under way carries.

With an unbounded channel and wrapping counters these statements are false (a frame can be held
back for a whole period); the run rta_alarms checks wrapping counters with a bounded one.

**BlockWalkProofs.** The PDUs of the run are a sample; `AnyInit` lets any sequence of
units with any fields arrive, cut off anywhere. `WalkersStayInBounds` (InBounds) and
`WalkersTerminate` (WorkBounded) rest on `WalkInv`: the ends a loop remembers are inside
the PDU, and each iteration is paid for with bytes.

`HonestPdusAreDecoded` (AllDecoded) starts from `HonestInit`: any sequence of units whose
fields tell the truth (`Encoded`, which TLC evaluates on the PDUs of the run), arrived whole
and, where Ethernet pads, with any padding. For the eleven walkers that take a PDU unit by
unit (`Chained`), `DecodeInv` says that the loop stands at the first byte of a unit or at
the end, that the remaining length it keeps is that of the units ahead, and that `out` is
what was expected of the units behind; one lemma per walker shows that an iteration takes
exactly the unit it stands at, and two more that the loop goes on before the last unit and
stops behind it. For the seven walkers of records in records (`Trees`: diagnosis,
interface, port, pd, slots, filter, diff) a length or a count covers the units inside a
unit. There `TreeInv` says what the loop keeps of the enclosing ones (`Holds`): the end of
the block it is in is where the next block begins (`Within`), and for each of the three
levels of a tree it expects as many entries as come before the next unit of a higher level
(`Counted`). An entry of level L is then the only thing the nested loops can be
waiting for (`LevelIs`), and taking it leaves the counts those of the next unit
(`CountedNext`). Sizes, nesting and number of units are arbitrary.

**ReceiveProofs** is about two modules. For Dcp,
`AnswersAreOurs` (AnswerIsOurs) from `DcpInv`: a transaction id belongs to one request, and
an answer to it records what its device did; `DiscoveriesAreExact` (DiscoveryExact) from
`FindInv`: one answer per device and request, and the list has one entry for each device
heard. For RxStats, `JitterIsMeasured` (JitterIsSteady) from `StatsInv`: the interval under
way begins at the last accepted frame and is disturbed as soon as anything follows it
in the log, and the intervals of a log that grows by one event are the old ones and at
most the one that the event ends. `LossesAreAccounted` (LossAccounted) adds `LossInv`: the
counter kept is that of the last frame in the log, and while frames come in order that
frame is the highest one seen and what is missing between the lowest and the highest is
what was counted (`Balanced`). Each arrival moves the highest, the lowest or neither; the
lemmas say what the difference of two counters modulo the period tells of the
difference of two frames, for every period and step.

Only model-checked:

* liveness (StopReturns, SilenceEscalates, AlarmsAnswered, DeadManFires, PulseEnds,
  FaultEndsLoop, ShutdownEnds, SessionEnds, CallReturns, TakeoverCompletes): the prover
  has no rule for fairness that reaches it;
* ConfirmedWasAccepted after an AlarmAck was given up: rta_alarms checks it with losses
  up to the retries, where none is;
* RTA counters that wrap.

## 5. Not modelled

* the capture backend behind `pcap.rs`, the sockets and `capture_check.rs`: I/O whose
  outcome is the host's;
* the XML reading of `gsdml.rs` before the catalog exists;
* the byte builders of `rpc.rs`, `blocks.rs` and of the frame headers, and the decoding
  of fixed-size fields: no loop, no state, nothing to interleave;
* the single request of `epm_lookup` over a socket of its own;
* `errors.rs`, `indices.rs`, `vendors.rs`: tables;
* the wording of NDJSON lines and of the tables that commands print;
* panics, and with them the drop order of `cmd_serve`, which declares its controller
  before the connection.

## 6. State and open work

Every invariant and every action property that a passing run checks is also the statement
of a theorem; the liveness properties are model-checked. What could be added:

1. The RTA theorems with counters that wrap, for channels that hold a frame for less
   than a period.
2. Panics in Takeover, which would bring the drop order of `cmd_serve` in.
