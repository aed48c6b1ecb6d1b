# Formal model of the PYRN firmware

PYRN is the firmware of an LPC1768 board that rides in a car: it samples an
accelerometer and a GPS receiver, talks to the car's calculators over two CAN
buses, collects everything in a ring and posts it over a 3G modem to a server,
whose replies reconfigure what is asked of the car. It runs on mbed RTX with
round-robin threads of equal priority.

The models are of the product build `APP_CANONAIR` of `main.cpp`. At this
commit `main.cpp` selects `APP_CANONAIR_V3G`, which reads the IMU in a loop in
front of a test of modem and GPS; `APP_CANONAIR` is the branch that is complete.
The other `APP_*` branches are workbench programs on the same classes.

## Inventory

| Component | State | Operations | Interacts with | What makes it correct |
|---|---|---|---|---|
| `ramCircBuff` (storageBase.cpp) | byte array, pWrite, pRead, currSz | Put, Get, Probe, FillLevel | called by ComHandler under BuffMtx | a FIFO of whole records however the end of the array cuts them |
| `MySensor`, `IMUSensor`, `GPSSensor` | results store, resultsMutex | Loop, StoreLastImpact (own thread), Capture (main thread) | main loop | store never overflows, a capture is of its sensor |
| `MainClass` capture loop | dataResult, len | run | sensors, ComHandler, watchdog | every sensor comes around |
| `ComHandler` | TXBuff, currLen, hdr, first, ring | AddResults (main), NeedTransfer, DoServerRequest (own thread) | ring, HTTP, `MainClass::event` | no accepted record is lost or mixed before the post; the ring drains |
| `ramStorage` + reconfiguration (main.cpp) | size, data, newCalcPending, dynamicSensors | event (com thread), StopDynSensors, NewDynSensors (main thread) | flag and storage shared without a lock | the last configuration is applied, parsing ends |
| `MyMemoryAllocator` | list of block headers, memAccess | malloc, free, PrintResume | every thread through `operator new/delete` | the blocks tile the memory and belong to their callers |
| `CANFifoMessage`, `CANInterface` | two rings, rxOvf, callback table | receive interrupts, Main, Add/DelCallBackForId, DispatchCANMessage, Send | communicators, recorders | frames in order, once, to every row of the table that stays |
| `CANCommunicator6A/68` | queue of 10 copies | event, FlushQueue, ExecuteCommand | CANInterface, diagnosis sensor | an answer belongs to its command |
| `CANDiagSensor` | calculators, results store, keep-alive timer | Loop, DiagSequence, KeepAlive | communicator | store bound; keep-alive of the right calculator |
| `CANRecorder` | points, learned values | event, Capture | CANInterface | no points of two frames |
| `ATCommandsInterface`, `USBSerialStream`, `MtxCircBuffer`, `PPPIPInterface`, modems | transaction, line buffer, rings | execute, process, connect | USB host, lwIP | a result belongs to its command; start-up ends |
| `sdStorage`, `sdCircBuff` | card sectors, pointers | Read, Write, Put, Get | (not used by the product build) | as ramCircBuff |
| `MyThread` | running, signals | Start, Run, Stop, WaitEnd | all threads | WaitEnd returns after the end |

The hard behaviours are the interleavings of the sensor threads, the main loop,
the communication thread, the CAN thread and its interrupts; try-locks that
fail; checks made before a lock; a walk made after an unlock; arithmetic at the
end of rings; and one flag and one buffer shared without a lock. `PROJECT.json`
lists them with their lines under "hazards".

## Modules

`RecordFifo` is the abstract specification of a bounded queue of records.
`RamCircBuff` is the byte ring; under the mapping that reads its history
variable `recs` as the queue it implements `RecordFifo`. `Uplink` composes
sensors, main loop and ComHandler and uses the ring through that queue.
`CANDiag` composes a diagnosis sensor, its communicator, its timer and the
calculator in the car, and `Modem` the main thread, the AT thread, the serial
stream, the dongle, PPP and the watchdog. `CANRecorder`, `MyMemoryAllocator`,
`CANInterface` and `Reconfig` stand alone. The `MC*` modules only give constants
their values; the `*Proofs` modules, one per component, extend their component
and TLAPS. Definitions named as mutants in comments are not part of a
specification: each is the plausible slip that the property of its name in
`PROJECT.json` detects.

**RamCircBuff.** `b`, `pWrite`, `pRead`, `currSz` are the members of the class,
`res` is what the last call returned. Put is `PutRefused`, `PutWhole` or
`PutSplit` (its three exits), Get is `Get` or `GetEmpty`. The int header is
converted to its four little-endian bytes and back. A write behind the array
extends the domain of `b`, so `TypeOK` catches it.

**Uplink.** One `pc` per thread; a step ends at every lock, try-lock or unlock,
so every preemption inside a critical section is explored. `SensorLoop` to
`SensorStore` are MySensor::Main with StoreLastImpact; `CaptureLock`,
`CaptureBusy`, `CaptureCopy` are Capture; `AddResultsLock`, `AddResultsPut` are
AddResults; `ComWake` to `ComPost` are ComHandler::Main with DoServerRequest.
Byte counts are kept (a record is 3 bytes and its data, 4 more in the ring, a
frame starts with 60), so that the levels, the frame limit and the refusals are
those of the code; `posted` is the length handed to the HTTP client, one more
than that of the frame. The returns of DoServerRequest that
forget the unlock (ComHandler.cpp:105-108, 118-121) are left out because Probe
and Get never return a negative value: that is what `RingImplementsFifo` says.

**MyMemoryAllocator.** `blk` maps the offset of each header in the list to its
fields. malloc and free are atomic between lock and unlock, except for the walk
of PrintResume in the middle of free and behind malloc, which reads each size
and each link in separate steps. A walk that finds its block gone reads data;
its sum is then anything (`WalkLost`). Sizes are 16 bits wide.

**CANInterface.** The interrupts are `RxStored` and `RxLost`; `get` is atomic
because the thread masks the interrupt. The table starts empty. Communicators
add and delete their entries before and after a command, and NewDynSensors adds
a recorder whenever a configuration has one, so recorders come before, between
and behind communicators; they are never deleted, because StopDynSensors never
gets there. The dispatch looks at one entry per step, without the mutex, as the
code does. `CopiedOver` is the memcpy of DelCallBackForId byte by byte of an
entry: a partly copied identifier is a mixture, another identifier or none, and
a partly copied callback pointer is modelled as one that delivers nothing. The
table's mutex is held for microseconds and waited for a second, so its timeout
is left out.

**Reconfig.** A configuration is a sequence of units, one per header or body,
of any length; both copies (`EventData` in the communication thread, `ReadData`
in the main thread) move unit by unit. Nothing checks a length: the size of a
reply is what its Content-Length says (HTTPText.cpp:105-113), whatever RXBuff
took of it. The model keeps this: what RXBuff could not take is read from the
memory behind it (`Anything`), and a copy that leaves calcStorage
(`EventOverrun`) or dataResult (`ReadOverrun`), or that has a negative length
because the reply is shorter than the identifier (`EventShort`), sets `overrun`,
after which the model stops. `StopDynSensors` is what the code does: it pops one
sensor. NewDynSensors is one action per branch of its loop. SetData's return
value of -1 is kept as the code uses it. What a recorder reports when it is
cast to a diagnosis sensor, and whether bytes that are no commands pass
Validate, is left open. A loop that cannot end becomes `spin`, and the watchdog
resets the board; `sz` is never initialised by the constructor and starts
anywhere.

**CANDiag.** Two threads call ExecuteCommand of one communicator, the sensor's
and RTX's timer thread; `pc`, `calc`, `cmd` and the locals of the call are per
thread. `Lock`, `FlushGet`, `FlushEnd`, `Send`, `AnswerShort`, `AnswerFirst`,
`AnswerNext`, `Timeout` and `EndCommand` are the steps of a call, `DiagStart` to
`KeepAliveStop` those of the sensor's loop, `TimerTick` and `KeepAliveSequence`
the timer's. The CAN thread delivers in two steps, finding the entry and calling
it, so that a frame may arrive after its exchange has ended. The calculator
follows CANCommunicatorSim6A, the repository's own simulation: it waits for an
ACK after a first frame and swallows whatever else comes. Frames carry the
number of the exchange they answer as history. Two assumptions are about the
car: `Quiet`, that it has nothing more to say after the second FlushQueue waits,
and `DiagAssumption`, that no answer is longer than the array its caller has for
it, 64 bytes in DiagSequence and 32 in DiagStart; no announced length is checked.

**CANRecorder.** event runs on the CAN thread and Capture on the main thread;
the check for room, each chunk, the count of points, and the two halves of
Capture's critical section are steps of their own. `pieces` and `captured` tell
which chunk of which frame lies where. The chunks are any lengths: SetData
ignores what Validate says, and NewDynSensors neither asks Ready() nor looks for
the -1 of a refused Parse before it builds the recorder
(CANRecorderCalculator.cpp:14-21, main.cpp:1339-1345). `*len` on entry to Capture is what the
previous sensor left, hence any of `Lens`.

**Modem.** `mpc` is the main thread from reset to the main loop: waiting for
the dongle, a command (`cmd`) inside execute or back from it, PPP. `Return*`
is one action per command: everything PyrnUSBModem does with its result. The
mails env2AT and AT2Env have one slot each, taken by alloc and freed by free.
`apc` is the AT thread, in waitAvailable, read, processReadLine or
trySendCommand; `available` is the semaphore that arriving data and abortRead
release and read drains. The dongle is external: it takes a command, echoes and
answers it as late as it likes, or loses it, and what it is saying survives a
reset of the board. A tick is 100 ms; none passes while the AT thread can run,
since it needs microseconds, but the main thread may be late by any time.

## Runs

| Run | Bounds | Shows |
|---|---|---|
| RamCircBuff | 17-byte array, payloads of 1, 2, 3 and 5 bytes | every cut of header and data (the ring turns around through all offsets); refinement of `RecordFifo` |
| Uplink | IMU with 3 samples, GPS with 2, store of 2, ring of 22 bytes (two records, a third is refused), frames of 70 bytes (one or two records, so several frames per transfer), TT_HALF | records are conserved; each frame has its header and records and fits TXBuff, the post taking at most one byte behind it (71 of 70 here; inside TXBuff when it is larger than header and ring, as in the firmware); the ring drains and AddResults returns |
| MyMemoryAllocator | 96 bytes, 20-byte headers (up to four blocks), requests of 1 and 9, two symmetric threads | tiling, ownership, coalescing, exactness of the locked walk |
| CANInterface | rings of 2 slots (one frame each), 2 frames, a table of 2 rows, which two recorders and two communicators use in any order (so that some are refused) | order, no frame twice, no row that stays is skipped, recorders at the front hear everything, under every change and damage of the table; exactness of the rings over a wrap and an overflow, both rings served |
| Reconfig | ten configurations with every kind of item, one too long for RXBuff (3 units) and one too long for the storage (4), 2 replies, list of 2 | the storage holds the last reply and none is lost by the flag, as long as no copy runs over its array; parsing ends on whole, well-formed copies; every stored configuration applied |
| CANDiag | queue and timer queue of 1, store of 23 bytes; a 6A sensor with answers of no, one and three frames and a second calculator, a 6A sensor without ACK, a 68 sensor | complete answers are those of their commands; the store runs over by 3 bytes at most; every exchange ends |
| CANRecorder | points of 0, 3, 4 and 6 chunks (with an empty chunk, one that fits, one that does not), of chunks longer than a frame, and of 30 chunks with a header beyond the 64 bytes; 3 frames told apart | a captured point is of one frame, in order, and whole if there is room for it; no chunk is written behind dataResult |
| Modem | one tick for every timeout and pause, 1 or 2 tries, 9 polls and 9 ticks of watchdog, a stream of 2 lines, one command on its way | results meet their commands; no wake-up is lost; the main loop starts only with a link; a PIN is refused once per boot |
| UplinkType, MemoryFault, CANDelete, ReconfigStop | as above | violations, see below |

The bounds are the smallest at which the boundary cases occur together: rings
fill, refuse, wrap and empty; lists have a first, a middle and a last element;
a configuration overtakes another one. `MaxRecords` in Uplink bounds only the
reports of stale captures (which otherwise repeat for ever), `MaxSamples`,
`MaxFrames` and `MaxReplies` bound the environment. A queue of 1 loses frames
in CANDiag as soon as two arrive together, which ten would only postpone. In
Modem an answer may come before, at and after the timeout of its command, at
any point of the next one, and after a reset; the relation of polls to watchdog
(600 of 100 ms against 60 s) is an assumption of the module, `ModemAssumption`.

**Fairness.** Threads are weakly fair: RTX schedules threads of one priority
round robin. A thread that waits for BuffMtx is strongly fair in getting it,
since RTX hands a released mutex to its first waiter. The post ends because the
HTTP client has a timeout. The same holds for DiagTxCMD in CANDiag, where
frames on the bus also move and the calculator works, but may lose any frame.
The watchdog is hardware. CANRecorder and Modem state safety only. Samples, frames, callbacks
and replies of the server are never required.

**Disagreements** (the runs that expect a violation):

- `UplinkType`: `MySensor::Capture` sets its pointer parameter to 0 instead of
  the length, so a capture that misses the mutex reports the previous sensor's
  bytes under its own type (MySensor.cpp:85).
- `MemoryFault`: malloc's walk without the mutex takes a sound heap for a
  broken one and resets the board (MyMemoryAllocator.cpp:113-114). In TLC's
  trace the walk has added the last, free block when another thread's malloc
  splits it; the walk follows the new link and counts the rest again.
- `CANDelete`: deleting a callback entry copies a number of entries as a number
  of bytes and then drops the last entry: two communicators are added, the
  first is deleted, and the second is no longer in the table
  (CANInterface.cpp:101).
- `ReconfigStop`: StopDynSensors tests the status of its lock instead of the
  sensor it popped (main.cpp:1201).

**Weaknesses the properties describe rather than rule out:**

- A recorder behind a communicator's entry misses the frames that entry takes
  (the break in CANInterface.cpp:126) and may be lost when it is deleted;
  `FrontRecordersHear` is about recorders with no communicator before them.
  Damaged entries stay in the table and use up its rows. With more than eight
  rows (the firmware has 10) the copy may carry a recorder's identifier into a
  communicator's entry, which then hears a frame twice: `InOrderOnce` names this.
- `EveryFrameTaken` is about buses that rest at times. A bus that is always
  faster than the thread loses frames (`RxLost`).
- The length of a reply is bounded by nothing (storageBase.cpp:43): see Reconfig
  above. `ConfigApplied` holds until such a reply comes.
- A recorder of lengths that Validate refuses may capture a later chunk without
  an earlier one, when the frame came during a Capture; `PointWhole` promises
  all chunks only when dataResult has room for any one of them behind them all.
- An answer longer than its caller's array is written behind it
  (CANCommunicator6A.cpp:62-69, 89-90; response[32] in CANDiagSensor.cpp:91,
  107, 180, response[64] in 122, 195). This is assumed not to happen.
- The store of a diagnosis sensor is overrun by up to three bytes, since the
  check forgets the time stamp (CANDiagSensor.cpp:145). `StoreOverrunBounded`
  says it is never more, however captures fall between check and store.
- A segmented answer that times out keeps its announced length, and the sensor
  stores that many bytes (CANCommunicator6A.cpp:103). `AnswerBelongs` is about
  the frames collected, and about completeness only when the call says so.
- The commands of a sensor's second calculator are sent to the address of the
  first (the communicator's, CANCommunicator6A.cpp:46), and acknowledged with
  the first one's ACK.
- PPPIPInterface::connect reports success when its polls run out, since retries
  is then -1 (PPPIPInterface.cpp:173). `MainOnlyConnected` holds because the
  watchdog, started before and fed only after, is never slower.
- AT+CGDCONT may be answered by the late OK of AT+CREG?: the registration loop
  looks at the status only, and goes on without a pause when the status line
  came but its OK did not. `ResultMatchesCommand` names this one exception.
- The wait of 100 ms marked FIXME in execute (ATCommandsInterface.cpp:182) is
  load-bearing: without it the AT thread's start-up drain takes the release of
  the first command, and the cancellation waits for its slot for ever.
- "do not retry" a refused PIN (PyrnUSBModem.cpp:227) is kept within a boot
  (`PinRefusedOnce`), but the failure resets the board, which tries it again.
- result.code is read after a timeout that did not set it (PyrnUSBModem.cpp:214);
  the model leaves it open. A recorder's header of more than 27 chunks is not
  checked (CANRecorder.cpp:45), its period is subtracted the wrong way around
  (CANRecorder.cpp:114) and *len is compared as if it were the caller's room
  (CANRecorder.cpp:78). CalcIndex is shared by all sensors (CANDiagSensor.cpp:14).
  rxOvf is overwritten (CANInterface.cpp:246), dynSensorAccess is locked once
  more per reconfiguration (main.cpp:1255): nothing modelled depends on these.
  The size of a reply without Content-Length is uninitialised (HTTPText.cpp:43,
  110), and so is the size of the storage that is read at start-up
  (main.cpp:1010-1014): neither is modelled.

## Proofs

`RamCircBuffProofs`, for every array of 4 to 2^31 - 1 bytes and every set of
payloads. The invariant `RingInv` joins four parts because none is inductive
alone: that a Get reads the right length needs the bytes in place (`Contents`),
that a Put overwrites nothing needs the records to fill exactly the currSz bytes
behind pRead (`Layout`) and pWrite to be behind them (`PointersAgree`). The
lemmas follow the code: a header survives its conversion (`HeaderRoundTrip`),
the two or four memcpys of a Put write exactly header and data around the end
(`PutWholeWrites`, `PutSplitWrites`), a Get reads the oldest record
(`ReadsOldest`) and leaves the others (`GetPreserves`). From it:
`RingTyped`, `RecordsEndToEnd` (`Layout`), `RecordsIntact`,
`PointersNeverDrift`, and `RingImplementsFifo` (initial states map to initial
states, every step to a step or a stutter of `RecordFifo`).

`MyMemoryAllocatorProofs`, for every memory below 2^16 - 1 bytes, every header
size, set of requests (whose aligned size fits 16 bits) and set of threads. The
invariant `MemInv` is the tiling with ownership, coalescing and the position of
the locked walk, and `LockHolder`: a thread that holds the mutex is inside free
with a released block. Ownership alone is not inductive, since a split needs to
know that the rest lies inside the block; coalescing needs the released block of
the free in progress. `FragmentTiles`, `JoinTiles` and `ReleasedTiles` say that
the three edits of the list keep a tiling. From it: `HeapTyped`, `HeapTiled`,
`BlocksOwned`, `LockedWalkNeverFaults`, `FreeNeighboursJoined` (two FREE blocks
are never neighbours) and `NoFragmentLeft` (so a heap in which nothing is in use
has one block).

`UplinkProofs`, for every list of sensors, every size of the stores, the ring
and the frame, and every transfer type. `UplinkInv` adds two parts to what the
run checks. `LockInv` says who holds BuffMtx and each resultsMutex at which
step, and that TXBuff is non-empty while AddResults puts it: without it nothing
tells that AddResults and DoServerRequest are never in TXBuff together, and
`RecordsConserved` is not inductive. `StoreInv` says that a sensor which found
room before taking its mutex still has it, since only its own thread appends.
That the count of the ring is that of its records is a part too, and with it
`RoomInv`: a frame and what is left in the ring never exceed header and ring
together, which is why the extra byte of the post stays inside the firmware's
TXBuff. From it: `StoresBounded`, `NothingLostOnTheWay`, `FramesFit`.

`CANInterfaceProofs`, for every size of the rings and the table and any
identifiers, communicators and recorders. `FifoInv` (`RingHolds`: the frames
from tail on, up to head) makes the rings exact over every wrap. `TableInv` says
that the entries of the recorders in `front` are the first ones and that the
copy in DelCallBackForId, whatever it does to the entries behind, never damages
them; `OwnerInv` that a recorder has one row only and keeps it promiscuous.
`QueueInv`, `SeenInv`, `MsgInv` and `FreshInv` order the frames in the rings, in
the dispatch and behind it by their arrival; `ReachInv` says whom a dispatch has
reached. From it: `RingsExact`, `DeliveredInOrder`, `NoRowSkipped` and
`FrontRecordersGetAll`, without conditions on the behaviour. There is no theorem
on `RegisteredIsListed`, which the run CANDelete refutes.

`ReconfigProofs`, for every set of configurations of any length, every size of
the buffers (RXBuff not larger than the storage, as 471 and 512 are) and number
of sensors. `StoreInv` is what the storage holds before, during and after a write,
`CopyInv` what a copy under way holds if no event came since the flag was
cleared, `ParseInv` that the offset of NewDynSensors is inside the copy and never
on a body. From it: `StorageWhole`, `NothingLost`, `WholeCopyIsParsed`. The last
one failed at first: a configuration that begins with commands, which belong to
no header, passed for `WellFormed`. It no longer does.

`CANDiagProofs`, for every sensor, every program of commands with answers of up
to 64 bytes, and every size of the queues and the store. The frames of an
exchange are in three places in a row, in the receive ring, in the CAN thread's
hands and in the communicator's queue (`Pipe`); each loses frames and none
reorders them. `Exchange` lists the five situations of a thread that waits for
an answer (the command is on its way; an opening frame is on its way; the
first frame came but the calculator has no ACK; the ACK is on its way; segments
follow) and says for each what may be
in `Pipe` and what is collected. `IdleInv` is what FlushQueue and DiagTxCMD
achieve: nothing of an earlier exchange is left when a command is sent.
`AnswersBelong` follows with some arithmetic: when the announced length is
reached the segments collected are as many as the answer has, numbered upwards,
hence all of them. `RoomInv` carries the result of the check for room past the
captures of the main thread, for `OverrunBounded`. The proof showed
that the constants must agree with the calculator on one point: a keep-alive is
answered by one short frame, whatever the calculator is doing
(CANCommunicator6A.cpp:197-202), so no CMD_KEEP_ALIVE may promise a longer one.

`CANRecorderProofs`, for every list of chunks of any lengths, every size
of dataResult and every `*len`. nPoints alone keeps event and Capture apart.
`RaceInv` says what this leaves possible: event starts a point while Capture is
still to set offset back, and then only checks chunks against the old offset.
`PieceInv` says which pieces lie in dataResult, `RoomInv` how many bytes they
take. From it `CapturedWhole`.

`ModemProofs`, for all timeouts, pauses, numbers of attempts and polls and sizes
of the buffers, as long as the watchdog is not slower than the polls. Each part
of `ModemInv` rests on the ones before: types and the counters of the loops;
`WakeInv`, no message sleeps in env2AT; `PollInv`, the watchdog has no more ticks
left than the polls; `SettledInv`, one transaction at a time, whatever timed out;
`PipeInv`, the lines between dongle and AT thread are whole answers, of which at
most the first has lost its beginning; `MatchInv`, a transaction that reads an
answer reads one to its command; `PinInv`, one PIN at a time is sent and none
after a refusal. From it: `WakeUpNotLost`, `ConnectedBeforeMain`,
`ResultsMatch`, `OnePinRefused`.

Every module also proves its type invariant (`TypeCorrect`, `RingTyped`,
`HeapTyped`), which here bounds array indices and counters.

**Assumptions.** Each component states what it needs of its constants in one
named ASSUME (RamCircBuff in three), which TLC evaluates in the runs:
sizes are positive, RXBuff is not larger than the storage, identifiers and
callbacks are distinct, `FrameMax` has room for the header, an answer of the car
fits its caller's array and, in protocol 68, one frame.

**Recursion.** The sums of bytes in Uplink and CANRecorder are recursive
functions. Their equations are proved without an induction theorem, by looking
at a smallest counterexample (`Smallest`, from the well-foundedness of < on Nat).

**Only model-checked.** Liveness under fairness, which is beyond the prover:
`FullRingDrains`, `AddResultsReturns`, `EveryFrameTaken`, `ConfigApplied`,
`EveryExchangeEnds`. The four violations are TLC's too. Every other property
of a passing run is also a theorem.

## Not modelled

Third-party code (lwIP, mbed, RTX, USBHost, HTTPClient, TinyGPS, SDHC) is used
as its callers use it. It is nearly all of the repository: of some 120,000
lines, those of the firmware itself are a few thousand, so the map covers a
small share of the whole and most of the product's own logic.

Of the firmware: conversion of measurements, GPS message parsing, register
access, debug output and the host tools hold no interaction worth a state
machine. `CANInterface::Send`, Configure and SetFilter only program the
controller. The SD storages and the CAN analysis classes are not part of the
product build. MyThread's Stop and WaitEnd, CANRecorder's DeActivate and the
destructor of a diagnosis sensor are called only where StopDynSensors never
gets. Of the AT interface, close, the entry prompt and the event handlers are
unused, and so is PPPIPInterface's disconnect. The bytes of a line, in
tryReadLine and MtxCircBuffer, are abstracted to whole lines.

## Plan

1. Done: RamCircBuff, MyMemoryAllocator, Uplink, CANInterface, Reconfig,
   CANDiag, CANRecorder and Modem, and the proof of every safety property that
   a passing run checks.
2. Open: the callback table of CANInterface composed with the dynamic list of
   Reconfig, for the sensors that StopDynSensors leaves behind; the ring inside
   Uplink instantiated with RamCircBuff, so that `RingImplementsFifo` is used by
   a theorem and not only by the argument above.
