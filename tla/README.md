# Control Surface in TLA+

TLA+ models of the Control Surface library (`src/`), checked with TLC and, for
the core, proved with TLAPS. This file says what the library consists of, what
is modelled and how, what each run and each theorem shows, and what is left.

The library turns an Arduino-class microcontroller into a MIDI controller. It is
mostly sequential code called from one `loop()`. The exceptions carry the
difficult behaviour: the USB back ends share buffers with interrupt handlers, the
Bluetooth back ends share a packet builder and a ring buffer with a second thread
or with stack callbacks, and the sequential parts keep protocol state (running
status, SysEx in progress, stalled pipes, locked banks) over long call sequences.

Sections 3 to 6 are about the concurrent parts, 7 to 9 about the sequential ones,
and section 10 lists what is left out. Each says what the code does, how the
modules correspond to it, what the runs show within which bounds, and what is
proved.

## 1. Inventory

Paths are below `src/src/`.

| Component | State | Operations | Interacts with | Hard behaviour | What makes it correct |
|---|---|---|---|---|---|
| **BulkTX** `MIDI_Interfaces/USBMIDI/LowLevel/BulkTX.*` | two buffers; atomic pointers `active_writebuffer`, `sending`, `send_later`, `send_now`; connection flag, error count | `write`, `send_now`, `is_done`, `timeout_callback`, `tx_callback`, `reset` | timer and USB hardware through the back end | three contexts preempt each other at every statement; hand-written try-locks; lost wake-ups; reset in the middle of a call | messages arrive in order, once, and without a further call; no two transfers at a time; no write to a buffer in flight |
| **BulkRX** `…/LowLevel/BulkRX.*` | ring of packet buffers with `available`, `read_idx`, `write_idx`, `reading` | `read`, `rx_callback`, `reset` | USB hardware through the back end | `reading` passes between reader and handler when the ring is full | no unread buffer is received into; reception restarts when there is room; FIFO |
| **USB back ends** `…/USBMIDI/mbed`, `…/Teensy-host`, `util/Atomic.hpp` | pipes or endpoints, timeout | `tx_start`, `start_timeout`, set-configuration, claim, disconnect | call BulkTX and BulkRX | configuration interrupts the main program | the sequence of calls BulkTX and BulkRX expect |
| **ThreadedBLEMIDISender** `…/BLEMIDI/ThreadedBLEMIDISender.*` | packet builder, `flush`, `stop`, mutex, one condition variable, `min_mtu`, timeout | `acquirePacket`, `releasePacketAndNotify`, `sendNow`, `updateMTU`, the sender thread, the destructor | BLE back end's `sendData` | one condition variable for two kinds of waiters, timeouts, shutdown | no packet is lost or left unsent; `sendNow` returns |
| **PollingBLEMIDISender** `…/BLEMIDI/PollingBLEMIDISender.*` | packet builder, time of first message | the same, from the main loop | stack callbacks | MTU changes under a half-built packet | as above |
| **BLEMIDIPacketBuilder**, **GenericBLEMIDI_Interface** | packet, running status, timestamps, capacity | `add3B`, `addSysEx`, `continueSysEx`, … | sender, receiver's parser | capacity boundaries; SysEx over several packets | the receiver's parser yields the messages that were sent |
| **BLERingBuf**, **BufferedBLEMIDIParser**, **BLEMIDIParser** | byte ring with read and write positions and size headers; parser position | `push`, `pop`; `pushPacket`, `popMessage` | stack callback (producer), main loop (consumer) | wrap-around splits packets into chunks; full ring | every packet accepted is parsed as if it had arrived in one piece |
| **BLE back ends** (ESP32, BTstack, ArduinoBLE) | connection, characteristic, MTU | connect, disconnect, subscribe, MTU, notify | vendor stacks | callbacks on another task | nothing is sent on a stale connection |
| **SerialMIDI_Parser**, **USBMIDI_Parser**, SysExBuffer | running status, third-byte flag, SysEx buffer per cable | `pull`/`parse`, `resume` | interface | real-time bytes inside messages; aborted and overlong SysEx | the parser yields the longest well-formed reading of the stream |
| **MIDI senders** (`MIDI_Sender`, `USBMIDI_Sender`, `SerialMIDI_Interface`) | partial SysEx triple per cable | `send*` | parser on the other side | SysEx split over calls | inverse of the parser |
| **MIDI_Pipes**, **MIDI_Interface**, MIDI_Staller | linked pipes, through flags, staller pointers | `connect`, `disconnect`, `sourceMIDItoPipe`, `stall`, `unstall` | interfaces, Control_Surface | a stalled chain with a shared sink; disconnecting a stalled pipe | while one source sends a chunked SysEx no other source reaches the same sink; nobody stalls for ever |
| **Control_Surface** | default pipes | `begin`, `loop`, `updateMidiInput` | everything | order of updates | every element updated once per loop |
| **Updatable**, **LinkedList** `AH/Containers` | intrusive lists of enabled and disabled elements | construct, move, `enable`, `disable`, `applyToAll` | all elements | static initialisation order, moving while listed | membership equals liveness |
| **Banks**, bankable addresses, **Selectors** | selected setting, lock on the address of a note in progress | `select`, `lock`, `unlock`, `getActiveAddress` | outputs, inputs | bank change while a note is on | note-off goes where its note-on went |
| **Buttons**, matrices, increment/decrement buttons | debounced state, times | `update` | pins, clock | clock wrap-around, bounces | one edge per press |
| **Encoders** | position shared with pin interrupts | `read`, interrupt handler | pins, I/O expanders | torn reads of the position | no step lost |
| **Extended I/O**, filters, timing | register images, filter state | `updateBufferedOutputs`, `filter`, … | hardware | sequential | arithmetic at the limits of the width |
| Displays, audio, print streams, constants, debug and wrapper interfaces, vendored code | | | | none of interest | |

`PROJECT.json` lists the same components with what is modelled of each, and under
`hazards` each difficulty at the line where it bites with the properties that
watch it.

## 2. Plan

The order is by how hard the code is to test.

| | Modules | State |
|---|---|---|
| 1. BulkTX | `BulkTX` implements `MIDIFifo`; `BulkTXInv`, `BulkTX_proofs` | checked, safety and refinement proved |
| 2. BulkRX | `BulkRX` implements `MIDIFifo`; `BulkRX_proofs` | checked, safety and refinement proved |
| 3. BLE receive buffer | `BLERingBuf` implements `MIDIFifo`; `BufferedBLEMIDIParser` extends it; `BLERingBuf_proofs`, `BufferedBLEMIDIParser_proofs` | checked, safety and refinement proved |
| 4. Threaded BLE sender | `ThreadedBLEMIDISender` implements `MIDIFifo`; `ThreadedBLEMIDISender_proofs` | checked, safety and refinement proved |
| 5. Pipes and interfaces | `MIDI_Pipes` implements `MIDIRouting`; `MIDI_Interface` extends it | checked |
| 6. BLE MIDI, sender to receiver | `GenericBLEMIDI_Interface` composes `BLEMIDIPacketBuilder`, `BLEMIDIParser`, `SerialMIDI_Parser`; `BLEMIDIReader_proofs`, `GenericBLEMIDI_proofs` | checked, safety proved except `Resynchronises` |
| 7. Banks, selectors, buttons | `BankedSurface` composes `Selector` on `Bank`, `IncrementDecrementButtons` on `Button`, `BankableElements`; `BankedSurface_proofs` | checked, safety proved |

`MC...` modules give the constants their values for TLC. The modules of item 5 use
recursive operators, as the code recurses along links, and are out of TLAPS' reach.

Of items 1 to 4 and 7 every safety property the runs check is proved for all values
of the constants, of item 6 all but one, under the assumptions that sections 3 to 6,
8 and 9 name. The inductive invariants of items 1 to 4 and 7 were checked by TLC on the
instance of the run before they were proved; that of item 6 ranges over all
histories, which TLC cannot enumerate. A proof worth having next: `Resynchronises`.

All runs and what each is expected to give:

| Run | Module | Expected |
|---|---|---|
| `bulktx` | `MCBulkTX` | pass |
| `bulktx_isdone` | `MCBulkTX` | violation of `IsDoneMeansDone` |
| `bulkrx` | `MCBulkRX` | pass |
| `bleparser` | `MCBufferedBLEMIDIParser` | pass |
| `threadedble` | `MCThreadedBLEMIDISender` | pass |
| `pipes` | `MCMIDI_Pipes` | pass |
| `pipes_through` | `MCMIDI_Pipes_through` | violation of `ExclusiveAccess` |
| `interfaces` | `MCMIDI_Interface` | pass |
| `blemidi` | `MCGenericBLEMIDI_Interface` | pass |
| `blemidi_continuation` | `MCGenericBLEMIDI_Interface` | violation of `ContinuationIsSysEx` |
| `banks` | `MCBankedSurface` | pass |
| `banks_leds` | `MCBankedSurface` | violation of `LedsShowSetting` |

Operators whose comment begins with "Mutant" are plausible mistakes in the
operator that follows; `PROJECT.json` says which property rejects each.

## 3. BulkTX

### The code

The main program copies messages into the buffer `active_writebuffer` points to.
A buffer with data is sent when it is full, when a timeout expires or on
`send_now()`. The transmission is asynchronous; its completion interrupt
(`tx_callback`) frees the buffer and starts the next one when somebody asked for
it. There are no blocking locks: `active_writebuffer` is taken by exchanging it
with null, and the sending lock is the pointer `sending`, taken by
compare-exchange from null. Who fails to get a lock leaves a note (`send_now`)
for its owner, and the code's comments number the places (1) to (8) where these
notes are written and read.

### The model

`BulkTX.tla` keeps every one of those shared variables under its name in camel
case, `data[b]` for the contents of a buffer, and a program counter per context.
Every access to an `interrupt_atomic` variable is a step of its own. `over[h]`
says which context handler `h` interrupted; a handler runs to its end before that
context resumes (`Running`), and `Nesting` says which handler may interrupt
which. The statements of `write_impl`, `send_now` and `timeout_callback` from
announcing a buffer to starting its transfer are the same sequence three times in
the source (with one difference, in `TakeBuffer`) and are one set of actions with
a context parameter here.

| Code | Actions |
|---|---|
| `write`, `wait_connect` | `Write`, `WaitConnect`, `PollConnect`, `GiveUp`, `Return` |
| `write_impl` up to releasing the buffer | `Acquire`, `Copy`, `Release` |
| … what becomes of the buffer | `StoreLater`, `ArmTimer`, `TakeBackLater`, `CancelTimer`, `StoreNow`, `CheckNow` |
| `send_now`, start of `timeout_callback` | `SendNow`, `TimerInterrupt`, `TakeLater`, `SendNowCancelTimer`, `Mark` |
| sending a buffer | `Lock`, `Recheck`, `Unlock`, `TakeBuffer`, `ClearNow`, `Publish`, `Start` |
| `tx_callback` | `UsbInterrupt`, `LoadSent` … `UsbLock` |
| `is_done` | `IsDone`, `LoadIsDone`, `IsDoneTrue` |
| `reset` from the back ends | `Disconnect`, `Reconnect`, `Reset` |

Messages are numbered in the order in which they are copied, so a buffer is a
sequence of numbers and a lost, duplicated or reordered message shows in `wire`,
what the host received. `accepted` and `settled` are the history variables of the
abstract specification `MIDIFifo`: consecutive messages in packets of 1 to
`PacketSize`, at most two packets outstanding, loss only by a reset and then of
everything outstanding.

External parts, modelled from how the code uses them: the timer (`timer`,
`TimerInterrupt`) and the transfer (`inflight`, `UsbInterrupt`); a transfer that
was in flight when the host goes away never completes, as both back ends cancel it.

Bounds: `MaxMsgs` messages over all calls, `MaxBatch` in one call and
`MaxDisconnects`. Two buffers of two messages with four or five messages let both
buffers fill, wrap and fill again while the other is in flight, so every one of
(1) to (8) is reached with both outcomes.

### The runs

| Run | Asks | Answer |
|---|---|---|
| `bulktx` | With both handlers allowed to interrupt each other anywhere (the signal handlers of `test-USBBulk.cpp` do that), and hosts that go away and come back while the main program is between two calls of `write_impl`: the code's assertions, one transfer at a time and never an empty one, the buffer in flight is untouched, no request forgotten at rest, `MIDIFifo` implemented. While the host is there, does every accepted message reach it with no further call, and does `write` return? | holds |
| `bulktx_isdone` | "Check if all transfers have completed" (BulkTX.hpp:50): is nothing outstanding when `is_done` says so? | **violated**: three separate loads; a timeout after the first moves the buffer past the others |

`ResetPoints` is an assumption. When `reset()` may interrupt the main program
anywhere (`ResetPoints <- MainLabels`), TLC finds the assertion of `tx_callback`
that it owns the sending lock (BulkTX.ipp:304) violated: the lock is cleared under
a context that is about to start its transfer. The mbed back end does call
`reset()` from the USB interrupt.

Fairness (`Fairness`, needed for the two liveness properties): the processor keeps
executing the running context, an armed timer fires and a started transfer
completes. Nothing is assumed of the application or the host; without a host
`write()` waits for a reconnection, which is the `~connected` in the two.

### The proofs

`BulkTX_proofs` has three parts. The first proves `TypeCorrect`, `Spec => []TypeOK`, for all values of the
constants, with no condition on where resets happen. The strengthening `SizesOK`
is what the two unsigned subtractions of `write_impl` rely on: a buffer never
holds more than a packet, and never more messages are copied than were offered.

`BulkTXInv` states the inductive invariant `IInv` behind the algorithm, which the
code's comments only hint at. Its idea: `cur`, the buffer that accepts messages,
is defined even while a context holds it, and the wish to send `cur` is a token
that exists at most once, in `send_later`, in `send_now`, or in the hands of one
context. Only who removes the token from `send_now` under the sending lock makes
the other buffer current. The parts: `StackOK` (how handlers nest), `LockOK` (the
sending lock belongs to one context or to the transfer), `BufferOK` (so does the
active buffer), `TokenOK`, and what each context knows at each statement
(`MainOK`, `TimerOK`, `UsbOK`). None of the assertions is inductive alone: that
`active` is null or `act` in `tx_callback` (4) needs the token to be unique,
which needs the ownership of `cur` by every context.

The second part of `BulkTX_proofs` proves that every step preserves it, one lemma per operation
and context, and concludes `AssertionsCorrect`, `TransfersCorrect` and
`InFlightCorrect`. They assume `QuietResets`: a reset finds the main program
between calls or waiting. The counterexample above shows that the assumption is
needed.

The third part adds the contents of the buffers (`DInv`, also in `BulkTXInv`),
under the same assumption. `ContentOK`: the buffers hold consecutive messages, and
those in flight or about to start come right before those in `cur`. `EmptiedOK` and
`LockHeld`: a buffer that becomes current is empty, because its transfer has ended.
`RequestOK`: whoever sees data that nobody has asked to send is on its way to asking
for it. From these follow `FifoCorrect`, that `BulkTX` implements `MIDIFifo` step by
step, and `NothingForgotten`, the promise to a sender at rest.

Only model-checked: liveness, which is out of the prover's reach.

Not modelled: `write_nonblock` (it calls `write_impl` with three arguments and
cannot be instantiated), and the byte layout of messages.


## 4. BulkRX

### The code

A ring of packet buffers. `rx_callback`, the completion interrupt, stores the
packet it received, makes it available and starts the next transfer if the ring
is not full. `read()` returns one message at a time from the oldest buffer; when
the buffer is empty it is given back. If the handler found the ring full it has
cleared the flag `reading`, and it is `read()` that starts the next transfer: it
decrements `available`, then exchanges `reading` with true, and starts when it
was false.

### The model

`BulkRX.tla` splits `read()` at its accesses to shared state (`Load`, `Copy`,
`Advance`, `Release`, `Resume`, `Start`); the handler runs to its end before the
main program resumes and is one action, `RxCallback`, of the two cases
`StorePacket` and `ReceiveNothing` (less than one message in the packet). `index`
and `size` are counted in messages, with `Messages` the division the code makes
by dropping the remainder. `Disconnect` and `Connect` are the host, `Reset` what
its set-configuration interrupt does to the ring. `available` is counted modulo
`Modulus`, as the code's unsigned counter is.

Two constants say what the environment may do, because the code relies on both:
`MaxLate`, the number of packets that arrive between the decrement and the
exchange, and `ResetPoints`, where a reset may find `read()`.

### The runs

| Run | Asks | Answer |
|---|---|---|
| `bulkrx` | With at most one packet between decrement and exchange, and resets that do not interrupt the use of a buffer: does the hardware only receive into free buffers, does reception go on, is `MIDIFifo` implemented? Does an application that keeps calling `read()` get every message, and does a full ring resume? | holds |

Both assumptions are needed. With `MaxLate = 2` the ring is full again when
`read()` exchanges `reading`, and the transfer it starts overwrites the oldest
unread buffer (`ReceivesIntoFree` is violated), although BulkRX.ipp:51 says "There
is now space in the queue". With a reset inside `read()` (`ResetPoints <- Labels`)
0 is decremented, and `read()` returns stale data from then on.

Bounds: three buffers with packets of up to two messages, enough messages
to fill the ring and go round it, packets that end in the middle of a message.
Fairness is `WF_vars(Read)`: the main loop keeps calling `read()`, as
`MIDI_Interface::update` does. Packets are not assumed to arrive.

### The proofs

`BulkRX_proofs` proves for every number of buffers (at least two) and every
packet size that the indices stay inside the ring and the counter does not wrap
around (`TypeCorrect`, which no run repeats), that the hardware receives only into
the free buffer behind the unread ones (`OwnershipCorrect`), and that reception
stops only when the ring is full (`ReceptionCorrect`). All assume `Timely`:
`MaxLate <= 1` and no reset while `read()` uses a buffer, the assumptions discussed
above. The invariant is two facts: `RingOK`, that the write index is the slot
behind the unread ones, and `ReadingOK`, who holds `reading`. The latter has to
count the packets that arrived since the decrement (`late`): the transfer under
way when `read()` is about to exchange must still leave one buffer free.

`FifoCorrect` proves that it implements `MIDIFifo` under the same assumptions, from
`ContentInv`: the unread buffers, taken in the order of the ring, hold consecutive
messages, and the first of them what `read()` has not returned yet. The packet that
`read()` has finished and not released is not among those the handler counts.

Only model-checked: liveness.

## 5. BLERingBuf and BufferedBLEMIDIParser

### The code

The Bluetooth stack pushes packets, in chunks, into a ring of bytes; the main
loop pops chunks and parses them in place. A chunk lies behind a two-byte header
with its size and type. When it does not fit in front of the end of the memory,
`push` splits it and gives the second part a header of its own. Producer and
consumer share the atomic counter `size`; `pop` frees the chunk it returned last,
not the one it returns, so that the view stays valid until the next call, and it
always leaves one header in use.

### The model

`BLERingBuf.tla` takes one step for each access to `size` and one for the work on
the memory in between: `PushLoad`, `PushWrite`, `PushRelease` for `push`, and
`PopLoad`, `PopLast` with `PopEmpty`, or `PopNext` with `PopView`, for `pop`;
`Take` is the caller looking at the chunk. Data bytes are numbered in the order in
which they are pushed, and freed memory is forgotten at once, so a read of freed
or foreign memory cannot go unnoticed.

`BufferedBLEMIDIParser.tla` adds the producer in the ESP32 back end (`Receive`,
`ReceiveMore`, `DropRest`: a packet in chunks, and what becomes of it when the
ring is full) and the parser: `NextChunk` is `popMessage` getting a chunk, with which
it makes a new `BLEMIDIParser` (`Construct`) or extends the one it has (`Extend`),
`Pull` takes one byte, and `EndChunk` finds that there is none left. Bytes have the
roles their sender gave them (header, timestamp, status, data); the parser sees only
whether a byte is data, and `Pull` and `Skipped` are its treatment of timestamps and
headers. The bytes go through the parser one per step, so that a chunk being pushed
interleaves with each of them.

### The runs

| Run | Asks | Answer |
|---|---|---|
| `bleparser` | With packets in chunks, and dropped when the ring is full: do the indices stay inside, does `pop` only take headers for headers, is the view valid until the next call (`BufferSound`)? Do the bytes come out as `MIDIFifo` says, and does each chunk yield exactly the MIDI bytes in it, wherever stack and ring have split the packet? Is every byte read, and is a chunk of "6 bytes less" than the capacity not refused for ever? | holds, except that a packet's bytes may be misread if the ring put an empty chunk in front |

The exception is `headless` in `YieldsItsMidiUnlessHeadless`: with `write_p` two
bytes before the end, `push` gives the first chunk of a packet the size 0, and the
parser made for it takes the packet's header for a status byte. Without it
(`YieldsItsMidi`) TLC finds a violation.

Ten bytes with `MaxBytes` of 12 take both indices around the ring at every
alignment, with the split, the empty first chunk, the full ring and the empty one.
`FirstMin = 2` is the assumption that the stack delivers at least header and
timestamp in the first chunk; with `FirstMin = 1` TLC finds a violation, as the
constructor discards a chunk that is the header alone. The packets are those of
`WellFormedPackets`, which the run's module assumes and TLC evaluates. Fairness:
`push` returns and the main loop keeps popping; nothing is assumed of arriving
packets.

### The proofs

`BLERingBuf_proofs` proves of the ring alone, for every even capacity (up to the
16384 bytes that the 14 bits of a header's size can tell), `RingIsSound` and
`RingIsFifo`; `BufferedBLEMIDIParser_proofs` carries both over to the ring as stack
and parser use it, for all packets, as `BufferIsSound` and `FifoCorrect`.

The invariant is `RInv`, of which the main part is `ChainInv`: the memory in use is a
chain of chunks, in which one header leads to the next, around the end of the memory,
up to the place where the producer writes. It holds twice, for the bytes that
`size` announces, on which `pop` relies, and for those and the chunks `push` has
written and not announced yet. There is a function (`b`) that gives the number of the
byte before each chunk, so that the chain also says which bytes are where. `push` adds one
or two chunks at the end of it, `pop` takes the first from it or shortens it to its
header; three lemmas (`AddChunk`, `DropFirst`, `ShrinkFirst`) say so for any chain, and
each step of the code is one of these or leaves the memory alone. `SizeIsDistance`
alone is not inductive, because that `pop` finds a header where it looks for one
depends on every earlier split.

`ParserCorrect` is `YieldsItsMidiUnlessHeadless`, for every capacity and all packets
with `WellFormedPackets`: one header in front, a timestamp before every status byte,
never two timestamps in a row, and `FirstMin` of at least 2. The property is about the
chunk that is being parsed; its invariant `ParserInv` has to follow the packets
through the ring. The bytes pushed are packets with their ends cut off (`RolesOK`,
`RestOK`); each chunk in the chain begins a packet or continues one, as its type says
(`ChunksOK`, and `PushOK` for the one `push` is writing), also after a packet whose end
was dropped; and the parser knows whether the byte before the next one was a timestamp
(`PrevOK`), which is why a chunk can be continued after any byte. The exception is
carried along: the chunk at the beginning of the memory behind an empty one at the end
(`Orphan`), which the history variable `headless` marks from the time the empty one is
popped (`HeadOK`). TLC has checked `ParserInv` on the instance of the run and with
`Capacity` 8 and `MaxBytes` 16.

Only model-checked: liveness.

Not modelled: memory orders weaker than sequential consistency (the code pairs
acquire and release on the one shared counter). The bytes themselves, timestamps
and the parser behind are the subject of section 8.

## 6. ThreadedBLEMIDISender

### The code

The main program adds messages to a packet under `shared.mtx`; a background
thread sends the packet a while after its first message, or at once when the main
program sets `flush`. One condition variable serves both directions: the sender
waits on it for data and for the flush, the main program for the end of the flush.
A message that does not fit is added again after a flush, which releases the
mutex in between. `updateMTU` may be called by the main program and by the
Bluetooth task; it computes the MTU without the mutex and sets the capacity with
it, or leaves that to the sender if the packet is not empty.

### The model

`ThreadedBLEMIDISender.tla` has three threads, `"main"`, `"sender"` and `"ble"`,
each at a label of `pc`. Mutex and condition variable are external and modelled
by their contract: `Acquire`, `Release`, `Block` (give up the mutex and wait in
one step), `Notify` (one waiter, any), `WakeSpuriously`, `Relock`. A thread runs
between two operations on them, or between two accesses to the unguarded
`min_mtu` and `force_min_mtu`, in one step.

| Code | Actions |
|---|---|
| `sendImpl`, `sendSysExImpl`, `acquirePacket`, `releasePacketAndNotify` | `Send`, lock, `Add`, `AddAgain`, release, notify |
| `sendNow`, `sendNowImpl` | `SendNowImpl`, `SendNow`, notify, lock, `WaitFlush` |
| `updateMTU`, `forceMinMTU`, `handleMTU` | `HandleMTU`, `ForceMinMTU`, `LoadMinMTU`, `LoadForce`, `StoreMinMTU`, lock, `SetCapacity` |
| `handleSendEvents` | lock, `WaitData`, `WaitTimed`, `Timeout`, `SendData`, `Reset`, notify |
| the destructor | `Destroy`, lock, `SetStop`, notify, `Join` |

The contents of a packet are message numbers. A message adds one byte to a packet
when running status and timestamp are those of the one before, and up to four when
both are not; `Additions` chooses among all sizes, but gives the first message of a
packet no running status (section 8 has the bytes themselves). A SysEx
message is up to `MaxPieces` pieces, of which all but the last fill the packet. The
timeout may expire at any time, so durations and `setTimeout` have no place in the
model.

### The runs

| Run | Asks | Answer |
|---|---|---|
| `threadedble` | Can anybody sleep through what it waits for (`NoLostWakeup`)? Does a message fit at the second attempt (`SecondAttemptFits`)? Does an empty packet have the capacity of the current MTU (`CapacityFollowsMTU`)? Is the packet a `MIDIFifo`? Is every message sent and does every call return? | holds |

No MTU but 0, which means none, is forced in this run. `updateMTU` loads and stores `min_mtu` and
`force_min_mtu` outside the mutex; when `forceMinMTU` ("Override the minimum MTU",
ThreadedBLEMIDISender.hpp:89) and an MTU exchange overlap, the Bluetooth task may
store its MTU after the main program's: `LoadForce` of the one before, and
`StoreMinMTU` after, the steps of the other. The forced MTU then does not hold. No
property here states that it does.

Bounds: three messages in pieces of up to two, two changes of the MTU, and the
smallest MTU there is, for one message of full size. So every message of full
size fills a packet and SysEx messages need a flush in the middle; a flush, a
timeout and an update meet in every order. The system stops after the destructor, hence
`CHECK_DEADLOCK FALSE`; `CallsReturn` shows that it does not stop elsewhere.

Fairness: running threads are scheduled (weak); the timeout expires although
spurious wake-ups restart the wait, because the code waits until a fixed point in
time, and the mutex goes to a thread that keeps asking for it (strong).

Three things that the models show by their shape, and that a reader of the code
may want to know: on the stop signal the sender thread ends without sending
(`SendData`), so messages in the packet at destruction are dropped; `min_mtu` is
the MTU of the client that reported last, not a minimum over clients
(`HandleMTU`); and `handleMTU` takes the mutex in the Bluetooth task.

### The proofs

`ThreadedBLEMIDISender_proofs` proves `TypeCorrect`, `MutualExclusion`,
`WakeupsCorrect`, `SecondAttemptCorrect` and `CapacityCorrect` for any number of
messages and all MTUs in `uint16_t` that leave space for one message
(`ConstantsAssumption`; `setCapacity` asserts as much). The invariant has layers, each preserved by every
step given the ones below it:

1. `LockInv`: a thread is at a label where the mutex is held exactly when it owns
   it. One lemma (`LockKept`) covers a thread that goes on with or without the
   mutex, takes it or gives it up, and every action is one of these.
2. `MTUInv`: every MTU that is stored anywhere is large enough.
3. `CountInv`: what was accepted is in the packet or settled. Between `SendData`
   and `Reset` a message is both, which is only sound because nobody adds to the packet
   then; this is where `LockInv` is needed.
4. `WakeInv`: `NoLostWakeup`, and what it rests on: who is among the waiters has
   called `wait`, at most one thread waits when the other one notifies, the packet
   stays empty from the end of the flush to the second attempt, and after the stop
   signal the main program only joins.
5. `CapacityFollowsMTU`.
6. `SizeOK`, the bytes in the packet: they are within the capacity, which is within the
   largest MTU; the first message takes at least two, every other at least one. So
   `MIDIFifo`'s capacity follows.
7. `NumberedOK`: the packet holds consecutive messages, the last one accepted at the
   end. With `CountInv` this gives `FifoCorrect`, that `MIDIFifo` is implemented.

Only model-checked: liveness.

## 7. MIDI pipes and interfaces

### The code

A pipe connects one source to one sink. A second pipe of the same source hangs on
the "through" output of the first, a second pipe to the same sink ends at the
through input of the first, so that source and sink keep one pointer each.
Disconnecting a pipe links its neighbours to each other. A source in the middle of
a system exclusive message that arrives in chunks *stalls* its pipes: it is the
only one that may send to its sinks. The pipes remember who stalls their sink and,
separately, their through output. Who wants to send through a stalled pipe first
calls `handleStall()` of the staller, which reads on until its message is over or
nothing has come for a while. There is one thread, but these calls nest.

### The model

`MIDIRouting.tla` says what an application is promised: each pipe has at most one
source and sink; connecting, disconnecting and moving change the routes named and
no others. `MIDI_Pipes.tla` is the linked structure. The fields of all objects form
the record `net`, and the member functions that call each other along links are
recursive operators from `net` to `net`, with the caller (`from`) as in the code.
Its refinement mapping `Route` follows the links to the two ends.

| Code | Definitions |
|---|---|
| `MIDI_Sink::connectSourcePipe`, `MIDI_Source::connectSinkPipe` | `ConnectSourcePipe`, `ConnectSinkPipe`, actions `ConnectSource`, `ConnectSink` |
| `MIDI_Pipe::disconnect`, the destructors | `UnlinkSink`, `UnlinkSource`, `DisconnectPipe`; `Disconnect`, `DisconnectSource`, `DisconnectSink` |
| `swap` of sources and sinks, used by the moves | `SwapSources`, `SwapSinks`; `MoveSources`, `MoveSinks` |
| `acceptMIDIfromSource` | `Deliveries`, the sinks in the order in which a message reaches them |
| `stall...`, `unstall...`, `getStaller` | operators of the same names; `Stall`, `Unstall` |

`MIDI_Interface.tla` adds interfaces whose pipes are wired once (`Wiring`). Its
state is the stack of calls in progress: `BeginUpdate`, `ContinueUpdate`,
`EndUpdate` are `updateIncoming`; `HandleEvent`, `HandleTimeout` are `handleStall`;
`CallSinkStaller`, `CallThroughStaller` are the two halves of a round of
`handleStallers`; `Deliver` passes the event on. An event is one of `"message"`
(channel or system common), `"chunk"`, `"end"` (of a system exclusive message) and
`"realtime"`; what is read, and when a read finds nothing, is the environment's
choice.

### The runs

| Run | Asks | Answer |
|---|---|---|
| `pipes` | Do the two ends of every link agree and is no fatal error reached? Does a message take every pipe of its source once? Does `getStaller` name a staller exactly for the sources that share a sink with one that stalls (`ExclusiveAccess`)? Is `MIDIRouting` implemented? | holds |
| `pipes_through` | The same for stalling, with a source of three pipes | **violated**: a through output remembers one staller; when that one un-stalls, the source finds its pipes free although another still stalls a sink behind them |
| `interfaces` | Does nothing but real-time messages come between the chunks of a message? Does every event arrive once and in order, and do all nested calls return? | holds, with two exceptions |

Bounds of `pipes`: two sources, three sinks, three pipes, all orders of connecting,
moving, stalling and disconnecting; chains of three at either end occur, and so
does the removal of their first, middle and last pipe. The three sets are
symmetric. `MaxParallel = 2` is the number of pipes between the same two ends:
stalling descends through the sink and through the through output of a pipe, and
with three parallel pipes this recursion comes back to a call still running and
never ends (`Endless`). With `MaxParallel = 3` TLC reports it as a fatal error.
After a connection or disconnection while somebody stalls (`stale`) nothing is
claimed of stalling, because the code does not try to keep the stallers right.
`pipes_through` has five pipes in a fixed wiring.

Bounds of `interfaces`: three interfaces; one has a pipe to the sink of each of the
others; three events each, so that a message has a beginning, a chunk and an end
or something in between. The exceptions in `NoInterleaving`: `gaveUp`, a message
that `handleStall` has stopped waiting for, which is what the timeout is for; and
`loosened`, a message in whose middle an update read only a real-time message: the
interface un-stalls its pipes before sending that, and does not stall them again
(MIDI_Interface.hpp:147 and 162), so the rest of the message may be interleaved.
The liveness `EventsArrive` assumes only that the processor goes on (`WF` of
`Step`); that updates begin is not assumed.

Not modelled: pipes that change or filter messages, stallers of the application
that never un-stall (for which there are the `Attempts`), and messages sent by
Control_Surface itself, which is a source like the others.

## 8. MIDI over Bluetooth LE, from sender to receiver

### The code

`GenericBLEMIDI_Interface` adds messages to a packet: a header with the high six
bits of the time, then for each message a timestamp byte with the low seven and the
message, of which a running status is left out. What does not fit is added to the
next packet after sending this one; a system exclusive message may fill several
packets. `PollingBLEMIDISender` sends a packet on request, when full, or when it
is older than a timeout and somebody calls it. The receiver takes packets apart
again (`BLEMIDIParser`) and feeds the bytes to `SerialMIDI_Parser`, which keeps its
own running status and a buffer for system exclusive data.

### The model

`BLEMIDIPacketBuilder`, `BLEMIDIParser` and `SerialMIDI_Parser` are operators on
records of the fields of these classes, with messages as sequences of bytes.
`GenericBLEMIDI_Interface` is the state machine: `Send` is one call of a send
function until the message has been added or the packet must go; `Flush` sends it
and goes on with the message; `Release` sends a packet that is too old at the end
of the call; `Poll` is the backend's `popMessage`; `SendPacket` is `sendNowImpl`;
`HandleMTU`, `ForceMinMTU` change the capacity. Callbacks run inside `popMessage`,
as those of ArduinoBLE do. Whenever a packet is sent it arrives, or loses its bytes
from one of `Cuts` on (0 is all of it): without a connection `sendData` drops it,
and a full receive buffer drops the end of one.

`sent` is what the receiver should read. The receiver `rx` is its parser and what it
has read, and changes when a packet is sent; `RxThen` is `rx` after the packet that is
being filled. `lastStamp` and `skewed` are history too: the last time that the packet
tells, and whether it has a gap that one byte cannot tell. A capacity can also come from
`NoForce`, the MTU of 515 that stands for none, if a client negotiates it.

### The runs

| Run | Asks | Answer |
|---|---|---|
| `blemidi` | Are the same messages read in the same order (`ReadsWhatWasSent`), with the right times (`TimestampsRight`)? After a loss, are the messages of the next packet all read (`Resynchronises`)? Does no packet exceed its capacity, and none wait for ever (`EverythingSent`)? | holds, with the exceptions below |
| `blemidi_continuation` | "If the second byte is a data byte, this is a SysEx continuation packet" (BLEMIDIParser.hpp:32): is data in front of the first timestamp never read as another message? | **violated**: with the first packet lost, it is read with the running status of an earlier packet |

Bounds: messages of every kind (`AllMessages`), three in a row with changes of the
MTU and losses counted among them; packets of five to seven bytes, so that three
bytes reach every boundary; a system exclusive buffer of four, which a message of
seven fills twice; a clock that begins shortly before its 13 bits overflow, and
delays of 0, 9 and 119 ms, which add up to gaps within, at and beyond what one byte can tell.

Exceptions. `TimestampsRight` leaves out packets with a gap of 128 ms or a step back
in time (`skewed`): the timestamp byte cannot tell such a gap, and a system
exclusive message avoids the timestamps 0x77 and 0x7F by subtracting one, which may
take it below the message before it. The time of a continuation without its end
byte has its low bits zero, as the packet format says. `Resynchronises` is about
messages other than system exclusive ones: after a packet that is cut in a
three-byte message, `SysExStart` does not clear `thirdByte`
(SerialMIDI_Parser.cpp:53), and the first data byte goes astray.

Fairness: calls return, and the main loop polls while time passes (`WF` of `Flush`,
`Release`, `Poll`). A sender that is only written to and never polled may keep its
last packet for ever.

### The proofs

`GenericBLEMIDI_proofs` proves three of the four safety properties of the run, for all
messages, packet sizes, delays and sizes of the system exclusive buffer.

- `TypeCorrect` (`TypeOK`): that a packet never exceeds its capacity. The builder copies
  bytes without a check, so every branch of `addImpl`, `addSysEx` and `continueSysEx` has
  to have subtracted the header, the timestamps and the end byte before.
- `ReadCorrect` (`ReadsWhatWasSent`) and `TimestampsCorrect` (`TimestampsRight`): what is
  sent is read, unless bytes are lost, with its bytes, in its order and with its time.

The invariant is `TypeInv /\ ReadInv`. It is about a receiver that has read all of the
packet so far: it would have read what was sent (`Matches`), its running status is what
the builder thinks it is (`InStep`), its clock is at the last time the packet tells
(`Told`), and if a call is in the middle of a message, then the rest of that message
is what is missing of `sent`. The properties alone are not inductive: whether the
builder may leave out a status byte, a timestamp or a header depends on what it
has written before, and whether that is read right depends on what the receiver
remembers. `InReach` is this for one receiver and one packet, and each operation of
the builder keeps it: `Send` and the three ways to go on after a flush.

The packet grows at its end while the receiver reads from its beginning, so
`BLEMIDIReader_proofs` first shows that the position of the reader behind the packet
(`Cursor`) is moved by an appended byte as by a byte that is read (`RxStep`), and what each
kind of byte does to a reader in each state: a data byte, a timestamp, a status byte, the
bytes of a system exclusive message when the buffer has room, is full, or is full at the
end byte. Chunks of any length need induction over their bytes, and so does `RxThrough`,
a recursive function. As the library's induction theorems take an operator as their
parameter, `NatSetInduction` states induction for a set of numbers, and follows from the
well-foundedness of the subset ordering on finite sets.

Two hypotheses. `~SysCommonCancels`: a system common message leaves the running status
alone, as `BufferedBLEMIDIParser` configures its parser (`parser {false}`,
BufferedBLEMIDIParser.hpp:23), for in a BLE packet it may follow. And
`WellFormedMessages`: a message has the length its status byte demands, with data bytes
below 128, and is not one of the undefined 0xF4 and 0xF5; system exclusive ones are
chunks of the form the send functions take. The messages of the run are such messages.

The proofs changed the model in two places. The time of a system exclusive chunk without
a timestamp had been taken for the last time the packet tells (`StampIn` says what it
is), and `TypeOK` had not counted the capacity that comes from `NoForce`.

Only model-checked: `Resynchronises`, which is about a receiver in any state after a
loss, and `EverythingSent`, a liveness property.

## 9. Banks, selectors and buttons

### The code

A bank has a setting, which shifts the addresses of the elements in it. A selector
changes the setting, on presses of buttons or on program changes, and shows it with
LEDs. An output element locks the setting while it has a note on, so that the note
off goes to the address of the note on; an input element remembers what it has
heard for every setting and shows the value for the present one. Everything runs
in `Control_Surface.loop()`.

### The model

`Button` is the debounced button; `IncrementDecrementButtons` makes presses, long
presses and a reset of two of them; `Bank` computes addresses and matches them, in
the widths of the code; `Selector` is `GenericSelector` with the LED callback;
`BankableElements` are `MIDIButtons`, `MIDIChordButton`, `MIDIButtonLatched` and
the LED for notes. All are operators on records. `BankedSurface` is the state
machine of one selector and one element: `UpdateSelectorPair`, `UpdateManyButtons`
or `SkipSelector`, then `UpdateKey` or `UpdateElement`, and between rounds the pins
(`ToggleSelectorPin`, `ToggleKey`), the clock (`Tick`), the sketch (`SetChord`) and
incoming messages (`ReceiveNote`, `ReceiveAllNotesOff`, `ReceiveProgram`). The loops
of `ManyButtonsSelector` and `MIDIButtons` over their buttons are one step for each
button; `index` is the button they are at. The code
only ever compares the difference of two times with a constant, so a time is
modelled as an age that stops at `MaxAge`.

### The runs

| Run | Asks | Answer |
|---|---|---|
| `banks` | Do selector, bank and LED agree? Is every note turned off at the address at which it was turned on, wherever the bank went and whatever chord was set meanwhile (`NoStickyNotes`)? Does a bankable LED show what the host last said of the note that the outputs would send at this setting (`LedShowsHost`)? Does a setting change without a press only after a long one, and does a key that stays down sound? | holds, with two exceptions |
| `banks_leds` | "This version displays the setting using LEDs" (SelectorLEDs.hpp:92): is exactly the LED of the setting on? | **violated**: `reset()` announces a change from the initial setting to itself, and the LED of the old one stays on |

Bounds: three settings, two notes apart, with a negative offset; two keys on one
lock, two chords; five combinations of selector and element (`AllSurfaces`);
four to six presses, releases and messages; a debounce time of one tick and a long
press of two, so that bounces shorter and longer than the debounce time occur.
Addresses do not leave 0..127: beyond it an output wraps around and an input
matches nothing, which only a misconfigured bank does.

Exceptions: `moved`, a reset away from another setting, after which more LEDs may be
on (that is `banks_leds`); and `swapped`: if one button of a pair is pressed in the
very update that sees the other released, `longPressState` is kept, and the second
button repeats without a long press (IncrementDecrementButtons.cpp:12).

Fairness: the main loop keeps running (`WF` of `Loop`), and time keeps passing
between its rounds. `Tick` is only possible between two rounds, hence `SF`.

### The proofs

`BankedSurface_proofs` proves the four safety properties of the run for every number
of settings, keys and chords, all notes and delays. First come lemmas about the
operators on records: what a button, a selector, a key, a chord, a latch or an LED
promises of its own fields (`SelectorOK`, `KeysGood`, `ChordGood`, `LatchGood`,
`InputGood`, `HoldGood`), and that each of its updates keeps that promise. The
invariants apply them to the surface, with one lemma for each action.

- `SelectorCorrect` (`SelectorAgrees`) needs no more than `IInv`: types, `SelectorInv`
  and `OutputInv`.
- `NotesCorrect` (`NoStickyNotes`): for momentary keys the invariant is that the lock is
  held exactly while a key is down (`active` is the number of keys that are, counted
  with `Cardinality`) and that whatever sounds is the note of a key that is down at
  the *locked* setting; `NoStickyNotes` says nothing of keys that are down, so
  it is not inductive. In the middle of the loop over the keys some have been updated and
  others not; the invariant is about the debounced state, so it holds at every step.
- `LedCorrect` (`LedShowsHost`): the value stored for each setting is what the host
  last said of its note. That `matchBankable` and `getBankIndex`, which compute in
  `uint8_t`, invert the `int8_t` offset of an output is the lemma `Matches`.
- `HoldCorrect` (`HoldNeedsLongPress`): in the state of a long press, one button has
  been down and steady for the time of one.

Two hypotheses, each of which TLC shows to be needed. `BankFits`: every setting shifts
the note of the element to one in 0..127; with 64 tracks per bank two settings share a
note, and a latch that is on for one of them may have its note turned off by the
other. It is a matter of the configuration, which the code does not check. And
`DebounceTime < LongPressDelay` (25 and 450 ms in `AH/Settings/Settings.hpp`): if they
were equal a pair could repeat in the very update in which it sees the release.

Only model-checked: `KeysSettle`, a liveness property.

## 10. What is only model-checked, and what is not modelled

TLAPS has proved the theorems named in sections 3 to 6, 8 and 9. Everything else is
checked by TLC in the bounds given:

- all liveness properties, which are out of the prover's reach;
- section 7: pipes call each other along links of any length, which is recursion in
  the code and recursive operators in the model. `ExclusiveAccess` and the absence of
  fatal errors are not even true of every wiring (`pipes_through`, `MaxParallel = 3`), so
  they hold within the bounds of the runs only;
- section 8: `Resynchronises`, which says that what a receiver reads from a packet is
  the end of what another one reads that has been in any state before.

Not modelled, and why:

- The **USB MIDI parser and the senders** for USB and serial streams: case
  distinctions over one event or message at a time, with little state in between.
- **Updatable** and **LinkedList**: a sequential list with checks that are fatal
  errors. Elements that disable or destroy themselves while the list is traversed
  are undefined behaviour, which the library leaves to the sketch.
- **Encoders**: a table of transitions, and a position shared through single atomic
  operations.
- **Analog inputs and filters**: fixed-point arithmetic over wide words.
- **Button matrices, other selectors, increment and multi-purpose buttons, ranges,
  VU meters, banks that change channel or cable**: variations of what section 9
  models.
- **Extended I/O, displays, audio, text, wrappers of other libraries, the vendored
  STL**: registers, pixels and code of others.
- **USB and Bluetooth stacks**: not in this repository; their callbacks are the
  environment of sections 3 to 6 and 8. What the back ends do with them is
  modelled as far as these components see it. Left out: that `sendData` in
  `ESP32Backend.hpp:30` loads the characteristic and the connection one after the
  other, so that a reconnection in between pairs an old with a new one; that
  `handleMTU` takes a mutex in a callback where BLEAPI.hpp:124 says "You cannot
  take locks"; and that the callbacks of `BTstackBackgroundBackend.hpp:32` update
  the MTU of a packet that the main program may be filling, a data race.
- **Memory orders** weaker than sequential consistency.

`SerialMIDI_Parser`, `MIDI_Pipes` and the other operator modules treat a fatal
error as the end of the program, as `ERROR()` does on a microcontroller.
