# Cuddlebot firmware: TLA+ specifications

The repository holds two programs for STM32F4/F3 boards on the ChibiOS
real-time kernel. The **actuator** firmware runs on each of the robot's motor
boards: it listens on a shared RS-485 bus, queues setpoint sequences and plays
them on a motor, one setpoint per millisecond. The **pressure sensor** firmware
samples an 8 x 8 fabric grid and streams it over USB. These modules model both,
model-check them with TLC, and prove their main safety properties with TLAPS.

ChibiOS itself is a submodule outside the repository. Its calls are modelled
from how the code uses them and marked external in `PROJECT.json`.

## The system

### Actuator

| part | state it keeps | operations | talks to |
|---|---|---|---|
| setpoint buffers (`main.c:45-51`) | pool of 8 buffers, mailbox of 8 pointers, buffer contents | alloc, free, post, fetch, reset | comm driver, motion driver |
| motion driver (`motion.c`) | `sp`, `nextsp`, `delay`, `loop`, `duration`, `setpoint`, `spindex`, `active`, semaphore `ready` | `gpt_callback`, `driver_thread` and its `motion_lld_*` helpers, start, stop, setpoint | mailbox and pool, renderer, motor |
| comm driver (`comm.c`, `commtest.c`) | the command and its buffer, on the stack of `commHandle` | receive, service (SLEEP, PING, TEST, VALUE, SETPID, SETPOINT, SMOOTH), handle | RS-485 driver, mailbox and pool, PID renderer |
| RS-485 driver (`rs485.c`) | semaphore `ready`, last error `e`, result `err`, DMA, transmit-enable pin | `readt`, `writet`, `rs485Wait`, four UART callbacks | UART, comm driver |
| motor output (`motor.c`) | `pwmstate`, enable pin, two PWM channels; calibration: `offset`, `hibound`, inverse flag | start, stop, `motorSetI`, calibrate, position | H-bridge, position sensor |
| PID renderer (`render_pid.c`, `pid.c`) | gains, integral, last error, filtered position | reset, will_render, render, set gains | motor, motion driver, comm driver |
| pulse-step renderer (`render_ps.c`) | last setpoint, pulse left | render | motion driver |
| checksum (`crc16.c`), address (`addr.c`) | none, board address | update, load | comm driver |

Three contexts share this state on one processor. The **timer interrupt** signals
`ready` every millisecond. The **motion thread** (HIGHPRIO) waits for it and does
one period's work; with the PID renderer it sleeps in `adcConvert` while the
position sensor is sampled (`render_pid.c:23-37`). The **main thread** (NORMALPRIO)
runs `commHandle` for ever (`main.c:158-165`), hence only while the motion thread
sleeps. Buffers change owner through the mailbox; nothing else is passed.

What makes each part correct:

- *Buffers*: each has one owner; what is queued is what was sent; none is lost.
- *Motion driver*: sequences are played in order, each slot for its duration,
  each pass as often as asked; a stop stops; a counter never wraps.
- *Comm driver*: every path frees or passes on its buffer; a corrupted command
  does nothing.
- *RS-485*: a read that succeeds is whole; the bus is driven for a whole message
  and then released; signals do not leak into the next operation.
- *Motor*: the pins end as the last value says; the bridge never sees a
  combination nobody asked for.
- *Start-up*: nothing is used before it is ready, on every kind of board.
- *PID, pulse step, position, calibration*: outputs in range for any input,
  recovery from invalid input, the calibrated range holds the mechanical one.

### Pressure sensor

| part | state it keeps | operations |
|---|---|---|
| connection machine (`main.c`) | UNINIT, READY, ACTIVE, STOP | poll the USB state every 500 ms, start, stop |
| sensor (`sensor.c`) | timer, semaphore `gpt_trigger`, thread and its working area | `cm_sensor_start`, `cm_sensor_stop`, `gpt_callback`, `sampling_thread` |
| USB serial (`usbcfg.c`, `usb_serial.c`) | USB state, output queue | `usb_event` |

The sampling thread outranks main; the timer and USB interrupts come at any time.
Correct means: one thread at most, a timer only for a living thread, and samples
for as long as there is a connection.

### Hard behaviours

Buffers handed between two priorities; a stop that overtakes queued work;
counters that end at zero or mean "for ever"; signals that outlive the operation
they belong to; outputs that change pin by pin; threads told to end while they
sleep; a queue that fills up; a start-up that is preempted half-way; angles that
wrap; a shared line read out of step; a host that resets the device in the middle
of a sample. `PROJECT.json` lists them as `hazards`, each at its line, with the
properties that watch it or the reason why none does.

## The modules

    SetpointBuffers ── MotionDriver ─┐
                    └─ CommDriver ───┴─ Actuator ── ActuatorPlayer ── MCActuator
                                                          └ INSTANCE SetpointPlayer
    Motor, Rs485 ────────────────────┬─ MCDevices
    Sampling ── UsbSerial ───────────┘
    Calibration ── Boot ─────────────┐
    MotionDriver ── MotionLifecycle ─┼─ MCParts
    SerialLink, Crc16 ───────────────┤
    PulseStep, Pid, Smooth ──────────┘

and the proofs about them:

    MotionDriver ── MotionProofs ─┬─ ActuatorProofs (with Actuator)
                                  └─ LifecycleProofs (with MotionLifecycle)
    Motor ── MotorProofs          Rs485, SerialLink ── Rs485Proofs
    UsbSerial ── UsbProofs        Boot ── BootProofs
    PulseStep, Pid, Smooth ── RenderProofs

**SetpointBuffers** has the pool, the mailbox and the contents of each buffer.
Every kernel call is a critical section, so each is one operator. A freed buffer
becomes `Unwritten` (the free list overwrites it), and reading it may give any
value of the field's type. A message says itself how many slots it has and nobody
compares that with what was stored, so a message carries, as history, the slots that
were `given`; the others keep what the buffer held before, and are played all the same.

**MotionDriver** has one action per function `driver_thread` calls, in its order;
`mpc` names the function it is about to call. The steps in which the PID renderer
sleeps (`reset`, `willRender`) are separate, since the main thread may run there.
What a setpoint means to a renderer is left out: the motor shows the setpoint that
was rendered, or `Off`.

**CommDriver** has one action per stretch of `comm.c` between two buffer
operations. The master may send any command at any time, sized or not, and any
command may fail while its data or footer is read. A store through a null
pointer is undefined; at address 0 lies flash, so it is ignored or traps. The
result of the SMOOTH arithmetic is any member of `SmoothSlots`, but for the last slot
but one, which SMOOTH never writes (`comm.c:254`) and which is any of `Leftover`. A
SETPOINT may announce more slots than it brings, for `comm.c:90` checks the size of the
data against the buffer and not `n` against the data. What lies behind the end of
a buffer is left out: `SlotRoom` bounds the messages, while the code writes there for a
SMOOTH of 12700 ms or more, and reads there for an `n` above 254. A post and the
`*dp = NULL` after it are one step, because nobody but the main thread reads `*dp`.

**Actuator** composes the two threads and the interrupt and says who may run
when: main only while the motion thread is blocked. It holds the properties about
both.

**SetpointPlayer** is the abstract specification: a queue of messages, one that
waits out its delay, one that plays along its timeline tick by tick. It has no
buffers, pointers, threads or down counters. **ActuatorPlayer** maps the actuator
to it: pointers become contents, `delay`, `loop`, `duration` and `spindex` become
time waited and time played.

**Motor** is `motorSetI` write by write. The system is locked meanwhile, but the
bridge is not, so each pin or channel write is an action. motorStop and a second
motorStart clear the pins without the record of the last value; main.c calls
neither, so they are left out.

**Rs485** is `readt` and `writet` against the UART callbacks. The program counter
stands for the main thread; `rx` and `tx` are what the DMA has still to move,
`txend` a DMA interrupt not yet served, `tc` the UART's transmission-complete
flag. Callbacks are held off while the system is locked and served on unlock.
`uartStopReceiveI` returns the number of frames not received, and
`chBSemInit(.., FALSE)` a semaphore that is signalled, as in ChibiOS 2.6.
`spoiled`, `fresh`, `faulty` and `moved` are history variables for the properties.
The line may misbehave at any time: reception errors, messages that stop short,
bytes nobody waits for, and writes given less time than they need (the firmware
writes without a timeout). `faulty` remembers that it has.

**Sampling** is the pressure sensor: main's state machine with the two steps of
`cm_sensor_start` and `cm_sensor_stop` apart, because the thread and the
interrupts run between them, the sampling thread with its two writes, the timer,
the USB events and the host.

**UsbSerial** puts the real host and the tables of `usbcfg.c` under Sampling: reset,
address, descriptors and configuration are requests in any order a host may make
them, and again at any time. Of the descriptors it has the endpoints, with direction,
type and packet size, and so of the configurations the device enables. `queue` holds the
writes themselves, `heard` the last one read.

**Calibration** is `motorCalibrate` sample by sample: two runs that drive the arm home,
turn it and sweep it to the other stop, with the test that swaps sine and cosine. The
arm moves between two stops on a circle of `C` units; `Rigs` says where 0 lies, how far
the stops are apart, how far they give way the second time and how fast the arm turns.
`motorCPosition` follows, also with failed conversions and an arm pushed past its stops.

**Boot** is `main()` of the actuator: `halInit`'s pins, `addrLoad` for every way to tie
the connector, one action per object that is started, calibration step by step, and the
motion thread, which preempts main from the middle of start-up on.

**MotionLifecycle** adds `motionStart` and `motionStop` to the motion driver: the timer,
the thread and the caller. The steps of MotionDriver are those of the thread; the caller
runs while the thread sleeps. A stop that finds the thread on the semaphore never
returns: the timer is off, and only the timer signals. `Hung` is that state's only step.
Nothing in the firmware calls `motionStop`: the module is about what a caller would get.

**SerialLink** is one board's side of `comm.c` on a shared line: the master's messages
as bytes, gaps and silences, one action per read, with the outcomes `readt` has, and one
for an answer. A read that times out before its first byte passes for complete. PING,
VALUE and TEST are answered through `writet`, which mutes the receiver until the line is
idle and then turns it off (`rs485.c:79-86`): what arrives meanwhile is swallowed
(`Reply`). A master may wait for the answer or not; `asked` says that one is due, `upset` that
the master did not wait or that bytes were lost. One burst of bytes may get lost between two
silences, to noise or because no reception was armed when it came. `Letter` stands for a
letter that is answered; SLEEP's is not, but the model takes time for an answer to each,
and its master waits the longer. The answers of *other* boards are not on this line.
Footers are tokens of the content they were computed from,
none of them mistaken for another byte (`ChecksumAssumption`): what two checksums have in
common is Crc16's matter.

**Crc16** has the table of `crc16.c`, all 256 entries, the register of a sender and of a
receiver whose bytes differ in a burst, and a division by the polynomial to compare with.

**PulseStep** and **Pid** are the two renderers, called once a millisecond with any
setpoint. Pid's floats are integers in units of the noise, infinities and NaN; a product
or a sum above `Cap` overflows. The power is the sum of the three terms in the code's
order, so that terms may overflow and cancel.

**Smooth** is the arithmetic of SMOOTH in C's integers. The motion thread may widen the
range between the two reads of the position. `slots` has the slots that were written.

**MCParts** checks the parts from Calibration to Smooth in one specification, **MCDevices**
Motor, Rs485 and UsbSerial in another. The parts share no variables with one another, so
instead of interleaving them `part`, or `device`, chooses the one a behaviour belongs to.

## What is checked

| run | instance | shows |
|---|---|---|
| `actuator_safety` | 3 buffers, counters 0..2 | `ExclusiveOwnership`, `PostedIsWritten`, `PostHasRoom`, `OnlyFlushAndSmoothLose` |
| `actuator_plays` | 2 buffers, counters 0..3 | the actuator implements `SetpointPlayer` (`PlaysSetpoints`), `RendersCurrentSlot`, `LoopOnlyCountsDown` |
| `actuator_live` | 2 buffers, purr board, endless sequences | `StopTakesEffect`, `PostedIsStarted` |
| `sleep_memory` | 2 buffers | violated: SLEEP may have no buffer |
| `sleep_order` | 2 buffers | violated: a delayed sequence starts after SLEEP |
| `devices` | values -8..7, period 9; reads and writes of up to 4 bytes; USB queue of 3 writes | motor: `OutputIsLastValue`, `OnlyTurningGlitches`, `PulseFitsPeriod`; serial driver: `UnspoiledReadIsWhole`, `WholeBeforeRelease`, `BusIsReleased`, `OnlyFirstIsSpoiled`; pressure sensor: `LivingThreadIsKnown`, `TimerHasThread`, `NoSampleAfterTerminate`, `ConnectionIsSampled`, `FramesAlternate` |
| `sampling_reconnect` | the same, sensor only | violated: no samples after a reconnection |
| `usb_endpoints` | the same, sensor only | violated: endpoint 1 is described as bulk and enabled as interrupt |
| `rs485_count` | the same, serial driver only | violated: a timed-out read counts the missing bytes |
| `actuator_parts` | see *Bounds* | start-up: `ReadyBeforeUse`; calibration: `CalibratedRange`, `StretchOnlyByOvertravel`; start and stop: `StopIsClean`, `StopHangsOnlyOnSleep`; the line: `InStep`, `OnlySentIsServed`; checksum: `DetectsBursts`; renderers: `PulseThenStep`, `PulseTowardStep`, `OutputDefined`, `ErrorWithinNoise`; SMOOTH: `SmoothInsideMargins` |
| `smooth_direction` | the same, SMOOTH only | violated: a smooth motion from below the margin jumps to the other end |
| `smooth_fills` | the same, SMOOTH only | violated: a slot of the posted sequence was never written |

Each passing run but `actuator_plays` and `actuator_live` checks the type invariants of
its modules too.

The seven runs that find a violation are disagreements between the code and what
its comments say; `findings` quotes both.

Some properties say less than a reader of the code may hope, and are exact about it:

- `CalibratedRange` holds for a magnet that is `WellMounted`. With others the first run
  takes the wrong end for the lower one, or is averaged with a second run whose sine and
  cosine were swapped in between: the test for swapped signals needs two samples between
  which the arm is seen to move and not to wrap.
- `StretchOnlyByOvertravel`: an arm pushed past its *lower* stop, or a failed conversion,
  which reads as angle 0, widens the *upper* bound, to almost a full turn
  (`motor.c:389,407`).
- `StopHangsOnlyOnSleep`: `motionStop` returns only if it catches the thread out of the
  semaphore; `StopIsClean` says what a stop that returns leaves behind: the buffer that
  plays is freed, the one that waits as `nextsp` is lost.
- `OnlySentIsServed` excepts what was put together from reads that completed without
  a byte.
- `PulseTowardStep`: the previous step is unsigned, so after a negative one every pulse
  is negative.
- `SmoothInsideMargins`: that SMOOTH goes straight to its target holds for what it *writes*
  of motions that start between the margins. It writes all slots it posts but the last
  but one, which is played all the same: no smooth motion of 50 ms or more goes straight
  to its target for sure (`smooth_fills`). From 12700 ms on it writes behind the end of
  its buffer.
- `PostedIsWritten` says which slots the motion driver may rely on, not that it plays no
  others: it is exact about the slot SMOOTH leaves out and about the end of a SETPOINT that
  announces more slots than it brings.
- `PlaysSetpoints` and `RendersCurrentSlot` are about the message as it lies in the buffer,
  slots left over included.
- `InStep` asks the master to wait for the answers to what it asks. A message behind a
  PING, or a `v` or `t`, that does not wait is swallowed, whole or in part.

Observed while modelling, and not the subject of a run:

- `addr.h:40-41` gives the two head boards each other's address compared with
  `addr.c:57-58`, and with it the other's calibration value. Boot states it as
  `AddressAsDocumented`, which the code does not satisfy.
- `pid.h:80` announces "limiting the maximum change in value to 1 deg"; `pidSetpoint`
  has a dead band and no limit (`pid.c:53-57`).
- The position of the PID renderer is 0 until the first motion (`render_pid.c:78`), and
  SMOOTH starts from there.
- The sensor's time stamp is multiplied by 1000 before it is divided, so its milliseconds
  wrap after 71.6 minutes instead of 49.7 days (`sensor.c:111`).
- The first read of `main.c:155`, there to "ignore anomalous '\0' char", is exactly the
  spoiled one that `OnlyFirstIsSpoiled` excepts, because `chBSemInit(&ready, FALSE)`
  makes the semaphore signalled.
- motorStop leaves a stale `pwmstate`.

### Bounds

- *Buffers and mailbox*: 2 or 3 instead of 8, the mailbox as long as the pool, as
  in `main.c`. The main thread holds two buffers at most and the motion thread
  two, so three buffers already exhaust the pool with one queued; the proofs hold
  for any number.
- *Counters* (`MaxU16`): 2 or 3 instead of 65535, so that 0, 1, an ordinary value
  and "for ever" are different values.
- *Messages*: a plain one, a delayed one of two slots with two loops and a slot of
  duration 0, one without slots, an endless one, one that announces a slot more than it
  brings. Together they reach every branch of `motion.c:60-138`. A buffer has room for two
  slots (`SlotRoom`) and SMOOTH's last slot but one has one of the values in `Leftover`.
- *Motor values*: `int8_t` scaled to four bits with its asymmetric end. Proved for
  any width.
- *USB queue*: 3 writes, one and a half samples, so that the thread may block on
  either write.
- *Reads and writes*: 4 bytes; a header's rest is 3.
- *Calibration*: a circle of 32 units with a stop-to-stop range of up to 8, where a jump
  of more than 5 counts as a wrap (1 rad of 2 pi), two samples per loop instead of 10 and
  two speeds: slow arms do not reach the stop in time, fast ones do, and 0 may fall
  anywhere in or out of the range.
- *Start and stop*: 3 buffers and one delayed message of two slots; the caller may start
  and stop again as often as it likes.
- *Line*: 12 bytes and 3 messages between two silences, so that one message may be read
  as the rest of another and a message may follow one that is swallowed.
- *Checksum*: 3 bytes, the first one any, so that every entry of the table is used; the
  burst may begin at each.
- *Renderers*: powers -4..3 and pulses up to 3 ms; floats up to 9 with powers up to 2 and
  positions up to 4, so that terms overflow and cancel. Proved for any values.
- *SMOOTH*: full scale 39 and an interval of 2, times up to 9, hence up to 4 intervals,
  one more than a buffer of 4 slots has room for, and setpoints below the margin.

Buffers are symmetric in the safety runs. Liveness runs use no symmetry.

### Fairness

- Actuator: the timer keeps running (`WF` of the interrupt); nothing preempts the
  motion thread (`WF`); the work of a period fits into it again and again, so the
  motion thread waits for the timer infinitely often; then main, the only other
  thread, runs (`SF`), and a receive in progress ends by its timeout. The master
  owes nothing: starting to receive is not fair.
- Pressure sensor: the same for the sampling thread, the timer and main. A
  configured host reads. Nobody is obliged to plug in a cable, and the host may reset
  the device at any moment.
- MCParts: none; its properties are safety.
- Serial driver: the UART sends what it is given, its interrupts are served, and main
  finishes a write it has begun. No byte ever has to arrive.

`StopTakesEffect` excuses another SLEEP, which empties the mailbox, and a stop lost
through a null pointer. `ConnectionIsSampled` is about the first connection; that
the next ones are not sampled is a finding.

## What is proved

The theorems hold for every value of the constants that satisfies the named
assumptions, which say no more than the code: the mailbox is at least as long as
the pool, `NULL` is no buffer, setpoint 0 exists, the PWM period is at least as long
as the largest value, the bytes with names are different, and no checksum is mistaken
for one of them. Two restrict the model, not the code: `PayloadAssumption` and
`SmoothAssumption` keep messages within a buffer, which the code does not check. `MechanicsAssumption` is about the arm: it cannot turn a full circle between its
stops, nor so far between two samples that a turn and its wrap look alike; without it
the code could not tell where the arm is.

- **MotionProofs** holds what the proofs about the motion driver share: what allocating,
  freeing, posting, fetching and flushing do to a pool and a mailbox without duplicates, and
  facts about numbers: induction up to a bound (`UpTo`, from the smallest element of
  a set of numbers), that a function may be defined by repeating steps (`Repeatable`), and
  the arithmetic of whole and partial passes.
- **ActuatorProofs**. `TypeCorrect`: type correctness. `OwnershipIsExclusive`:
  `ExclusiveOwnership`. The invariant adds to it that commHandle starts without a
  buffer; every step moves a buffer from one owner to the next.
  `PostedStaysWritten` strengthens `PostedIsWritten` to the
  buffers that are *about* to be posted (`Filled`), command by command, for SMOOTH leaves out a
  slot and SETPOINT may: a message becomes the motion
  driver's by a post that looks at nothing. It rests on exclusive ownership: a free
  or a fill touches no other owner's buffer. `PostsFindRoom` counts: the queued
  pointers are distinct buffers, the one about to be posted is another one, and the
  mailbox has as many places as there are buffers. `OnlyTwoPlacesLose` follows every
  buffer through each step; that an allocation forgets no pointer needs `LossInv`, which says
  when the main thread's two pointers are null.
  `CursorInv`: while a message plays, `spindex` lies in its slots, with a
  duration within the slot's and a loop count within the message's. A message without slots
  breaks it between two functions of one period, which the invariant names. The main thread
  cannot touch the message because of exclusive ownership. Hence `RendersItsSlot` and
  `LoopsCountDown`.
  `PlaysAsPromised`: the actuator implements SetpointPlayer. The timeline of a message, which
  SetpointPlayer flattens from its slots, is as long as the ticks of the slots add up to, and
  shows the setpoint of slot k at every tick of slot k (`SumOfTicks`, `TimelineOfSlots`, by induction on
  the slots). With that each step maps to one: a post or flush of the main thread to
  Post or Flush, for exclusive ownership keeps the messages as they are; a fetch to Take;
  a delay counted down to Wait; a replacement to Start, from tick 0; a message freed because it is
  empty or its loops are over to Stop; a setpoint rendered to Play (`RenderIsPlay`), the cursor
  standing at the tick `(loops done) * (ticks of a pass) + (ticks of this pass)` of the timeline, one
  further after the step, or back at the start of an endless one. All others
  show nothing of what SetpointPlayer sees. Beyond the invariants above this needs `PlayerInv`: an endless
  message is never counted down, and a delay left is not longer than the message's. A null pointer
  that was posted is queued as no message, and taken like one.
  `WaitingMovesUp`: the place of a message in the mailbox, times the longest delay, and the
  delay that is left bound the periods until its start, and with the place of `driver_thread` in its
  loop the steps (`StepsBefore`). A fetch moves the others up by more than the delay of the message
  fetched can cost; posts go to the end, and exclusive ownership keeps each message in one place.
  `StopEndsInItsPeriod`: a stop message has a loop count of 0, so it plays only between the
  replacement and the end of that period, when the motor is switched off.
- **LifecycleProofs**. `CallerKnows` says what the thread and the timer are wherever the caller
  is, `ThreadSleeps` that the thread sleeps at the head of its loop only and is asked to end only
  by a caller that waits for it; hence `StopsHangOnSleep`. `OwnedOnce` follows every buffer
  through the periods and the stops: only `nextsp` is ever lost, and what a stop frees the thread
  never renders (`StopsAreClean`).
- **MotorProofs**. `AtWrite` says what the pins are before each write. From it
  follow `DifferencesSuffice`, `PulsesFit` and `OnlyGlitchesAreTurns`.
- **Rs485Proofs**. Bytes moved and still to be moved add up to the bytes asked for,
  and only a write transmits; hence `ReadsAreWhole` and `WritesAreWhole`, for any
  behaviour of the line. `SignalsMeetWaiters`: until the line misbehaves the transmit
  DMA reports only while `writet` waits, and every signal meets its waiter.
  `WritesComeToAnEnd`: while the board drives the bus, bytes left and the place in `writet`
  make a number (`StepsLeft`) that every step lowers, and one of the steps that
  fairness promises is always possible, since a write that sleeps has bytes left or a signal waiting.
  About the messages on the line there are two invariants. `SentInv`: the halves of a checksum
  are on the line only if its message was sent, so `OnlySent` holds wherever in the line the board
  reads: a footer that verifies was computed from what is served. `StepInv`: as long as
  nothing is lost the line is *framed*. There are places `B` between its pieces (a message, a
  letter, a gap), each with the number `f` of messages to this board before it, and what the board
  reads next stands at a known distance from one of them (`Ahead`). While an answer is due nothing but
  gaps and the silence is on the line behind the message that asks for it (`Pending`), so that the answer
  swallows no message. A message that is sent adds a
  place at the end, a read moves all places down; other boards' messages may hold this
  board's address, since the piece they are in ends with the gap the board waits for. Hence `StaysInStep`.
- **BootProofs**. `BootsInOrder`: `InOrder` says for each step of `main()` what is ready by then and
  `PadsInOrder` what the pins are, while the motion thread may run from the middle on.
  Calibration is a chain of four parts, `CalInv`, for arms that are `WellMounted`: `Timing` counts
  the samples left against the way to the stop, so that the arm stands there
  before the loop gives up; `Direction` says that the first run has swapped sine and cosine at the
  first movement it saw and the second leaves it at that; `Shown`, that the samples kept are those of
  where the arm is and of the stops it came to; `Found`, that the range is what lies between them. Hence
  `FindsTheRange`, for any circle, any number of samples, any speeds. `StretchesOnlyByOvertravel` is
  about each call of `motorCPosition` afterwards.
- **RenderProofs**. The pulse's age counts up while its rest counts down, and the power
  chosen at the change is kept, so `PulsesThenSteps` and `PulsesPushToward`. For the PID
  renderer each dead band keeps a value within the noise of the true one, hence
  `ErrorStaysWithinNoise` whatever the arm does, and an output that passes `Limited` is a
  number in its range whatever the gains are: `OutputIsDefined`. The angle a setpoint
  stands for lies between 0 and the upper bound (`PidTypeCorrect`). `SmoothWritesStraight`: the step
  of a motion is the rounded quotient of way and slots (`Computed`), so every slot that is written lies between start and
  target and none of C's narrowings changes it, although the motion thread may widen the range
  between the two reads of the position. It also says which slot is not written and for which
  times all lie in the buffer (`WrittenSlots`, `SlotsFit`).
- **UsbProofs**. `ThreadIsKnown`, `TimerServesThread`, `TerminateEndsSampling`:
  the timer is stopped before the thread is asked to end and started after it was
  created, so no state has one without the other.
  `UsbImplementsSampling`: every request of the host is a step of Sampling or
  a stutter and the fairness is the same, so what is proved of Sampling holds for the
  sensor under a real host. `HostReadsInTurn`: the queue alternates, its first entry differs
  from what was read last, and the thread never is about to write what it wrote last; that
  a new thread, which begins with a header, finds the old one before a header too
  rests on Sampling's invariant. `NothingDelaysSamples`: until `main` notices a disconnection nobody has
  asked the thread to end (`NeverAsked`); no step adds to the number of steps to the next sample
  (`StepsToSample`), and one that takes from it is possible.

Only model-checked: liveness (`StopTakesEffect`, `PostedIsStarted`, `ConnectionIsSampled`,
`BusIsReleased`), fairness and ENABLED being out of the provers' reach. What these four rest
on is proved, as safety properties for every instance: `WaitingMovesUp`, `NothingDelaysSamples`
and `WritesComeToAnEnd` each give a number that bounds what is still to come, that no step raises
and that the steps of the component lower, and `StopEndsInItsPeriod` says what a stop message does
once it is started. That those steps are taken is what TLC checks under the fairness stated. Also only model-checked: `DetectsBursts`, whose
operators work on bits, which no prover here knows. `PartsTypeOK` and `DevicesTypeOK` are proved
part by part. Every
other property of a passing run is a theorem.

One caution for whoever extends the proofs: tlapm 1.4.5 tells the SMT solver that a function
has the domain `1 .. n` exactly when its `Len` is `n`. Of a function with another domain, such as
`0 .. n`, this is false, and a leaf that mentions both may be proved for no good reason. Every
proof here has also been checked with only the direction of that fact that is true.

## Plan

**BusWait**: periods lost while another board's message passes, for which the length
of a message on the line and the timer must share a clock.

## Not modelled

The clock trees and the preprocessor configuration of the kernel (`mcuconf.h`, `halconf.h`,
`chconf.h`) have no behaviour of their own: the values that matter, such as priorities and
periods, are in the models. Of `board.h` and `board.c` the pins the code uses are modelled.
`motionSetpoint`, `motorStop`, `rs485Stop` and the other calls nothing makes are left out, as are
a failed conversion during calibration and a host that deconfigures the device without
resetting it. Values measured by the fabric are data: no property depends on them. The time
`rs485Wait` takes with the system locked is planned (BusWait). The kernel call in the sampling
timer's interrupt that is made outside a critical section (`sensor.c:34`) would need
the kernel's ready list to show its effect.

## Running

    tlc -config MCActuator_safety.cfg MCActuator
    tlapm ActuatorProofs.tla

The runs take between a second and about two minutes, the proofs one to a few minutes each.
