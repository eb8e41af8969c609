# Formal models of the ngc motion controller

`ngc` interprets G-code, plans trajectories and drives a machine tool. A real-time servo thread runs
the *production executor core*; the rest of the program (machine sessions and their manager,
interpreter, planner, pendant) talks to it through lock-free memory and never blocks it, and it talks
to the drives over a lossy network and a serial line. This directory holds TLA+ models of the executor,
of the channels around it, of the geometry stream that feeds it, of the session that commands it, of the
manager above two sessions, of the process it may run in and of the hardware below it; the TLC runs that
check them; and TLAPS proofs about them. Paths below are relative to the repository root; `core.cpp` is
`src/src/ProductionExecutorCore.cpp`, `m/` is `src/src/include/machine/`.

## 1. The system

### 1.1 Threads and how they are connected

    GUI and pendant threads --- MachineSessionManager: authority, emergency stop of both sessions
                                    |                         |
                              Simulation session        Machine session
                                    |                         |
    producer thread --OwningSpscChannel--> host thread of the session <--poll-- snapshot thread
        prepared geometry, barriers  |        ^
                     demand mailbox  |        |  events, snapshots        request, release, reset
                     ingress ring    v        |                               |
          [front end | peer process] servo thread: executor core  <---  EmergencyStop block
                                     |                 |
                        Mesa board (UDP, watchdog)   spindle worker thread (serial line, VFD)

* **Manager.** `MachineSessionManager` gives one caller the authority over one of two sessions, moves
  it, imports the state of the one into the other and resets an emergency stop that reached both.
* **Host thread.** One per session. It dispatches the operator's commands, pumps the program, services
  homing and jogging itself, and cleans up when they fail. A *producer thread* per program prepares
  geometry and waits at barriers; a *snapshot thread* polls what the executor publishes.
* **Calls, messages.** The session publishes *lifecycle demands* (Disabled, Idle, Run, FeedHold, Stop,
  Jog, each for an epoch) to a mailbox that keeps only the last one, *execution items* (chunks,
  triggered moves, homing moves) and *controls* (set joint position, jog start, lease, velocity, stop)
  to one ordered ring. The executor answers with events and a snapshot.
* **Ticks.** `HostedExecutorRuntime::tick` updates the emergency stop, then reports an I/O fault or
  calls `servoTick`: consume the demand, converge to it, drain the ingress, converge again, advance a
  jog, the active item or nothing.
* **Processes.** With an external executor the demand mailbox, the rings and the emergency stop lie in
  shared memory, and a bridge in the peer process feeds the core from them. Either process may die.
* **Hardware.** The servo thread exchanges one datagram per tick with the Mesa board, whose watchdog
  stops the axes when it is not serviced; a worker thread talks to the spindle drive.

### 1.2 Inventory

State, operations, what is hard, what makes it correct. *Modelled* names the module.

| component | state | operations | hard behaviours | what makes it correct | modelled |
|---|---|---|---|---|---|
| SPSC ring, `m/SpscChannel.h` | slots, head, tail | tryPush, tryPop | two threads between atomic accesses | no slot shared; a bounded FIFO | `SpscChannel`, in use: `ExecutorIngress` |
| Latest-value mailbox, `m/LatestValueMailbox.h` | three slots, exchanged index with dirty bit | publish, consumeLatest | ownership rotates through one word | one owner per slot; newest value never hidden | `LatestValueMailbox`, in use: `ExecutorIngress` |
| Geometry channel, `m/OwningSpscChannel.h` | slots, indices, waiter flags, mutex, condition variables | waitPush, waitPop, tryPush, tryPop, notifyAll | sleep and wakeup without a lock on the fast path, cancellation, store buffers | no lost wakeup; order; shutdown strands nobody | `OwningSpscChannel` |
| Ingress of the core, `core.cpp` | plan slots, credits, three counters, ring, mailbox | tryPublish, trySubmit, publishDemand, serviceDemand, serviceIngress, dequeue, release, discard | host and servo thread between any two accesses, a full ring, a queue dropped in the middle | every slot has one holder, counters exact, a demand finds its items | `ExecutorIngress` |
| Emergency stop, `src/src/EmergencyStop.cpp` | requested sources, reset generation, published status | request, release, requestReset, update, status | resets racing with sources, torn status | a held source stays latched; every reset answered | `EmergencyStop` |
| Executor core, `core.cpp` | state, epoch, demand, active item, plan queue, cursors, stops, jog, outputs | servoTick, latch, reset, reportHostFault | demands overtaking items, twelve ways to fail half way, stops within holds | Held means at rest, work runs once in order, faults are safe and end only as they should, demands are reached | `ProductionExecutorCore`, `ExecutorSession` |
| Demand controller, `m/ExecutorDemandController.h` | generation | publish a mode | coalescing | generations grow | in `ExecutorSession`, `SessionState` |
| Hosted runtime, `src/src/HostedExecutorRuntime.cpp` | stop flag, timing | tick, loop, stop | host faults between ticks, missed deadlines, shutdown | order stop, fault, tick; the last image is safe | `ExecutorSession`, `PhysicalIo` |
| Program controller and driver, `m/PreparedTrajectoryExecutionDriver.h` | feed hold, stop, pause, exact stop, counts, barriers | feedHold, resume, stop, service, publish | commands racing with completion, answers from old snapshots | barriers answered at rest and in place; completed means executed | `ProgramOperation`, `MachineSession`; the stream: `GeometryStream` |
| Homing and jogging, `src/src/*Controller.cpp` | phase, request, snapshot, result | begin, service, stop, cleanup | waiting on snapshots, cleanup after failure | ends at rest, every wait ends | `ServicedMotion`, `MachineSession` |
| Machine session, `src/src/MachineSession.cpp` | power, activity, command queue, checkpoint | commands, operations, power, faults | failure after the first demand, faults between read and store | works only when powered; returns to idle as a whole | `SessionState`, `MachineSession`; abstract: `SessionLife` |
| Geometry producer, `m/GeometryStreamProducer.h`, `m/PreparedGeometry.h` | retained motions, anchors, pending pieces, command records, barrier | one event of the interpreter, publish, wait for feedback | incremental preparation across slices, cancellation while it waits | no part of the path lost; ends when the program does | `PreparedGeometry`, `GeometryStreamProducer`; the thread in `MachineSession` |
| Trajectory planner, `m/TrajectoryPlanner.h` | retained geometry of a chain, window, moving boundary | enqueue, end of a chain, plan a prefix or all | geometry divided again while more arrives | items join in order and in motion | `TrajectoryPlanner` |
| Session manager, `m/MachineSessionManager.h` | authority, target, GUI latch, host threads | acquire, transfer, import, command, reset | lock released while waiting, resets that reach one session | one controller; a latched stop keeps the power off | `SessionManager`, `MachineSession` |
| IPC executor, `src/src/IpcExecutor*.cpp`, `ExternalExecutorRuntime.cpp` | shared region, connection state, retained item and event | attach, bridge, peer loss, constrained stop | crash of either process at any step, full rings | machine stops when the front end is lost; no item lost | `ExecutorPeer`, `ExternalExecutor` |
| Spindle worker, `src/src/SpindleHardware.cpp` | safety state, fault, command queue | command, rearm, safe stop | rearm racing with a fault, stop racing with a command | a reported stop is one; a stop is answered | `SpindleWorker` |
| Huanyang drive, `src/src/physical/` | registers | run, frequency, stop, poll | lost transactions | | its transactions, in `SpindleWorker` |
| Mesa cyclic I/O, `src/src/mesa/` | sequence words, fault latch, DPLL, feedback origin, watchdog | exchange, align, apply outputs | late, lost, repeated datagrams | inputs are of this cycle; no fault is made up | `MesaIo`, `PhysicalIo` |
| Pendant, operator jog, touch-off | wheel, intents, outstanding jog | poll, service | stale snapshots, unbounded queue | a released wheel stops | no, section 7 |
| Digital I/O program, presentation tracker, in-process simulation | registers; display progress; ticks | one scan; events; tick | | | no, section 7 |
| Interpreter, trajectory and spline mathematics, stores, configuration, discovery, GUI, tools | | | sequential, numeric or I/O | | no, section 7 |

The list of what is hard to test, line by line, with the property that covers each, is `hazards` in
`PROJECT.json`.

## 2. Modules

| module | what it is |
|---|---|
| `BoundedFifo` | abstract: a sequence of at most `Capacity` values, Push and Pop atomic |
| `SpscChannel` | the ring, a step per access; implements `BoundedFifo` |
| `LatestValue` | abstract: one register of which the consumer reads the newest value, or nothing new |
| `LatestValueMailbox` | the triple buffer, a step per access; implements `LatestValue` |
| `ExecutorIngress` | the core's plan slots, counters, ring and mailbox between host and servo thread, a step per shared access; extends the ring and the mailbox and implements what they implement |
| `OwningSpscChannel` | the blocking channel with mutex, condition variables and store buffers |
| `EmergencyStop` | the control block, requesters, `update` and `status`, a step per access |
| `ProductionExecutorCore` | one operator per member function of the core that changes its state |
| `ExecutorSession` | the core in its tick, the emergency stop and I/O fault before it, the missed deadline after it, the session as environment |
| `PreparedGeometry` | pieces of a path, the preparation of retained motions, the division of prepared geometry |
| `GeometryStreamProducer` | one operator per event of the interpreter: which messages it sends |
| `TrajectoryPlanner` | one operator per member function: what is retained, rejected, planned |
| `GeometryStream` | producer, forward channel, driver and executor as threads, for every program |
| `ProgramOperation` | one operator per member function of the program controller and of the driver |
| `SessionState` | the state of a session in its host, and the executor it is linked to, whose tick is one step |
| `ServicedMotion` | homing and jogging with their wait loops, results and cleanup |
| `MachineSession` | host, producer and snapshot thread, operator; implements `SessionLife` |
| `SessionLife` | abstract: what a session promises about power and work |
| `SessionManager` | two sessions under one manager; each of them implements `SessionLife` |
| `SpindleWorker` | worker thread, safety state and queue, and a serial line that loses transactions |
| `MesaIo` | the cyclic exchange with the board over UDP, and the board's watchdog |
| `PhysicalIo` | the servo loop of a real machine over `MesaIo` and `SpindleWorker` |
| `ExecutorPeer` | the peer process: handshake, bridge, constrained stop |
| `ExternalExecutor` | the front end, composed with `ExecutorPeer` through the shared region |
| `ExecutorIngressProofs`, `OwningSpscChannelProofs`, `EmergencyStopProofs`, `ExecutorSessionProofs`, `MachineSessionProofs`, `SessionManagerProofs`, `PhysicalIoProofs`, `ExternalExecutorProofs` | TLAPS |
| `MC*` | instances for TLC |

### 2.1 The core

`ProductionExecutorCore` declares no variable. The servo-owned state is a record `c` and every operator
returns the record its C++ function leaves. This keeps the calls of the code as calls: `ConvergeDemand`
calls `BeginDemandStop` calls `ControlledStop` calls `StopChunk`, and any of them can end in `Fault`.
`ExecutorSession` holds the record in `core` and turns it into steps.

| field of `core` | member |
|---|---|
| `state`, `epoch`, `stoppedEpoch` | `m_state`, `m_epoch`, `m_stoppedEpoch` |
| `demand`, `accepted` | the demand consumed last, and whether it was rejected |
| `active`, `plans` | active slot, plan queue |
| `stopping`, `span`, `event`, `marker`, `tailFault` | stop tail selected, span index, spindle-event and marker cursor, underrun or discontinuity to report after the tail |
| `planStop`, `feed` | `m_planStop`; `m_feedRetiming` as None, Holding, Held, Resuming |
| `triggered`, `joints`, `touched`, `aborted` | runtimes of triggered and of homing moves |
| `jog` | the active jog with lease, stopping flag, stop reason |
| `moving` | commanded velocity or acceleration not zero |
| `safeOutputs`, `spindle`, `fault`, `faultReported` | outputs and fault latch |
| `out` | events of this step, moved to `log` when the step ends |

Numbers are abstract. What a numeric test decides is a field of an *outcome* `o` over which a step
quantifies: a span ends in this period or not, a trajectory cannot be generated, a position leaves the
soft limits, a chunk does not join, the retiming interval is empty, a trigger input is met. An outcome
is fixed once per step, so every path a step can take through the function is a choice of `o`.

The steps of a tick are `TickBegins` (demand and first convergence), `IngressPlan`/`IngressControl` (one
record), `IngressEnds` (second convergence), `NotReady`, `ExecuteJog`, `ExecuteItem`, `Advance` (one turn
of `advanceActive`; several when spans end within one period). The session's steps interleave while the
tick can still read what they write (`idle`, `ingress`). `ReserveItem` and `EnqueueItem` are the two halves
of `tryPublish` (count the item, then push its slot), because the servo thread may run between them.
What the hosting runtime does around a tick has an action each: `EmergencyStopLatches`,
`EmergencyStopResets`, `IoFaults` (instead of `servoTick`, and of every later one) and `DeadlineMissed`
(behind the tick; the next one comes all the same).

The session in `ExecutorSession` is the *environment* of the core: it takes every choice that
`PreparedTrajectoryExecutionDriver`, `ProgramExecutionController`, `HomingController`,
`JoggingController` and `MachineSession` have together, under the rules they share: a serviced operation
waits for a tick between its calls and for the answer to its requests; a driver waits for nothing; a new
operation begins when the last demand was consumed and the machine is faulted or at rest.

Simplifications of the core, all named in the module: the event ring is large enough; the ingress never
refuses (slots, credits and a ring that is full are in `ExecutorIngress`); controls that no caller in the
repository submits once demands exist (Abort, direct lifecycle controls) are answered with failure and not exercised; a marker at the end of a span counts as reached
when the span is done; an I/O fault never clears, as in both implementations; at most one span boundary
per retimed period.

`ExecutorIngress` is the memory between the two threads of the core, which `ExecutorSession` takes for a
queue and a register. `host` and `servo` say where in `tryPublish`, `trySubmit`, `publishDemand` and in a
tick the threads are; the steps inside `tryPush`, `tryPop`, `publish` and `consumeLatest` are those of
`SpscChannel` and `LatestValueMailbox`. What a tick does with an item is abstract: the core may take it,
release it or discard everything it has, in any order its state allows. `preceding` is history: how many
items had been published when each demand was.

### 2.2 The geometry stream

The interest is in *which* part of a path is where, so a curve is the distances of the path that it
covers, and a piece is an interval with the command it belongs to, the commands it replaces and the
stations where commands become active. `GeometryStreamProducer` keeps the control of the preparation:
what a long motion, a corner and a cluster of short ones replace, and what of it waits for the next slice.
`TrajectoryPlanner` divides what it retains at any distance where the proofs of a boundary may succeed.
Both are operators on a record, as the core is; `GeometryStream` turns them into the steps of three
threads for every program of at most `MaxEvents` motions, standalone commands, fences and presentation
updates. Abstract or left out: preparation always succeeds; pause, probe, lifecycle and status messages;
what happens after the driver has reported an error; the executor runs out of continuation only when no
thread is going to supply one.

### 2.3 The session

`ProgramOperation` is built as the core is: the controller and the driver are two records in a joint
record with what a step demands (`ask`) and tells the producer (`told`), and an operator per member
function returns what the function leaves. A slice of geometry is one path, the planner retains it until
its chain ends and makes one item of it. `ServicedMotion` does the same for the wait loops of homing and
jogging: `motion` is the operation with the phase it waits in, the request or event it waits for, the
snapshot it has seen, and what it knows about motion that may be left.

`MachineSession` turns them into steps of three threads. The host thread's steps follow its loop (`host`
says where it is): faults first, then pending power, then the next command, then one service of the
program (`service`, `events`, `pump`, `pumped`: commands, events of the executor, one message of the
forward channel, the sleep) or of a serviced motion. The executor ticks between any two of them, the
emergency stop may latch in any tick, and the process may be lost. An operator's call takes the mutexes,
so it is one step, and comes only where the host thread does not hold the mutex.

`SessionManager` abstracts a session to its power, its activity and where its host thread is, and takes
the calls of the manager apart where they wait (`call` is the call that has the mutex): power on and off,
the import, and the reset, which waits for the executor's latch, asks for the reset, waits for the
answer, and goes on to the other session. That this abstraction is one of `MachineSession` is shown
through `SessionLife`: both implement it.

### 2.4 The executor's process and the hardware

`ExecutorPeer` is the life of the peer process, a step per turn of its loop: the handshake, the bridge
with the one item and the one event it retains when a queue is full, the mailbox, the constrained stop
(a Stop demand with a generation that the last snapshot justifies, then Disabled), the end.
`ExternalExecutor` adds the front end with its handshake, publication, refresh, loss of the peer, stop
and kill. Demands, items and events are the sequences that the rings implement.

In `PhysicalIo` the servo thread's steps are those of its loop: send, receive, tick, apply outputs to the
axes or to the spindle (with each access to the worker's atomics a step), deadline, shutdown. A machine is
fitted with axes or with a spindle: the two share only the order of the loop, and so add their states.
`MesaIo` has one joint whose step generator follows exactly or slips; the datagrams of a cycle are lost
before or behind the board, late, or repeated. `SpindleWorker` takes `run()` apart into accesses; every
serial transaction is carried out or not and answered or not. `deaf` (the last stop written did not reach
the drive) is history.

## 3. Runs

| run | question | result |
|---|---|---|
| `executor_ingress` | items, controls and demands between two threads: slots, counters, order, races | holds |
| `owning_channel` | with store buffers: order, nothing lost by cancellation, shutdown wakes everybody | holds |
| `emergency_stop` | held sources, answered resets, torn statuses | holds |
| `executor_program` | programs with holds, stops, I/O faults, missed deadlines, emergency stops: order, markers, abandoned work | holds |
| `executor_operations` | program, homing, jogging with every numeric failure and missed deadlines: what states promise, what is reached | holds |
| `machine_session` | commands, emergency stop, loss at any point of an operation: what is answered at rest, what ends | holds |
| `session_manager` | two sessions and calls that wait: control, stale requests, the latch of the GUI | holds |
| `physical_io` | lost datagrams and serial transactions: do stops stop, are inputs of this cycle, are faults real | holds |
| `external_executor` | either process dying anywhere: items lost, motion cut, is the machine stopped | holds |
| `geometry_stream` | every short program from the interpreter to the executor: path, commands, barriers | holds |
| `session_stop_at_rest` | is a Stop answered only when the executor rests | violated |
| `geometry_modes` | does no slice mix exact stops and continuous motions | violated |

### 3.1 What the properties say

* **Ingress.** `NoDataRace`: the two threads never meet on a slot of the ring. `ImplementsFifo`,
  `ImplementsLatestValue`: refinement, of the composed system. `CreditsMatchWork`: every plan slot has
  one holder - the free list, a call, the ring, the queue or the executor - and the three counters are
  what they count, so none of them wraps. `DemandsFindTheirItems`: when a tick goes on to the execution,
  no item published before its demand is still in the ring.
* **Blocking channel.** `PublishedMessagesArrive`: what a push published is popped once and in order,
  also across a cancellation. `ShutdownStrandsNobody`: liveness.
* **Emergency stop.** `HeldSourceStaysLatched`: a source raised since before an update is latched at its
  end. `ResetsAreAnswered`, `StatusIsNotTorn`.
* **Core, one epoch.** `ItemsRunInOrder`: accepted and retired in order, each ends once, a rejected one
  never ran. `MarkersFireOnceInOrder`: no hold or resume loses or repeats a marker or spindle event.
  `StoppedEpochStaysStopped`: nothing of a stopped epoch starts. `EmergencyStopAbandonsWork`: nor what
  the executor owned when the emergency stop latched, although demand and epoch survive it.
* **Core, states.** `HeldMeansStationary`: callers start operations, set coordinates and reset epochs on
  this word. **Liveness:** `DemandConverges`, `LeaseEndsJog`.
* **Geometry stream.** `PathIsWhole`: from the position of the machine to the end of the program no part
  of the path is lost, repeated or out of order, wherever it is, and an item is planned to start moving
  exactly when the one before it ends in motion. `CommandsActivateWithTheirMotion`: no command is passed
  over or shown before its place. `StreamIsWellFormed`: the driver rejects nothing that the producer
  sends, except for the errors of section 4. `NothingIsStranded`: when no thread has anything left to do
  the program is complete. `BarriersAreAnsweredAtTheirPlace`: the interpreter goes on, and a tool change
  is shown, exactly where the machine has executed what precedes it.
* **Session.** `ServicedMotionEndsAtRest`: homing or a jog that ends, however, leaves no motion and none
  that is still to come. `BarriersAnsweredAtRest`: a fence, pause or probe is answered when all that was
  published before it has been executed and the executor rests. `CompletedMeansExecuted`: a program that
  ends as completed has executed all of its items. `LivesAsPromised`: refinement of `SessionLife`.
  `CleanupEnds`, `OperationsEnd`: liveness, unless the operator has paused the program or the emergency
  stop is latched.
* **Manager.** `GuiLatchKeepsSessionsOff`: no session is powered while the manager remembers the
  emergency stop of the GUI, with resets that reach one session only. `OnlyControlledSessionWorks`: one
  session at a time works, through transfers and imports. `StaleRequestsActOnNothing`: a request whose
  authority is old changes nothing. `SessionsLiveAsPromised`: both sessions implement `SessionLife`.
* **Physical I/O.** `SafeStoppedMeansStopped`: when the worker reports the stop the drive has none of the
  commands from before (unless `deaf`: the stop did not reach the drive). `SpindleStopIsAnswered`:
  liveness.
  `InputsAreCurrent`: the tick never works on inputs of an earlier cycle. `FollowingErrorMeansSlip`: the
  following-error fault comes only of a step generator that slipped. `DisabledStopsTheAxes`: liveness,
  by a datagram or by the watchdog.
* **External executor.** `BridgeLosesNoItem`: what the front end published is in one of the queues or was
  taken, in order, once. `OrderlyExitCutsNoMotion`: a peer that has demanded a stop leaves only when nothing moves.
  `FrontLossStopsTheMachine`: liveness, unless `Overtaken` (section 4).

`SlotsHaveOneOwner`, `NothingNewerIsHidden`, `OnlyResetUnlatches`, `OutputsSafeUnlessEnabled`,
`FaultEndsByResetOrJogStop`, `NoLostWakeup` without store buffers and the type invariants are proved for every
instance (section 5), and have no run of their own.

### 3.2 Bounds, and why they are enough

* **Ingress.** Two plan slots and two controls against a ring of 2: the ring is smaller than the credits,
  so it is found full with a slot in hand; two items, three controls and two demands make credits run out,
  the ring wrap and a demand be overtaken. All five properties are proved for every value.
* **Blocking channel.** Capacity 2 and three messages let both sides sleep.
* **Geometry stream.** Four events, which give every pattern of three motions before an end or a barrier;
  motions longer than two lookaheads, short ones that form clusters, another tolerance and a rapid; a
  publish duration below and a lookahead above the short lengths, so that a slice goes out in the middle
  of a chain and a prefix is planned before its end; two items in the executor.
* **Emergency stop.** One remote and one local source, two resets, two updates; proved for every value.
* **Core.** Two spans give a first and a last one; two joints a homing move in which one is still moving;
  a lease of two ticks expires and can be renewed; two items a predecessor and a successor; four demands
  give Run, hold, resume and stop, or an operation, its end and the next one; three requests give
  coordinates, a jog and a control. `MaxGeneration`, `MaxItems`, `MaxRequests` only limit how long the
  session acts; the servo thread runs on without bound. `executor_program` runs programs alone;
  `executor_operations` publishes one item, because its properties are about operations after one another,
  and has all numeric failures. With one item, a feed-held triggered move that is refused for ever
  (`core.cpp:909`) keeps nothing queued behind it, so `DemandConverges` does not speak of it. A deadline may
  be missed after any tick, again and again, latched or not.
* **Session.** One span, one joint, one epoch, one command of the operator, one disaster (emergency stop
  or loss), one power-on, anywhere: every pair of events of an operation is interleaved, while a second
  operation would find the session as the first did, which is what `CleanupEnds` and `LivesAsPromised`
  are for. Three programs (with a pause, with a probe, with a failing producer) hold one of each barrier.
  A forward channel of one message makes the producer wait. `session_stop_at_rest` needs one fenced
  program and no disaster.
* **Manager.** Both sessions, five requests, three transfers (there, back, and there again, so that an
  authority is old although its target has the control), three disasters; proved for every value.
* **Physical I/O.** `CommandCapacity` 2 has a command before and behind a stop; `SequenceModulus` 2 gives
  the answer of the cycle before the same parity as the next but one; a convergence of 2 cycles and a
  travel of 1 let the following error arise before, while and after the origin moves.
* **External executor.** Rings, queue and snapshots of capacity 1, the limit at which an item and an event
  are retained; two items; three demands (Run, Stop, Disabled); two disasters, so that both processes die.
* `CHECK_DEADLOCK FALSE`, where it is used: the bounded inputs run out, a paused or powerless session
  waits for an operator whose requests are bounded, a process that is gone stays gone, a servo loop that
  was shut down does not start again.

### 3.3 Fairness, and why the code justifies it

* **Blocking channel.** A thread that is inside a call goes on (weak); a mutex released again and
  again is obtained (strong); store buffers drain (weak). Nobody has to cancel, nobody wakes without cause.
* **Core.** The servo thread is periodic (weak on `ServoThread`); the I/O is ready again and again (strong
  on `ExecuteJog \/ ExecuteItem`); the publisher between counting and pushing an item gets to run
  (strong); a trajectory has a finite duration, so a motion that is advanced for ever ends
  (`MotionFinishes`). Nothing makes the session act: liveness is about the last demand it published.
* **Session.** The host thread takes steps as long as it can (`<>[]HostReady => []<><<Host>>`, weak
  fairness written with a guard that TLC need not search for); the producer thread and the snapshot thread
  run (weak); the executor ticks while the host waits for it, and its motions arrive. The operator is free
  to do nothing.
* **Physical I/O.** The servo thread and the worker are threads with a period or a timeout; the watchdog
  is a counter in the board (weak each). The network owes nothing.
* **External executor.** The peer's loop and its tick, and a brake that has begun (weak). Nobody has to
  die, and the front end may do nothing for ever. The manager has no liveness property: its calls end by
  deadlines and by the progress of the sessions. Neither has the geometry stream: a program is finite, so
  what must happen in the end is what `NothingIsStranded` says of the states in which nothing can.

## 4. Where the code does not do what is written

Two runs end in a counterexample; `findings` in `PROJECT.json` quotes the sentence each of them checks.

1. **A Stop that stops nothing** (`src/src/ProgramExecutionController.cpp:114`, `StopAbandonsAtRest`). The
   controller takes the executor for stationary because the last snapshot says Held; the driver has
   published an item since. Stop is answered and the session is idle while the item runs.
2. **A rapid behind an incompatible motion** (`m/GeometryStreamProducer.h:384`, `ModesAreKept`). A
   continuous motion that does not fit the chain before it (another tolerance, tool or offset) flushes
   the chain, which also forgets the mode just set for it (`:267`); it is retained without a mode. A rapid
   right behind it finds no mode to break with and is retained beside it, and the slice of both mixes
   exact stops and continuous motions. The planner rejects it (`m/TrajectoryPlanner.h:830`) and a valid
   program fails.

More of what the modelling met. Where a formula is named it is in the module, marked as not true of the
code, and TLC finds the behaviour when the formula is added to a configuration.

| where | what happens | formula |
|---|---|---|
| `core.cpp:519` | the emergency stop keeps the demand; after its reset the executor converges to it again and enables the machine, and may run what was queued since, until the host stops the runtime | `ResetRequiresPowerOn` |
| `m/TrajectoryPlanner.h:277` | where retained geometry is divided, a command with a station on both sides keeps its activation on both and is activated twice (`src/cnc_trajectory_planning_architecture.md:314`: only the first owning message has it) | `CommandsActivateOnce` |
| `m/PreparedTrajectoryExecutionDriver.h:154` | the end of a chain, a fence and the end of the program each plan once, which may be a prefix only; what is left of the chain is planned when the next message comes, and no message may come: the executor runs out of continuation | `ChainsAreFinished` |
| `m/PreparedTrajectoryExecutionDriver.h:408` | the report of an exact stop that is read when the next chain is already planned to a rolling boundary is taken for a stop on that boundary; the program fails | `StopsAreNotMistaken` |
| `m/OwningSpscChannel.h:28` | store and load are not ordered: the waker sees no waiter, the waiter no element; the next operation or the shutdown wakes it | `NoLostWakeup` |
| `core.cpp:2711` | a chunk that brakes for a feed hold and reaches a branch into a triggered move starts that move at full speed; state and demand still say hold | `HoldingMeansBraking` |
| `core.cpp:2577` | a missed deadline faults the core and the ticks go on with the jog it holds; the stop of a jog that has no velocity (started in a tick whose I/O was not ready) completes it at once and writes Held over Faulted, with nobody having reset anything (`docs/machine_session_backend_architecture.md:774-776`: missed deadlines become latched faults). That there is no third way out of Faulted is proved | `FaultIsLatched` |
| `core.cpp:766` | Run of a new epoch and its first item arrive between the two reads of one tick; the next tick adopts the epoch and discards the queue, without an event | `PublishedWorkIsNotDropped` |
| `core.cpp:811` | in the same window the old epoch is started for the new item; Running with nothing to run, the core can establish no later epoch | `WorkIsServed` |
| `src/src/HomingController.cpp:349` | a Stop before the move is accepted discards it; no completion comes and homing waits for ever | `HomingStopAnswered` |
| `src/src/ServicedMotionOperation.cpp:20` | an emergency stop latched between the dispatch of an operation and `begin()` is discarded with the pending events; the operation waits until the operator stops it | `OperationsEnd` without its exception |
| `src/src/MachineSession.cpp` | an operation that has demanded a stop waits for its answer, also from an executor that was lost meanwhile | `LossEndsOperation` |
| `m/MachineSessionManager.h:319` | the manager keeps the active jog of an operation that was discarded before it began, and refuses other motion | `JogIsReleased` |
| `src/src/mesa/MesaProductionExecutorIo.cpp:213` | a move in the tick after an assignment of coordinates is compared with the old origin and faults; homing leaves idle ticks between the two | `FollowingErrorMeansSlip` with `QuickHost` |
| `src/src/SpindleHardware.cpp:107` | a stop whose write was lost is answered as a stop (`docs/code_audit_findings.md`, finding 1) | `SafeStoppedMeansStopped` without `deaf` |
| `src/src/SpindleHardware.cpp:68` | a fault between the look at the fault code and the rearm leaves Armed without a worker; the wait for the safe stop does not end | `SpindleStopIsAnswered` for an ended worker |
| `src/src/IpcExecutorBridge.cpp:172` | with a demand the last snapshot did not show, the peer's own Stop is refused as old for ever; with a latched emergency stop there are no snapshots to wait for | `FrontLossStopsTheMachine` without `Overtaken` |

Seen in the code and not written as a formula: a peer whose front end died in Faulted or Disabled demands
nothing; after an I/O fault in `applyOutputs` the safe image is only sent by `runtime.stop`, and after a
missed deadline the commanded velocities are not zeroed (the watchdog stops the axes in both cases,
`DisabledStopsTheAxes`); a peer may overwrite StopRequested with PeerReady when the handshake has timed
out; a Stop waits for a feed hold in progress (`src/src/ProgramExecutionController.cpp:109`); a reset that
is acknowledged after its two seconds is carried out but reported as failed
(`m/MachineSessionManager.h:545`); an operation's error can be overwritten by Completed (`:1955-1985`).

## 5. Proofs

TLAPS checks every leaf; the only assumptions are those on the constants.

* **`ExecutorIngressProofs`** (assumes `CapacityAssumption`, `NoValueAssumption`,
  `MaxPublicationsAssumption`, `IngressAssumption`: positive capacities, natural bounds, a value outside
  the values). In three parts.
  *The ring.* `ChannelInvariant` adds to the types what each thread knows between two of its accesses: the
  head slot is free from the check to the publication, the tail slot is taken from the check to the
  release, and what was written or copied is what the slot holds. Without it neither `NoDataRace` nor the
  refinement is inductive, because the check is of an older value of the other index.
  `ChannelTypeCorrect`, `ChannelHasNoDataRace`; `ChannelImplementsFifo` maps the used slots to a sequence
  and every step to Push, Pop or a stutter.
  *The mailbox.* `MailboxInvariant` adds what each thread knows between its accesses: a producer about to
  exchange holds the next publication in its slot and has one left to publish; a consumer about to
  exchange has seen a dirty index, which only it cleans; the front is never newer than the last
  publication, and older while the index is dirty. `MailboxTypeCorrect`, `MailboxSlotsHaveOneOwner`,
  `MailboxHidesNothingNewer`, `MailboxImplementsLatestValue`.
  *The ingress.* Every step of the core's two threads is a step of the ring's specification or leaves it
  alone, and so for the mailbox (`IngressUsesChannel`, `IngressUsesMailbox`): each has one producer and
  one consumer, and what is proved of the two alone holds here (`IngressHasNoDataRace`,
  `IngressImplementsFifo`, `IngressImplementsLatestValue`). `IngressInvariant` then says for every plan
  slot which of the free list, a call of the host, the ring, the queue, a call of the servo thread or the
  executor holds it, counts the holders for the three counters, and ties every demand to the number of
  items before it. It is needed because slot, counter and ring change in different steps, and in another
  order on the two sides. `IngressTypeCorrect`, `CreditsAlwaysMatchWork`, `DemandsAlwaysFindTheirItems`.
* **`OwningSpscChannelProofs`** (assumes the capacity positive). The invariant says that the stores of a
  buffer reach the memory in their order, that the indices each side works on are those of the last store
  in its own buffer, that the slots between the two hold the messages in order, and what cancellation
  leaves. `ChannelTypeCorrect`, `ChannelDelivers`. `NoWakeupLostWithoutDelay`: without store buffers
  `NoLostWakeup` is true, so the wakeup of section 4 is lost by the delay of the store alone.
* **`EmergencyStopProofs`** (assumes the bounds natural, nothing of the sources). `Types` ties
  the sequence to the number of updates and the acknowledged to the observed generation; `Latching`
  carries what the update owes from the sampling of the sources over the handling of resets to the end.
  The point is the step in which a reset arrives between the two: it clears only if the sampled sources
  are none, so no held source is lost. `Sequencing` is the argument for the counter: while the sequence a
  reader took is current no publication is open, so each word it loads is one of the committed status.
  `EmergencyStopTypeCorrect`, `HeldSourcesAreLatched`, `EveryResetIsAnswered`,
  `OnlyAClearedResetUnlatches`, `StatusIsNeverTorn`.
* **`ExecutorSessionProofs`** (assumes `CoreAssumption` and `SessionAssumption`: positive numbers of spans and
  lease ticks, natural bounds, kinds and modes among those of the code; nothing of the numeric outcomes).
  The operators call one another as the member functions do, so there is a lemma per operator: from an
  argument that is `Sound` (typed, span cursor inside the active item) it returns a sound record. Three
  refinements of it follow the control: `Free` (no jog), `Busy` (free and executing), `Served` (free and
  executing or faulted). The cursor is the delicate part: `CompleteSpan` leaves it one past the end for the
  rest of the function, so what it calls is proved from the type alone, and restores it. `Ticking` says
  what a later phase of a tick relies on: execution is entered only when executing, an item is advanced only
  when there is one and no jog, and no tick begins once the I/O has faulted. A faulted executor may hold a jog,
  after a missed deadline; that is why the theorem on faults has a second way out. `Counting` bounds the session's epochs by the demands that announce them.
  `ExecutorTypeCorrect`, `OutputsAreSafe`, `FaultsEndTwoWays`.
  *The items* (the second part of the module). What the executor has done is in its events, so the first
  part is about sequences of events: what they tell, and what the log, which is a fold over them, keeps of
  it (by induction over a set of numbers, without recursion). The second part says of every operator which
  of its events tell of items and stops, and how it moves the active item and the queue: almost all are
  `Quiet` (both stay, or are dropped together); the others accept the head, reject it, continue into it,
  retire the active item or abandon all, and tell exactly that. The third part is the invariant `ItemsInv`:
  `LineUp` (queue, ingress and the item in the publisher's hand are in the order of their ids), `Apart`
  (all of them are later than what was accepted, rejected or retired, and none of them is doomed) and
  `History` (the log is in order, nothing rejected ever ran, and the active item is the last accepted, not
  retired and of the executor's epoch). It is needed because `ItemsRunInOrder` compares log entries only,
  and the next entry comes from a place the log does not show. `ItemsKeepTheirOrder`,
  `DoomedWorkStaysAbandoned`.
  The fourth part is about epochs. `EpochsInv` says that the latest demand is the session's (`DemandsFit`),
  that the executor adopts epochs in the order in which they are announced (`EpochsFit`), that it executes
  nothing in an epoch whose operation has not begun (`Asleep`), and that every stopped epoch is past, or
  remembered in `m_stoppedEpoch`, or `Gone`: no demand will name it again (`StopsStand`). `Gone` is the
  point. When the power is switched off, `beginDemandStop` remembers epoch 0 instead of the one it stopped,
  and only the session, which has announced a later epoch by then, keeps the old one from running again;
  `Asleep` is why the two cannot be the same epoch. `StoppedEpochsStayStopped`.
  The fifth part is about rest (`HeldStandsStill`). Its invariant `Still` is `HeldMeansStationary` with what
  keeps it so from one operator to the next: which of them end all motion, and which leave a chunk, a
  triggered move or a braking stop under way with the state that says so. Two facts about the callers are needed
  and are not the core's own: the core starts a jog or a joint move without asking whether something else
  moves, and only the session keeps it from doing so, because it starts a jog only while it demands one and the
  items of an epoch are all homing moves or none is (`JogsFit`, `KindsFit`). A latched executor has neither
  jog nor item nor motion, whatever the phase of the tick.
  The last part is about markers and spindle events (`MarkersKeepCount`). `MarkersFireOnceInOrder` speaks of the
  log alone, and what is fired next is decided by cursors that activation, completion, a stop and a fault all reset;
  `MarksInv` ties the two. The cursors of the active item are how many of either the log has counted of
  it (`Fired`); while a chunk runs, its current span has fired its spindle event and at most its own
  marker, and once it has branched both counts are equal (`Abreast`); what waits in the queue has fired
  nothing and is not among the accepted (`Unheard`, from `ItemsInv`), so a cursor that starts at 0 starts
  where the log does. In the middle of `CompleteSpan` the span has moved on and `Abreast` does not hold:
  the operators called there are proved from `Telling`, and `BeginSpan` or the branch restores it. One more
  entry of the log is one more in the count by the library's theorems on cardinality.
* **`MachineSessionProofs`** (no assumption). `SessionLives` is the refinement of `SessionLife` by the whole of
  `MachineSession`: of any programs, jogs, capacities and bounds. `IInv` says what holds at each place of the
  host thread: only a powered session shows an activity of its own (`ActivityInv`), `m_running` is set from the
  dispatch of an operation until the thread is back in its loop (`RunningInv`), and power that is off or on
  its way comes with neither work nor, when it is off, an executor (`PowerInv`). All three are needed for
  the steps between which the power may go: the dispatch of a command whose activity is still shown, and a
  start of the executor that fails after an emergency stop - which only the closed link keeps from being
  reset in between. `SplitKeepsThePath`: dividing prepared geometry at a cut inside one of its pieces loses,
  repeats and reorders nothing of the path, for any number of pieces.
* **`SessionManagerProofs`** (assumes `ConfiguredAssumption` and `BoundsAssumption`: a Machine session or none,
  natural bounds). `IInv` has a part per session (`HostInv`: what its host thread holds it holds with
  power), a part for the call that has the manager's mutex (`CallInv`: what a waiting call found out -
  that a session is off, that it has the control, that the emergency stop is not latched - holds until it
  is used, because nobody else has the mutex and the session itself can only lose power), and
  `AuthorityInv`, which ties authority and target. The calls that wait are why it is needed: each of the
  properties speaks of what a call does after its wait with what it knew before. `TypeCorrect`,
  `GuiLatchIsKept`, `ControlIsExclusive`, `StaleRequestsAreRefused`; `SessionsLive` is the refinement of
  `SessionLife`, for both sessions.
* **`PhysicalIoProofs`** (assumes `SpindleAssumption`, `MesaAssumption`: a queue of at least one command, at
  least one convergence cycle and two sequence words; nothing of `Travel`). `PhysicalInv` joins three
  arguments to the types. `SpindleInv`: a stop is the last thing the drive was told when it is answered,
  and while the answer stands the worker is in one of the places from which it tells the drive nothing
  else. `RepliesInv`: as long as no exchange has failed, at most the repetition of the last answer waits
  in the socket, under another word than the one expected; so an answer that is accepted is of the
  datagram just sent, and two words are enough. `JointInv`: when the core lets the joint move.
  `PhysicalTypeCorrect`, `SafeStopsAreStops`, `InputsAreAlwaysCurrent`. `AxesInv` follows a controlled
  joint through the three images that are under way at any time: what is staged is where the core left
  the joint (`StagedInv`), and accumulator, rate, origin and the written and measured positions add up
  between two exchanges (`WaitingInv`), when the board has served the datagram (`ServedInv`) and when the
  answer was read (`ReadInv`). It is needed because the comparison is of a reading with the image written
  one exchange before, across alignment, assignment of coordinates, safe images and lost datagrams.
  `FollowingErrorsAreSlips` has the hypothesis `~QuickHost`: no move starts in the tick after an
  assignment, the case of section 4.
* **`ExternalExecutorProofs`** (assumes `PeerAssumption` and `FrontAssumption`: positive capacities, natural
  bounds). `IInv` has, besides the types, an argument for each of the two properties. *Items*: `ItemInv`
  needs `TalkInv`, which says of the handshake what `ItemInv` says of the connection: the region that the
  host begins to fill is empty, the peer has not reached its bridge before the host said `Running`, and
  nobody asks for a stop while the two talk. Without it an answer to an old handshake could start a bridge
  that holds items of which the host does not know. *Stop*: `DemandInv` says that a demand is accepted once
  and that no snapshot is ahead of the core; `StopInv` that while the stop waits for a demand, that demand
  is the last one (a newer one of the front end cannot come any more, because the bridge is not run), and
  that a snapshot which acknowledges it is of a core that obeys it. So a snapshot that shows rest was
  taken by a core that does not start to move again, however many ticks pass until the wait reads it:
  rest in an old snapshot is rest now. `TypeCorrect`, `ItemsReachTheExecutor`, `OrderlyStopBrakesFirst`.

## 6. What is only model-checked

Liveness everywhere (TLAPS 1.4.5 proves no `ENABLED` and no fairness argument). Every safety property
of the core that holds is proved. Of `MachineSession` nothing is proved beyond `LivesAsPromised`, and of
`GeometryStream` nothing beyond `SplitKeepsThePath`: what the producer's preparation and the planner's
lists of pieces compute is a recursion over data.

## 7. What is not modelled

* **Numerics** (trajectories, splines, arcs, retiming, limits; about 8,000 lines). They enter the models
  as outcomes: a span ends or does not, the proof of a boundary fails or succeeds; and a curve as the
  interval of the path that it covers.
* **Interpreter, stores, configuration, discovery, digital I/O program**: sequential code without shared
  state. Its interest is in what one call computes, which its tests reach.
* **GUI, command-line tools, presentation tracker, thread set-up, mock backend** (about 10,000 lines):
  presentation, system calls, a test double; nothing of it feeds back into control.
* **Pendant, operator jog, touch-off**: clients of the manager. `MachineSession` takes their calls in
  any order, so what they can do to a session is covered, and what they do in particular is not.
* **Tests** are about 20,000 of the 61,700 lines.
* **Geometry stream**: preparation or compilation that fails, `reconcileHeldPosition` after a probe,
  lifecycle and status messages. Fences, pauses and probes at rest are in `MachineSession`.
* **The peer's stop when its demand is refused** (`src/src/IpcExecutorBridge.cpp:197`, `:208`): a refused Stop, or
  an epoch of 0, is followed at once by Disabled instead of the wait for Held. `ExecutorPeer` waits for Held first;
  the Disabled that both wait for in the end is the stronger condition.
* **Power cycles in simulation** keep the executor core (`docs/code_audit_findings.md`, finding 2); `SessionManager`
  renews it. No property depends on which.
* **In the modelled components**: settings and persistence of a session (whole-file writes between
  operations), touch-off and tool commands, timing statistics, the event ring of the core at its limit,
  register layouts, packet formats. `components` in `PROJECT.json` says so for each.
* **Memory order** is sequentially consistent except in `OwningSpscChannel`. The ring and the mailbox
  need only release and acquire. `EmergencyStop::status` loads its fields relaxed with no fence before the
  second load of the sequence; x86 keeps that order, the C++ model does not promise it.

## 8. Plan

What is left, most valuable first.

1. `PendantJog`: the device, its reader thread, the profile, the operator's jog and the session's record
   of the active jog. A released wheel stops the jog though snapshots are old and queues are long.
2. The event ring of the core at its limit, with the handlers that set the state after it
   (`core.cpp:2812`).
3. Proofs: `ServicedMotionEndsAtRest` and `CompletedMeansExecuted` of `MachineSession`.
