----------------------------- MODULE GeometryStream -----------------------------
(***************************************************************************)
(* A program on its way to the machine: the producer thread prepares       *)
(* geometry, the forward channel carries it to the host thread, whose      *)
(* driver (src/src/include/machine/PreparedTrajectoryExecutionDriver.h)    *)
(* plans items from it and publishes them, and the servo thread executes   *)
(* them.                                                                   *)
(*                                                                         *)
(* The interpreter may produce any program of at most MaxEvents events.    *)
(* The channels never fill up; operator commands, probes and executor      *)
(* faults are in MachineSession.  The executor runs an item in one step,   *)
(* continues into the next one if there is one, and otherwise stops.  It   *)
(* is slow enough never to overtake a pipeline that can still act: an item *)
(* that requires a continuation ends without one only when no thread is    *)
(* going to supply it.                                                     *)
(***************************************************************************)
EXTENDS GeometryStreamProducer, TrajectoryPlanner

CONSTANTS
    Motions,             \* the kinds of motions: [mode, length, trim]
    MaxEvents,           \* bound on the events of a program
    ExecutorCapacity     \* items the executor admits

ASSUME StreamAssumption ==
    /\ \A m \in Motions : m.mode \in Modes /\ m.length \in Nat \ {0} /\ m.trim \in Nat \ {0}
    /\ MaxEvents \in Nat
    /\ ExecutorCapacity \in Nat \ {0}

VARIABLES
    program,     \* [events, starts: where each command begins, length]
    producer,    \* see GeometryStreamProducer
    forward,     \* the forward channel
    driver,      \* the driver and its planner
    executor,    \* [queue, position, policy: of the last item, activated: commands]
    events       \* events of the executor the driver has not seen

vars == <<program, producer, forward, driver, executor, events>>

IdleDriver ==
    [planner |-> IdlePlanner, pending |-> <<>>, deferred |-> <<>>, outstanding |-> 0,
     fence |-> FALSE, update |-> FALSE, updateAt |-> 0, complete |-> FALSE, error |-> "None"]

Init ==
    /\ program = [events |-> 0, starts |-> <<>>, length |-> 0]
    /\ producer = IdleProducer
    /\ forward = <<>>
    /\ driver = IdleDriver
    /\ executor = [queue |-> <<>>, position |-> 0, policy |-> "StopAllowed",
                   activated |-> <<>>]
    /\ events = <<>>

\* The model ends where the driver reports an error.
NoError == driver.error = "None"

-----------------------------------------------------------------------------
(* The producer: one event of the interpreter *)

Produce(p) ==
    /\ producer' = [p EXCEPT !.out = <<>>]
    /\ forward' = forward \o p.out

NextEvent == NoError /\ program.events < MaxEvents /\ producer.at = "ready"
CommandId == Len(program.starts) + 1

ProduceMotion(m) ==
    /\ NextEvent
    /\ Produce(ProcessMotion(producer,
           [id |-> CommandId, mode |-> m.mode, from |-> program.length,
            length |-> m.length, trim |-> m.trim]))
    /\ program' = [program EXCEPT !.events = @ + 1, !.length = @ + m.length,
                                  !.starts = Append(@, program.length)]
    /\ UNCHANGED <<driver, executor, events>>

StandalonePiece ==
    Piece("Standalone", program.length, program.length, CommandId, <<>>, {})

ProduceStandalone ==
    /\ NextEvent
    /\ Produce(PublishAfterFlush(producer,
                   [Message("Standalone") EXCEPT !.pieces = <<StandalonePiece>>]))
    /\ program' = [program EXCEPT !.events = @ + 1, !.starts = Append(@, program.length)]
    /\ UNCHANGED <<driver, executor, events>>

ProduceSynchronizationFence ==
    /\ NextEvent
    /\ Produce([PublishAfterFlush(producer, Message("SynchronizationFence"))
                   EXCEPT !.at = "waiting"])
    /\ program' = [program EXCEPT !.events = @ + 1]
    /\ UNCHANGED <<driver, executor, events>>

ProducePresentationUpdate ==
    /\ NextEvent
    /\ Produce(PublishAfterFlush(producer,
                   [Message("PresentationUpdate") EXCEPT !.distance = program.length]))
    /\ program' = [program EXCEPT !.events = @ + 1]
    /\ UNCHANGED <<driver, executor, events>>

ProduceProgramEnd ==
    /\ NoError /\ producer.at = "ready"
    /\ Produce([PublishAfterFlush(producer, Message("ProgramEnd")) EXCEPT !.at = "done"])
    /\ UNCHANGED <<program, driver, executor, events>>

-----------------------------------------------------------------------------
(* The driver.  An operator returns the set of the records that it may      *)
(* leave.                                                                   *)

Fail(d, reason) == IF d.error = "None" THEN [d EXCEPT !.error = reason] ELSE d

Drained(d) == d.pending = <<>> /\ d.outstanding = 0 /\ WindowSize(d.planner) = 0

Completed(d) ==
    /\ d.error = "None" /\ d.complete /\ Drained(d)
    /\ d.deferred = <<>> /\ ~d.fence /\ ~d.update

\* planWindow
Plan(d, allowTerminalStop) ==
    {[d EXCEPT !.planner = planned.planner, !.pending = @ \o planned.items] :
        planned \in PlanWindow(d.planner, allowTerminalStop)}

PlanIfRetained(d) == IF WindowSize(d.planner) = 0 THEN {d} ELSE Plan(d, TRUE)

Defer(d, message) == Plan([d EXCEPT !.deferred = <<message>>], TRUE)

AppendSlice(d, slice) ==
    LET reason == Rejection(d.planner, slice)
        added == [d EXCEPT !.planner = EnqueuePrepared(@, slice)]
    IN  IF reason # "None" THEN {Fail(d, reason)}
        ELSE IF ShouldPlanRollingPrefix(added.planner) THEN Plan(added, FALSE) ELSE {added}

EndPreparedChain(d, chain) ==
    IF ~Retained(d.planner) THEN {d}
    ELSE IF d.planner.chain # chain THEN {Fail(d, "WrongEnd")}
    ELSE Plan([d EXCEPT !.planner.ended = TRUE], TRUE)

\* processMessage
ProcessMessage(d, message) ==
    LET w == d.planner
        enqueued == [d EXCEPT !.planner.window =
                         <<[piece |-> Head(message.pieces), activation |-> TRUE]>>]
    IN  CASE message.type = "Slice" ->
                IF WindowSize(w) # 0 /\ w.ended THEN Defer(d, message) ELSE AppendSlice(d, message)
          [] message.type = "Standalone" ->
                IF WindowSize(w) # 0 THEN Defer(d, message) ELSE Plan(enqueued, TRUE)
          [] message.type = "ContinuousEnd" -> EndPreparedChain(d, message.chain)
          [] message.type = "SynchronizationFence" ->
                {[e EXCEPT !.fence = TRUE] : e \in PlanIfRetained(d)}
          [] message.type = "PresentationUpdate" ->
                IF WindowSize(w) # 0 \/ d.fence THEN {Fail(d, "Order")}
                ELSE {[d EXCEPT !.update = TRUE, !.updateAt = message.distance]}
          [] message.type = "ProgramEnd" -> {[e EXCEPT !.complete = TRUE] : e \in PlanIfRetained(d)}
          [] message.type = "Failure" -> {Fail(d, "Failure")}

\* releaseSynchronizationIfHeld, called after whatever may have drained the driver:
\* the producer that waits for the fence goes on.
ReleaseIfHeld(d) ==
    IF d.fence /\ Drained(d)
    THEN driver' = [d EXCEPT !.fence = FALSE] /\ producer' = [producer EXCEPT !.at = "ready"]
    ELSE driver' = d /\ UNCHANGED producer

MayPump == NoError /\ ~driver.update

\* pumpOne, which looks at one of these in this order.
PumpPublishes ==
    /\ MayPump
    /\ driver.pending # <<>>
    /\ Len(executor.queue) < ExecutorCapacity
    /\ executor' = [executor EXCEPT !.queue = Append(@, Head(driver.pending))]
    /\ ReleaseIfHeld([driver EXCEPT !.pending = Tail(@), !.outstanding = @ + 1])
    /\ UNCHANGED <<program, forward, events>>

\* The deferred message waits until everything retained is planned.
PumpDeferred ==
    /\ MayPump
    /\ driver.pending = <<>> /\ driver.deferred # <<>>
    /\ \E d \in IF WindowSize(driver.planner) # 0 THEN Plan(driver, TRUE)
                ELSE ProcessMessage([driver EXCEPT !.deferred = <<>>], Head(driver.deferred)) :
           ReleaseIfHeld(d)
    /\ UNCHANGED <<program, forward, executor, events>>

PumpPlansExactStop ==
    /\ MayPump
    /\ driver.pending = <<>> /\ driver.deferred = <<>>
    /\ ShouldPlanImmediately(driver.planner)
    /\ \E d \in Plan(driver, TRUE) : ReleaseIfHeld(d)
    /\ UNCHANGED <<program, forward, executor, events>>

PumpPops ==
    /\ MayPump
    /\ driver.pending = <<>> /\ driver.deferred = <<>>
    /\ ~ShouldPlanImmediately(driver.planner)
    /\ forward # <<>>
    /\ forward' = Tail(forward)
    /\ \E d \in ProcessMessage(driver, Head(forward)) : ReleaseIfHeld(d)
    /\ UNCHANGED <<program, executor, events>>

\* Mutant of TakePresentationUpdate: outstanding items do not count.
TakePresentationUpdateEarly ==
    /\ driver.update
    /\ driver.pending = <<>> /\ WindowSize(driver.planner) = 0
    /\ driver' = [driver EXCEPT !.update = FALSE, !.updateAt = 0]
    /\ UNCHANGED <<program, producer, forward, executor, events>>

TakePresentationUpdate ==
    /\ NoError /\ driver.update
    /\ Drained(driver) /\ ~driver.fence
    /\ driver' = [driver EXCEPT !.update = FALSE, !.updateAt = 0]
    /\ UNCHANGED <<program, producer, forward, executor, events>>

Retirements == Len(SelectSeq(events, LAMBDA e : e = "ChunkRetired"))

\* Mutant of ServiceBackend: a fence is not looked at when an item retires.
ServiceBackendKeepsFence ==
    /\ NoError
    /\ events # <<>>
    /\ LET serviced == [driver EXCEPT !.outstanding = @ - Retirements]
       IN  driver' = IF "BackendFault" \in Range(events) THEN Fail(serviced, "Underrun")
                     ELSE IF "BackendHeld" \in Range(events)
                             /\ HasRollingContinuation(driver.planner)
                     THEN Fail(serviced, "MistakenStop") ELSE serviced
    /\ events' = <<>>
    /\ UNCHANGED <<program, producer, forward, executor>>

\* serviceBackend takes all events there are.  A stop while geometry is retained
\* behind a moving boundary is taken for one within that geometry.
ServiceBackend ==
    /\ NoError
    /\ events # <<>>
    /\ LET serviced == [driver EXCEPT !.outstanding = @ - Retirements]
       IN  ReleaseIfHeld(IF "BackendFault" \in Range(events) THEN Fail(serviced, "Underrun")
                         ELSE IF "BackendHeld" \in Range(events)
                                 /\ HasRollingContinuation(driver.planner)
                         THEN Fail(serviced, "MistakenStop") ELSE serviced)
    /\ events' = <<>>
    /\ UNCHANGED <<program, forward, executor>>

-----------------------------------------------------------------------------
(* The executor *)

Executes(item) ==
    executor' = [executor EXCEPT !.queue = Tail(@), !.position = item.to,
                                 !.policy = item.policy, !.activated = @ \o item.activates]

ExecutorContinues ==
    /\ NoError /\ Len(executor.queue) > 1
    /\ Executes(Head(executor.queue))
    /\ events' = Append(events, "ChunkRetired")
    /\ UNCHANGED <<program, producer, forward, driver>>

ExecutorStops ==
    /\ NoError /\ Len(executor.queue) = 1
    /\ Head(executor.queue).policy = "StopAllowed"
    /\ Executes(Head(executor.queue))
    /\ events' = events \o <<"ChunkRetired", "BackendHeld">>
    /\ UNCHANGED <<program, producer, forward, driver>>

\* Nobody is going to supply a continuation.
Starved ==
    /\ producer.at # "ready"
    /\ forward = <<>> /\ driver.pending = <<>> /\ driver.deferred = <<>>
    /\ ~ShouldPlanImmediately(driver.planner)

ExecutorUnderruns ==
    /\ NoError /\ Len(executor.queue) = 1
    /\ Head(executor.queue).policy = "ContinuationRequired"
    /\ Starved
    /\ Executes(Head(executor.queue))
    /\ events' = events \o <<"ChunkRetired", "BackendFault">>
    /\ UNCHANGED <<program, producer, forward, driver>>

-----------------------------------------------------------------------------

Producer ==
    \/ \E m \in Motions : ProduceMotion(m)
    \/ ProduceStandalone \/ ProduceSynchronizationFence
    \/ ProducePresentationUpdate \/ ProduceProgramEnd
Driver ==
    \/ PumpPublishes \/ PumpDeferred \/ PumpPlansExactStop \/ PumpPops
    \/ TakePresentationUpdate \/ ServiceBackend
Executor == ExecutorContinues \/ ExecutorStops \/ ExecutorUnderruns

Next == Producer \/ Driver \/ Executor

Spec == Init /\ [][Next]_vars

-----------------------------------------------------------------------------
(* Properties *)

Segments(items) == [i \in DOMAIN items |-> [from |-> items[i].from, to |-> items[i].to]]

\* The motions the producer retains, less what an earlier preparation has replaced.
RetainedSegments ==
    [i \in DOMAIN producer.retained |->
        LET r == producer.retained[i]
        IN  [from |-> IF i = 1 /\ producer.processed THEN r.from + Trim(r) ELSE r.from,
             to |-> End(r)]]

\* All of the program that is still to be executed, wherever it is.
Path ==
    Segments(executor.queue) \o Segments(driver.pending)
    \o Segments(driver.planner.geometry.pieces)
    \o Segments([i \in DOMAIN driver.planner.window |-> driver.planner.window[i].piece])
    \o FoldLeft(LAMBDA path, message : path \o Segments(message.pieces),
                <<>>, driver.deferred \o forward)
    \o Segments(producer.pieces) \o RetainedSegments

\* Between the position of the machine and the end of the program no part of the path
\* is lost, repeated or out of order: not by the preparation, which replaces corners and
\* clusters across the slices it publishes, nor by the planner, which divides them again.
\* And an item is planned to start moving just when the one before it ends in motion.
PathIsWhole ==
    NoError =>
        LET path == Path
            ends == <<executor.position>> \o [i \in DOMAIN path |-> path[i].to]
            items == executor.queue \o driver.pending
            policies == <<executor.policy>> \o [i \in DOMAIN items |-> items[i].policy]
        IN  /\ \A i \in DOMAIN path : path[i].from = ends[i] /\ path[i].from <= path[i].to
            /\ Last(ends) = program.length
            /\ \A i \in DOMAIN items :
                   items[i].entry = "Moving" <=> policies[i] = "ContinuationRequired"
            /\ driver.planner.moving <=> Last(policies) = "ContinuationRequired"

\* A command is shown when the machine is at it: none is passed over, none comes before
\* its turn, and all have been when the program is complete, although a command may be
\* replaced by parts of several pieces, slices and items.
CommandsActivateWithTheirMotion ==
    LET activated == executor.activated
    IN  /\ \A i, j \in DOMAIN activated : i < j => activated[i] <= activated[j]
        /\ \A id \in DOMAIN program.starts :
               /\ program.starts[id] < executor.position => id \in Range(activated)
               /\ id \in Range(activated) => program.starts[id] <= executor.position
               /\ Completed(driver) => id \in Range(activated)

\* The interpreter goes on after a synchronization, and the tool change is shown, only
\* when the machine has executed all that precedes it, whatever the producer, the planner
\* and the executor still held when the barrier was sent.
BarriersAreAnsweredAtTheirPlace ==
    [][ /\ (producer.at = "waiting" /\ producer'.at = "ready" =>
               executor.position = program.length /\ executor.queue = <<>>)
        /\ (driver.update /\ ~driver'.update => executor.position = driver.updateAt) ]_vars

\* The driver accepts what the producer sends: no slice overlaps retained geometry,
\* follows the end of its chain, belongs to another one, leaves a gap or references a
\* command that neither side knows, and no end is one of another chain.
StreamIsWellFormed ==
    driver.error \in {"None", "Mixed", "MistakenStop", "Underrun", "Order"}

\* When no thread has anything left to do the program is complete, or the driver has
\* reported an error: no message, command or piece of path is left behind by a barrier, a
\* deferred message or a rolling prefix, and the interpreter is not left waiting.
NothingIsStranded ==
    /\ NoError /\ ~(driver.update /\ Drained(driver))
    /\ producer.at # "ready" /\ forward = <<>>
    /\ driver.pending = <<>> /\ driver.deferred = <<>>
    /\ ~ShouldPlanImmediately(driver.planner)
    /\ executor.queue = <<>> /\ events = <<>>
    => Completed(driver)

\* Not true of the code (README, findings): slices do not mix exact stops and continuous
\* motions (m/GeometryStreamProducer.h:337).
ModesAreKept == driver.error # "Mixed"

\* Not true of the code (README, findings): a machine that stops on a rolling boundary
\* was meant to go on (m/PreparedTrajectoryExecutionDriver.h:408).
StopsAreNotMistaken == driver.error # "MistakenStop"

\* Not true of the code (README, findings): a chain that has ended is planned to its end
\* (src/cnc_trajectory_planning_architecture.md:352).
ChainsAreFinished == driver.error \notin {"Underrun", "Order"}

\* Not true of the code (README, findings): dividing geometry does not activate a command
\* twice (src/cnc_trajectory_planning_architecture.md:314).
CommandsActivateOnce ==
    \A i, j \in DOMAIN executor.activated : executor.activated[i] = executor.activated[j] => i = j
=============================================================================
