---------------------------- MODULE SessionState ----------------------------
(***************************************************************************)
(* The state of a machine session in its host, and the executor it is      *)
(* linked to: a process that runs servo ticks of its own, takes items and  *)
(* requests from the ingress queue, emits events, publishes a snapshot at  *)
(* the end of a tick, latches the emergency stop and may be lost.          *)
(*                                                                         *)
(* One tick is one step here; ExecutorSession takes it apart.              *)
(***************************************************************************)
EXTENDS ProgramOperation

CONSTANTS
    Programs,          \* the programs started: what they are prepared into, and
                       \* whether they preserve the state of the last one
    Homing,            \* the machine has homing groups
    RequireHoming,     \* a program needs a homed machine
    Jogs,              \* the kinds of jog started
    ForwardCapacity,   \* messages in the forward channel
    PlanCapacity,      \* items an executor can hold
    ControlCapacity,   \* requests it can hold
    Troubles,          \* numeric failures of the executor, with "None"
    MaxEpochs,         \* bound on operations started
    MaxCommands,       \* bound on commands given while the power is on
    MaxDisasters,      \* bound on emergency stops and losses of the executor's process
    MaxPowers          \* bound on requests to switch the power on

JogKinds == {"Continuous", "Bounded", "Incremental"}

ASSUME SessionAssumption ==
    /\ Programs \subseteq [messages : Seq(MessageTypes), preserve : BOOLEAN]
    /\ {Homing, RequireHoming} \subseteq BOOLEAN /\ Jogs \subseteq JogKinds
    /\ ForwardCapacity \in Nat \ {0} /\ PlanCapacity \in Nat \ {0}
    /\ ControlCapacity \in Nat \ {0}
    /\ "None" \in Troubles
    /\ {MaxEpochs, MaxCommands, MaxDisasters, MaxPowers} \subseteq Nat

VARIABLES
    core,        \* the executor
    link,        \* its process: closed, running or lost
    requested,   \* the GUI source of its emergency stop is raised
    latched,     \* its emergency stop is latched
    ingress,     \* items and requests published and not taken by the executor
    fresh,       \* it published a snapshot that nobody took
    events,      \* its events that the session has not taken
    observed,    \* its snapshot, as the next iteration of the host thread sees it
    demanded,    \* what ExecutorDemandController demanded last
    control,     \* ProgramExecutionController
    driver,      \* PreparedTrajectoryExecutionDriver
    feedback,    \* messages to the producer
    cancelled,   \* m_geometryCancelled
    forward,     \* messages from the producer
    producer,    \* the producer thread: its program, its next message, where it is
    motion,      \* the homing or jogging that is serviced
    homed,       \* m_homedJoints are all the joints
    jogOwned,    \* the host's m_activeJog is the operator's jog
    power,       \* ExecutionCoordinator::m_powerState
    activity,    \* ExecutionCoordinator::m_activity
    commands,    \* SessionCommandQueue
    pending,     \* m_pendingPowerOperation, or "None"
    host,        \* where the host thread is
    running,     \* m_running
    errored,     \* m_snapshot.status is Error
    pressed,     \* m_snapshot shows the GUI source as latched
    nextEpoch,   \* m_nextEpoch
    given        \* what was given so far, for the bounds

executorVars == <<core, link, requested, latched, ingress, fresh>>
channelVars == <<events, observed, demanded>>
programVars == <<control, driver, feedback, cancelled>>
producerVars == <<forward, producer>>
motionVars == <<motion, homed, jogOwned>>
stateVars == <<power, activity, commands, pending>>
shownVars == <<running, errored, pressed>>
countVars == <<nextEpoch, given>>
vars == <<executorVars, channelVars, programVars, producerVars, motionVars, stateVars,
          shownVars, countVars, host>>

Linked == link = "running"

\* ExecutorDemandController::request: a refused demand takes no generation.
Request(mode, epoch) ==
    IF Linked THEN demanded' = [generation |-> demanded.generation + 1, mode |-> mode,
                                epoch |-> epoch]
    ELSE UNCHANGED demanded

\* What the executor publishes at the end of a tick.
Snapshot ==
    [generation |-> core.demand.generation, accepted |-> core.accepted,
     state |-> core.state, epoch |-> core.epoch, mode |-> core.demand.mode,
     moving |-> core.moving, fullRate |-> core.feed = "None"]
NoSnapshot(epoch, state) ==
    [generation |-> 0, accepted |-> TRUE, state |-> state, epoch |-> epoch,
     mode |-> "Disabled", moving |-> FALSE, fullRate |-> TRUE]

\* The newest snapshot, for one who has seen the others.
Polled(seen) == IF fresh THEN Snapshot ELSE seen

NoProgram == [messages |-> <<>>, preserve |-> FALSE]
NoProducer == [program |-> NoProgram, next |-> 1, at |-> "ended"]

\* move counts the moves of homing, which is also their id; stop says that the
\* operator stopped the operation, stopSent that the executor was told.
NoMotion ==
    [kind |-> "None", jog |-> "None", at |-> "over", epoch |-> 0, request |-> 0,
     move |-> 0, stop |-> FALSE, stopSent |-> FALSE, stopGeneration |-> 0,
     mayMove |-> FALSE, reported |-> FALSE, seen |-> NoSnapshot(0, "None"),
     result |-> "None"]

Init ==
    /\ core = InitialCore /\ link = "closed" /\ requested = FALSE /\ latched = FALSE
    /\ ingress = <<>> /\ fresh = FALSE /\ events = <<>> /\ demanded = NoDemand
    /\ observed = NoSnapshot(0, "Disabled")
    /\ control = InactiveControl /\ driver = DriverOf(0, 0)
    /\ feedback = <<>> /\ cancelled = FALSE
    /\ forward = <<>> /\ producer = NoProducer
    /\ motion = NoMotion /\ homed = FALSE /\ jogOwned = FALSE
    /\ power = "Off" /\ activity = "Idle" /\ commands = <<>> /\ pending = "None"
    /\ running = FALSE /\ errored = FALSE /\ pressed = FALSE
    /\ host = "idle" /\ nextEpoch = 1
    /\ given = [commands |-> 0, disasters |-> 0, powers |-> 0]

-----------------------------------------------------------------------------
(* The executor: one servo tick, its emergency stop and its process.       *)

PlanRecord(item) == [type |-> "Plan", item |-> item]
IsPlan(record) == record.type = "Plan"
PlansIn(records) == SelectSeq(records, IsPlan)
ItemsHeld == Len(PlansIn(ingress)) + Len(core.plans)

\* Joints reach their ends, and triggers are met, only where one is moved.
Outcomes ==
    LET one == CHOOSE j \in Joints : TRUE
        items == {core.active} \union Range(core.plans)
                 \union {record.item : record \in Range(PlansIn(ingress))}
        joint == \E item \in items : item.kind = "Joint"
        sought == joint \/ \E item \in items : item.kind = "Triggered"
    IN  [trouble : Troubles, done : BOOLEAN, moves : {TRUE}, reached : {TRUE},
         settled : BOOLEAN, hits : IF sought THEN {{}, {one}} ELSE {{}},
         ends : IF joint THEN {{}, {one}} ELSE {{}}]

\* The events the session acts on; the others only change what is presented.
Reported(event) == event.type \notin {"ChunkAccepted", "ExecutionMarkerReached",
                                      "SpindleApplied"}

\* A reader may come while the executor is emitting: it finds the events of any first
\* part of the tick.  Finding none is coming before the tick.
Readable == IF events = <<>> THEN {0} ELSE DOMAIN events

Serviced(c, o) ==
    FoldLeft(LAMBDA d, record : IF IsPlan(record)
                                THEN [d EXCEPT !.plans = Append(@, record.item)]
                                ELSE ServiceControl(d, o, record),
             c, ingress)

Demanded(c) ==
    IF demanded.generation = c.demand.generation THEN c ELSE ServiceDemand(c, demanded)
Activated(c, o) ==
    IF Executing(c) /\ ~Jogging(c) /\ ~Active(c) /\ DemandAllowsActivation(c)
    THEN ActivateNext(c, o) ELSE c
Advanced(c, o) ==
    IF ~Executing(c) THEN c
    ELSE IF Jogging(c) THEN AdvanceJog(c, o)
    ELSE IF Active(c) THEN AdvanceActive(c, o) ELSE c

Ticked(o) ==
    Advanced(Activated(ConvergeDemand(
        Serviced(ConvergeDemand(Demanded(core), o, PlansIn(ingress) # <<>>), o),
        o, FALSE), o), o)

ExecutorBecomes(next) ==
    /\ core' = [next EXCEPT !.out = <<>>]
    /\ events' = events \o SelectSeq(next.out, Reported)
    /\ ingress' = <<>>
    /\ fresh' = TRUE
    /\ UNCHANGED <<link, requested, observed, demanded, programVars, producerVars,
                   motionVars, stateVars, shownVars, nextEpoch, host>>

ServoTick(o) ==
    /\ Linked /\ ~latched /\ ~requested
    /\ ExecutorBecomes(Ticked(o))
    /\ UNCHANGED <<latched, given>>

\* A tick that sees an active source latches it.  Sources other than the GUI are
\* inputs, of which only the latch stays.
TickLatches ==
    /\ Linked /\ ~latched
    /\ requested \/ given.disasters < MaxDisasters
    /\ ExecutorBecomes(LatchEmergencyStop(core, [trouble |-> "None"]))
    /\ latched' = TRUE
    /\ given' = [given EXCEPT !.disasters = IF requested THEN @ ELSE @ + 1]

\* The process is gone; after its last events the session sees a fault.
PeerDies ==
    /\ Linked /\ given.disasters < MaxDisasters
    /\ link' = "lost"
    /\ events' = Append(events, Event("BackendFault", 0, "PeerLost"))
    /\ given' = [given EXCEPT !.disasters = @ + 1]
    /\ UNCHANGED <<core, requested, latched, ingress, fresh, observed, demanded,
                   programVars, producerVars, motionVars, stateVars, shownVars,
                   nextEpoch, host>>

\* BackendRuntime::stop closes the region.
StopRuntime ==
    /\ core' = InitialCore /\ link' = "closed" /\ requested' = FALSE /\ latched' = FALSE
    /\ ingress' = <<>> /\ fresh' = FALSE /\ events' = <<>>

Executor == TickLatches \/ PeerDies \/ \E o \in Outcomes : ServoTick(o)
=============================================================================
