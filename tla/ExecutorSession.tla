--------------------------- MODULE ExecutorSession ---------------------------
(***************************************************************************)
(* The executor core among its callers.  The servo thread runs ticks       *)
(* (servoTick) in steps between which the NRT owner of the endpoint can    *)
(* publish a demand, publish an item or submit a control; before a tick    *)
(* the hosting runtime may latch or reset the emergency stop or report a   *)
(* fault of its own (HostedExecutorRuntime::tick).                         *)
(*                                                                         *)
(* The machine session is the environment: it speaks the protocol that     *)
(* ExecutorDemandController, PreparedTrajectoryExecutionDriver,            *)
(* ProgramExecutionController, HomingController and JoggingController      *)
(* follow together, and takes every choice they have as open.              *)
(***************************************************************************)
EXTENDS ProductionExecutorCore

CONSTANTS
    Troubles,        \* the numeric failures considered, with "None"
    Operations,      \* the operations the session starts
    Kinds,           \* the <<kind, policy>> pairs of the items published
    JogKinds,        \* the kinds of jog started
    DemandModes,     \* the modes the session demands
    MaxGeneration,   \* bound on demands published
    MaxItems,        \* bound on items published
    MaxRequests      \* bound on controls submitted

ASSUME SessionAssumption ==
    /\ "None" \in Troubles
    /\ DemandModes \subseteq Modes
    /\ Operations \subseteq {"Homing", "Program", "Jogging"}
    /\ Kinds \subseteq ItemKinds \X Policies
    /\ MaxGeneration \in Nat \ {0} /\ MaxItems \in Nat /\ MaxRequests \in Nat

VARIABLES
    core,       \* the executor's servo-owned state
    mailbox,    \* the demand published and not consumed, or NoDemand
    ingress,    \* m_ingress: published items and submitted controls in order
    reserved,   \* an item that is counted and not yet in m_ingress, or NoItem
    phase,      \* where the servo thread is in its tick
    latched,    \* the emergency stop is latched
    ioFault,    \* the I/O has a fault, which its implementations never clear
    session,    \* what the session demanded and submitted last
    log         \* what the executor reported, for the properties only

vars == <<core, mailbox, ingress, reserved, phase, latched, ioFault, session, log>>

Phases == {"idle", "ingress", "execute", "advance"}

-----------------------------------------------------------------------------
(* Outcomes of a step: every field the step reads is open, the others are  *)
(* fixed so that no step is repeated for nothing.                          *)

Outcome(trouble, done, moves, reached, settled, hits, ends) ==
    [trouble : trouble, done : done, moves : moves, reached : reached,
     settled : settled, hits : hits, ends : ends]

No == {FALSE}
SomeJoints == SUBSET Joints

ControlOutcomes ==
    Outcome(Troubles \intersect {"None", "Generation", "Limit"},
            No, No, No, No, {{}}, {{}})

JogOutcomes ==
    Outcome(Troubles \intersect {"None", "Generation", "Limit"},
            BOOLEAN, No, No, No, {{}}, {{}})

ActivationOutcomes ==
    Outcome(Troubles \intersect {"None", "Generation", "Join"},
            No, No, BOOLEAN, No, {{}}, SomeJoints)

AdvanceOutcomes ==
    CASE core.planStop # "None" ->
            Outcome(Troubles \intersect {"None", "Limit"},
                    BOOLEAN, No, No, No, {{}}, {{}})
      [] core.planStop = "None" /\ core.active.kind = "Chunk" ->
            Outcome(Troubles, BOOLEAN, BOOLEAN, BOOLEAN,
                    IF Retiming(core) THEN BOOLEAN ELSE No, {{}}, {{}})
      [] core.active.kind = "Triggered" ->
            Outcome(Troubles \intersect {"None", "Generation", "Limit"},
                    BOOLEAN, No, No, No, {{}, Joints}, {{}})
      [] core.active.kind = "Joint" ->
            Outcome(Troubles \intersect {"None", "Generation", "Limit"},
                    No, No, No, No, SomeJoints, SomeJoints)

-----------------------------------------------------------------------------
(* The log keeps, of the events the executor emits, what properties need.  *)

EmptyLog == [accepted |-> <<>>, retired |-> <<>>, rejected |-> <<>>,
             markers |-> <<>>,
             applied |-> <<>>, branched |-> {}, stoppedEpochs |-> {},
             answers |-> <<>>, doomed |-> {}]

Observed(seen, event) ==
    CASE event.type = "ChunkAccepted" ->
            [seen EXCEPT !.accepted = Append(@, event.id)]
      [] event.type = "ChunkRetired" ->
            [seen EXCEPT !.retired = Append(@, event.id)]
      [] event.type = "ChunkRejected" ->
            [seen EXCEPT !.rejected = Append(@, event.id)]
      [] event.type = "ExecutionMarkerReached" ->
            [seen EXCEPT !.markers = Append(@, <<event.id, event.info>>)]
      [] event.type = "SpindleApplied" ->
            [seen EXCEPT !.applied = Append(@, <<event.id, event.info>>)]
      [] event.type = "BranchSelected" ->
            [seen EXCEPT !.branched = @ \union {event.id}]
      [] event.type = "RequestCompleted" ->
            [seen EXCEPT !.answers = Append(@, <<event.id, event.info>>)]
      [] OTHER -> seen

\* The epochs reported as stopped in a step; the stop of a triggered move only
\* ends that move.
StoppedIn(events) ==
    IF \E event \in events : event.type = "TriggeredMoveCompleted" THEN {}
    ELSE {event.id : event \in {e \in events : e.type = "BackendHeld"
                                               /\ e.info = "ControlledStop"}}

\* The session's log after the executor's record has become next, whose events
\* it takes in their order.
LogAfter(events) ==
    LET seen[n \in 0..Len(events)] ==
            IF n = 0 THEN log ELSE Observed(seen[n - 1], events[n])
    IN  IF events = <<>> THEN log
        ELSE [seen[Len(events)] EXCEPT
                !.stoppedEpochs = @ \union StoppedIn(Range(events))]

Step(next) ==
    /\ core' = [next EXCEPT !.out = <<>>]
    /\ log' = LogAfter(next.out)

-----------------------------------------------------------------------------
(* The servo thread.                                                       *)

IsPlan(record) == record.type = "Plan"
Pending == reserved # NoItem \/ \E i \in DOMAIN ingress : IsPlan(ingress[i])

\* servoTick begins: the newest demand is consumed and converged to.
TickBegins ==
    /\ phase = "idle" /\ ~latched /\ ~ioFault
    /\ \E o \in ControlOutcomes :
          LET demanded == IF mailbox = NoDemand THEN core
                          ELSE ServiceDemand(core, mailbox)
          IN  Step(ConvergeDemand(demanded, o, Pending))
    /\ mailbox' = NoDemand
    /\ phase' = "ingress"
    /\ UNCHANGED <<ingress, reserved, latched, ioFault, session>>

\* serviceIngress takes one record: an item joins the plan queue ...
IngressPlan ==
    /\ phase = "ingress" /\ ingress # <<>> /\ IsPlan(Head(ingress))
    /\ core' = [core EXCEPT !.plans = Append(@, Head(ingress).item)]
    /\ ingress' = Tail(ingress)
    /\ UNCHANGED <<mailbox, reserved, phase, latched, ioFault, session, log>>

\* ... and a control is serviced.
IngressControl ==
    /\ phase = "ingress" /\ ingress # <<>> /\ ~IsPlan(Head(ingress))
    /\ \E o \in ControlOutcomes : Step(ServiceControl(core, o, Head(ingress)))
    /\ ingress' = Tail(ingress)
    /\ UNCHANGED <<mailbox, reserved, phase, latched, ioFault, session>>

\* The queue is empty; the demand is converged to once more.
IngressEnds ==
    /\ phase = "ingress" /\ ingress = <<>>
    /\ \E o \in ControlOutcomes : Step(ConvergeDemand(core, o, Pending))
    /\ phase' = IF Executing(core') THEN "execute" ELSE "idle"
    /\ UNCHANGED <<mailbox, ingress, reserved, latched, ioFault, session>>

\* The I/O is not ready to execute: this tick advances nothing.
NotReady ==
    /\ phase = "execute"
    /\ phase' = "idle"
    /\ UNCHANGED <<core, mailbox, ingress, reserved, latched, ioFault, session, log>>

ExecuteJogStep(outcomes) ==
    /\ phase = "execute" /\ Jogging(core)
    /\ \E o \in outcomes : Step(AdvanceJog(core, o))
    /\ phase' = "idle"
    /\ UNCHANGED <<mailbox, ingress, reserved, latched, ioFault, session>>

ExecuteJog == ExecuteJogStep(JogOutcomes)

ExecuteItem ==
    /\ phase = "execute" /\ ~Jogging(core)
    /\ IF Active(core) \/ ~DemandAllowsActivation(core) THEN UNCHANGED <<core, log>>
       ELSE \E o \in ActivationOutcomes : Step(ActivateNext(core, o))
    /\ phase' = IF Active(core') /\ Executing(core') THEN "advance" ELSE "idle"
    /\ UNCHANGED <<mailbox, ingress, reserved, latched, ioFault, session>>

\* One turn of advanceActive.  The period is used up unless a span of planned
\* motion ended inside it.
AdvanceStep(o) ==
    /\ Step(AdvanceActive(core, o))
    /\ phase' = IF /\ core.active.kind = "Chunk" /\ core.planStop = "None"
                   /\ o.done /\ ~Retiming(core)
                   /\ Active(core') /\ Executing(core')
                THEN "advance" ELSE "idle"
    /\ UNCHANGED <<mailbox, ingress, reserved, latched, ioFault, session>>

Advance == phase = "advance" /\ \E o \in AdvanceOutcomes : AdvanceStep(o)

-----------------------------------------------------------------------------
(* The hosting runtime, before a tick.                                     *)

ItemsIn(c, records) ==
    {c.plans[i] : i \in DOMAIN c.plans}
    \union {r.item : r \in {records[i] : i \in {n \in DOMAIN records : IsPlan(records[n])}}}

EmergencyStopLatches ==
    /\ phase = "idle" /\ ~latched
    /\ LET work == {i.id : i \in ItemsIn(core, ingress) \union {core.active}}
           latchedCore == LatchEmergencyStop(core, [trouble |-> "None"])
       IN  /\ core' = [latchedCore EXCEPT !.out = <<>>]
           /\ log' = [LogAfter(latchedCore.out) EXCEPT
                            !.doomed = @ \union (work \ {0})]
    /\ ingress' = <<>>
    /\ latched' = TRUE
    /\ UNCHANGED <<mailbox, reserved, phase, ioFault, session>>

EmergencyStopResets ==
    /\ phase = "idle" /\ latched
    /\ Step(ResetEmergencyStop(core))
    /\ latched' = FALSE
    /\ UNCHANGED <<mailbox, ingress, reserved, phase, ioFault, session>>

\* A tick of faulted I/O reports the fault instead of running the executor.
IoFaults ==
    /\ phase = "idle" /\ ~latched
    /\ Step(ReportHostFault(core, "HostFault"))
    /\ ioFault' = TRUE
    /\ UNCHANGED <<mailbox, ingress, reserved, phase, latched, session>>

\* A tick has ended after the deadline of the next one.  The ticks go on, on
\* whatever the executor holds.
DeadlineMissed ==
    /\ phase = "idle"
    /\ Step(ReportHostFault(core, "DeadlineMiss"))
    /\ UNCHANGED <<mailbox, ingress, reserved, phase, latched, ioFault, session>>

-----------------------------------------------------------------------------
(* The NRT owner of the endpoint.  Its steps are taken while the servo     *)
(* thread is between ticks or draining the ingress queue: nothing later in *)
(* a tick reads what they write.                                           *)

Owner == phase \in {"idle", "ingress"}

\* A serviced motion (homing, jogging) waits for the end of a servo tick after
\* each call: what it does next is not in the tick that missed its demand.
\* The driver of a program waits for nothing.
TickAwaited == phase = "idle" \/ mailbox = NoDemand

\* The last request for joint coordinates has succeeded.
SetupAccepted == <<session.setup, TRUE>> \in Range(log.answers)

\* The homing move published last has completed.
MoveCompleted ==
    /\ session.operation = "Homing" /\ session.mode = "Run"
    /\ session.itemEpoch = session.epoch /\ session.item \in Range(log.retired)

\* The driver publishes ahead while its program is not over, whatever it has
\* demanded; homing publishes a move when the previous one has completed.
MayPublish ==
    CASE session.operation = "Program" -> session.mode \in {"Run", "FeedHold", "Stop"}
      [] session.operation = "Homing" ->
            /\ session.mode = "Run" /\ TickAwaited /\ SetupAccepted
            /\ session.itemEpoch = session.epoch => MoveCompleted
      [] OTHER -> FALSE

\* tryPublish up to the counter: the slot is filled and the item counted.
ReserveItem ==
    /\ Owner /\ reserved = NoItem
    /\ session.item < MaxItems
    /\ MayPublish
    /\ \E kind \in {k \in Kinds : (k[1] = "Joint") = (session.operation = "Homing")} :
          reserved' = [id |-> session.item + 1, epoch |-> session.epoch,
                       kind |-> kind[1], policy |-> kind[2],
                       predecessor |-> IF session.itemEpoch = session.epoch
                                       THEN session.item ELSE 0]
    /\ session' = [session EXCEPT !.item = @ + 1, !.itemEpoch = session.epoch]
    /\ UNCHANGED <<core, mailbox, ingress, phase, latched, ioFault, log>>

\* tryPublish: the slot's index is pushed to the ingress queue.
EnqueueItem ==
    /\ Owner /\ reserved # NoItem
    /\ ingress' = Append(ingress, [type |-> "Plan", item |-> reserved])
    /\ reserved' = NoItem
    /\ UNCHANGED <<core, mailbox, phase, latched, ioFault, session, log>>

\* The requests a controller may submit now: joint coordinates at the start of
\* an operation and between two homing moves, then, once they are accepted, a
\* jog and its controls.
Requests ==
    LET request(type, kind) == [id |-> session.request + 1, type |-> type,
                                jog |-> session.epoch, kind |-> kind]
    IN  IF session.operation \notin {"Homing", "Jogging"} THEN {}
        ELSE IF \/ session.setup = 0 /\ session.mode # "Stop"
                \/ MoveCompleted /\ SetupAccepted
        THEN {request("SetJointPosition", "Incremental")}
        ELSE IF session.mode # "Jog" \/ ~SetupAccepted THEN {}
        ELSE IF ~session.jogged
        THEN {request("StartJog", kind) : kind \in JogKinds}
        ELSE {request(type, "Incremental") :
                type \in {"RenewJogLease", "SetContinuousJogVelocity", "StopJog"}}

SubmitControl ==
    /\ Owner /\ reserved = NoItem /\ TickAwaited
    /\ session.request < MaxRequests
    /\ \E request \in Requests :
          /\ ingress' = Append(ingress, request)
          /\ session' = [session EXCEPT
                !.request = request.id,
                !.setup = IF request.type = "SetJointPosition"
                          THEN request.id ELSE @,
                !.jogged = @ \/ request.type = "StartJog"]
    /\ UNCHANGED <<core, mailbox, reserved, phase, latched, ioFault, log>>

PublishDemand(mode, epoch) ==
    /\ Owner /\ reserved = NoItem
    /\ session.generation < MaxGeneration
    /\ mode \in DemandModes
    /\ mailbox' = [generation |-> session.generation + 1,
                   mode |-> mode, epoch |-> epoch]
    /\ UNCHANGED <<core, ingress, reserved, phase, latched, ioFault, log>>

\* A jogging or homing operation waits for the answers to these requests.
Awaited == \E i \in DOMAIN ingress :
               ingress[i].type \in {"SetJointPosition", "StartJog"}

\* The demands that may follow the last one within its operation.  A program
\* may demand Run again after anything: its driver does after an exact stop.
\* Homing and jogging demand Stop to clean up once motion may be active.
Successors ==
    CASE session.operation = "Program" -> {"Run", "FeedHold", "Stop"}
      [] session.operation = "Homing" /\ session.mode = "Idle" ->
            IF SetupAccepted THEN {"Run"} ELSE {}
      [] session.operation = "Homing" /\ session.mode # "Idle" ->
            IF ~Awaited THEN {"Stop"} ELSE {}
      [] session.operation = "Jogging" ->
            IF session.jogged /\ ~Awaited THEN {"Stop"} ELSE {}
      [] OTHER -> {}

ContinueOperation ==
    \E mode \in (Successors \ {session.mode}) \union ({"Run"} \intersect Successors) :
        /\ session.operation = "Program" \/ TickAwaited
        /\ PublishDemand(mode, session.epoch)
        /\ session' = [session EXCEPT !.generation = @ + 1, !.mode = mode]

\* A new operation starts when the session has seen the last demand consumed
\* and the machine faulted, or at rest with nothing left to do.
OperationOver ==
    /\ mailbox = NoDemand /\ ~Awaited
    /\ \/ core.state = "Faulted"
       \/ /\ core.state \in {"Disabled", "Held"}
          /\ session.mode # "Stop" => ~Active(core) /\ ~Queued(core, Pending)

FirstMode(operation) ==
    CASE operation = "Homing" -> "Idle"
      [] operation = "Program" -> "Run"
      [] operation = "Jogging" -> "Jog"

BeginOperation ==
    /\ OperationOver /\ session.mode # "Disabled"
    /\ \E operation \in Operations :
          /\ PublishDemand(FirstMode(operation), session.epochs + 1)
          /\ session' = [session EXCEPT
                !.generation = @ + 1, !.mode = FirstMode(operation),
                !.operation = operation,
                !.epoch = session.epochs + 1, !.epochs = @ + 1,
                !.setup = 0, !.jogged = FALSE]

\* Power-on demands Idle for the epoch the next operation will use.
SwitchPower ==
    /\ OperationOver
    /\ LET mode == IF session.mode = "Disabled" THEN "Idle" ELSE "Disabled"
           epoch == IF mode = "Disabled" THEN 0 ELSE session.epochs + 1
       IN  /\ PublishDemand(mode, epoch)
           /\ session' = [session EXCEPT !.generation = @ + 1, !.mode = mode,
                                         !.operation = "None", !.epoch = epoch]

-----------------------------------------------------------------------------
\* Power-on has published Idle for the first epoch.
Init ==
    /\ core = InitialCore
    /\ mailbox = [generation |-> 1, mode |-> "Idle", epoch |-> 1]
    /\ ingress = <<>> /\ reserved = NoItem
    /\ phase = "idle" /\ latched = FALSE /\ ioFault = FALSE
    /\ session = [generation |-> 1, mode |-> "Idle", epoch |-> 1, epochs |-> 0,
                  operation |-> "None", item |-> 0, itemEpoch |-> 0,
                  request |-> 0, setup |-> 0, jogged |-> FALSE]
    /\ log = EmptyLog

ServoThread ==
    \/ TickBegins \/ IngressPlan \/ IngressControl \/ IngressEnds
    \/ NotReady \/ ExecuteJog \/ ExecuteItem \/ Advance
Host == EmergencyStopLatches \/ EmergencyStopResets \/ IoFaults \/ DeadlineMissed
Session ==
    \/ ReserveItem \/ EnqueueItem \/ SubmitControl
    \/ ContinueOperation \/ BeginOperation \/ SwitchPower

Next == ServoThread \/ Host \/ Session
Spec == Init /\ [][Next]_vars

-----------------------------------------------------------------------------
(* Safety.                                                                 *)

Items == [id : 0..MaxItems, epoch : 0..MaxGeneration,
          kind : ItemKinds, predecessor : 0..MaxItems, policy : Policies]

\* Types of the servo-owned state, and the limits of its cursors.
TypeOK ==
    /\ core.state \in States
    /\ core.epoch \in 0..MaxGeneration
    /\ core.stoppedEpoch \in 0..MaxGeneration
    /\ core.active \in Items
    /\ core.plans \in Seq(Items)
    /\ core.span \in 0..Spans
    /\ Active(core) /\ core.planStop = "None" => core.span < Spans
    /\ core.event \in 0..Spans /\ core.marker \in 0..Spans
    /\ core.planStop \in {"None", "Stationary", "Braking"}
    /\ core.feed \in {"None", "Holding", "Held", "Resuming"}
    /\ core.triggered \in {"Approach", "HoldStop", "TriggerStop", "AbortStop"}
    /\ core.jog.lease \in 0..LeaseTicks
    /\ core.out = <<>>
    /\ phase \in Phases /\ latched \in BOOLEAN /\ ioFault \in BOOLEAN

\* Whenever the executor says Held or Disabled, nothing is moving: no jog, no
\* stop still braking, and an item is held only by a completed feed hold.  The
\* session starts new operations, and Reset discards work, on this word.
HeldMeansStationary ==
    core.state \in {"Held", "Disabled"} =>
        /\ ~core.moving /\ ~Jogging(core) /\ core.planStop = "None"
        /\ Active(core) => core.feed = "Held"

\* The spindle output and the safe-output latch are released only by an enabled
\* executor: whatever led to Faulted or Disabled has set them back.
OutputsSafeUnlessEnabled ==
    core.state \in {"Disabled", "Faulted"} =>
        core.safeOutputs /\ core.spindle = "Safe"

StrictlyIncreasing(s) == \A i, j \in DOMAIN s : i < j => s[i] < s[j]
Ended == Range(log.retired) \union Range(log.rejected)

\* Items are accepted and retired in the order of their publication, an item
\* ends once (retired or rejected), a rejected item never ran, and the active
\* item is the last one accepted, of the current epoch, and has not ended.
ItemsRunInOrder ==
    /\ StrictlyIncreasing(log.accepted)
    /\ StrictlyIncreasing(log.retired)
    /\ StrictlyIncreasing(log.rejected)
    /\ (Range(log.accepted) \union Range(log.retired))
       \intersect Range(log.rejected) = {}
    /\ Active(core) => /\ core.active.id = Last(log.accepted)
                       /\ core.active.id \notin Ended
                       /\ core.active.epoch = core.epoch

\* Execution cursors: the markers (and spindle events) reported for an item are
\* 0..n in this order, once each, whatever holds and resumes interrupted it.
InSequence(reports) ==
    \A i \in DOMAIN reports :
        reports[i][2] = Cardinality({j \in 1..(i - 1) : reports[j][1] = reports[i][1]})

\* Every marker and every spindle event fires once and in order, and a chunk
\* that ran to its branch has fired all of them.
MarkersFireOnceInOrder ==
    /\ InSequence(log.markers) /\ InSequence(log.applied)
    /\ \A id \in log.branched :
          Cardinality({i \in DOMAIN log.markers : log.markers[i][1] = id})
          = Cardinality({i \in DOMAIN log.applied : log.applied[i][1] = id})

Accepts == log'.accepted # log.accepted

\* An epoch for which a controlled stop was reported accepts no item any more:
\* the abandoned horizon cannot come back to life, whatever is demanded next.
StoppedEpochStaysStopped ==
    [][Accepts => core'.active = NoItem
                  \/ core'.active.epoch \notin log.stoppedEpochs]_vars

\* Nothing that the executor owned when the emergency stop latched is accepted
\* after it, although the epoch and the demand survive the reset.
EmergencyStopAbandonsWork ==
    [][Accepts => Last(log'.accepted) \notin log.doomed]_vars

\* A standing jog of a faulted executor is completed, which reports Held.
StandingJogEnds ==
    /\ Jogging(core) /\ ~Jogging(core') /\ ~core.moving
    /\ core'.state = "Held" /\ ~core'.moving

\* A faulted executor leaves that state by the reset of the emergency stop, or by the
\* stop of a jog that stands, and by nothing else: no item is accepted, no marker
\* reached, the spindle not commanded, whatever is demanded or submitted meanwhile.
FaultEndsByResetOrJogStop ==
    [][core.state = "Faulted" =>
          /\ core'.state = "Faulted" \/ (latched /\ ~latched') \/ StandingJogEnds
          /\ core'.active \in {core.active, NoItem}
          /\ core'.marker \in {core.marker, 0}
          /\ core'.spindle = "Safe"]_vars

\* Missed deadlines and host faults are latched: only the reset of an emergency stop
\* leads out of Faulted.  Not true of the code (README, section 4): a jog that was
\* started and has not moved when the deadline is missed is still there to be stopped.
FaultIsLatched ==
    [][core.state = "Faulted" =>
          core'.state = "Faulted" \/ (latched /\ ~latched')]_vars

\* While FeedHold is demanded and the executor is holding, something brakes.  Not true
\* of the code (README, findings): a chunk that is braked may continue into a triggered
\* move, which knows nothing of the hold.
HoldingMeansBraking ==
    core.state = "Holding" =>
        \/ core.planStop # "None"
        \/ core.feed = "Holding" /\ core.active.kind = "Chunk"
        \/ core.active.kind = "Triggered" /\ core.triggered # "Approach"
        \/ core.active.kind = "Joint" /\ core.aborted

\* An item published for the operation in progress leaves the plan queue only
\* by being accepted, rejected or retired, unless the executor is faulted or
\* its epoch has been stopped.  Not true of the code (README, findings): the tick that
\* establishes the epoch discards what came before it.
PublishedWorkIsNotDropped ==
    [][\A i \in {n \in DOMAIN core.plans : core.plans[n].epoch = session.epoch} :
          \/ core.plans[i] \in Range(core'.plans)
          \/ core.plans[i].id \in Range(log'.accepted) \union Ended'
          \/ core'.state \in {"Faulted", "Disabled"}
          \/ core.demand.mode = "Stop" \/ core'.demand.mode = "Stop"]_vars

-----------------------------------------------------------------------------
(* Liveness.  The servo thread is periodic, the I/O becomes ready again and *)
(* again, the publishing thread gets to run, and every trajectory has a     *)
(* finite duration: a span ends, the feed rate settles, a joint arrives.    *)

Finishes(o) ==
    IF core.active.kind = "Joint"
    THEN \A j \in Joints : core.joints[j] = "Finished" \/ j \in o.ends
    ELSE IF core.active.kind = "Chunk" /\ core.planStop = "None" /\ Retiming(core)
    THEN o.settled
    ELSE o.done

\* One motion is in progress at a time, so one condition serves both.
MotionFinishes ==
    \/ /\ phase = "advance"
       /\ \E o \in {x \in AdvanceOutcomes : Finishes(x)} : AdvanceStep(o)
    \/ ExecuteJogStep({x \in JogOutcomes : x.done})

\* The states in which MotionFinishes is enabled.
MotionInProgress == phase = "advance" \/ (phase = "execute" /\ Jogging(core))

Fairness ==
    /\ WF_vars(ServoThread)
    /\ SF_vars(ExecuteJog \/ ExecuteItem)
    /\ SF_vars(EnqueueItem)
    /\ []<>MotionInProgress => []<><<MotionFinishes>>_vars

FairSpec == Spec /\ Fairness

\* The last demand has been consumed and not been rejected.
Demanded == /\ mailbox = NoDemand /\ core.accepted
            /\ core.demand.generation = session.generation

\* What each mode asks for: a machine that is off, on, at rest with its epoch
\* abandoned, at rest with its work kept, and a queue that is being served.
Converged ==
    CASE core.demand.mode = "Disabled" -> core.state = "Disabled"
      [] core.demand.mode \in {"Idle", "Jog"} -> Prepared(core)
      [] core.demand.mode = "Stop" -> ~Executing(core) /\ ~Queued(core, Pending)
      [] core.demand.mode = "FeedHold" -> ~Executing(core)
      [] core.demand.mode = "Run" -> ~Queued(core, Pending)

Broken == core.state = "Faulted" \/ latched \/ ioFault
Excused == ~Demanded \/ Broken

\* The second convergence of a tick started the queue of the previous operation's
\* epoch for an item of the next one; no demand of the new epoch is served then.
StartedForStaleEpoch ==
    /\ Executing(core) /\ ~Active(core) /\ ~Jogging(core)
    /\ core.epoch # core.demand.epoch

\* The machine converges to whatever is demanded last, unless the demand is
\* rejected or superseded, or a fault or the emergency stop ends everything, or
\* it was started for a stale epoch, which WorkIsServed is about.
DemandConverges == Demanded ~> (Converged \/ Excused \/ StartedForStaleEpoch)

\* Work that is queued while Run is demanded is served.  Not true of the code (README,
\* findings): see StartedForStaleEpoch.
WorkIsServed ==
    Demanded /\ core.demand.mode = "Run" ~> (Converged \/ Excused)

\* A continuous jog whose lease nobody renews ends: the lease is the dead man's
\* handle of jogging, and the renewals that a run submits are finite.
LeaseEndsJog ==
    Jogging(core) ~> (~Jogging(core) \/ Broken)
=============================================================================
