--------------------------- MODULE MachineSession ---------------------------
(***************************************************************************)
(* A machine session in its host: the host thread of MachineSessionManager *)
(* dispatches the operator's commands and services the program, homing or  *)
(* jogging that runs, the geometry producer prepares the program, and the  *)
(* snapshot thread polls what the executor publishes.  Operators call from *)
(* other threads, one at a time (the mutex of the manager) and never while *)
(* the host thread holds the mutex of the host.                            *)
(***************************************************************************)
EXTENDS ServicedMotion

\* The running program, in a step of the host thread.
Operation == [control |-> control, driver |-> driver, ask |-> "None", told |-> <<>>,
              linked |-> Linked]

\* What a step of the operation leaves behind.
Settle(s) ==
    /\ control' = s.control /\ driver' = s.driver
    /\ feedback' = feedback \o s.told
    /\ cancelled' = (cancelled \/ s.driver.error)
    /\ IF s.ask = "None" THEN UNCHANGED demanded ELSE Request(s.ask, s.driver.epoch)

-----------------------------------------------------------------------------
(* GeometryStreamProducer, on its thread.                                  *)

Message == [type |-> producer.program.messages[producer.next], epoch |-> driver.epoch,
            sequence |-> producer.next]

Publishes ==
    /\ producer.at = "publishing" /\ ~cancelled
    /\ Len(forward) < ForwardCapacity
    /\ forward' = Append(forward, Message)
    /\ producer' = [producer EXCEPT
            !.at = IF Message.type \in Barriers THEN "waiting"
                   ELSE IF Message.type \in {"ProgramEnd", "Failure"} THEN "ended" ELSE @,
            !.next = @ + 1]
    /\ UNCHANGED <<executorVars, channelVars, programVars, motionVars, stateVars,
                   shownVars, countVars, host>>

\* waitForFeedback: an answer to another barrier ends the preparation.
Awaited == Feedback(AnswerTo[producer.program.messages[producer.next - 1]],
                    driver.epoch, producer.next - 1)

TakesFeedback ==
    /\ producer.at = "waiting" /\ ~cancelled
    /\ feedback # <<>>
    /\ producer' = [producer EXCEPT
            !.at = IF Head(feedback) = Awaited THEN "publishing" ELSE "ended"]
    /\ cancelled' = (Head(feedback) # Awaited)
    /\ feedback' = Tail(feedback)
    /\ UNCHANGED <<executorVars, channelVars, control, driver, forward, motionVars,
                   stateVars, shownVars, countVars, host>>

Cancels ==
    /\ producer.at # "ended" /\ cancelled
    /\ producer' = [producer EXCEPT !.at = "ended"]
    /\ UNCHANGED <<executorVars, channelVars, programVars, forward, motionVars,
                   stateVars, shownVars, countVars, host>>

Producer == Publishes \/ TakesFeedback \/ Cancels

-----------------------------------------------------------------------------
(* The snapshot thread, which runs while a program does.                   *)

Servicing == host \in {"service", "events", "pump", "pumped", "paused"}

SnapshotPoll ==
    /\ Servicing /\ fresh
    /\ observed' = Snapshot /\ fresh' = FALSE
    /\ UNCHANGED <<core, link, requested, latched, ingress, events, demanded,
                   programVars, producerVars, motionVars, stateVars, shownVars,
                   countVars, host>>

-----------------------------------------------------------------------------
(* The host thread: MachineSessionHost::work.                              *)

FinishedActivity == IF power = "On" THEN "Idle" ELSE activity

\* The emergency stop is looked at in every turn of the idle loop.
MustFault == latched /\ power = "On"

HostFaults ==
    /\ host = "idle" /\ MustFault
    /\ power' = "Faulted" /\ activity' = "Faulted" /\ commands' = <<>>
    /\ errored' = TRUE /\ pressed' = requested
    /\ UNCHANGED <<executorVars, channelVars, programVars, producerVars, motionVars,
                   pending, running, countVars, host>>

\* MachineSession::powerOn up to BackendRuntime::start ...
BeginsPowerOn ==
    /\ host = "idle" /\ ~MustFault /\ pending = "On"
    /\ pending' = "None"
    /\ IF power = "Off"
       THEN /\ power' = "Starting" /\ activity' = "Idle" /\ host' = "starting up"
            /\ UNCHANGED errored
       ELSE /\ errored' = TRUE
            /\ UNCHANGED <<power, activity, host>>
    /\ UNCHANGED <<executorVars, channelVars, programVars, producerVars, motionVars,
                   commands, running, pressed, countVars>>

\* ... which starts a process with a region of its own: what the region of the
\* emergency stop held before is gone.
CompletesPowerOn ==
    /\ host = "starting up"
    /\ host' = "idle"
    /\ core' = InitialCore /\ link' = "running" /\ latched' = FALSE /\ ingress' = <<>>
    /\ fresh' = FALSE
    /\ requested' \in {requested, FALSE}
    /\ events' = <<>>
    /\ demanded' = [generation |-> demanded.generation + 1, mode |-> "Idle",
                    epoch |-> nextEpoch]
    /\ power' = IF power = "Starting" THEN "On" ELSE power
    /\ UNCHANGED <<observed, programVars, producerVars, motionVars, activity,
                   commands, pending, shownVars, countVars>>

\* The process does not start, or not in time.
FailsPowerOn ==
    /\ host = "starting up"
    /\ host' = "idle"
    /\ power' = "Faulted" /\ activity' = "Faulted" /\ errored' = TRUE
    /\ UNCHANGED <<executorVars, channelVars, programVars, producerVars, motionVars,
                   commands, pending, running, pressed, countVars>>

MayPowerOff == power = "On" /\ activity = "Idle" /\ commands = <<>>

BeginsPowerOff ==
    /\ host = "idle" /\ ~MustFault /\ pending = "Off"
    /\ pending' = "None"
    /\ IF MayPowerOff /\ Linked
       THEN /\ power' = "Stopping" /\ host' = "shutting down"
            /\ Request("Disabled", 0)
            /\ UNCHANGED <<activity, errored>>
       ELSE /\ errored' = TRUE
            /\ IF MayPowerOff THEN power' = "Faulted" /\ activity' = "Faulted"
               ELSE UNCHANGED <<power, activity>>
            /\ UNCHANGED <<demanded, host>>
    /\ UNCHANGED <<executorVars, events, observed, programVars, producerVars,
                   motionVars, commands, running, pressed, countVars>>

CompletesPowerOff ==
    /\ host = "shutting down"
    /\ host' = "idle"
    /\ StopRuntime
    /\ power' = IF power = "Stopping" THEN "Off" ELSE power
    /\ UNCHANGED <<observed, demanded, programVars, producerVars, motionVars,
                   activity, commands, pending, shownVars, countVars>>

\* dispatchNextOperation: a start whose activity is gone is dropped, and commands that
\* start nothing are passed over.
StartsActivity(command) ==
    CASE command = "Start" -> "Program"
      [] command = "Home" -> "Homing"
      [] command \in JogKinds -> "Jogging"
      [] OTHER -> "None"

Dispatch ==
    /\ host = "idle" /\ ~MustFault /\ pending = "None" /\ commands # <<>>
    /\ commands' = Tail(commands)
    /\ LET command == Head(commands)
           started == StartsActivity(command)
       IN  CASE started = activity ->
                  /\ running' = TRUE /\ errored' = FALSE
                  /\ IF started = "Program" THEN host' = "starting" /\ UNCHANGED motion
                     ELSE /\ host' = "motion"
                          /\ motion' = [NoMotion EXCEPT !.kind = started, !.jog = command,
                                                        !.at = "begin"]
                  /\ UNCHANGED activity
             [] started \notin {"None", activity} ->
                  /\ activity' = FinishedActivity /\ running' = FALSE /\ errored' = TRUE
                  /\ UNCHANGED <<motion, host>>
             [] command = "Stop" ->
                  /\ activity' = FinishedActivity /\ errored' = FALSE
                  /\ UNCHANGED <<motion, running, host>>
             [] started = "None" /\ command # "Stop" ->
                  UNCHANGED <<motion, activity, running, errored, host>>
    /\ UNCHANGED <<executorVars, channelVars, programVars, producerVars, homed,
                   jogOwned, power, pending, pressed, countVars>>

\* beginExecutionEpoch
BeginProgram ==
    /\ host = "starting" /\ power = "On" /\ Linked
    /\ LET begun == DriverOf(nextEpoch, driver.items)
       IN  /\ driver' = begun
           /\ control' = [InactiveControl EXCEPT !.state = "Running"]
           /\ Request("Run", nextEpoch)
    /\ nextEpoch' = nextEpoch + 1
    /\ events' = <<>> /\ fresh' = FALSE
    /\ observed' = NoSnapshot(nextEpoch, IF producer.program.preserve THEN observed.state
                                         ELSE "Disabled")
    /\ cancelled' = FALSE
    /\ producer' = [producer EXCEPT !.next = 1, !.at = "publishing"]
    /\ host' = "service"
    /\ UNCHANGED <<core, link, requested, latched, ingress, feedback, forward,
                   motionVars, stateVars, shownVars, given>>

\* A program that cannot begin is abandoned.
AbandonsProgram ==
    /\ host = "starting" /\ ~(power = "On" /\ Linked)
    /\ activity' = FinishedActivity
    /\ cancelled' = TRUE
    /\ errored' = TRUE /\ running' = FALSE
    /\ host' = "idle"
    /\ UNCHANGED <<executorVars, channelVars, control, driver, feedback, producerVars,
                   motionVars, power, commands, pending, pressed, countVars>>

\* After serviceProgramOperation, or when it returns early: s is what it leaves,
\* next where the host goes on otherwise.
FinalSnapshot(state) ==
    IF state = "StopComplete" THEN [(IF Linked THEN Snapshot ELSE observed) EXCEPT
                                        !.state = "Held", !.moving = FALSE]
    ELSE IF Linked THEN Snapshot ELSE observed

HostContinues(s, next) ==
    LET state == OperationState(s)
        failed == errored \/ observed.state = "Faulted"
        ends == \/ state \in {"Completed", "StopComplete", "Error"}
                \/ failed /\ state # "Paused"
    IN  /\ host' = IF ends THEN "ending" ELSE IF state = "Paused" THEN "paused" ELSE next
        /\ running' = (running /\ (~ends \/ (state = "Completed" /\ ~failed)))
        /\ errored' = IF state \in {"StopComplete", "Paused"} THEN FALSE ELSE failed
        /\ observed' = IF ends THEN FinalSnapshot(state) ELSE observed

\* serviceProgramOperation, in three parts: ProgramExecutionController::service ...
HostServices ==
    /\ host = "service"
    /\ LET s == Service(Operation, observed, commands, FALSE, demanded.generation)
       IN  /\ Settle(s)
           /\ IF OperationState(s) \in {"Running", "Holding"}
              THEN host' = "events" /\ UNCHANGED <<running, errored, observed>>
              ELSE HostContinues(s, "events")
    /\ commands' = <<>>
    /\ UNCHANGED <<executorVars, events, producerVars, motionVars, power, activity,
                   pending, pressed, countVars>>

\* ... PreparedTrajectoryExecutionDriver::serviceBackend, until no event is left: the
\* executor may be between two events of one tick ...
Observes(s, event) == DriverObserves(ControlObserves(s, event), event)

ServicesBackend == \E n \in Readable :
    /\ host = "events"
    /\ LET observing == FoldLeft(Observes, Operation, SubSeq(events, 1, n))
           s == ObserveDriverState(TakePresentationUpdate(observing))
       IN  /\ Settle(s)
           /\ IF OperationState(s) \in {"Running", "Holding"}
              THEN host' = "pump" /\ UNCHANGED <<running, errored, observed>>
              ELSE HostContinues(s, "pump")
    /\ events' = SubSeq(events, n + 1, Len(events))
    /\ UNCHANGED <<executorVars, producerVars, motionVars, power, activity, commands,
                   pending, pressed, countVars>>

\* ... and pumpOne until it has nothing to do or the operator asks for something.
Pumps(s) ==
    /\ Settle(TakePresentationUpdate(s))
    /\ host' = IF s.control.stopRequested \/ s.control.state = "Paused" \/ commands # <<>>
               THEN "pumped" ELSE "pump"

PumpsItem ==
    /\ host = "pump" /\ MayPump(driver) /\ driver.pending # NoItem
    /\ ItemsHeld < PlanCapacity
    /\ Pumps(Publish(Operation))
    /\ ingress' = IF Linked THEN Append(ingress, PlanRecord(driver.pending)) ELSE ingress
    /\ UNCHANGED <<core, link, requested, latched, fresh, events, observed,
                   producerVars, motionVars, stateVars, shownVars, countVars>>

PumpsMessage ==
    /\ host = "pump" /\ MayPump(driver) /\ driver.pending = NoItem
    /\ forward # <<>>
    /\ Pumps(ProcessMessage(Operation, Head(forward)))
    /\ forward' = Tail(forward)
    /\ UNCHANGED <<executorVars, events, observed, producer, motionVars, stateVars,
                   shownVars, countVars>>

PumpEnds ==
    /\ \/ host = "pumped"
       \/ /\ host = "pump"
          /\ ~(/\ MayPump(driver)
               /\ IF driver.pending # NoItem THEN ItemsHeld < PlanCapacity ELSE forward # <<>>)
    /\ LET s == ObserveDriverState(Operation)
       IN  /\ Settle(s)
           /\ HostContinues(s, "service")
    /\ UNCHANGED <<executorVars, events, producerVars, motionVars, stateVars, pressed,
                   countVars>>

\* A paused program waits for a command; nothing else wakes it.
Wakes ==
    /\ host = "paused" /\ commands # <<>>
    /\ host' = "service"
    /\ UNCHANGED <<executorVars, channelVars, programVars, producerVars, motionVars,
                   stateVars, shownVars, countVars>>

\* finishExecutionEpoch: the producer is cancelled and joined.
CancelsGeometry ==
    /\ host = "ending" /\ ~cancelled
    /\ cancelled' = TRUE
    /\ UNCHANGED <<executorVars, channelVars, control, driver, feedback, producerVars,
                   motionVars, stateVars, shownVars, countVars, host>>

\* finishActivity reads the power before it stores the activity, here ...
EndProgram ==
    /\ host = "ending" /\ cancelled /\ producer.at = "ended"
    /\ control' = InactiveControl
    /\ forward' = <<>> /\ feedback' = <<>>
    /\ host' = IF power = "On" THEN "releasing" ELSE "released"
    /\ UNCHANGED <<executorVars, channelVars, driver, cancelled, producer, motionVars,
                   stateVars, shownVars, countVars>>

\* runHoming and runJogging end: homing that failed faults the session.
EndsMotion ==
    /\ host = "motion" /\ motion.at \in {"over", "refused"}
    /\ homed' = (homed \/ (motion.kind = "Homing" /\ motion.result = "Completed"))
    /\ LET faults == motion.kind = "Homing" /\ motion.result = "Error"
       IN  /\ power' = IF faults THEN "Faulted" ELSE power
           /\ activity' = IF faults THEN "Faulted" ELSE activity
           /\ host' = IF power' = "On" /\ motion.at = "over" THEN "releasing" ELSE "released"
    /\ observed' = [observed EXCEPT !.state = IF motion.result = "Error" /\ motion.at = "over"
                                              THEN motion.seen.state ELSE @]
    /\ UNCHANGED <<executorVars, events, demanded, programVars, producerVars, motion,
                   jogOwned, commands, pending, shownVars, countVars>>

\* ... and here.  The host shows how it ended.
Releases ==
    /\ host \in {"releasing", "released"}
    /\ activity' = IF host = "releasing" THEN "Idle" ELSE activity
    /\ running' = FALSE
    /\ errored' = IF motion.kind = "None" THEN errored ELSE motion.result = "Error"
    /\ commands' = IF motion.kind = "Jogging" /\ motion.result = "Error" THEN <<>> ELSE commands
    /\ jogOwned' = (jogOwned /\ motion.kind # "Jogging")
    /\ motion' = NoMotion
    /\ host' = "idle"
    /\ UNCHANGED <<executorVars, channelVars, programVars, producerVars, homed, power,
                   pending, pressed, countVars>>

Host ==
    \/ HostFaults \/ BeginsPowerOn \/ CompletesPowerOn \/ BeginsPowerOff \/ CompletesPowerOff
    \/ Dispatch \/ BeginProgram \/ AbandonsProgram
    \/ HostServices \/ ServicesBackend \/ PumpsItem \/ PumpsMessage \/ PumpEnds \/ Wakes
    \/ CancelsGeometry \/ EndProgram \/ ServicesMotion \/ EndsMotion \/ Releases

-----------------------------------------------------------------------------
(* The operator.                                                           *)

MotionOwnedOrQueued == running \/ commands # <<>> \/ activity # "Idle" \/ jogOwned

Unclaimed == <<executorVars, channelVars, programVars>>

RequestPower ==
    /\ pending = "None" /\ host \notin {"starting up", "shutting down"}
    /\ \/ /\ power = "Off" /\ pending' = "On"
          /\ given.powers < MaxPowers /\ given' = [given EXCEPT !.powers = @ + 1]
       \/ /\ power = "On" /\ ~MotionOwnedOrQueued /\ pending' = "Off"
          /\ given.commands < MaxCommands /\ given' = [given EXCEPT !.commands = @ + 1]
    /\ UNCHANGED <<Unclaimed, producerVars, motionVars, power, activity, commands,
                   shownVars, nextEpoch, host>>

\* start, home and startJog: an operation is queued when nothing owns the motion.
Queues(command, operation) ==
    /\ power = "On" /\ observed.state # "Faulted" /\ ~MotionOwnedOrQueued
    /\ nextEpoch <= MaxEpochs
    /\ activity' = operation /\ commands' = <<command>> /\ errored' = FALSE
    /\ UNCHANGED <<Unclaimed, forward, motion, power, pending, running, pressed,
                   countVars, host>>

PressStart ==
    /\ RequireHoming => homed
    /\ Queues("Start", "Program")
    /\ \E program \in Programs : producer' = [NoProducer EXCEPT !.program = program]
    /\ UNCHANGED <<homed, jogOwned>>

PressHome ==
    /\ Homing
    /\ Queues("Home", "Homing")
    /\ homed' = FALSE
    /\ UNCHANGED <<producer, jogOwned>>

PressJog == \E kind \in Jogs :
    /\ Queues(kind, "Jogging")
    /\ jogOwned' = TRUE
    /\ UNCHANGED <<producer, homed>>

MayCommand == power = "On" /\ given.commands < MaxCommands
Counted == given' = [given EXCEPT !.commands = @ + 1]

PressFeedHold ==
    /\ MayCommand /\ running /\ motion.kind = "None"
    /\ control.state # "Paused" /\ ~control.holdInProgress /\ ~control.resumeInProgress
    /\ "FeedHold" \notin Range(commands)
    /\ commands' = Append(commands, "FeedHold")
    /\ Counted
    /\ UNCHANGED <<Unclaimed, producerVars, motionVars, power, activity, pending,
                   shownVars, nextEpoch, host>>

PressResume ==
    /\ MayCommand /\ running /\ motion.kind = "None"
    /\ control.state = "Paused"
    /\ "Resume" \notin Range(commands)
    /\ commands' = Append(commands, "Resume")
    /\ errored' = FALSE
    /\ Counted
    /\ UNCHANGED <<Unclaimed, producerVars, motionVars, power, activity, pending,
                   running, pressed, nextEpoch, host>>

PressStop ==
    /\ MayCommand /\ MotionOwnedOrQueued
    /\ commands' = <<"Stop">>
    /\ errored' = (errored /\ ~running)
    /\ Counted
    /\ UNCHANGED <<Unclaimed, producerVars, motionVars, power, activity, pending,
                   running, pressed, nextEpoch, host>>

\* renewJog, setJogVelocity and stopJog: newer controls replace older ones.  The power
\* is not looked at.
PressJogControl == \E jogControl \in DOMAIN JogControls :
    LET replaced == CASE jogControl = "RenewJog" -> {}
                      [] OTHER -> {"RenewJog", "SetJogVelocity"}
        kept == SelectSeq(commands, LAMBDA command : command \notin replaced)
    IN  /\ jogOwned /\ given.commands < MaxCommands
        /\ commands' = IF jogControl \in Range(kept) THEN kept ELSE Append(kept, jogControl)
        /\ Counted
        /\ UNCHANGED <<Unclaimed, producerVars, motionVars, power, activity, pending,
                       shownVars, nextEpoch, host>>

PressEmergencyStop ==
    /\ power # "Off" /\ given.disasters < MaxDisasters
    /\ requested' = (requested \/ link # "closed")
    /\ power' = "Faulted" /\ activity' = "Faulted" /\ commands' = <<>>
    /\ errored' = TRUE /\ pressed' = TRUE
    /\ given' = [given EXCEPT !.disasters = @ + 1]
    /\ UNCHANGED <<core, link, latched, ingress, fresh, channelVars, programVars,
                   producerVars, motionVars, pending, running, nextEpoch, host>>

\* resetEmergencyStop: the executor answers, and its runtime is stopped.
EpochActive == host \in {"service", "events", "pump", "pumped", "paused", "ending"}

\* Mutant: a program that is still ending is not waited for.
MayResetWhileEnding == power = "Faulted" /\ ~running
MayReset == power = "Faulted" /\ ~running /\ ~EpochActive

PressReset ==
    /\ MayReset /\ Linked
    /\ pressed => latched /\ requested
    /\ requested => pressed
    /\ StopRuntime
    /\ power' = "Off" /\ activity' = "Idle"
    /\ errored' = FALSE /\ pressed' = FALSE
    /\ observed' = [observed EXCEPT !.state = "Disabled"]
    /\ UNCHANGED <<demanded, programVars, producerVars, motionVars, commands, pending,
                   running, countVars, host>>

Operator ==
    \/ RequestPower \/ PressStart \/ PressFeedHold \/ PressResume \/ PressStop
    \/ PressHome \/ PressJog \/ PressJogControl \/ PressEmergencyStop \/ PressReset

Next == Executor \/ Producer \/ SnapshotPoll \/ Host \/ FailsPowerOn \/ Operator
Spec == Init /\ [][Next]_vars

-----------------------------------------------------------------------------
(* What the operator relies on.                                            *)

ItemsQueued(epoch) ==
    \E item \in Range(core.plans) \union {record.item : record \in Range(PlansIn(ingress))} :
        item.epoch = epoch
NothingLeft == ~core.moving /\ ~Active(core) /\ ~ItemsQueued(driver.epoch)

\* A barrier of the program is answered when all that was prepared before it has been
\* executed and the machine stands.  A probe is answered from an event of the executor,
\* which stands then as well.
Answers == Len(feedback') > Len(feedback) /\ Last(feedback').type # "AbortGeometryRun"
BarriersAnsweredAtRest ==
    [][Answers => IF Last(feedback').type = "DeliverProbeResult" THEN ~core.moving
                  ELSE NothingLeft]_vars

\* A program is reported completed when every item of it has been executed.  If items
\* were abandoned, the operator had pressed Stop.
Outcome == OperationState([control |-> control', driver |-> driver'])
CompletedMeansExecuted ==
    [][(host # "ending" /\ host' = "ending" /\ Outcome = "Completed") =>
          NothingLeft /\ (core.stoppedEpoch # driver.epoch \/ control.stopRequested)]_vars

\* Homing and jogging keep the motion until nothing that they handed to the executor
\* moves or could still begin to.
OwnMotion ==
    \/ Jogging(core) /\ core.jog.id = motion.epoch
    \/ core.epoch = motion.epoch /\ (Active(core) \/ core.moving)
    \/ ItemsQueued(motion.epoch) \/ \E record \in Range(ingress) : record.type = "StartJog"
ServicedMotionEndsAtRest ==
    (motion.kind # "None" /\ motion.at = "over" /\ Linked) =>
        (core.state = "Faulted" \/ ~OwnMotion)

\* When the operator has stopped the operation it is over only when the machine stands
\* (what MachineSession is documented to do).  Not true of the code (README, findings).
StopAbandonsAtRest ==
    [][(host # "ending" /\ host' = "ending" /\ Outcome = "StopComplete") =>
          ~core.moving /\ ~Active(core)]_vars

\* The session shows a jog, and refuses all other motion, only while there is one.  Not
\* true of the code (README, findings): the manager keeps the jog of an operation that
\* was discarded.
JogIsReleased ==
    (host = "idle" /\ commands = <<>> /\ activity = "Idle") => ~jogOwned

-----------------------------------------------------------------------------
(* Fairness.  The host thread does not stop, the producer and the snapshot *)
(* thread run, and the executor ticks until it is stopped: motion comes to *)
(* its end, joints meet their triggers and settle.                         *)

\* The host thread has something to do: ENABLED <<Host>>_vars, which TLC would have to
\* search for.
HostReady ==
    CASE host = "idle" -> MustFault \/ pending # "None" \/ commands # <<>>
      [] host = "paused" -> commands # <<>>
      [] host = "ending" -> ~cancelled \/ producer.at = "ended"
      [] host = "motion" ->
            \/ motion.at \notin {"positions", "moving", "jogging", "quiescing"}
            \/ events # <<>> \/ fresh \/ Terminal(motion.seen)
            \/ (motion.at \in {"moving", "jogging"} /\ commands # <<>>)
            \/ (motion.at = "quiescing" /\ StationaryAfterStop(motion))
      [] OTHER -> TRUE

\* A tick in which what moves arrives.
Arrives(o) ==
    /\ o.trouble = "None" /\ o.done /\ o.settled
    /\ o.ends = Joints \/ \A other \in Outcomes : other.ends = {}
ArrivingTick ==
    /\ fresh' /\ UNCHANGED <<observed, producer, host>>
    /\ \E o \in Outcomes : Arrives(o) /\ ServoTick(o)

TickDue == Linked /\ ~latched /\ ~requested /\ ~fresh

FairSpec ==
    /\ Spec
    /\ <>[]HostReady => []<><<Host>>_vars
    /\ WF_vars(Producer) /\ WF_vars(SnapshotPoll) /\ WF_vars(requested /\ TickLatches)
    /\ []<>TickDue => []<><<ArrivingTick>>_vars

\* The cleanup of homing and jogging comes to its end: the host thread is not lost in it,
\* whatever fault or emergency stop comes in between.
CleanupEnds == motion.at = "stopping" ~> host = "idle"

\* An operation that nobody interferes with ends, or pauses where its program says so.  An
\* emergency stop that comes while it begins may be discarded with what the executor
\* reported before, and a stop cannot be demanded of an executor that is lost; the
\* operation then waits for what never comes.
OperationsEnd ==
    running ~> \/ ~running \/ host = "paused"
               \/ given.commands > 0 \/ latched \/ link = "lost"

\* The loss of the executor ends what ran, as any fault of it does.  Not true of the
\* code (README, findings): a stop that is demanded of a lost executor is not answered.
LossEndsOperation == (running /\ link = "lost") ~> (~running \/ host = "paused")

\* Power and work go together as everything that uses a session takes it: nothing is
\* begun without power, and no reset comes in the middle of an operation.
Life == INSTANCE SessionLife WITH working <- running \/ EpochActive
LivesAsPromised == Life!Spec

\* Stop ends homing (what HomingController is documented to own).  Not true of the code
\* (README, findings): a move that is discarded with the stop is never reported.
HomingStopAnswered == motion.stop ~> host = "idle"
=============================================================================
