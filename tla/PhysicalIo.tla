----------------------------- MODULE PhysicalIo -----------------------------
(***************************************************************************)
(* The servo loop of a real machine: src/HostedExecutorRuntime.cpp (the    *)
(* loop, the order of its tick and its shutdown) over                      *)
(* src/PhysicalExecutorIo.cpp, which drives the Mesa board (MesaIo) and    *)
(* the spindle worker (SpindleWorker).                                     *)
(*                                                                         *)
(* Of src/ProductionExecutorCore.cpp only what the hardware sees is kept:  *)
(* whether the executor is enabled, one joint, the wanted spindle and      *)
(* whether safe outputs are required.  The joint moves one unit in a tick; *)
(* the tick that ends a move adds nothing (the jerk limit leaves less than *)
(* the resolution).  The host's requests and the operator's emergency stop *)
(* come at any tick.  A machine is fitted either with axes or with a       *)
(* spindle, so that the two add their states and do not multiply them.     *)
(***************************************************************************)
EXTENDS SpindleWorker, MesaIo

CONSTANTS
    Travel,     \* the axis moves within -Travel .. Travel, of its coordinate and of
                \* the machine
    QuickHost   \* a move may start in the tick after a coordinate is assigned

ASSUME PhysicalAssumption == Travel \in Nat /\ QuickHost \in BOOLEAN

VARIABLES
    fitted,     \* "axes" or "spindle"
    servo,      \* where the servo thread is
    core,       \* BackendState (Holding is Running here)
    joint,      \* m_snapshot.commandedJoints, one joint
    turn,       \* m_outputState.spindle
    safeOut,    \* m_outputState.safeOutputsRequired
    estop,      \* EmergencyStopState::latched
    assigned,   \* the coordinate was assigned in the last tick
    sent        \* PhysicalExecutorIo::m_lastSpindle

coreVars == <<core, joint, turn, safeOut, assigned>>
loopVars == <<fitted, servo, estop, sent>>
vars == <<spindleVars, mesaVars, coreVars, loopVars>>

ServoAt == {"wait", "sent", "core", "spindle", "rearm", "push", "full", "late?",
            "down?", "safe", "safe sent", "stop", "await", "down", "join", "gone"}

PhysicalTypeOK ==
    /\ SpindleTypeOK
    /\ MesaTypeOK
    /\ fitted \in {"axes", "spindle"}
    /\ servo \in ServoAt
    /\ core \in {"Disabled", "Held", "Running", "Faulted"}
    /\ joint \in [at : Int, moves : BOOLEAN]
    /\ turn \in Turns
    /\ {safeOut, estop, assigned} \subseteq BOOLEAN
    /\ sent \in Turns \cup {"none"}

Init ==
    /\ SpindleInit
    /\ MesaInit
    /\ fitted \in {"axes", "spindle"}
    /\ servo = "wait"
    /\ core = "Disabled"
    /\ joint = Rest(0)
    /\ turn = "off"
    /\ safeOut = TRUE
    /\ estop = FALSE
    /\ assigned = FALSE
    /\ sent = "none"

Axes == fitted = "axes"
Enabled == core \in {"Held", "Running"}

-----------------------------------------------------------------------------
(* The executor core in a tick.                                            *)

\* fault: the outputs are reset.
CoreFaults ==
    /\ core' = "Faulted"
    /\ turn' = "off"
    /\ safeOut' = TRUE
    /\ assigned' = FALSE

\* latchEmergencyStop also takes the motion away.
LatchEmergencyStop == CoreFaults /\ joint' = Rest(joint.at)

\* resetEmergencyStop
ResetEmergencyStop ==
    /\ core' = IF core = "Faulted" THEN "Disabled" ELSE core
    /\ turn' = "off"
    /\ safeOut' = TRUE
    /\ assigned' = FALSE
    /\ UNCHANGED joint

Enables ==
    /\ core = "Disabled"
    /\ core' = "Held" /\ turn' = "off" /\ safeOut' = TRUE /\ assigned' = FALSE
    /\ UNCHANGED joint

Disables ==
    /\ core = "Held" /\ ~joint.moves
    /\ core' = "Disabled" /\ turn' = "off" /\ safeOut' = TRUE /\ assigned' = FALSE
    /\ UNCHANGED joint

Starts ==
    /\ core = "Held"
    /\ core' = "Running" /\ safeOut' = FALSE /\ assigned' = FALSE
    /\ UNCHANGED <<joint, turn>>

\* A controlled stop has come to rest, or a hold, which keeps the outputs.
Stops(holds) ==
    /\ core = "Running" /\ ~joint.moves
    /\ core' = "Held" /\ assigned' = FALSE
    /\ turn' = IF holds THEN turn ELSE "off"
    /\ safeOut' = IF holds THEN safeOut ELSE TRUE
    /\ UNCHANGED joint

\* SetJointPositionRequest, as homing uses it.
AssignsCoordinate ==
    /\ Axes
    /\ core = "Held" /\ ~joint.moves /\ joint.at # 0
    /\ joint' = Rest(0) /\ assigned' = TRUE
    /\ UNCHANGED <<core, turn, safeOut>>

\* The executor begins a move, in the tick that starts the execution or later,
\* advances it, or ends it.
Advances ==
    /\ Axes /\ ExecutionReady
    /\ Enabled
    /\ QuickHost \/ ~assigned
    /\ \E step \in {-1, 0, 1} :
           /\ {joint.at + step, joint.at + origin + step} \subseteq -Travel .. Travel
           /\ joint' = [at |-> joint.at + step, moves |-> step # 0]
    /\ core' = "Running" /\ safeOut' = FALSE /\ assigned' = FALSE
    /\ UNCHANGED turn

\* A scheduled event of a program commands the spindle.
SpindleEvents ==
    /\ ~Axes
    /\ core = "Running"
    /\ turn' \in Turns
    /\ UNCHANGED <<core, joint, safeOut, assigned>>

Idles ==
    /\ joint.moves => ~ExecutionReady
    /\ assigned' = FALSE
    /\ UNCHANGED <<core, joint, turn, safeOut>>

\* servoTick, with what the host asked for.
ServoTick ==
    \/ Enables \/ Disables \/ Starts \/ Stops(TRUE) \/ Stops(FALSE)
    \/ AssignsCoordinate \/ Advances \/ SpindleEvents \/ Idles

\* PhysicalExecutorIo::faultCode
IoFault == mesaFault # "none" \/ spinFault

-----------------------------------------------------------------------------
(* The tick of the servo loop.                                             *)

\* The thread wakes; a fault of the board keeps it from exchanging anything.
Wakes ==
    /\ servo = "wait"
    /\ IF Axes /\ mesaFault = "none"
       THEN SendsDatagram(TRUE, TRUE) /\ servo' = "sent"
       ELSE UNCHANGED mesaVars /\ servo' = "core"
    /\ UNCHANGED <<spindleVars, coreVars, fitted, estop, sent>>

ReceivesAnswer ==
    /\ servo = "sent" /\ servo' = "core"
    /\ Receives({"small", "large"}, BOOLEAN)
    /\ UNCHANGED <<spindleVars, coreVars, fitted, estop, sent>>

\* EmergencyStopState::update: the external enable of the board or the operator's
\* button latches, and a reset is taken only without the former.
UpdatesEmergencyStop == estop' \in IF external THEN {TRUE} ELSE BOOLEAN

\* tick, the core: an emergency stop goes before a fault, a fault before motion.
RunsCore ==
    IF estop'
    THEN IF estop THEN UNCHANGED coreVars ELSE LatchEmergencyStop
    ELSE IF estop THEN ResetEmergencyStop
    ELSE IF IoFault THEN CoreFaults /\ UNCHANGED joint
    ELSE ServoTick

\* PhysicalExecutorIo::applyOutputs, the axes.
AppliesAxes(state, enabled) ==
    IF Axes THEN MesaApplies(state, enabled) ELSE UNCHANGED mesaVars

\* tick, after the exchange.
Ticks ==
    /\ servo = "core"
    /\ UpdatesEmergencyStop
    /\ RunsCore
    /\ AppliesAxes(joint', core' \in {"Held", "Running"})
    /\ servo' = IF Axes THEN "late?" ELSE "spindle"
    /\ UNCHANGED <<spindleVars, fitted, sent>>

\* PhysicalExecutorIo::applyOutputs, the spindle.
AppliesSpindle ==
    /\ servo = "spindle"
    /\ IF safeOut
       THEN EstablishSafeStop /\ sent' = "none" /\ servo' = "late?"
       ELSE /\ servo' = IF sent = turn \/ spinFault THEN "late?" ELSE "rearm"
            /\ UNCHANGED <<safety, sent>>
    /\ UNCHANGED <<spinFault, commands, ending, worker, taken, drive, deaf>>
    /\ UNCHANGED <<mesaVars, coreVars, fitted, estop>>

\* tryRearmAndCommand: no fault was latched a step ago.
Rearms ==
    /\ servo = "rearm"
    /\ IF MayRearm
       THEN Rearm /\ servo' = "push"
       ELSE servo' = "late?" /\ UNCHANGED safety
    /\ UNCHANGED <<spinFault, commands, ending, worker, taken, drive, deaf>>
    /\ UNCHANGED <<mesaVars, coreVars, fitted, estop, sent>>

Pushes ==
    /\ servo = "push"
    /\ IF HasRoom
       THEN PushCommand(turn) /\ sent' = turn /\ servo' = "late?" /\ UNCHANGED spinFault
       ELSE spinFault' = TRUE /\ servo' = "full" /\ UNCHANGED <<commands, sent>>
    /\ UNCHANGED <<safety, ending, worker, taken, drive, deaf>>
    /\ UNCHANGED <<mesaVars, coreVars, fitted, estop>>

StopsFullSpindle ==
    /\ servo = "full" /\ servo' = "late?"
    /\ EstablishSafeStop
    /\ UNCHANGED <<spinFault, commands, ending, worker, taken, drive, deaf>>
    /\ UNCHANGED <<mesaVars, coreVars, fitted, estop, sent>>

EndsInTime ==
    /\ servo = "late?" /\ servo' = "wait"
    /\ UNCHANGED <<spindleVars, mesaVars, coreVars, fitted, estop, sent>>

\* runServoLoop: a missed deadline is a fault of the executor, and is applied.
MissesDeadline ==
    /\ servo = "late?" /\ core # "Faulted"
    /\ CoreFaults /\ UNCHANGED joint
    /\ AppliesAxes(joint, FALSE)
    /\ servo' = IF Axes THEN "wait" ELSE "spindle"
    /\ UNCHANGED <<spindleVars, fitted, estop, sent>>

-----------------------------------------------------------------------------
(* The end: HostedExecutorRuntime::stop, then ~PhysicalExecutorIo.         *)

\* stop was called: the servo thread sees m_stopping before a tick, and is joined;
\* an enabled executor is stopped, and safe outputs are staged.
LeavesLoop ==
    /\ servo = "wait"
    /\ IF Enabled THEN LatchEmergencyStop ELSE UNCHANGED coreVars
    /\ AppliesAxes(Rest(0), FALSE)
    /\ servo' = IF Axes THEN "safe" ELSE "stop"
    /\ UNCHANGED <<spindleVars, fitted, estop, sent>>

\* establishSafeOutputs: one exchange, unless the cyclic layer has failed.
SendsSafeImage ==
    /\ servo = "safe"
    /\ IF latched
       THEN UNCHANGED mesaVars /\ servo' = "down"
       ELSE SendsDatagram(TRUE, TRUE) /\ servo' = "safe sent"
    /\ UNCHANGED <<spindleVars, coreVars, fitted, estop, sent>>

ReceivesLastAnswer ==
    /\ servo = "safe sent" /\ servo' = "down"
    /\ DiscardsAnswer({"small", "large"})
    /\ UNCHANGED <<spindleVars, coreVars, fitted, estop, sent>>

StopsSpindle ==
    /\ servo = "stop" /\ servo' = "await"
    /\ EstablishSafeStop
    /\ UNCHANGED <<spinFault, commands, ending, worker, taken, drive, deaf>>
    /\ UNCHANGED <<mesaVars, coreVars, fitted, estop, sent>>

\* waitForSafeStop
AwaitsSafeStop ==
    /\ servo = "await" /\ safety = "SafeStopped"
    /\ servo' = "down" /\ sent' = "none"
    /\ UNCHANGED <<spindleVars, mesaVars, coreVars, fitted, estop>>

\* ~PhysicalExecutorIo: SpindleWorker::stop.
EndsWorker ==
    /\ servo = "down" /\ ~Axes
    /\ servo' = "join"
    /\ EstablishSafeStop
    /\ ending' = TRUE
    /\ UNCHANGED <<spinFault, commands, worker, taken, drive, deaf>>
    /\ UNCHANGED <<mesaVars, coreVars, fitted, estop, sent>>

JoinsWorker ==
    /\ servo = "join" /\ worker = "ended"
    /\ servo' = "gone"
    /\ UNCHANGED <<spindleVars, mesaVars, coreVars, fitted, estop, sent>>

ServoThread ==
    \/ Wakes \/ ReceivesAnswer \/ Ticks
    \/ AppliesSpindle \/ Rearms \/ Pushes \/ StopsFullSpindle
    \/ EndsInTime \/ MissesDeadline
    \/ SendsSafeImage \/ ReceivesLastAnswer
    \/ StopsSpindle \/ AwaitsSafeStop \/ EndsWorker \/ JoinsWorker

WorkerThread == ~Axes /\ Worker /\ UNCHANGED <<mesaVars, coreVars, loopVars>>
Board == Axes /\ Watchdog /\ UNCHANGED <<spindleVars, coreVars, loopVars>>

Next == ServoThread \/ LeavesLoop \/ WorkerThread \/ Board

\* Both threads go on, and the watchdog's timer runs.
Spec ==
    /\ Init /\ [][Next]_vars
    /\ WF_vars(ServoThread) /\ WF_vars(WorkerThread) /\ WF_vars(Board)

-----------------------------------------------------------------------------
(* Properties.                                                             *)

\* A spindle that is reported safely stopped stands still: whatever was written to
\* the drive, by whichever round of the worker, before the stop that is answered
\* (SpindleHardware.cpp, establishSafeStop and run), unless that stop was lost.
SafeStoppedMeansStopped ==
    ~Axes /\ safety = "SafeStopped" /\ ~deaf => drive = "off"

\* A shutdown that waits for the spindle's safe stop is answered by a worker that
\* still runs, though it may be leaving on a fault (SpindleHardware.cpp,
\* waitForSafeStop and run).
SpindleStopIsAnswered ==
    servo = "await" /\ worker # "ended" ~> servo # "await"

\* While the board works, the executor decides on the inputs of this very cycle:
\* a repeated answer of an older cycle is never taken for it (Lbp16CyclicTransaction
\* .cpp, exchange: the sequence words).
InputsAreCurrent ==
    Axes /\ servo = "core" /\ mesaFault = "none" /\ available => sampled = position

\* A following error is reported only for a joint whose step generator has missed
\* steps: the reading is compared with the command it belongs to, whatever was
\* lost, aligned, assigned or stopped before (MesaProductionExecutorIo.cpp).
FollowingErrorMeansSlip == mesaFault = "following" => slipped

\* When the executor is disabled or faulted, the step generators stop, by an image
\* without steps or by the watchdog, whichever datagrams are lost
\* (MesaProductionExecutorIo.cpp, applyOutputs; HostMot2CyclicIo.cpp, cycle).
DisabledStopsTheAxes == ~Enabled ~> (~Stepping \/ Enabled)
=============================================================================
