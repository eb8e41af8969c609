--------------------------- MODULE SessionManager ---------------------------
(***************************************************************************)
(* MachineSessionManager: the Simulation and the Machine session, the      *)
(* authority to control one of them, and the emergency stop of both.       *)
(*                                                                         *)
(* Every call of the manager holds its mutex.  Those that wait for a host  *)
(* thread or an executor (power on, power off, the import of the Machine's *)
(* state, the reset of an emergency stop) are split where they wait; the   *)
(* sessions, which have mutexes of their own, go on in between.            *)
(*                                                                         *)
(* Each session is abstracted to its power, its activity and where its     *)
(* host thread is (MachineSession has the detail); its executor to the     *)
(* emergency stop (EmergencyStop has the detail) and to being faulted.     *)
(***************************************************************************)
EXTENDS Integers

CONSTANTS
    Configured,      \* the sessions there are: Machine is optional
    MaxRequests,     \* bounds the power changes, starts, imports and stops asked for
    MaxTransfers,    \* bounds the generations of the authority
    MaxDisasters     \* bounds emergency stops, faults, losses and late answers

Targets == {"Simulation", "Machine"}
ASSUME ConfiguredAssumption == Configured \subseteq Targets /\ "Simulation" \in Configured
ASSUME BoundsAssumption ==
    MaxRequests \in Nat /\ MaxTransfers \in Nat /\ MaxDisasters \in Nat

VARIABLES
    authority,    \* m_controlAuthority
    guiLatched,   \* m_guiEmergencyStopLatched
    call,         \* the call that has the mutex of the manager and waits
    held,         \* an authority that somebody was given
    moved,        \* the control has moved since it was given (history)
    requests, disasters    \* what was asked for and what went wrong so far, for the bounds

\* Of each session, what its coordinator and its host have.
VARIABLES
    power, activity, queued,
    at,           \* where the host thread is
    serviced,     \* its operation is a homing or a jog
    running,      \* m_running
    jogOwned,     \* m_activeJog is set
    errored, faultSeen, pressed    \* the snapshot has an error, a fault, the stop of the GUI

\* Of each session, what its executor has.
VARIABLES link, requested, latched, reset, faulted

managerVars == <<authority, guiLatched, held, moved>>
boundVars == <<requests, disasters>>
powerVars == <<power, activity>>
workVars == <<serviced, running, jogOwned>>
seenVars == <<errored, faultSeen, pressed>>
sessionVars == <<powerVars, queued, at, workVars, seenVars>>
executorVars == <<link, requested, latched, reset, faulted>>
vars == <<managerVars, call, boundVars, sessionVars, executorVars>>

\* Other sources of an emergency stop are inputs of the executor.
Sources == {"Gui", "Other"}
PowerStates == {"Off", "Starting", "On", "Stopping", "Faulted"}
Activities == {"Idle", "Busy", "Faulted"}
Operations == {"Program", "Homing", "Jog"}
Commands == Operations \cup {"None", "Resume", "Stop"}

\* The host thread is in an operation, then waits for the geometry thread, then is in
\* finishActivity between reading the power and storing the activity.  An operation is
\* deaf when the events of the emergency stop were discarded as it began.
Places == {"idle", "beginning", "program", "paused", "serviced", "deaf",
           "joining", "finishing", "storing", "releasing"}

Answers == {"None", "Asked", "Cleared", "Blocked", "NotLatched"}
Authorities == [target : Targets, generation : Nat]
Steps == {"requested", "switching", "done", "failed", "checking", "awaiting latch",
          "awaiting answer"}
Calls == [name : {"None", "PowerOn", "PowerOff", "Import", "Reset"}, session : Targets,
          at : Steps]
NoCall == [name |-> "None", session |-> "Simulation", at |-> "done"]

TypeOK ==
    /\ authority \in Authorities /\ guiLatched \in BOOLEAN /\ call \in Calls
    /\ held \in Authorities /\ moved \in BOOLEAN
    /\ requests \in Nat /\ disasters \in Nat
    /\ power \in [Configured -> PowerStates] /\ activity \in [Configured -> Activities]
    /\ queued \in [Configured -> Commands] /\ at \in [Configured -> Places]
    /\ serviced \in [Configured -> BOOLEAN] /\ running \in [Configured -> BOOLEAN]
    /\ jogOwned \in [Configured -> BOOLEAN] /\ errored \in [Configured -> BOOLEAN]
    /\ faultSeen \in [Configured -> BOOLEAN] /\ pressed \in [Configured -> BOOLEAN]
    /\ link \in [Configured -> {"closed", "running", "lost"}]
    /\ requested \in [Configured -> BOOLEAN]
    /\ latched \in [Configured -> SUBSET Sources]
    /\ reset \in [Configured -> Answers] /\ faulted \in [Configured -> BOOLEAN]

Everywhere(v) == [s \in Configured |-> v]

Init ==
    /\ authority = [target |-> "Simulation", generation |-> 1]
    /\ guiLatched = FALSE /\ call = NoCall /\ held = authority /\ moved = FALSE
    /\ requests = 0 /\ disasters = 0
    /\ power = Everywhere("Off") /\ activity = Everywhere("Idle")
    /\ queued = Everywhere("None") /\ at = Everywhere("idle")
    /\ serviced = Everywhere(FALSE) /\ running = Everywhere(FALSE)
    /\ jogOwned = Everywhere(FALSE) /\ errored = Everywhere(FALSE)
    /\ faultSeen = Everywhere(FALSE) /\ pressed = Everywhere(FALSE)
    /\ link = Everywhere("closed") /\ requested = Everywhere(FALSE)
    /\ latched = Everywhere({}) /\ reset = Everywhere("None")
    /\ faulted = Everywhere(FALSE)

Asked == requests < MaxRequests /\ requests' = requests + 1 /\ UNCHANGED disasters
Disaster == disasters < MaxDisasters /\ disasters' = disasters + 1 /\ UNCHANGED requests

-----------------------------------------------------------------------------
(* What the manager asks of a session.                                     *)

\* executionEpochActive: the producer is there until the geometry thread has been joined.
EpochActive(s) == ~serviced[s] /\ at[s] \in {"program", "paused", "joining"}

MotionOwnedOrQueued(s) ==
    running[s] \/ queued[s] # "None" \/ activity[s] # "Idle" \/ jogOwned[s]

ControllerDataMutable(s) == ~MotionOwnedOrQueued(s) /\ ~EpochActive(s)

\* Mutant: only what is controlled is compared, not since when.
ControlsSame == held.target = authority.target
\* controlledSessionLocked: the request is of the one who has the control now.
Controls == held = authority
Target == authority.target

Free == call = NoCall
Waiting(name, step) == call.name = name /\ call.at = step
CallsHost(name) == call' = [name |-> name, session |-> Target, at |-> "requested"]
Answer(step) == call' = [call EXCEPT !.at = step]

\* ExecutionCoordinator::fault.
Fault(s) == /\ power' = [power EXCEPT ![s] = "Faulted"]
            /\ activity' = [activity EXCEPT ![s] = "Faulted"]

-----------------------------------------------------------------------------
(* The calls of the manager.                                               *)

GivesAuthority ==
    /\ Free
    /\ held' = authority /\ moved' = FALSE
    /\ UNCHANGED <<authority, guiLatched, call, boundVars, sessionVars, executorVars>>

Moves(target) ==
    /\ authority' = [target |-> target, generation |-> authority.generation + 1]
    /\ moved' = TRUE
    /\ UNCHANGED held

\* Mutant: only the session that takes over has to be idle.
MayTransferFromAny(target) == ControllerDataMutable(target)
MayTransfer(target) == ControllerDataMutable(Target) /\ ControllerDataMutable(target)

SelectControlTarget == \E target \in Configured :
    /\ Free /\ target # Target /\ authority.generation < MaxTransfers
    /\ MayTransfer(target)
    /\ Moves(target)
    /\ UNCHANGED <<guiLatched, call, boundVars, sessionVars, executorVars>>

\* Mutant: the emergency stop that the manager remembers is not looked at.
MayPowerOnRegardless == power[Target] = "Off"
MayPowerOn == power[Target] = "Off" /\ ~guiLatched

PowerOn ==
    /\ Free /\ Controls /\ MayPowerOn /\ Asked
    /\ CallsHost("PowerOn")
    /\ UNCHANGED <<managerVars, sessionVars, executorVars>>

PowerOff ==
    /\ Free /\ Controls /\ power[Target] = "On" /\ ~MotionOwnedOrQueued(Target) /\ Asked
    /\ CallsHost("PowerOff")
    /\ UNCHANGED <<managerVars, sessionVars, executorVars>>

\* The answer of the host thread ends the call.
PowerAnswered ==
    /\ call.name \in {"PowerOn", "PowerOff"} /\ call.at \in {"done", "failed"}
    /\ call' = NoCall
    /\ UNCHANGED <<managerVars, boundVars, sessionVars, executorVars>>

\* start, home and startJog.
Start == \E operation \in Operations :
    /\ Free /\ Controls /\ power[Target] = "On" /\ ~faultSeen[Target]
    /\ ~MotionOwnedOrQueued(Target) /\ Asked
    /\ activity' = [activity EXCEPT ![Target] = "Busy"]
    /\ queued' = [queued EXCEPT ![Target] = operation]
    /\ errored' = [errored EXCEPT ![Target] = FALSE]
    /\ jogOwned' = [jogOwned EXCEPT ![Target] = operation = "Jog"]
    /\ UNCHANGED <<managerVars, call, power, at, serviced, running, faultSeen, pressed,
                   executorVars>>

Queues(command) ==
    /\ Asked
    /\ queued' = [queued EXCEPT ![Target] = command]
    /\ UNCHANGED <<managerVars, call, powerVars, at, workVars, seenVars, executorVars>>

\* Only a paused program is resumed.
Resume ==
    /\ Free /\ Controls /\ power[Target] = "On" /\ at[Target] = "paused"
    /\ queued[Target] = "None"
    /\ Queues("Resume")

\* Whatever is queued makes room for the Stop.
Stop ==
    /\ Free /\ Controls /\ power[Target] = "On" /\ MotionOwnedOrQueued(Target)
    /\ queued[Target] # "Stop"
    /\ Queues("Stop")

\* Mutant: only the session that is controlled is stopped.
StopsControlled == {Target}
StopsAll == Configured

\* A session that is off is told nothing, and neither is an executor that is not there.
EmergencyStop ==
    LET Stopped == {s \in StopsAll : power[s] # "Off"}
        InStopped(f, v) == [s \in Configured |-> IF s \in Stopped THEN v ELSE f[s]] IN
    /\ Free /\ Disaster
    /\ guiLatched' = TRUE
    /\ requested' = [s \in Configured |->
                         requested[s] \/ (s \in Stopped /\ link[s] # "closed")]
    /\ power' = InStopped(power, "Faulted") /\ activity' = InStopped(activity, "Faulted")
    /\ queued' = InStopped(queued, "None")
    /\ errored' = InStopped(errored, TRUE) /\ pressed' = InStopped(pressed, TRUE)
    /\ UNCHANGED <<authority, held, moved, call, at, workVars, faultSeen, link, latched,
                   reset, faulted>>

ForgetsErrors(s) ==
    /\ errored' = [errored EXCEPT ![s] = FALSE]
    /\ faultSeen' = [faultSeen EXCEPT ![s] = FALSE]
    /\ pressed' = [pressed EXCEPT ![s] = FALSE]

\* simulateFromMachine: the Machine must be powered and idle and know where it is, as far
\* as its host has seen; then Simulation takes its state over and is powered on.
Import ==
    /\ Free /\ Controls /\ Target = "Machine" /\ authority.generation < MaxTransfers
    /\ power["Simulation"] = "Off" /\ ControllerDataMutable("Simulation")
    /\ power["Machine"] = "On" /\ ControllerDataMutable("Machine")
    /\ ~errored["Machine"] /\ ~faultSeen["Machine"]
    /\ Asked
    /\ ForgetsErrors("Simulation")
    /\ call' = [name |-> "Import", session |-> "Simulation", at |-> "requested"]
    /\ UNCHANGED <<managerVars, powerVars, queued, at, workVars, executorVars>>

ImportAnswered ==
    /\ call.name = "Import" /\ call.at \in {"done", "failed"}
    /\ IF call.at = "done" THEN Moves("Simulation") ELSE UNCHANGED <<authority, held, moved>>
    /\ call' = NoCall
    /\ UNCHANGED <<guiLatched, boundVars, sessionVars, executorVars>>

ResetEmergencyStop ==
    /\ Free /\ Asked
    /\ call' = [name |-> "Reset", session |-> "Simulation", at |-> "checking"]
    /\ UNCHANGED <<managerVars, sessionVars, executorVars>>

\* The sessions are reset one after the other; one that is refused or does not answer ends
\* the call, and only the last to be reset releases the latch of the GUI.
ResetGoesOn ==
    /\ IF call.session = "Simulation" /\ "Machine" \in Configured
       THEN /\ call' = [name |-> "Reset", session |-> "Machine", at |-> "checking"]
            /\ UNCHANGED guiLatched
       ELSE call' = NoCall /\ guiLatched' = FALSE
    /\ UNCHANGED <<authority, held, moved>>
ResetFails == call' = NoCall /\ UNCHANGED managerVars
ResetAwaits(step) == Answer(step) /\ UNCHANGED managerVars

\* Mutant: what the session was doing may still be shutting down.
MayResetWhileEnding(s) == TRUE
MayReset(s) == ~running[s] /\ ~EpochActive(s)

ResetChecks ==
    LET s == call.session IN
    /\ Waiting("Reset", "checking")
    /\ \/ power[s] # "Faulted" /\ ResetGoesOn
       \/ power[s] = "Faulted" /\ ~MayReset(s) /\ ResetFails
       \/ /\ power[s] = "Faulted" /\ MayReset(s)
          /\ ResetAwaits(IF pressed[s] THEN "awaiting latch" ELSE "requested")
    /\ UNCHANGED <<boundVars, sessionVars, executorVars>>

\* The executor says it has latched the emergency stop of the GUI, which is released.
LatchSeen ==
    /\ Waiting("Reset", "awaiting latch") /\ "Gui" \in latched[call.session]
    /\ requested' = [requested EXCEPT ![call.session] = FALSE]
    /\ ResetAwaits("requested")
    /\ UNCHANGED <<boundVars, sessionVars, link, latched, reset, faulted>>

AsksForReset ==
    /\ Waiting("Reset", "requested")
    /\ IF link[call.session] = "closed" THEN ResetFails /\ UNCHANGED reset
       ELSE /\ reset' = [reset EXCEPT ![call.session] = "Asked"]
            /\ ResetAwaits("awaiting answer")
    /\ UNCHANGED <<boundVars, sessionVars, link, requested, latched, faulted>>

\* The executor is closed, or one that has just been started takes its place.
Renews(s, state) ==
    /\ link' = [link EXCEPT ![s] = state]
    /\ requested' = [requested EXCEPT ![s] = FALSE]
    /\ latched' = [latched EXCEPT ![s] = {}]
    /\ reset' = [reset EXCEPT ![s] = "None"]
    /\ faulted' = [faulted EXCEPT ![s] = FALSE]

ResetAnswered ==
    LET s == call.session IN
    /\ Waiting("Reset", "awaiting answer") /\ reset[s] \notin {"None", "Asked"}
    /\ \/ /\ reset[s] = "Cleared"
          /\ Renews(s, "closed")
          /\ power' = [power EXCEPT ![s] = "Off"]
          /\ activity' = [activity EXCEPT ![s] = "Idle"]
          /\ ForgetsErrors(s)
          /\ ResetGoesOn
       \/ /\ reset[s] # "Cleared"
          /\ ResetFails /\ UNCHANGED <<powerVars, seenVars, executorVars>>
    /\ UNCHANGED <<boundVars, queued, at, workVars>>

\* Two seconds have passed.  A reset that was asked for may be answered later.
ResetGivesUp ==
    /\ call.name = "Reset" /\ call.at \in {"awaiting latch", "awaiting answer"}
    /\ IF link[call.session] = "running" THEN Disaster ELSE UNCHANGED boundVars
    /\ ResetFails
    /\ UNCHANGED <<sessionVars, executorVars>>

-----------------------------------------------------------------------------
(* The host thread of a session.                                           *)

BeginPowerOn(s) ==
    /\ call.name \in {"PowerOn", "Import"} /\ call.at = "requested" /\ call.session = s
    /\ at[s] = "idle"
    /\ power' = [power EXCEPT ![s] = "Starting"]
    /\ activity' = [activity EXCEPT ![s] = "Idle"]
    /\ Answer("switching")
    /\ UNCHANGED <<managerVars, boundVars, queued, at, workVars, seenVars, executorVars>>

CompletePowerOn(s) ==
    /\ power[s] = "Starting"
    /\ power' = [power EXCEPT ![s] = "On"]
    /\ Renews(s, "running")
    /\ Answer("done")
    /\ UNCHANGED <<managerVars, boundVars, activity, queued, at, workVars, seenVars>>

FailPowerOn(s) ==
    /\ power[s] = "Starting" /\ Disaster
    /\ Fault(s) /\ errored' = [errored EXCEPT ![s] = TRUE]
    /\ Answer("failed")
    /\ UNCHANGED <<managerVars, queued, at, workVars, faultSeen, pressed, executorVars>>

\* A session that was faulted meanwhile is not switched off.
BeginPowerOff(s) ==
    /\ Waiting("PowerOff", "requested") /\ call.session = s /\ at[s] = "idle"
    /\ \/ /\ power[s] = "On" /\ activity[s] = "Idle" /\ queued[s] = "None"
          /\ power' = [power EXCEPT ![s] = "Stopping"]
          /\ Answer("switching") /\ UNCHANGED errored
       \/ /\ ~(power[s] = "On" /\ activity[s] = "Idle" /\ queued[s] = "None")
          /\ errored' = [errored EXCEPT ![s] = TRUE]
          /\ Answer("failed") /\ UNCHANGED power
    /\ UNCHANGED <<managerVars, boundVars, activity, queued, at, workVars, faultSeen,
                   pressed, executorVars>>

\* An executor that is lost cannot be told that it is disabled.
CompletePowerOff(s) ==
    /\ power[s] = "Stopping"
    /\ \/ /\ link[s] = "lost" /\ Fault(s) /\ errored' = [errored EXCEPT ![s] = TRUE]
          /\ Answer("failed") /\ UNCHANGED executorVars
       \/ /\ link[s] # "lost" /\ Renews(s, "closed")
          /\ power' = [power EXCEPT ![s] = "Off"]
          /\ Answer("done") /\ UNCHANGED <<activity, errored>>
    /\ UNCHANGED <<managerVars, boundVars, queued, at, workVars, faultSeen, pressed>>

OfHost == UNCHANGED <<managerVars, call, boundVars, executorVars>>

\* Between two operations the host thread looks at the emergency stop of the executor.
HostFaults(s) ==
    /\ at[s] = "idle" /\ power[s] = "On" /\ latched[s] # {}
    /\ Fault(s) /\ queued' = [queued EXCEPT ![s] = "None"]
    /\ errored' = [errored EXCEPT ![s] = TRUE]
    /\ pressed' = [pressed EXCEPT ![s] = "Gui" \in latched[s]]
    /\ OfHost /\ UNCHANGED <<at, workVars, faultSeen>>

\* A Stop that is dispatched found no operation to stop: the jog that its start announced
\* stays announced.
DispatchNextOperation(s) ==
    /\ at[s] = "idle" /\ queued[s] # "None" /\ power[s] \notin {"Starting", "Stopping"}
    /\ ~(power[s] = "On" /\ latched[s] # {})
    /\ queued' = [queued EXCEPT ![s] = "None"]
    /\ \/ /\ queued[s] \in Operations
          /\ at' = [at EXCEPT ![s] = "beginning"]
          /\ running' = [running EXCEPT ![s] = TRUE]
          /\ serviced' = [serviced EXCEPT ![s] = queued[s] # "Program"]
          /\ UNCHANGED activity
       \/ /\ queued[s] = "Stop"
          /\ activity' = [activity EXCEPT ![s] = IF power[s] = "On" THEN "Idle" ELSE @]
          /\ UNCHANGED <<at, running, serviced>>
       \/ queued[s] = "Resume" /\ UNCHANGED <<activity, at, running, serviced>>
    /\ OfHost /\ UNCHANGED <<power, jogOwned, seenVars>>

Goes(s, place) ==
    /\ at' = [at EXCEPT ![s] = place]
    /\ OfHost /\ UNCHANGED <<power, workVars, seenVars>>

\* What the executor said before the operation began is discarded with its old events.
Begin(s) ==
    /\ at[s] = "beginning"
    /\ Goes(s, IF power[s] # "On" \/ activity[s] # "Busy" THEN "releasing"
               ELSE IF latched[s] # {} THEN "deaf"
               ELSE IF serviced[s] THEN "serviced" ELSE "program")
    /\ UNCHANGED <<activity, queued>>

Bad(s) == link[s] # "running" \/ latched[s] # {} \/ faulted[s]

\* A program that is paused waits for a command and looks at nothing else.
Pause(s) ==
    at[s] = "program" /\ ~Bad(s) /\ Goes(s, "paused") /\ UNCHANGED <<activity, queued>>

TakesCommand(s) ==
    /\ at[s] = "paused" /\ queued[s] # "None"
    /\ Goes(s, "program") /\ queued' = [queued EXCEPT ![s] = "None"] /\ UNCHANGED activity

\* What the host saw of the executor when its operation ended, and whether the Stop that
\* is queued was taken or comes too late.
Sees(s) ==
    /\ errored' = [errored EXCEPT ![s] = @ \/ Bad(s)]
    /\ faultSeen' = [faultSeen EXCEPT ![s] = @ \/ faulted[s]]
    /\ UNCHANGED pressed
MayTakeStop(s) == UNCHANGED queued \/ queued' = [queued EXCEPT ![s] = "None"]

\* The program is completed, stopped or failed; what is stopped or failed no longer counts
\* as running while its geometry thread is waited for.
ProgramEnds(s) == \E completed \in BOOLEAN :
    /\ at[s] = "program" /\ (completed => ~Bad(s))
    /\ at' = [at EXCEPT ![s] = "joining"]
    /\ running' = [running EXCEPT ![s] = completed]
    /\ MayTakeStop(s) /\ Sees(s)
    /\ OfHost /\ UNCHANGED <<powerVars, serviced, jogOwned>>

Joined(s) ==
    at[s] = "joining" /\ Goes(s, "finishing") /\ UNCHANGED <<activity, queued>>

\* A jog or homing that fails faults the session; a jog also clears what is queued.
ServicedMotionEnds(s) ==
    /\ at[s] = "serviced"
    /\ at' = [at EXCEPT ![s] = "finishing"]
    /\ IF Bad(s) THEN Fault(s) ELSE UNCHANGED powerVars
    /\ MayTakeStop(s) /\ (Bad(s) /\ jogOwned[s] => queued'[s] = "None") /\ Sees(s)
    /\ OfHost /\ UNCHANGED workVars

\* finishActivity: between reading the power and storing the activity a fault may come.
ReadsPower(s) ==
    /\ at[s] = "finishing"
    /\ Goes(s, IF power[s] = "On" THEN "storing" ELSE "releasing")
    /\ UNCHANGED <<activity, queued>>

StoresActivity(s) ==
    /\ at[s] = "storing"
    /\ Goes(s, "releasing") /\ activity' = [activity EXCEPT ![s] = "Idle"]
    /\ UNCHANGED queued

Releases(s) ==
    /\ at[s] = "releasing"
    /\ at' = [at EXCEPT ![s] = "idle"]
    /\ running' = [running EXCEPT ![s] = FALSE]
    /\ jogOwned' = [jogOwned EXCEPT ![s] = @ /\ ~serviced[s]]
    /\ OfHost /\ UNCHANGED <<powerVars, queued, serviced, seenVars>>

-----------------------------------------------------------------------------
(* Its executor.                                                           *)

OfExecutor == UNCHANGED <<managerVars, call, sessionVars>>

\* EmergencyStopController::update; what is latched faults the executor.
ExecutorTick(s) == \E other \in SUBSET {"Other"} :
    LET active == other \cup IF requested[s] THEN {"Gui"} ELSE {}
        all == latched[s] \cup active
        clears == reset[s] = "Asked" /\ active = {} /\ all # {} IN
    /\ link[s] = "running"
    /\ IF other \subseteq latched[s] THEN UNCHANGED boundVars ELSE Disaster
    /\ latched' = [latched EXCEPT ![s] = IF clears THEN {} ELSE all]
    /\ reset' = [reset EXCEPT ![s] = IF @ # "Asked" THEN @
                                     ELSE IF active # {} THEN "Blocked"
                                     ELSE IF all = {} THEN "NotLatched" ELSE "Cleared"]
    /\ faulted' = [faulted EXCEPT ![s] = @ \/ all # {}]
    /\ OfExecutor /\ UNCHANGED <<link, requested>>

ExecutorFaults(s) ==
    /\ link[s] = "running" /\ ~faulted[s] /\ Disaster
    /\ faulted' = [faulted EXCEPT ![s] = TRUE]
    /\ OfExecutor /\ UNCHANGED <<link, requested, latched, reset>>

ExecutorLost(s) ==
    /\ link[s] = "running" /\ Disaster
    /\ link' = [link EXCEPT ![s] = "lost"]
    /\ OfExecutor /\ UNCHANGED <<requested, latched, reset, faulted>>

-----------------------------------------------------------------------------

Manager ==
    \/ GivesAuthority \/ SelectControlTarget \/ PowerOn \/ PowerOff \/ PowerAnswered
    \/ Start \/ Resume \/ Stop \/ EmergencyStop \/ Import \/ ImportAnswered
    \/ ResetEmergencyStop \/ ResetChecks \/ LatchSeen \/ AsksForReset \/ ResetAnswered
    \/ ResetGivesUp

PowerStep(s) ==
    \/ BeginPowerOn(s) \/ CompletePowerOn(s) \/ FailPowerOn(s)
    \/ BeginPowerOff(s) \/ CompletePowerOff(s)

WorkStep(s) ==
    \/ HostFaults(s) \/ DispatchNextOperation(s) \/ Begin(s) \/ Pause(s) \/ TakesCommand(s)
    \/ ProgramEnds(s) \/ Joined(s) \/ ServicedMotionEnds(s) \/ ReadsPower(s)
    \/ StoresActivity(s) \/ Releases(s)

Executor(s) == ExecutorTick(s) \/ ExecutorFaults(s) \/ ExecutorLost(s)

Next == Manager \/ \E s \in Configured : PowerStep(s) \/ WorkStep(s) \/ Executor(s)
Spec == Init /\ [][Next]_vars

-----------------------------------------------------------------------------
(* What is promised.                                                       *)

\* As long as the manager remembers the emergency stop of the GUI, no session has power,
\* through all the resets that reach one session and not the other
\* (EmergencyStopTests.cpp: "a latched GUI emergency stop allowed power on").
GuiLatchKeepsSessionsOff ==
    guiLatched => \A s \in Configured : power[s] \in {"Off", "Faulted"}

\* Whatever is transferred or imported, only the session that has the control carries an
\* operation out or has one queued.
OnlyControlledSessionWorks == \A s \in Configured \ {Target} :
    ~running[s] /\ queued[s] = "None" /\ ~EpochActive(s)

\* A request made by one who was given the control before it moved, be it there and back,
\* acts on no session (MachineSessionManager::controlledSessionLocked).
StaleRequestsActOnNothing ==
    [][moved => /\ (call = NoCall => call'.name \notin {"PowerOn", "PowerOff", "Import"})
                /\ \A s \in Configured :
                       queued[s] = "None" => queued'[s] = "None"]_vars

\* Each session lives as SessionLife promises, under all that the manager does with it:
\* it works only when powered and is not powered again before its fault has been reset.
\* A session that is not configured is off for ever.
PowerOf(s) == IF s \in Configured THEN power[s] ELSE "Off"
Works(s) == s \in Configured /\ (running[s] \/ EpochActive(s))
SimulationLife == INSTANCE SessionLife WITH power <- PowerOf("Simulation"),
                                            working <- Works("Simulation")
MachineLife == INSTANCE SessionLife WITH power <- PowerOf("Machine"),
                                         working <- Works("Machine")
SessionsLiveAsPromised == SimulationLife!Spec /\ MachineLife!Spec
=============================================================================
