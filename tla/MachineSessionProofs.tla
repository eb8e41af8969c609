------------------------- MODULE MachineSessionProofs -------------------------
(***************************************************************************)
(* What a machine session promises about power and work, whatever          *)
(* programs, operations, jogs and capacities it has, whatever the operator *)
(* asks for and whichever part of it fails.                                *)
(*                                                                         *)
(* The host thread looks at the power at some places and acts on it at     *)
(* others, and between the two the operator, the executor and the network  *)
(* may do anything.  The invariant says what still holds at each place the *)
(* host thread can be in.                                                  *)
(*                                                                         *)
(* And what the planner of its driver does to the path when it divides     *)
(* prepared geometry, which MachineSession leaves out and GeometryStream   *)
(* has in full.                                                            *)
(***************************************************************************)
EXTENDS MachineSession, SequenceTheorems, TLAPS

Geometry == INSTANCE PreparedGeometry

Operations == {"Program", "Homing", "Jogging"}
EpochHosts == {"service", "events", "pump", "pumped", "paused", "ending"}
Working == running \/ EpochActive

\* Only a powered session has an activity of its own.
ActivityInv ==
    /\ power \in {"Off", "Starting", "On", "Stopping", "Faulted"}
    /\ activity \in Operations \cup {"Idle", "Faulted"}
    /\ activity \in Operations => power = "On"

\* m_running is set before the operation begins and cleared before the host thread is
\* back in its loop.
RunningInv ==
    /\ host \in {"starting", "motion"} => running
    /\ running => host \notin {"idle", "starting up", "shutting down"}

\* Power that is not there, or on its way, comes with no work and no executor.
PowerInv ==
    /\ power \in {"Off", "Starting", "Stopping"} => ~Working
    /\ host = "starting up" => power \in {"Starting", "Faulted"}
    /\ power = "Off" \/ host = "starting up" => ~Linked

IInv == ActivityInv /\ RunningInv /\ PowerInv

\* What is to be shown of every step.
Fine == IInv' /\ [Life!Next]_Life!vars

-----------------------------------------------------------------------------
(* Steps that leave power and work alone.                                  *)

\* The executor may be lost meanwhile.
Aside ==
    /\ UNCHANGED <<power, activity, running, host>>
    /\ Linked' => Linked

LEMMA AsideFine ==
  ASSUME IInv, Aside
  PROVE  Fine
<1>1. Working' <=> Working
  BY DEF Aside, Working, EpochActive
<1>2. IInv'
  BY <1>1 DEF Aside, IInv, ActivityInv, RunningInv, PowerInv
<1>3. UNCHANGED Life!vars
  BY DEF Aside, Life!vars, EpochActive
<1> QED
  BY <1>2, <1>3 DEF Fine

LEMMA ExecutorFine ==
  ASSUME IInv, Executor
  PROVE  Fine
<1>1. CASE TickLatches
  BY <1>1, AsideFine DEF TickLatches, ExecutorBecomes, Aside, Linked, stateVars, shownVars
<1>2. CASE PeerDies
  BY <1>2, AsideFine DEF PeerDies, Aside, Linked, stateVars, shownVars
<1>3. ASSUME NEW o \in Outcomes, ServoTick(o)
      PROVE  Fine
  BY <1>3, AsideFine DEF ServoTick, ExecutorBecomes, Aside, Linked, stateVars, shownVars
<1> QED
  BY <1>1, <1>2, <1>3 DEF Executor

LEMMA ProducerFine ==
  ASSUME IInv, Producer \/ SnapshotPoll
  PROVE  Fine
<1>1. Aside
  BY DEF Producer, Publishes, TakesFeedback, Cancels, SnapshotPoll, Aside, Linked,
         executorVars, stateVars, shownVars
<1> QED
  BY <1>1, AsideFine

LEMMA RequestsFine ==
  ASSUME IInv,
         \/ RequestPower \/ PressFeedHold \/ PressResume \/ PressStop \/ PressJogControl
         \/ CancelsGeometry
  PROVE  Fine
<1>1. Aside
  BY DEF RequestPower, PressFeedHold, PressResume, PressStop, PressJogControl,
         CancelsGeometry, Unclaimed, Aside, Linked, executorVars, stateVars, shownVars
<1> QED
  BY <1>1, AsideFine

-----------------------------------------------------------------------------
(* The operator.                                                           *)

LEMMA PressesFine ==
  ASSUME IInv, PressStart \/ PressHome \/ PressJog
  PROVE  Fine
<1>1. /\ power = "On" /\ activity' \in Operations
      /\ UNCHANGED <<power, running, host, link>>
  BY DEF PressStart, PressHome, PressJog, Queues, Unclaimed, executorVars, shownVars,
         Operations
<1>2. (Working' <=> Working) /\ (Linked' <=> Linked)
  BY <1>1 DEF Working, EpochActive, Linked
<1>3. IInv'
  BY <1>1, <1>2 DEF IInv, ActivityInv, RunningInv, PowerInv
<1>4. UNCHANGED Life!vars
  BY <1>1 DEF Life!vars, EpochActive
<1> QED
  BY <1>3, <1>4 DEF Fine

\* An emergency stop takes power and activity at any place of the host thread, and so do
\* the faults that the host thread finds.
LosesPower ==
    /\ power # "Off" /\ power' = "Faulted" /\ activity' = "Faulted"
    /\ UNCHANGED <<running, host>> /\ (Linked' => Linked)

LEMMA LosesPowerFine ==
  ASSUME IInv, LosesPower
  PROVE  Fine
<1>1. Working' <=> Working
  BY DEF LosesPower, Working, EpochActive
<1>2. IInv'
  BY <1>1 DEF LosesPower, IInv, ActivityInv, RunningInv, PowerInv, Operations
<1>3. Life!Faults
  BY DEF LosesPower, Life!Faults, EpochActive
<1> QED
  BY <1>2, <1>3 DEF Fine, Life!Next

LEMMA PressResetFine ==
  ASSUME IInv, PressReset
  PROVE  Fine
<1>1. /\ power = "Faulted" /\ ~Working /\ Linked
      /\ power' = "Off" /\ activity' = "Idle" /\ link' = "closed"
      /\ UNCHANGED <<running, host>>
  BY DEF PressReset, MayReset, StopRuntime, Working
<1>2. ~Working' /\ ~Linked' /\ host # "starting up"
  BY <1>1 DEF Working, EpochActive, Linked, IInv, PowerInv
<1>3. IInv'
  BY <1>1, <1>2 DEF IInv, ActivityInv, RunningInv, PowerInv, Operations
<1>4. Life!Resets
  BY <1>1, <1>2 DEF Life!Resets, Working, EpochActive
<1> QED
  BY <1>3, <1>4 DEF Fine, Life!Next

LEMMA OperatorFine ==
  ASSUME IInv, Operator
  PROVE  Fine
<1>1. CASE PressEmergencyStop
  <2>1. LosesPower
    BY <1>1 DEF PressEmergencyStop, LosesPower, Linked
  <2> QED
    BY <2>1, LosesPowerFine
<1> QED
  BY <1>1, RequestsFine, PressesFine, PressResetFine DEF Operator

-----------------------------------------------------------------------------
(* The host thread: its loop.                                              *)

LEMMA HostFaultsFine ==
  ASSUME IInv, HostFaults
  PROVE  Fine
<1>1. LosesPower
  BY DEF HostFaults, MustFault, LosesPower, Linked, executorVars
<1> QED
  BY <1>1, LosesPowerFine

LEMMA BeginsPowerOnFine ==
  ASSUME IInv, BeginsPowerOn
  PROVE  Fine
<1>1. host = "idle" /\ UNCHANGED <<running, link>>
  BY DEF BeginsPowerOn, executorVars
<1>2. CASE power = "Off"
  <2>1. power' = "Starting" /\ activity' = "Idle" /\ host' = "starting up"
    BY <1>2 DEF BeginsPowerOn
  <2>2. ~Working /\ ~Working' /\ (Linked' <=> Linked) /\ ~Linked
    BY <1>1, <1>2, <2>1 DEF Working, EpochActive, Linked, IInv, PowerInv
  <2>3. IInv'
    BY <1>1, <2>1, <2>2 DEF IInv, ActivityInv, RunningInv, PowerInv, Operations
  <2>4. Life!PowersOn
    BY <1>2, <2>1, <2>2 DEF Life!PowersOn, Working, EpochActive
  <2> QED
    BY <2>3, <2>4 DEF Fine, Life!Next
<1>3. CASE power # "Off"
  <2>1. Aside
    BY <1>1, <1>3 DEF BeginsPowerOn, Aside, Linked
  <2> QED
    BY <2>1, AsideFine
<1> QED
  BY <1>2, <1>3

LEMMA CompletesPowerOnFine ==
  ASSUME IInv, CompletesPowerOn
  PROVE  Fine
<1>1. /\ host = "starting up" /\ host' = "idle"
      /\ power \in {"Starting", "Faulted"}
      /\ power' = IF power = "Starting" THEN "On" ELSE power
      /\ UNCHANGED <<running, activity>>
  BY DEF CompletesPowerOn, IInv, PowerInv, shownVars
<1>2. Working' <=> Working
  BY <1>1 DEF Working, EpochActive
<1>3. IInv'
  BY <1>1, <1>2 DEF IInv, ActivityInv, RunningInv, PowerInv
<1>4. [Life!Next]_Life!vars
  BY <1>1 DEF Life!Next, Life!vars, Life!PowersOn, EpochActive
<1> QED
  BY <1>3, <1>4 DEF Fine

LEMMA FailsPowerOnFine ==
  ASSUME IInv, FailsPowerOn
  PROVE  Fine
<1>1. /\ host = "starting up" /\ host' = "idle"
      /\ power \in {"Starting", "Faulted"}
      /\ power' = "Faulted" /\ activity' = "Faulted"
      /\ UNCHANGED running
  BY DEF FailsPowerOn, IInv, PowerInv
<1>2. Working' <=> Working
  BY <1>1 DEF Working, EpochActive
<1>3. IInv'
  BY <1>1, <1>2 DEF IInv, ActivityInv, RunningInv, PowerInv, Operations
<1>4. Life!Faults
  BY <1>1 DEF Life!Faults, EpochActive
<1> QED
  BY <1>3, <1>4 DEF Fine, Life!Next

LEMMA BeginsPowerOffFine ==
  ASSUME IInv, BeginsPowerOff
  PROVE  Fine
<1>1. host = "idle" /\ ~running /\ UNCHANGED <<running, link>>
  BY DEF BeginsPowerOff, executorVars, IInv, RunningInv
<1>2. CASE MayPowerOff /\ Linked
  <2>1. power = "On" /\ activity = "Idle"
        /\ power' = "Stopping" /\ host' = "shutting down" /\ UNCHANGED activity
    BY <1>2 DEF BeginsPowerOff, MayPowerOff
  <2>2. ~Working /\ ~Working'
    BY <1>1, <2>1 DEF Working, EpochActive
  <2>3. IInv'
    BY <1>1, <2>1, <2>2 DEF IInv, ActivityInv, RunningInv, PowerInv, Operations
  <2>4. Life!PowersOff
    BY <2>1, <2>2 DEF Life!PowersOff, Working, EpochActive
  <2> QED
    BY <2>3, <2>4 DEF Fine, Life!Next
<1>3. CASE MayPowerOff /\ ~Linked
  <2>1. LosesPower
    BY <1>1, <1>3 DEF BeginsPowerOff, MayPowerOff, LosesPower, Linked
  <2> QED
    BY <2>1, LosesPowerFine
<1>4. CASE ~MayPowerOff
  <2>1. Aside
    BY <1>1, <1>4 DEF BeginsPowerOff, Aside, Linked
  <2> QED
    BY <2>1, AsideFine
<1> QED
  BY <1>2, <1>3, <1>4

LEMMA CompletesPowerOffFine ==
  ASSUME IInv, CompletesPowerOff
  PROVE  Fine
<1>1. /\ host = "shutting down" /\ host' = "idle" /\ ~running
      /\ power' = IF power = "Stopping" THEN "Off" ELSE power
      /\ UNCHANGED <<running, activity>> /\ link' = "closed"
  BY DEF CompletesPowerOff, StopRuntime, shownVars, IInv, RunningInv
<1>2. ~Working /\ ~Working' /\ ~Linked'
  BY <1>1 DEF Working, EpochActive, Linked
<1>3. IInv'
  BY <1>1, <1>2 DEF IInv, ActivityInv, RunningInv, PowerInv
<1>4. [Life!Next]_Life!vars
  BY <1>1 DEF Life!Next, Life!vars, Life!PowersOff, EpochActive
<1> QED
  BY <1>3, <1>4 DEF Fine

\* The activity of the command that is taken is the one the session shows: then it has
\* power.
LEMMA DispatchFine ==
  ASSUME IInv, Dispatch
  PROVE  Fine
<1> DEFINE started == StartsActivity(Head(commands))
<1>1. host = "idle" /\ ~running /\ UNCHANGED <<power, link>>
  BY DEF Dispatch, executorVars, IInv, RunningInv
<1>2. /\ started \in Operations \cup {"None"}
      /\ Head(commands) = "Stop" => started = "None"
  BY DEF StartsActivity, JogKinds, Operations
<1>3. activity # "None"
  BY DEF IInv, ActivityInv, Operations
<1> HIDE DEF started
<1>4. CASE started = activity
  <2>1. running' = TRUE /\ host' \in {"starting", "motion"} /\ UNCHANGED activity
    BY <1>2, <1>3, <1>4, Zenon DEF Dispatch, started
  <2>2. power = "On"
    BY <1>2, <1>3, <1>4 DEF IInv, ActivityInv
  <2>3. IInv'
    BY <1>1, <2>1, <2>2 DEF IInv, ActivityInv, RunningInv, PowerInv
  <2>4. Life!Begins
    BY <1>1, <2>1, <2>2 DEF Life!Begins, EpochActive
  <2> QED
    BY <2>3, <2>4 DEF Fine, Life!Next
<1>5. CASE started # activity
  <2>1. host' = host /\ ~running' /\ activity' \in {activity, FinishedActivity}
    <3>1. CASE started # "None"
      BY <1>1, <1>2, <1>5, <3>1, Zenon DEF Dispatch, started
    <3>2. CASE started = "None" /\ Head(commands) = "Stop"
      BY <1>1, <1>5, <3>2, Zenon DEF Dispatch, started
    <3>3. CASE started = "None" /\ Head(commands) # "Stop"
      BY <1>1, <1>5, <3>3, Zenon DEF Dispatch, started
    <3> QED
      BY <3>1, <3>2, <3>3
  <2>2. Working' <=> Working
    BY <1>1, <2>1 DEF Working, EpochActive
  <2>3. IInv'
    BY <1>1, <2>1, <2>2 DEF IInv, ActivityInv, RunningInv, PowerInv, FinishedActivity,
                            Operations, Linked
  <2>4. UNCHANGED Life!vars
    BY <1>1, <2>1 DEF Life!vars, EpochActive
  <2> QED
    BY <2>3, <2>4 DEF Fine
<1> QED
  BY <1>4, <1>5

-----------------------------------------------------------------------------
(* The host thread: a program.                                             *)

\* The host thread goes on within the epoch of a program.
Continues ==
    /\ host \in EpochHosts /\ host' \in EpochHosts
    /\ UNCHANGED <<power, activity, link>> /\ (running' => running)

LEMMA ContinuesFine ==
  ASSUME IInv, Continues
  PROVE  Fine
<1>1. /\ Working /\ Working' /\ (Linked' <=> Linked)
      /\ host' \notin {"starting", "motion", "idle", "starting up", "shutting down"}
  BY DEF Continues, Working, EpochActive, EpochHosts, Linked
<1>2. IInv'
  BY <1>1 DEF Continues, IInv, ActivityInv, RunningInv, PowerInv
<1>3. UNCHANGED Life!vars
  BY <1>1 DEF Continues, Life!vars, Working, EpochActive, EpochHosts
<1> QED
  BY <1>2, <1>3 DEF Fine

LEMMA HostContinuesWithin ==
  ASSUME NEW s, NEW next \in EpochHosts, HostContinues(s, next)
  PROVE  host' \in EpochHosts /\ (running' => running)
  BY DEF HostContinues, EpochHosts

LEMMA ServiceFine ==
  ASSUME IInv, HostServices
  PROVE  Fine
<1>1. host = "service" /\ UNCHANGED <<power, activity, link>>
  BY DEF HostServices, executorVars
<1>2. host' \in EpochHosts /\ (running' => running)
  <2>1. CASE host' = "events" /\ UNCHANGED running
    BY <2>1 DEF EpochHosts
  <2>2. ASSUME NEW s, HostContinues(s, "events")
        PROVE  host' \in EpochHosts /\ (running' => running)
    BY <2>2, HostContinuesWithin DEF EpochHosts
  <2> QED
    BY <2>1, <2>2 DEF HostServices
<1> QED
  BY <1>1, <1>2, ContinuesFine DEF Continues, EpochHosts

LEMMA ServicesBackendFine ==
  ASSUME IInv, ServicesBackend
  PROVE  Fine
<1>1. host = "events" /\ UNCHANGED <<power, activity, link>>
  BY DEF ServicesBackend, executorVars
<1>2. host' \in EpochHosts /\ (running' => running)
  <2>1. CASE host' = "pump" /\ UNCHANGED running
    BY <2>1 DEF EpochHosts
  <2>2. ASSUME NEW s, HostContinues(s, "pump")
        PROVE  host' \in EpochHosts /\ (running' => running)
    BY <2>2, HostContinuesWithin DEF EpochHosts
  <2> QED
    BY <2>1, <2>2 DEF ServicesBackend
<1> QED
  BY <1>1, <1>2, ContinuesFine DEF Continues, EpochHosts

LEMMA PumpFine ==
  ASSUME IInv, PumpsItem \/ PumpsMessage \/ PumpEnds
  PROVE  Fine
<1>1. /\ host \in {"pump", "pumped"} /\ UNCHANGED <<power, activity, link>>
  BY DEF PumpsItem, PumpsMessage, PumpEnds, executorVars, stateVars
<1>2. host' \in EpochHosts /\ (running' => running)
  <2>1. CASE PumpsItem \/ PumpsMessage
    BY <2>1 DEF PumpsItem, PumpsMessage, Pumps, shownVars, EpochHosts
  <2>2. CASE PumpEnds
    BY <2>2, HostContinuesWithin DEF PumpEnds, EpochHosts
  <2> QED
    BY <2>1, <2>2
<1> QED
  BY <1>1, <1>2, ContinuesFine DEF Continues, EpochHosts

LEMMA WakesFine ==
  ASSUME IInv, Wakes
  PROVE  Fine
<1>1. Continues
  BY DEF Wakes, Continues, EpochHosts, executorVars, stateVars, shownVars
<1> QED
  BY <1>1, ContinuesFine

LEMMA BeginProgramFine ==
  ASSUME IInv, BeginProgram
  PROVE  Fine
<1>1. /\ host = "starting" /\ host' = "service" /\ power = "On" /\ running
      /\ UNCHANGED <<power, activity, link, running>>
  BY DEF BeginProgram, stateVars, shownVars, IInv, RunningInv
<1>2. Working /\ Working' /\ (Linked' <=> Linked)
  BY <1>1 DEF Working, Linked
<1>3. IInv'
  BY <1>1, <1>2 DEF IInv, ActivityInv, RunningInv, PowerInv
<1>4. UNCHANGED Life!vars
  BY <1>1, <1>2 DEF Life!vars, Working
<1> QED
  BY <1>3, <1>4 DEF Fine

\* The end of an operation: what was at work is not any more, and the host thread is on
\* its way to its loop.
Finishes ==
    /\ host \notin {"idle", "starting up", "shutting down"}
    /\ host' = "idle" /\ ~running'
    /\ UNCHANGED <<power, link>> /\ activity' \in {activity, FinishedActivity, "Idle"}

LEMMA FinishesFine ==
  ASSUME IInv, Finishes
  PROVE  Fine
<1>1. ~Working' /\ (Linked' <=> Linked)
  BY DEF Finishes, Working, EpochActive, Linked
<1>2. IInv'
  BY <1>1 DEF Finishes, IInv, ActivityInv, RunningInv, PowerInv, FinishedActivity,
              Operations
<1>3. [Life!Next]_Life!vars
  BY <1>1 DEF Finishes, Life!Next, Life!vars, Life!Ends, Working, EpochActive
<1> QED
  BY <1>2, <1>3 DEF Fine

LEMMA AbandonsProgramFine ==
  ASSUME IInv, AbandonsProgram
  PROVE  Fine
<1>1. Finishes
  BY DEF AbandonsProgram, Finishes, executorVars
<1> QED
  BY <1>1, FinishesFine

LEMMA ReleasesFine ==
  ASSUME IInv, Releases
  PROVE  Fine
<1>1. Finishes
  BY DEF Releases, Finishes, executorVars
<1> QED
  BY <1>1, FinishesFine

LEMMA EndProgramFine ==
  ASSUME IInv, EndProgram
  PROVE  Fine
<1>1. /\ host = "ending" /\ host' \in {"releasing", "released"}
      /\ UNCHANGED <<power, activity, link, running>>
  BY DEF EndProgram, executorVars, stateVars, shownVars
<1>2. /\ Working /\ (Working' <=> running) /\ (Linked' <=> Linked)
  BY <1>1 DEF Working, EpochActive, Linked
<1>3. IInv'
  BY <1>1, <1>2 DEF IInv, ActivityInv, RunningInv, PowerInv
<1>4. [Life!Next]_Life!vars
  BY <1>1, <1>2 DEF Life!Next, Life!vars, Life!Ends, Working, EpochActive
<1> QED
  BY <1>3, <1>4 DEF Fine

-----------------------------------------------------------------------------
(* The host thread: homing and jogging.                                    *)

\* A serviced motion that sees a fault takes the power, and an executor that cannot be
\* told to stop is stopped with its process.
LEMMA ServicesMotionFine ==
  ASSUME IInv, ServicesMotion
  PROVE  Fine
<1>1. /\ host = "motion" /\ UNCHANGED <<running, host>>
      /\ Linked' => Linked
  BY DEF ServicesMotion, BeginMotion, SetsPositions, RunsHoming, PublishesMove, StartsJog,
         AwaitsPositions, AwaitsMove, AwaitsJog, DemandsCleanup, Quiesces, Hands,
         SameElsewhere, StopRuntime, shownVars, Linked
<1>2. power # "Off"
  BY <1>1 DEF IInv, RunningInv, PowerInv, Working
<1>3. \/ UNCHANGED <<power, activity>>
      \/ power' = "Faulted" /\ activity' = "Faulted"
  <2>1. ASSUME NEW m, MotionBecomes(m)
        PROVE  \/ UNCHANGED <<power, activity>>
               \/ power' = "Faulted" /\ activity' = "Faulted"
    BY <2>1 DEF MotionBecomes
  <2>2. ASSUME NEW m, NEW next, Observe(m, next)
        PROVE  \/ UNCHANGED <<power, activity>>
               \/ power' = "Faulted" /\ activity' = "Faulted"
    BY <2>1, <2>2 DEF Observe
  <2>3. CASE BeginMotion \/ DemandsCleanup
    BY <2>3 DEF BeginMotion, DemandsCleanup
  <2>4. CASE SetsPositions \/ RunsHoming \/ PublishesMove \/ StartsJog \/ Quiesces
    BY <2>1, <2>4 DEF SetsPositions, RunsHoming, PublishesMove, StartsJog, Quiesces, Hands
  <2>5. CASE AwaitsPositions \/ AwaitsMove \/ AwaitsJog
    BY <2>2, <2>5 DEF AwaitsPositions, AwaitsMove, AwaitsJog
  <2> QED
    BY <2>3, <2>4, <2>5 DEF ServicesMotion
<1>4. CASE UNCHANGED <<power, activity>>
  BY <1>1, <1>4, AsideFine DEF Aside
<1>5. CASE power' = "Faulted" /\ activity' = "Faulted"
  BY <1>1, <1>2, <1>5, LosesPowerFine DEF LosesPower
<1> QED
  BY <1>3, <1>4, <1>5

LEMMA EndsMotionFine ==
  ASSUME IInv, EndsMotion
  PROVE  Fine
<1>1. /\ host = "motion" /\ host' \in {"releasing", "released"}
      /\ UNCHANGED <<running, link>> /\ running /\ power # "Off"
      /\ \/ UNCHANGED <<power, activity>>
         \/ power' = "Faulted" /\ activity' = "Faulted"
  BY DEF EndsMotion, executorVars, shownVars, IInv, RunningInv, PowerInv, Working
<1>2. Working /\ Working' /\ (Linked' <=> Linked)
  BY <1>1 DEF Working, Linked
<1>3. IInv'
  BY <1>1, <1>2 DEF IInv, ActivityInv, RunningInv, PowerInv, Operations
<1>4. [Life!Next]_Life!vars
  BY <1>1, <1>2 DEF Life!Next, Life!vars, Life!Faults, Working
<1> QED
  BY <1>3, <1>4 DEF Fine

-----------------------------------------------------------------------------

LEMMA StepFine ==
  ASSUME IInv, [Next]_vars
  PROVE  Fine
<1>1. CASE Host
  BY <1>1, HostFaultsFine, BeginsPowerOnFine, CompletesPowerOnFine, BeginsPowerOffFine,
     CompletesPowerOffFine, DispatchFine, BeginProgramFine, AbandonsProgramFine, ServiceFine,
     ServicesBackendFine, PumpFine, WakesFine, RequestsFine, EndProgramFine,
     ServicesMotionFine, EndsMotionFine, ReleasesFine DEF Host
<1>2. CASE UNCHANGED vars
  BY <1>2, AsideFine DEF vars, Aside, Linked, executorVars, stateVars, shownVars
<1> QED
  BY <1>1, <1>2, ExecutorFine, ProducerFine, FailsPowerOnFine, OperatorFine DEF Next

\* To everything that uses a session, MachineSession with its host, executor and operator is
\* a SessionLife: MachineSessionHost::work begins and continues operations only with power,
\* and ExecutionCoordinator's power goes through a reset before it comes back.
THEOREM SessionLives == Spec => LivesAsPromised
<1>1. Init => IInv /\ Life!Init
  BY DEF Init, IInv, ActivityInv, RunningInv, PowerInv, Working, EpochActive, Linked,
         Operations, Life!Init
<1>2. IInv /\ [Next]_vars => IInv' /\ [Life!Next]_Life!vars
  BY StepFine DEF Fine
<1> QED
  BY <1>1, <1>2, PTL DEF Spec, LivesAsPromised, Life!Spec

-----------------------------------------------------------------------------
(* The division of prepared geometry.                                      *)

\* Pieces over any commands that own them, stations and sets of sources.
Pieces(owners, stations, sources) ==
    [kind : STRING, from : Int, to : Int, primary : owners,
     stations : stations, sources : sources]

\* A path without a gap.
Joined(pieces) == \A i \in 1 .. Len(pieces) - 1 : pieces[i].to = pieces[i + 1].from

\* The two parts of a divided piece cover it, and meet at the cut.
LEMMA PartsOfAPiece ==
    ASSUME NEW owners, NEW stations, NEW sources,
           NEW piece \in Pieces(owners, stations, sources), NEW cut \in Int
    PROVE  /\ Geometry!Before(piece, cut).from = piece.from
           /\ Geometry!Before(piece, cut).to = cut
           /\ Geometry!Behind(piece, cut).from = cut
           /\ Geometry!Behind(piece, cut).to = piece.to
BY DEF Geometry!Before, Geometry!Behind, Pieces

\* The sequence up to an element that is replaced, and the one from it on.
LEMMA ReplacedAtTheEnd ==
    ASSUME NEW S, NEW s \in Seq(S), NEW i \in 1 .. Len(s), NEW e
    PROVE  LET t == Append(SubSeq(s, 1, i - 1), e)
           IN  Len(t) = i /\ t[i] = e /\ \A k \in 1 .. i - 1 : t[k] = s[k]
<1> DEFINE front == SubSeq(s, 1, i - 1)
<1>1. /\ front \in Seq(S) /\ Len(front) = i - 1
      /\ \A k \in 1 .. i - 1 : front[k] = s[k]
  OBVIOUS
<1>2. front \in Seq(S \cup {e})
  BY <1>1
<1> HIDE DEF front
<1>3. /\ Len(Append(front, e)) = i /\ Append(front, e)[i] = e
      /\ \A k \in 1 .. i - 1 : Append(front, e)[k] = front[k]
  BY <1>1, <1>2
<1> QED
  BY <1>1, <1>3 DEF front

LEMMA ReplacedAtTheStart ==
    ASSUME NEW S, NEW s \in Seq(S), NEW i \in 1 .. Len(s), NEW e
    PROVE  LET t == <<e>> \o SubSeq(s, i + 1, Len(s))
           IN  /\ Len(t) = Len(s) - i + 1 /\ t[1] = e
               /\ \A k \in 2 .. Len(t) : t[k] = s[i + k - 1]
<1> DEFINE back == SubSeq(s, i + 1, Len(s))
<1>1. /\ back \in Seq(S) /\ Len(back) = Len(s) - i
      /\ \A k \in 1 .. Len(s) - i : back[k] = s[i + k]
  OBVIOUS
<1> HIDE DEF back
<1>2. /\ back \in Seq(S \cup {e}) /\ <<e>> \in Seq(S \cup {e})
      /\ Len(<<e>>) = 1 /\ <<e>>[1] = e /\ Len(s) - i \in Nat
  BY <1>1
<1> DEFINE head == <<e>>
<1> HIDE DEF head
<1>3. /\ Len(head \o back) = Len(s) - i + 1 /\ (head \o back)[1] = e
      /\ \A k \in 2 .. Len(s) - i + 1 : (head \o back)[k] = back[k - 1]
  <2>1. /\ Len(head \o back) = Len(head) + Len(back)
        /\ \A k \in 1 .. Len(head) + Len(back) :
               (head \o back)[k] = IF k <= Len(head) THEN head[k] ELSE back[k - Len(head)]
    BY <1>2, ConcatProperties DEF head
  <2>2. Len(head) = 1 /\ head[1] = e /\ Len(back) = Len(s) - i
    BY <1>1, <1>2 DEF head
  <2> QED
    BY <1>2, <2>1, <2>2
<1>4. \A k \in 2 .. Len(s) - i + 1 : back[k - 1] = s[i + k - 1]
  BY <1>1
<1> QED
  BY <1>3, <1>4 DEF back, head

\* Dividing the retained geometry (splitPreparedGeometry) loses nothing of the path and
\* repeats nothing: wherever it is cut, the prefix that is planned and the suffix that is
\* retained are paths without a gap that meet at the cut and cover the path that was
\* retained, however many pieces that has.
THEOREM SplitKeepsThePath ==
    ASSUME NEW owners, NEW stations, NEW sources,
           NEW geometry, geometry.pieces \in Seq(Pieces(owners, stations, sources)),
           Joined(geometry.pieces),
           NEW cut \in Int,
           \E j \in DOMAIN geometry.pieces :
               geometry.pieces[j].from < cut /\ cut < geometry.pieces[j].to
    PROVE  LET prefix == Geometry!SplitPreparedGeometry(geometry, cut).prefix.pieces
               suffix == Geometry!SplitPreparedGeometry(geometry, cut).suffix.pieces
           IN  /\ Joined(prefix) /\ Joined(suffix)
               /\ Len(prefix) > 0 /\ Len(suffix) > 0
               /\ prefix[1].from = geometry.pieces[1].from
               /\ prefix[Len(prefix)].to = cut /\ suffix[1].from = cut
               /\ suffix[Len(suffix)].to = geometry.pieces[Len(geometry.pieces)].to
<1> DEFINE pieces == geometry.pieces
           i == CHOOSE j \in DOMAIN pieces : pieces[j].from < cut /\ cut < pieces[j].to
           first == Geometry!Before(pieces[i], cut)
           last == Geometry!Behind(pieces[i], cut)
           prefix == Append(SubSeq(pieces, 1, i - 1), first)
           suffix == <<last>> \o SubSeq(pieces, i + 1, Len(pieces))
<1>1. /\ i \in 1 .. Len(pieces) /\ Len(pieces) \in Nat
      /\ pieces \in Seq(Pieces(owners, stations, sources))
      /\ \A j \in 1 .. Len(pieces) : pieces[j] \in Pieces(owners, stations, sources)
  OBVIOUS
<1>2. /\ Geometry!SplitPreparedGeometry(geometry, cut).prefix.pieces = prefix
      /\ Geometry!SplitPreparedGeometry(geometry, cut).suffix.pieces = suffix
  BY DEF Geometry!SplitPreparedGeometry, Geometry!GeometryForPieces
<1> HIDE DEF i, pieces
<1>3. /\ first.from = pieces[i].from /\ first.to = cut
      /\ last.from = cut /\ last.to = pieces[i].to
  BY <1>1, PartsOfAPiece
<1> HIDE DEF first, last
<1>4. /\ Len(prefix) = i /\ prefix[i] = first
      /\ \A k \in 1 .. i - 1 : prefix[k] = pieces[k]
  BY <1>1, ReplacedAtTheEnd
<1>5. /\ Len(suffix) = Len(pieces) - i + 1 /\ suffix[1] = last
      /\ \A k \in 2 .. Len(suffix) : suffix[k] = pieces[i + k - 1]
  BY <1>1, ReplacedAtTheStart
<1> HIDE DEF prefix, suffix
<1>6. Joined(pieces)
  BY DEF pieces
<1>7. Joined(prefix)
  BY <1>1, <1>3, <1>4, <1>6 DEF Joined
<1>8. Joined(suffix)
  <2> SUFFICES ASSUME NEW k \in 1 .. Len(suffix) - 1
               PROVE  suffix[k].to = suffix[k + 1].from
    BY DEF Joined
  <2>1. i + k - 1 \in 1 .. Len(pieces) - 1 /\ k + 1 \in 2 .. Len(suffix)
    BY <1>1, <1>5, SMTT(30)
  <2>2. suffix[k + 1] = pieces[i + k]
    BY <1>1, <1>5, <2>1
  <2>3. suffix[k].to = pieces[i + k - 1].to
    <3>1. CASE k = 1
      BY <1>1, <1>3, <1>5, <3>1
    <3>2. CASE k # 1
      <4>1. k \in 2 .. Len(suffix)
        BY <1>1, <1>5, <3>2
      <4> QED
        BY <1>5, <4>1
    <3> QED
      BY <3>1, <3>2
  <2>4. pieces[i + k - 1].to = pieces[i + k - 1 + 1].from
    BY <1>6, <2>1 DEF Joined
  <2> QED
    BY <1>1, <2>2, <2>3, <2>4
<1>9. prefix[1].from = pieces[1].from
  BY <1>1, <1>3, <1>4
<1>10. suffix[Len(suffix)].to = pieces[Len(pieces)].to
  <2>1. CASE i = Len(pieces)
    BY <1>1, <1>3, <1>5, <2>1
  <2>2. CASE i # Len(pieces)
    <3>1. Len(suffix) \in 2 .. Len(suffix) /\ i + Len(suffix) - 1 = Len(pieces)
      BY <1>1, <1>5, <2>2
    <3> QED
      BY <1>5, <3>1
  <2> QED
    BY <2>1, <2>2
<1> QED
  BY SMTT(30), <1>1, <1>2, <1>3, <1>4, <1>5, <1>7, <1>8, <1>9, <1>10 DEF pieces
=============================================================================
