------------------------ MODULE SessionManagerProofs ------------------------
(***************************************************************************)
(* Proofs of what SessionManager promises.  A call that waits relies on    *)
(* nobody else having the mutex of the manager (CallInv), a session on     *)
(* where its host thread is (HostInv).                                     *)
(***************************************************************************)
EXTENDS SessionManager, TLAPS

USE DEF Free, managerVars, boundVars, powerVars, workVars, seenVars, sessionVars,
        executorVars

\* Where the host thread of a session is says what the session does, whether it has power
\* and that its activity is taken.
HostInv(s) ==
    /\ at[s] \in {"beginning", "program", "paused", "serviced", "deaf"} => running[s]
    /\ at[s] \in {"finishing", "storing", "releasing"} /\ serviced[s] => running[s]
    /\ at[s] \in {"program", "paused", "joining"} => ~serviced[s]
    /\ running[s] => at[s] # "idle"
    /\ running[s] \/ EpochActive(s) => power[s] \in {"On", "Faulted"}
    /\ power[s] \in {"Starting", "Stopping"} => at[s] = "idle"
    /\ power[s] = "On" /\ at[s] \notin {"idle", "releasing"} => activity[s] # "Idle"
    /\ queued[s] \in Operations
       => /\ power[s] = "On" /\ activity[s] = "Busy"
          /\ ~running[s] /\ at[s] \in {"idle", "releasing"}

Rests(s) == ~running[s] /\ queued[s] = "None" /\ ~EpochActive(s)

\* What a call in progress has found out holds until it is answered, for nobody else has
\* the mutex of the manager.
CallInv ==
    /\ call.session \in Configured
    /\ call.name \in {"PowerOn", "PowerOff", "Import"} => ~guiLatched
    /\ call.name \in {"PowerOn", "Import"} /\ call.at = "requested"
       => power[call.session] = "Off"
    /\ call.name = "Import"
       => Target = "Machine" /\ Rests("Machine") /\ call.session = "Simulation"
    /\ call.name = "Reset" /\ call.at \in {"awaiting latch", "requested", "awaiting answer"}
       => /\ power[call.session] = "Faulted"
          /\ ~running[call.session] /\ ~EpochActive(call.session)

AuthorityInv ==
    /\ Target \in Configured
    /\ held.generation <= authority.generation
    /\ moved => held.generation < authority.generation

IInv ==
    /\ TypeOK
    /\ \A s \in Configured : HostInv(s)
    /\ CallInv /\ AuthorityInv
    /\ GuiLatchKeepsSessionsOff /\ OnlyControlledSessionWorks


\* A call that goes on is still a call.
LEMMA AnswerType ==
    ASSUME call \in Calls, NEW step \in Steps, Answer(step)
    PROVE  call' \in Calls
BY DEF Answer, Calls

\* What a call can be made of.
LEMMA CallTypes ==
    /\ NoCall \in Calls
    /\ \A name \in {"PowerOn", "PowerOff", "Import", "Reset"}, s \in Targets, step \in Steps :
           [name |-> name, session |-> s, at |-> step] \in Calls
BY DEF NoCall, Calls, Targets, Steps

\* However a reset goes on, it keeps the types and the authority.
LEMMA ResetTypes ==
    ASSUME TypeOK
    PROVE  /\ ResetGoesOn => call' \in Calls /\ UNCHANGED <<authority, held, moved>>
                                              /\ guiLatched' \in BOOLEAN
           /\ ResetFails => call' \in Calls /\ UNCHANGED managerVars
           /\ \A step \in Steps : ResetAwaits(step) => call' \in Calls /\ UNCHANGED managerVars
<1>1. ResetGoesOn => call' \in Calls /\ UNCHANGED <<authority, held, moved>>
                                     /\ guiLatched' \in BOOLEAN
  BY CallTypes DEF ResetGoesOn, TypeOK, Targets, Steps
<1>2. ResetFails => call' \in Calls /\ UNCHANGED managerVars
  BY CallTypes DEF ResetFails
<1>3. \A step \in Steps : ResetAwaits(step) => call' \in Calls /\ UNCHANGED managerVars
  BY AnswerType DEF ResetAwaits, TypeOK
<1> QED BY <1>1, <1>2, <1>3

\* The calls of the manager keep the types.
LEMMA ManagerType ==
    ASSUME TypeOK, CallInv, AuthorityInv, Manager
    PROVE  TypeOK'
<1> USE ConfiguredAssumption, BoundsAssumption
<1>1. CASE GivesAuthority
  BY <1>1 DEF GivesAuthority, TypeOK
<1>2. CASE SelectControlTarget
  BY <1>2 DEF SelectControlTarget, Moves, TypeOK, Authorities
<1>3. CASE PowerOn
  <2>1. call' \in Calls
    BY <1>3, CallTypes DEF PowerOn, CallsHost, TypeOK, Target, Authorities, Steps
  <2> QED BY <1>3, <2>1 DEF PowerOn, Asked, TypeOK
<1>4. CASE PowerOff
  <2>1. call' \in Calls
    BY <1>4, CallTypes DEF PowerOff, CallsHost, TypeOK, Target, Authorities, Steps
  <2> QED BY <1>4, <2>1 DEF PowerOff, Asked, TypeOK
<1>5. CASE PowerAnswered
  BY <1>5, CallTypes DEF PowerAnswered, TypeOK
<1>6. CASE Start
  BY <1>6 DEF Start, Asked, AuthorityInv, Operations, Commands, Activities, TypeOK
<1>7. CASE Resume
  BY <1>7 DEF Resume, Queues, Asked, AuthorityInv, Commands, TypeOK
<1>8. CASE Stop
  BY <1>8 DEF Stop, Queues, Asked, AuthorityInv, Commands, TypeOK
<1>9. CASE EmergencyStop
  <2>1. /\ power' \in [Configured -> PowerStates] /\ activity' \in [Configured -> Activities]
        /\ queued' \in [Configured -> Commands]
    BY <1>9 DEF EmergencyStop, PowerStates, Activities, Commands, TypeOK
  <2>2. /\ errored' \in [Configured -> BOOLEAN] /\ pressed' \in [Configured -> BOOLEAN]
        /\ requested' \in [Configured -> BOOLEAN]
    BY <1>9 DEF EmergencyStop, TypeOK
  <2>3. guiLatched' \in BOOLEAN /\ requests' \in Nat /\ disasters' \in Nat
    BY <1>9 DEF EmergencyStop, Disaster, TypeOK
  <2> QED BY <1>9, <2>1, <2>2, <2>3 DEF EmergencyStop, TypeOK
<1>10. CASE Import
  <2>1. call' \in Calls
    BY <1>10, CallTypes DEF Import, Targets, Steps
  <2> QED BY <1>10, <2>1 DEF Import, ForgetsErrors, Asked, TypeOK
<1>11. CASE ImportAnswered
  <2>1. authority' \in Authorities /\ held' \in Authorities /\ moved' \in BOOLEAN
    <3>1. CASE call.at = "done"
      BY <1>11, <3>1 DEF ImportAnswered, Moves, TypeOK, Authorities, Targets
    <3>2. CASE call.at # "done"
      BY <1>11, <3>2 DEF ImportAnswered, TypeOK
    <3> QED BY <3>1, <3>2
  <2> QED BY <1>11, <2>1, CallTypes DEF ImportAnswered, TypeOK
<1>12. CASE ResetEmergencyStop
  <2>1. call' \in Calls
    BY <1>12, CallTypes DEF ResetEmergencyStop, Targets, Steps
  <2> QED BY <1>12, <2>1 DEF ResetEmergencyStop, Asked, TypeOK
<1>13. CASE ResetChecks
  <2>1. call' \in Calls /\ UNCHANGED <<authority, held, moved>> /\ guiLatched' \in BOOLEAN
    BY <1>13, ResetTypes DEF ResetChecks, Steps, TypeOK
  <2> QED BY <1>13, <2>1 DEF ResetChecks, TypeOK
<1>14. CASE LatchSeen
  BY <1>14, ResetTypes DEF LatchSeen, TypeOK, Steps
<1>15. CASE AsksForReset
  <2>1. reset' \in [Configured -> Answers]
    BY <1>15 DEF AsksForReset, TypeOK, Answers
  <2>2. call' \in Calls /\ UNCHANGED managerVars
    BY <1>15, ResetTypes DEF AsksForReset, Steps
  <2> QED BY <1>15, <2>1, <2>2 DEF AsksForReset, TypeOK
<1>16. CASE ResetAnswered
  <2>1. call' \in Calls /\ UNCHANGED <<authority, held, moved>> /\ guiLatched' \in BOOLEAN
    BY <1>16, ResetTypes DEF ResetAnswered, TypeOK
  <2>2. /\ power' \in [Configured -> PowerStates] /\ activity' \in [Configured -> Activities]
        /\ link' \in [Configured -> {"closed", "running", "lost"}]
        /\ latched' \in [Configured -> SUBSET Sources] /\ reset' \in [Configured -> Answers]
    <3>1. CASE reset[call.session] = "Cleared"
      <4>1. /\ Renews(call.session, "closed")
            /\ power' = [power EXCEPT ![call.session] = "Off"]
            /\ activity' = [activity EXCEPT ![call.session] = "Idle"]
        BY <1>16, <3>1 DEF ResetAnswered
      <4> QED BY <4>1 DEF Renews, TypeOK, PowerStates, Activities, Answers
    <3>2. CASE reset[call.session] # "Cleared"
      BY <1>16, <3>2 DEF ResetAnswered, TypeOK
    <3> QED BY <3>1, <3>2
  <2>3. /\ errored' \in [Configured -> BOOLEAN] /\ faultSeen' \in [Configured -> BOOLEAN]
        /\ pressed' \in [Configured -> BOOLEAN] /\ requested' \in [Configured -> BOOLEAN]
        /\ faulted' \in [Configured -> BOOLEAN]
    BY <1>16 DEF ResetAnswered, Renews, ForgetsErrors, TypeOK
  <2> QED BY <1>16, <2>1, <2>2, <2>3 DEF ResetAnswered, TypeOK
<1>17. CASE ResetGivesUp
  <2>1. call' \in Calls /\ UNCHANGED managerVars
    BY <1>17, ResetTypes DEF ResetGivesUp
  <2>2. requests' \in Nat /\ disasters' \in Nat
    <3>1. CASE link[call.session] = "running"
      <4>1. Disaster
        BY <1>17, <3>1 DEF ResetGivesUp
      <4> QED BY <4>1 DEF Disaster, TypeOK
    <3>2. CASE link[call.session] # "running"
      BY <1>17, <3>2 DEF ResetGivesUp, TypeOK
    <3> QED BY <3>1, <3>2
  <2> QED BY <1>17, <2>1, <2>2 DEF ResetGivesUp, TypeOK
<1> QED BY <1>1, <1>2, <1>3, <1>4, <1>5, <1>6, <1>7, <1>8, <1>9, <1>10, <1>11, <1>12,
           <1>13, <1>14, <1>15, <1>16, <1>17 DEF Manager

\* So do the steps of a host that switches the power ...
LEMMA PowerStepType ==
    ASSUME TypeOK, NEW s \in Configured, PowerStep(s)
    PROVE  TypeOK'
<1>1. call' \in Calls
  BY AnswerType DEF PowerStep, BeginPowerOn, CompletePowerOn, FailPowerOn, BeginPowerOff,
                    CompletePowerOff, Steps, TypeOK
<1>2. CASE BeginPowerOn(s)
  BY <1>1, <1>2 DEF BeginPowerOn, TypeOK, PowerStates, Activities
<1>3. CASE CompletePowerOn(s)
  BY <1>1, <1>3 DEF CompletePowerOn, Renews, TypeOK, PowerStates, Answers
<1>4. CASE FailPowerOn(s)
  <2>1. requests' \in Nat /\ disasters' \in Nat
    BY <1>4 DEF FailPowerOn, Disaster, TypeOK
  <2> QED BY <1>1, <1>4, <2>1 DEF FailPowerOn, Fault, TypeOK, PowerStates, Activities
<1>5. CASE BeginPowerOff(s)
  BY ZenonT(60), <1>1, <1>5 DEF BeginPowerOff, TypeOK, PowerStates
<1>6. CASE CompletePowerOff(s)
  <2>1. CASE link[s] = "lost"
    BY <1>1, <1>6, <2>1 DEF CompletePowerOff, Fault, TypeOK, PowerStates, Activities
  <2>2. CASE link[s] # "lost"
    BY <1>1, <1>6, <2>2 DEF CompletePowerOff, Renews, TypeOK, PowerStates, Answers
  <2> QED BY <2>1, <2>2
<1> QED BY <1>2, <1>3, <1>4, <1>5, <1>6 DEF PowerStep

\* ... of one that works ...
LEMMA WorkStepType ==
    ASSUME TypeOK, NEW s \in Configured, WorkStep(s)
    PROVE  TypeOK'
<1> USE DEF OfHost
<1>1. CASE HostFaults(s)
  BY <1>1 DEF HostFaults, Fault, TypeOK, PowerStates, Activities, Commands
<1>2. CASE DispatchNextOperation(s)
  BY <1>2 DEF DispatchNextOperation, TypeOK, Activities, Commands, Places
<1>3. CASE Begin(s) \/ Pause(s) \/ Joined(s) \/ ReadsPower(s)
  BY <1>3 DEF Begin, Pause, Joined, ReadsPower, Goes, TypeOK, Places
<1>4. CASE TakesCommand(s)
  BY <1>4 DEF TakesCommand, Goes, TypeOK, Places, Commands
<1>5. CASE StoresActivity(s)
  BY <1>5 DEF StoresActivity, Goes, TypeOK, Places, Activities
<1>6. CASE Releases(s)
  BY <1>6 DEF Releases, TypeOK, Places
<1>7. CASE ProgramEnds(s) \/ ServicedMotionEnds(s)
  <2>1. errored' \in [Configured -> BOOLEAN] /\ faultSeen' \in [Configured -> BOOLEAN]
    BY <1>7 DEF ProgramEnds, ServicedMotionEnds, Sees, TypeOK, Bad
  <2>2. queued' \in [Configured -> Commands]
    BY <1>7 DEF ProgramEnds, ServicedMotionEnds, MayTakeStop, TypeOK, Commands
  <2>3. /\ at' \in [Configured -> Places] /\ running' \in [Configured -> BOOLEAN]
        /\ power' \in [Configured -> PowerStates] /\ activity' \in [Configured -> Activities]
    <3>1. CASE ProgramEnds(s)
      BY <3>1 DEF ProgramEnds, TypeOK, Places
    <3>2. CASE ServicedMotionEnds(s)
      BY <3>2 DEF ServicedMotionEnds, Fault, TypeOK, Places, PowerStates, Activities
    <3> QED BY <1>7, <3>1, <3>2
  <2>4. UNCHANGED <<managerVars, call, boundVars, executorVars, serviced, jogOwned, pressed>>
    BY <1>7 DEF ProgramEnds, ServicedMotionEnds, Sees
  <2> QED BY <2>1, <2>2, <2>3, <2>4 DEF TypeOK
<1> QED BY <1>1, <1>2, <1>3, <1>4, <1>5, <1>6, <1>7 DEF WorkStep

\* ... and of an executor.
LEMMA ExecutorType ==
    ASSUME TypeOK, NEW s \in Configured, Executor(s)
    PROVE  TypeOK' /\ UNCHANGED <<managerVars, call, sessionVars>>
<1> USE DEF OfExecutor
<1>1. CASE ExecutorTick(s)
  <2>1. PICK other \in SUBSET {"Other"} :
          LET active == other \cup IF requested[s] THEN {"Gui"} ELSE {}
              all == latched[s] \cup active
              clears == reset[s] = "Asked" /\ active = {} /\ all # {} IN
          /\ latched' = [latched EXCEPT ![s] = IF clears THEN {} ELSE all]
          /\ faulted' = [faulted EXCEPT ![s] = @ \/ all # {}]
    BY <1>1 DEF ExecutorTick
  <2>2. latched' \in [Configured -> SUBSET Sources]
    BY ZenonT(60), <2>1 DEF TypeOK, Sources
  <2>3. faulted' \in [Configured -> BOOLEAN]
    BY <2>1 DEF TypeOK
  <2>4. reset' \in [Configured -> Answers]
    BY <1>1 DEF ExecutorTick, TypeOK, Answers
  <2>5. requests' \in Nat /\ disasters' \in Nat
    BY <1>1 DEF ExecutorTick, Disaster, TypeOK
  <2> QED BY <1>1, <2>2, <2>3, <2>4, <2>5 DEF ExecutorTick, TypeOK
<1>2. CASE ExecutorFaults(s)
  BY <1>2 DEF ExecutorFaults, Disaster, TypeOK
<1>3. CASE ExecutorLost(s)
  BY <1>3 DEF ExecutorLost, Disaster, TypeOK
<1> QED BY <1>1, <1>2, <1>3 DEF Executor

\* What a step of a host that works leaves alone.
LEMMA WorkFrame ==
    ASSUME TypeOK, NEW s \in Configured, NEW t \in Configured, HostInv(t), WorkStep(s)
    PROVE  /\ UNCHANGED <<managerVars, call>>
           /\ Rests(t) => Rests(t)'
           /\ \/ power'[t] = power[t]
              \/ power[t] \in {"On", "Faulted"} /\ power'[t] = "Faulted"
           /\ MayReset(t) /\ power[t] = "Faulted" => MayReset(t)'
<1> USE DEF OfHost, Rests, MayReset, EpochActive
<1>1. CASE HostFaults(s)
  BY <1>1 DEF HostFaults, Fault, TypeOK
<1>2. CASE DispatchNextOperation(s)
  <2>1. /\ UNCHANGED <<managerVars, call, power>>
        /\ queued' = [queued EXCEPT ![s] = "None"] /\ queued[s] # "None"
    BY <1>2 DEF DispatchNextOperation
  <2>2. CASE queued[s] \in Operations
    BY <1>2, <2>1, <2>2 DEF DispatchNextOperation, TypeOK, HostInv, Operations
  <2>3. CASE queued[s] \notin Operations
    BY <1>2, <2>1, <2>3 DEF DispatchNextOperation, TypeOK
  <2> QED BY <2>2, <2>3
<1>3. CASE Begin(s) \/ Pause(s) \/ Joined(s) \/ ReadsPower(s) \/ TakesCommand(s)
           \/ StoresActivity(s)
  <2>1. PICK place : Goes(s, place) /\ (at[s] \in {"joining", "finishing", "storing"} =>
                                        place \in {"finishing", "storing", "releasing"})
    BY <1>3 DEF Begin, Pause, Joined, ReadsPower, TakesCommand, StoresActivity
  <2>2. /\ at[s] \in {"beginning", "program", "paused", "joining", "finishing", "storing"}
        /\ queued'[t] \in {"None", queued[t]}
    BY <1>3 DEF Begin, Pause, Joined, ReadsPower, TakesCommand, StoresActivity, TypeOK
  <2> QED BY <2>1, <2>2 DEF Goes, HostInv, TypeOK
<1>4. CASE ProgramEnds(s)
  <2>1. UNCHANGED <<managerVars, call, power, serviced>>
    BY <1>4 DEF ProgramEnds
  <2>2. at[s] = "program" /\ (s # t => UNCHANGED <<running[t], at[t], queued[t]>>)
    BY <1>4 DEF ProgramEnds, MayTakeStop, TypeOK
  <2> QED BY <2>1, <2>2 DEF HostInv
<1>5. CASE ServicedMotionEnds(s)
  <2>1. /\ UNCHANGED <<managerVars, call, serviced, running>>
        /\ at[s] = "serviced" /\ (s # t => UNCHANGED <<power[t], at[t], queued[t]>>)
    BY <1>5 DEF ServicedMotionEnds, Fault, MayTakeStop, TypeOK
  <2>2. power'[t] = power[t] \/ (s = t /\ power'[t] = "Faulted")
    <3>1. CASE Bad(s)
      <4>1. Fault(s)
        BY <1>5, <3>1 DEF ServicedMotionEnds
      <4> QED BY <4>1 DEF Fault, TypeOK
    <3>2. CASE ~Bad(s)
      BY <1>5, <3>2 DEF ServicedMotionEnds
    <3> QED BY <3>1, <3>2
  <2> QED BY <2>1, <2>2 DEF HostInv
<1>6. CASE Releases(s)
  BY <1>6 DEF Releases, TypeOK, HostInv
<1> QED BY <1>1, <1>2, <1>3, <1>4, <1>5, <1>6 DEF WorkStep

\* An answer changes nothing of the call but how far it is.
LEMMA AnswerSays ==
    ASSUME call \in Calls, NEW step, Answer(step)
    PROVE  call'.name = call.name /\ call'.session = call.session /\ call'.at = step
BY DEF Answer, Calls

\* ... and of one that switches the power: the session it switches is at rest.
LEMMA PowerFrame ==
    ASSUME TypeOK, NEW s \in Configured, HostInv(s), CallInv, PowerStep(s)
    PROVE  /\ UNCHANGED <<managerVars, queued, at, workVars>>
           /\ at[s] = "idle" /\ ~running[s]
           /\ call'.name = call.name /\ call'.session = call.session
           /\ call'.at \in {"switching", "done", "failed"}
           /\ power'[s] # power[s] \/ UNCHANGED powerVars
           /\ \A t \in Configured \ {s} : power'[t] = power[t] /\ activity'[t] = activity[t]
<1>1. UNCHANGED <<managerVars, queued, at, workVars>>
  BY DEF PowerStep, BeginPowerOn, CompletePowerOn, FailPowerOn, BeginPowerOff, CompletePowerOff
<1>2. at[s] = "idle" /\ ~running[s]
  BY DEF PowerStep, BeginPowerOn, CompletePowerOn, FailPowerOn, BeginPowerOff,
         CompletePowerOff, HostInv
<1>3. /\ call'.name = call.name /\ call'.session = call.session
      /\ call'.at \in {"switching", "done", "failed"}
  BY AnswerSays DEF PowerStep, BeginPowerOn, CompletePowerOn, FailPowerOn, BeginPowerOff,
                    CompletePowerOff, TypeOK
<1>4. /\ power'[s] # power[s] \/ UNCHANGED powerVars
      /\ \A t \in Configured \ {s} : power'[t] = power[t] /\ activity'[t] = activity[t]
  <2>1. CASE BeginPowerOn(s)
    BY <2>1 DEF BeginPowerOn, TypeOK, CallInv
  <2>4. CASE CompletePowerOn(s)
    BY <2>4 DEF CompletePowerOn, TypeOK
  <2>5. CASE FailPowerOn(s)
    BY <2>5 DEF FailPowerOn, Fault, TypeOK
  <2>2. CASE BeginPowerOff(s)
    BY <2>2 DEF BeginPowerOff, TypeOK
  <2>3. CASE CompletePowerOff(s)
    BY <2>3 DEF CompletePowerOff, Fault, TypeOK
  <2> QED BY <2>1, <2>2, <2>3, <2>4, <2>5 DEF PowerStep
<1> QED BY <1>1, <1>2, <1>3, <1>4

-----------------------------------------------------------------------------
(* Where the hosts are.                                                    *)

\* No call of the manager disturbs a host where it is.
LEMMA ManagerKeepsHost ==
    ASSUME IInv, Manager, NEW t \in Configured
    PROVE  HostInv(t)'
<1> USE DEF IInv, HostInv, EpochActive
<1>1. CASE UNCHANGED sessionVars
  BY <1>1
<1>2. CASE Start
  BY <1>2 DEF Start, TypeOK, MotionOwnedOrQueued, Target
<1>3. CASE Resume \/ Stop
  BY <1>3 DEF Resume, Stop, Queues, TypeOK, Operations, Target
<1>4. CASE EmergencyStop
  BY <1>4 DEF EmergencyStop, StopsAll, TypeOK, Operations
<1>5. CASE Import
  BY <1>5 DEF Import
<1>6. CASE ResetAnswered
  <2>1. CASE reset[call.session] = "Cleared"
    <3>1. /\ power' = [power EXCEPT ![call.session] = "Off"]
          /\ activity' = [activity EXCEPT ![call.session] = "Idle"]
          /\ UNCHANGED <<queued, at, workVars>>
      BY <1>6, <2>1 DEF ResetAnswered
    <3>2. power[call.session] = "Faulted" /\ MayReset(call.session)
      BY <1>6 DEF ResetAnswered, Waiting, CallInv, MayReset
    <3> QED BY <3>1, <3>2 DEF TypeOK, MayReset
  <2>2. CASE reset[call.session] # "Cleared"
    BY <1>6, <2>2 DEF ResetAnswered
  <2> QED BY <2>1, <2>2
<1> QED BY <1>1, <1>2, <1>3, <1>4, <1>5, <1>6
      DEF Manager, GivesAuthority, SelectControlTarget, PowerOn, PowerOff, PowerAnswered,
          ImportAnswered, ResetEmergencyStop, ResetChecks, LatchSeen, AsksForReset, ResetGivesUp

\* A host that switches the power is at rest, and stays where it is.
LEMMA PowerStepKeepsHost ==
    ASSUME IInv, NEW s \in Configured, PowerStep(s), NEW t \in Configured
    PROVE  HostInv(t)'
<1> USE DEF IInv, HostInv, EpochActive
<1>1. CASE s # t
  BY <1>1, PowerFrame
<1>2. CASE s = t
  <2>1. UNCHANGED <<queued, at, workVars>> /\ at[s] = "idle" /\ ~running[s]
    BY PowerFrame
  <2>2. queued[s] \in Operations => UNCHANGED powerVars
    <3>1. CASE BeginPowerOn(s)
      BY <3>1 DEF BeginPowerOn, CallInv
    <3>2. CASE CompletePowerOn(s) \/ FailPowerOn(s) \/ CompletePowerOff(s)
      BY <3>2 DEF CompletePowerOn, FailPowerOn, CompletePowerOff
    <3>3. CASE BeginPowerOff(s)
      BY <3>3 DEF BeginPowerOff, Operations
    <3> QED BY <3>1, <3>2, <3>3 DEF PowerStep
  <2> QED BY <1>2, <2>1, <2>2
<1> QED BY <1>1, <1>2

\* A host that works goes from place to place with its power and activity.
LEMMA WorkStepKeepsHost ==
    ASSUME IInv, NEW s \in Configured, WorkStep(s), NEW t \in Configured
    PROVE  HostInv(t)'
<1> USE DEF IInv, HostInv, EpochActive, OfHost
<1>1. CASE HostFaults(s)
  BY <1>1 DEF HostFaults, Fault, TypeOK, Operations
<1>2. CASE DispatchNextOperation(s)
  <2>1. UNCHANGED power /\ queued' = [queued EXCEPT ![s] = "None"] /\ at[s] = "idle"
    BY <1>2 DEF DispatchNextOperation
  <2>2. CASE queued[s] \in Operations
    BY <1>2, <2>1, <2>2 DEF DispatchNextOperation, TypeOK, Operations
  <2>3. CASE queued[s] \notin Operations
    <3>1. UNCHANGED <<at, running, serviced>>
      BY <1>2, <2>3 DEF DispatchNextOperation
    <3>2. \A u \in Configured \ {s} : activity'[u] = activity[u]
      BY <1>2 DEF DispatchNextOperation, TypeOK
    <3> QED BY <2>1, <3>1, <3>2 DEF TypeOK, Operations
  <2> QED BY <2>2, <2>3
<1>3. CASE Begin(s) \/ Pause(s) \/ ReadsPower(s)
  BY <1>3 DEF Begin, Pause, ReadsPower, Goes, TypeOK
<1>4. CASE Joined(s) \/ TakesCommand(s) \/ StoresActivity(s)
  BY <1>4 DEF Joined, TakesCommand, StoresActivity, Goes, TypeOK, Operations
<1>5. CASE ProgramEnds(s)
  <2>1. /\ UNCHANGED <<power, activity, serviced>> /\ at[s] = "program"
        /\ at' = [at EXCEPT ![s] = "joining"]
    BY <1>5 DEF ProgramEnds
  <2>2. /\ \A u \in Configured \ {s} : running'[u] = running[u]
        /\ \A u \in Configured : queued'[u] \in {"None", queued[u]}
    BY <1>5 DEF ProgramEnds, MayTakeStop, TypeOK
  <2> QED BY <2>1, <2>2 DEF TypeOK, Operations
<1>6. CASE ServicedMotionEnds(s)
  <2>1. /\ UNCHANGED workVars /\ at[s] = "serviced" /\ at' = [at EXCEPT ![s] = "finishing"]
        /\ Fault(s) \/ UNCHANGED powerVars
        /\ \A u \in Configured : queued'[u] \in {"None", queued[u]}
    BY <1>6 DEF ServicedMotionEnds, MayTakeStop, TypeOK
  <2> QED BY <2>1 DEF Fault, TypeOK, Operations
<1>7. CASE Releases(s)
  BY <1>7 DEF Releases, TypeOK
<1> QED BY <1>1, <1>2, <1>3, <1>4, <1>5, <1>6, <1>7 DEF WorkStep

-----------------------------------------------------------------------------
(* What the calls rely on.                                                 *)

\* A call begins with what the next steps of it rely on.
LEMMA ManagerKeepsCall ==
    ASSUME IInv, Manager
    PROVE  CallInv'
<1> USE ConfiguredAssumption DEF IInv, CallInv, Rests, EpochActive
<1>0. ASSUME call' = NoCall PROVE CallInv'
  BY <1>0 DEF NoCall
<1>1. CASE GivesAuthority \/ SelectControlTarget
  BY <1>0, <1>1 DEF GivesAuthority, SelectControlTarget
<1>2. CASE PowerOn
  <2>1. /\ call'.name = "PowerOn" /\ call'.session = Target
        /\ UNCHANGED <<managerVars, sessionVars>>
    BY <1>2 DEF PowerOn, CallsHost
  <2>2. power[Target] = "Off" /\ ~guiLatched
    BY <1>2 DEF PowerOn, MayPowerOn
  <2> QED BY <2>1, <2>2 DEF AuthorityInv
<1>15. CASE PowerOff
  <2>1. /\ call'.name = "PowerOff" /\ call'.session = Target
        /\ UNCHANGED <<managerVars, sessionVars>>
    BY <1>15 DEF PowerOff, CallsHost
  <2>2. ~guiLatched
    BY <1>15 DEF PowerOff, GuiLatchKeepsSessionsOff, AuthorityInv
  <2> QED BY <2>1, <2>2 DEF AuthorityInv
<1>3. CASE PowerAnswered \/ ImportAnswered
  BY <1>0, <1>3 DEF PowerAnswered, ImportAnswered
<1>4. CASE Start \/ Resume \/ Stop \/ EmergencyStop
  BY <1>0, <1>4 DEF Start, Resume, Stop, Queues, EmergencyStop
<1>5. CASE Import
  <2>1. ~guiLatched
    BY <1>5 DEF Import, GuiLatchKeepsSessionsOff, AuthorityInv
  <2> QED BY <1>5, <2>1 DEF Import, ControllerDataMutable, MotionOwnedOrQueued, Target
<1>6. CASE ResetEmergencyStop
  BY <1>6 DEF ResetEmergencyStop
<1>7. ResetGoesOn \/ ResetFails => \/ call' = NoCall
                                  \/ /\ call' = [name |-> "Reset", session |-> "Machine",
                                                at |-> "checking"]
                                     /\ "Machine" \in Configured
  BY DEF ResetGoesOn, ResetFails
<1>8. CASE ResetGoesOn \/ ResetFails
  <2>1. CASE call' = NoCall
    BY <1>0, <2>1
  <2>2. CASE /\ call' = [name |-> "Reset", session |-> "Machine", at |-> "checking"]
             /\ "Machine" \in Configured
    <3>1. call'.name = "Reset" /\ call'.session = "Machine" /\ call'.at = "checking"
      BY <2>2
    <3> QED BY <2>2, <3>1
  <2> QED BY <1>7, <1>8, <2>1, <2>2
<1>9. ASSUME NEW step \in Steps, ResetAwaits(step), call.name = "Reset",
             power[call.session] = "Faulted", MayReset(call.session), UNCHANGED sessionVars
      PROVE  CallInv'
  BY <1>9, AnswerSays DEF ResetAwaits, TypeOK, MayReset
<1>10. CASE ResetChecks
  BY <1>8, <1>9, <1>10 DEF ResetChecks, Waiting, Steps
<1>11. CASE LatchSeen
  BY <1>9, <1>11 DEF LatchSeen, Waiting, Steps, MayReset
<1>12. CASE AsksForReset
  BY <1>8, <1>9, <1>12 DEF AsksForReset, Waiting, Steps, MayReset
<1>13. CASE ResetAnswered
  BY <1>8, <1>13 DEF ResetAnswered
<1>14. CASE ResetGivesUp
  BY <1>8, <1>14 DEF ResetGivesUp
<1> QED BY <1>1, <1>2, <1>3, <1>4, <1>5, <1>6, <1>10, <1>11, <1>12, <1>13, <1>14, <1>15
      DEF Manager

\* No host takes from a call what it relies on.
LEMMA HostKeepsCall ==
    ASSUME IInv, NEW s \in Configured, PowerStep(s) \/ WorkStep(s)
    PROVE  CallInv'
<1> USE ConfiguredAssumption DEF IInv
<1>1. CASE PowerStep(s)
  <2>1. /\ UNCHANGED <<managerVars, queued, at, workVars>>
        /\ at[s] = "idle" /\ ~running[s]
        /\ call'.name = call.name /\ call'.session = call.session
        /\ call'.at \in {"switching", "done", "failed"}
    BY <1>1, PowerFrame
  <2> QED BY <2>1 DEF CallInv, Rests, EpochActive, Target
<1>2. CASE WorkStep(s)
  <2>1. UNCHANGED <<managerVars, call>>
    BY <1>2, WorkFrame
  <2>2. ASSUME call.name = "Import" PROVE Rests("Machine")'
    BY <1>2, <2>2, WorkFrame DEF CallInv, AuthorityInv
  <2>3. ASSUME power[call.session] = "Off" PROVE power'[call.session] = "Off"
    BY <1>2, <2>3, WorkFrame DEF CallInv
  <2>4. ASSUME power[call.session] = "Faulted", MayReset(call.session)
        PROVE  power'[call.session] = "Faulted" /\ MayReset(call.session)'
    BY <1>2, <2>4, WorkFrame DEF CallInv
  <2> QED BY <2>1, <2>2, <2>3, <2>4 DEF CallInv, MayReset, Target
<1> QED BY <1>1, <1>2

\* The generation of the authority only grows, and grows when the control moves.
LEMMA AuthorityStep ==
    ASSUME IInv, Next
    PROVE  AuthorityInv'
<1> USE DEF IInv, AuthorityInv, Target, Moves
<1>1. CASE UNCHANGED <<authority, held, moved>>
  BY <1>1
<1>2. CASE GivesAuthority \/ SelectControlTarget
  BY <1>2 DEF GivesAuthority, SelectControlTarget, TypeOK, Authorities
<1>3. CASE ImportAnswered
  <2>1. CASE call.at = "done"
    <3>1. Moves("Simulation")
      BY <1>3, <2>1 DEF ImportAnswered
    <3> QED BY <3>1, ConfiguredAssumption DEF TypeOK, Authorities
  <2>2. CASE call.at # "done"
    BY <1>1, <1>3, <2>2 DEF ImportAnswered
  <2> QED BY <2>1, <2>2
<1>4. ASSUME NEW s \in Configured, PowerStep(s) \/ WorkStep(s) \/ Executor(s)
      PROVE  UNCHANGED <<authority, held, moved>>
  BY <1>4, PowerFrame, WorkFrame, ExecutorType
<1>5. CASE Manager /\ ~GivesAuthority /\ ~SelectControlTarget /\ ~ImportAnswered
  <2>1. CASE ResetChecks \/ ResetAnswered
    BY <1>1, <2>1 DEF ResetChecks, ResetAnswered, ResetGoesOn, ResetFails, ResetAwaits
  <2>2. CASE LatchSeen \/ AsksForReset \/ ResetGivesUp
    BY <1>1, <2>2 DEF LatchSeen, AsksForReset, ResetGivesUp, ResetFails, ResetAwaits
  <2>3. CASE PowerOn \/ PowerOff \/ PowerAnswered \/ Start \/ Resume \/ Stop
             \/ EmergencyStop \/ Import \/ ResetEmergencyStop
    BY <1>1, <2>3 DEF PowerOn, PowerOff, PowerAnswered, Start, Resume, Stop, Queues,
                     EmergencyStop, Import, ResetEmergencyStop
  <2> QED BY <1>5, <2>1, <2>2, <2>3 DEF Manager
<1> QED BY <1>1, <1>2, <1>3, <1>4, <1>5 DEF Next

-----------------------------------------------------------------------------
(* What is promised.                                                       *)

\* Every step keeps the sessions without power while the latch of the GUI is kept.
LEMMA GuiStep ==
    ASSUME IInv, Next
    PROVE  GuiLatchKeepsSessionsOff'
<1> USE DEF IInv, GuiLatchKeepsSessionsOff
<1>1. CASE UNCHANGED <<guiLatched, power>>
  BY <1>1
<1>2. CASE EmergencyStop
  BY <1>2 DEF EmergencyStop, StopsAll, TypeOK
<1>3. CASE ResetChecks \/ ResetAnswered
  <2>1. guiLatched' => guiLatched
    BY <1>3 DEF ResetChecks, ResetAnswered, ResetGoesOn, ResetFails, ResetAwaits
  <2>2. \A s \in Configured : power'[s] \in {power[s], "Off"}
    BY <1>3 DEF ResetChecks, ResetAnswered, TypeOK
  <2> QED BY <2>1, <2>2
<1>4. CASE Manager /\ ~EmergencyStop /\ ~ResetChecks /\ ~ResetAnswered
  <2>1. CASE LatchSeen \/ AsksForReset \/ ResetGivesUp
    BY <1>1, <2>1 DEF LatchSeen, AsksForReset, ResetGivesUp, ResetFails, ResetAwaits
  <2>2. CASE GivesAuthority \/ SelectControlTarget \/ PowerOn \/ PowerOff \/ PowerAnswered
             \/ Start \/ Resume \/ Stop \/ Import \/ ImportAnswered \/ ResetEmergencyStop
    BY <1>1, <2>2 DEF GivesAuthority, SelectControlTarget, PowerOn, PowerOff, PowerAnswered,
                     Start, Resume, Stop, Queues, Import, ImportAnswered, ResetEmergencyStop
  <2> QED BY <1>4, <2>1, <2>2 DEF Manager
<1>5. ASSUME NEW s \in Configured, PowerStep(s) PROVE GuiLatchKeepsSessionsOff'
  <2>1. UNCHANGED guiLatched /\ \A t \in Configured \ {s} : power'[t] = power[t]
    BY <1>5, PowerFrame
  <2>2. guiLatched => power'[s] \in {"Off", "Faulted"}
    BY <1>5 DEF PowerStep, BeginPowerOn, CompletePowerOn, FailPowerOn, BeginPowerOff,
                CompletePowerOff, CallInv
  <2> QED BY <2>1, <2>2
<1>6. ASSUME NEW s \in Configured, WorkStep(s) PROVE GuiLatchKeepsSessionsOff'
  BY <1>6, WorkFrame
<1>7. ASSUME NEW s \in Configured, Executor(s) PROVE GuiLatchKeepsSessionsOff'
  BY <1>1, <1>7, ExecutorType
<1> QED BY <1>2, <1>3, <1>4, <1>5, <1>6, <1>7 DEF Next

\* Every step leaves the session that has not the control without an operation.
LEMMA OnlyStep ==
    ASSUME IInv, Next
    PROVE  OnlyControlledSessionWorks'
<1> USE DEF IInv, OnlyControlledSessionWorks, Target
<1>1. CASE UNCHANGED <<authority, queued, at, workVars>>
  BY <1>1 DEF EpochActive
<1>2. CASE SelectControlTarget
  BY <1>2 DEF SelectControlTarget, Moves, MayTransfer, ControllerDataMutable,
              MotionOwnedOrQueued, EpochActive
<1>3. CASE ImportAnswered
  <2>1. CASE call.at = "done"
    <3>1. authority'.target = "Simulation"
      BY <1>3, <2>1 DEF ImportAnswered, Moves
    <3>2. UNCHANGED <<queued, at, workVars>> /\ Rests("Machine")
      BY <1>3 DEF ImportAnswered, CallInv
    <3> QED BY <3>1, <3>2, ConfiguredAssumption DEF Rests, EpochActive, Targets
  <2>2. CASE call.at # "done"
    BY <1>1, <1>3, <2>2 DEF ImportAnswered
  <2> QED BY <2>1, <2>2
<1>4. CASE Start \/ Resume \/ Stop
  BY <1>4 DEF Start, Resume, Stop, Queues, EpochActive, TypeOK
<1>5. CASE EmergencyStop
  BY <1>5 DEF EmergencyStop, EpochActive
<1>6. CASE ResetChecks \/ ResetAnswered
  <2>1. UNCHANGED <<authority, queued, at, workVars>>
    BY <1>6 DEF ResetChecks, ResetAnswered, ResetGoesOn, ResetFails, ResetAwaits
  <2> QED BY <1>1, <2>1
<1>7. CASE GivesAuthority \/ PowerOn \/ PowerOff \/ PowerAnswered \/ Import
           \/ ResetEmergencyStop \/ LatchSeen \/ AsksForReset \/ ResetGivesUp
  <2>1. UNCHANGED <<authority, queued, at, workVars>>
    BY <1>7 DEF GivesAuthority, PowerOn, PowerOff, PowerAnswered, Import, ResetEmergencyStop,
                LatchSeen, AsksForReset, ResetGivesUp, ResetFails, ResetAwaits
  <2> QED BY <1>1, <2>1
<1>8. ASSUME NEW s \in Configured, PowerStep(s) PROVE OnlyControlledSessionWorks'
  BY <1>1, <1>8, PowerFrame
<1>9. ASSUME NEW s \in Configured, WorkStep(s) PROVE OnlyControlledSessionWorks'
  <2>1. /\ UNCHANGED authority
        /\ \A t \in Configured : Rests(t) => Rests(t)'
    BY <1>9, WorkFrame
  <2> QED BY <2>1 DEF Rests
<1>10. ASSUME NEW s \in Configured, Executor(s) PROVE OnlyControlledSessionWorks'
  BY <1>1, <1>10, ExecutorType
<1> QED BY <1>2, <1>3, <1>4, <1>5, <1>6, <1>7, <1>8, <1>9, <1>10 DEF Next, Manager

\* The invariant holds at the start and every step keeps it.
LEMMA Inductive ==
    /\ Init => IInv
    /\ IInv /\ [Next]_vars => IInv'
<1>1. Init => IInv
  <2> SUFFICES ASSUME Init PROVE IInv
    OBVIOUS
  <2> USE ConfiguredAssumption DEF Init, Everywhere
  <2>1. TypeOK
    BY DEF TypeOK, NoCall, Calls, Targets, Steps, Authorities, PowerStates, Activities, Commands,
           Operations, Places, Answers
  <2>2. \A s \in Configured : HostInv(s)
    BY DEF HostInv, EpochActive, Operations
  <2>3. CallInv
    BY DEF CallInv, NoCall
  <2>4. AuthorityInv /\ GuiLatchKeepsSessionsOff /\ OnlyControlledSessionWorks
    BY <2>1 DEF AuthorityInv, GuiLatchKeepsSessionsOff, OnlyControlledSessionWorks, Target,
                EpochActive, TypeOK, Authorities
  <2> QED BY <2>1, <2>2, <2>3, <2>4 DEF IInv
<1>2. ASSUME IInv, [Next]_vars PROVE IInv'
  <2>1. CASE UNCHANGED vars
    BY <1>2, <2>1 DEF vars, IInv, TypeOK, HostInv, EpochActive, CallInv, Rests, Target,
                      AuthorityInv, GuiLatchKeepsSessionsOff, OnlyControlledSessionWorks
  <2>2. CASE Next
    <3>1. TypeOK'
      BY <1>2, <2>2, ManagerType, PowerStepType, WorkStepType, ExecutorType DEF Next, IInv
    <3>2. ASSUME NEW s \in Configured, Executor(s), NEW t \in Configured
          PROVE  HostInv(t)' /\ CallInv'
      BY <1>2, <3>2, ExecutorType DEF IInv, HostInv, EpochActive, CallInv, Rests, Target
    <3>3. \A t \in Configured : HostInv(t)'
      BY <1>2, <2>2, <3>2, ManagerKeepsHost, PowerStepKeepsHost, WorkStepKeepsHost DEF Next
    <3>4. CallInv'
      BY <1>2, <2>2, <3>2, ManagerKeepsCall, HostKeepsCall DEF Next
    <3>5. AuthorityInv' /\ GuiLatchKeepsSessionsOff' /\ OnlyControlledSessionWorks'
      BY <1>2, <2>2, AuthorityStep, GuiStep, OnlyStep
    <3> QED BY <3>1, <3>3, <3>4, <3>5 DEF IInv
  <2> QED BY <1>2, <2>1, <2>2
<1> QED BY <1>1, <1>2

\* The inductive invariant holds in every state that is reached.
THEOREM Invariance == Spec => []IInv
  BY Inductive, PTL DEF Spec

\* The state of the manager, of its sessions and of their executors is always well typed.
THEOREM TypeCorrect == Spec => []TypeOK
  BY Invariance, PTL DEF IInv

\* No session has power as long as the manager remembers the emergency stop of the GUI,
\* however many resets fail half way.
THEOREM GuiLatchIsKept == Spec => []GuiLatchKeepsSessionsOff
  BY Invariance, PTL DEF IInv

\* Only the session that has the control has an operation, for any number of transfers and
\* imports.
THEOREM ControlIsExclusive == Spec => []OnlyControlledSessionWorks
  BY Invariance, PTL DEF IInv

\* No step that is asked for by a stale authority begins anything.
LEMMA StaleStep ==
    ASSUME IInv, Next, moved
    PROVE  /\ call = NoCall => call'.name \notin {"PowerOn", "PowerOff", "Import"}
           /\ \A s \in Configured : queued[s] = "None" => queued'[s] = "None"
<1> USE DEF IInv
<1>1. ~Controls
  BY DEF AuthorityInv, Controls, TypeOK, Authorities
<1>2. CASE Manager
  <2>1. CASE UNCHANGED <<call, queued>>
    BY <2>1 DEF NoCall
  <2>2. CASE UNCHANGED queued /\ call # NoCall
    BY <2>2
  <2>3. CASE ResetEmergencyStop
    BY <2>3 DEF ResetEmergencyStop
  <2>4. CASE EmergencyStop
    BY <2>4 DEF EmergencyStop, NoCall
  <2>5. CASE GivesAuthority \/ SelectControlTarget \/ PowerAnswered \/ ImportAnswered
    BY <2>1, <2>2, <2>5 DEF GivesAuthority, SelectControlTarget, PowerAnswered, ImportAnswered,
                           NoCall
  <2>6. CASE ResetChecks \/ LatchSeen \/ AsksForReset \/ ResetAnswered \/ ResetGivesUp
    <3>1. call.name = "Reset"
      BY <2>6 DEF ResetChecks, LatchSeen, AsksForReset, ResetAnswered, ResetGivesUp, Waiting
    <3>2. UNCHANGED queued
      BY <2>6 DEF ResetChecks, LatchSeen, AsksForReset, ResetAnswered, ResetGivesUp
    <3> QED BY <2>2, <3>1, <3>2 DEF NoCall
  <2> QED BY <1>1, <1>2, <2>3, <2>4, <2>5, <2>6
          DEF Manager, PowerOn, PowerOff, Start, Resume, Stop, Import
<1>3. ASSUME NEW s \in Configured, PowerStep(s) PROVE call'.name = call.name /\ UNCHANGED queued
  BY <1>3, PowerFrame
<1>4. ASSUME NEW s \in Configured, WorkStep(s), NEW t \in Configured, queued[t] = "None"
      PROVE  queued'[t] = "None"
  BY <1>4 DEF WorkStep, HostFaults, DispatchNextOperation, Begin, Pause, TakesCommand,
              ProgramEnds, Joined, ServicedMotionEnds, ReadsPower, StoresActivity, Releases,
              MayTakeStop, TypeOK
<1>5. ASSUME NEW s \in Configured, WorkStep(s) PROVE UNCHANGED call
  BY <1>5, WorkFrame
<1>6. ASSUME NEW s \in Configured, Executor(s) PROVE UNCHANGED <<call, queued>>
  BY <1>6, ExecutorType
<1> QED BY <1>2, <1>3, <1>4, <1>5, <1>6 DEF Next, NoCall

\* However the control moves, a request of one who had it before acts on no session.
THEOREM StaleRequestsAreRefused == Spec => StaleRequestsActOnNothing
<1>1. IInv /\ [Next]_vars
      => [moved => /\ (call = NoCall => call'.name \notin {"PowerOn", "PowerOff", "Import"})
                   /\ \A s \in Configured : queued[s] = "None" => queued'[s] = "None"]_vars
  BY StaleStep
<1> QED BY <1>1, Invariance, PTL DEF Spec, StaleRequestsActOnNothing

-----------------------------------------------------------------------------
(* Each session lives as SessionLife says.                                 *)

Working(t) == running[t] \/ EpochActive(t)

\* What any step does to a session, in the terms of SessionLife.
LifeStep(t) ==
    \/ power'[t] = power[t] /\ Working(t)' = Working(t)
    \/ power[t] = "Off" /\ ~Working(t) /\ power'[t] = "Starting" /\ ~Working(t)'
    \/ power[t] = "Starting" /\ power'[t] = "On" /\ Working(t)' = Working(t)
    \/ power[t] = "On" /\ ~Working(t) /\ power'[t] = "Stopping" /\ ~Working(t)'
    \/ power[t] = "Stopping" /\ power'[t] = "Off" /\ Working(t)' = Working(t)
    \/ power[t] # "Off" /\ power'[t] = "Faulted" /\ Working(t)' = Working(t)
    \/ power[t] = "Faulted" /\ ~Working(t) /\ power'[t] = "Off" /\ ~Working(t)'
    \/ power[t] = "On" /\ ~Working(t) /\ Working(t)' /\ power'[t] = power[t]
    \/ Working(t) /\ ~Working(t)' /\ power'[t] = power[t]

\* Every step of the whole is one of SessionLife for each session, or none.
LEMMA SessionStep ==
    ASSUME IInv, [Next]_vars, NEW t \in Configured
    PROVE  LifeStep(t)
<1> USE DEF IInv, LifeStep, Working, EpochActive
<1>1. CASE UNCHANGED <<power, at, workVars>>
  BY <1>1
<1>2. CASE UNCHANGED vars
  BY <1>1, <1>2 DEF vars
<1>3. CASE EmergencyStop
  BY <1>3 DEF EmergencyStop, StopsAll, TypeOK
<1>4. CASE ResetAnswered
  <2>1. CASE reset[call.session] = "Cleared"
    <3>1. /\ power' = [power EXCEPT ![call.session] = "Off"]
          /\ UNCHANGED <<at, workVars>>
      BY <1>4, <2>1 DEF ResetAnswered
    <3>2. power[call.session] = "Faulted" /\ MayReset(call.session)
      BY <1>4 DEF ResetAnswered, Waiting, CallInv, MayReset
    <3> QED BY <3>1, <3>2 DEF TypeOK, MayReset
  <2>2. CASE reset[call.session] # "Cleared"
    BY <1>1, <1>4, <2>2 DEF ResetAnswered
  <2> QED BY <2>1, <2>2
<1>5. CASE Manager /\ ~EmergencyStop /\ ~ResetAnswered
  BY <1>1, <1>5 DEF Manager, GivesAuthority, SelectControlTarget, PowerOn, PowerOff,
       PowerAnswered, Start, Resume, Stop, Queues, Import, ImportAnswered, ResetEmergencyStop,
       ResetChecks, LatchSeen, AsksForReset, ResetGivesUp
<1>6. ASSUME NEW s \in Configured, PowerStep(s) PROVE LifeStep(t)
  <2>1. /\ UNCHANGED <<at, workVars>> /\ at[s] = "idle" /\ ~running[s]
        /\ s # t => power'[t] = power[t]
    BY <1>6, PowerFrame
  <2>2. CASE BeginPowerOn(s) \/ CompletePowerOn(s) \/ FailPowerOn(s)
    <3>1. \/ power[s] = "Off" /\ power'[s] = "Starting"
          \/ power[s] = "Starting" /\ power'[s] \in {"On", "Faulted"}
      BY <2>2 DEF BeginPowerOn, CompletePowerOn, FailPowerOn, Fault, TypeOK, CallInv
    <3> QED BY <2>1, <3>1
  <2>3. CASE BeginPowerOff(s) \/ CompletePowerOff(s)
    <3>1. \/ UNCHANGED power
          \/ power[s] = "On" /\ power'[s] = "Stopping"
          \/ power[s] = "Stopping" /\ power'[s] \in {"Off", "Faulted"}
      BY <2>3 DEF BeginPowerOff, CompletePowerOff, Fault, TypeOK
    <3> QED BY <2>1, <3>1
  <2> QED BY <1>6, <2>2, <2>3 DEF PowerStep
<1>7. ASSUME NEW s \in Configured, WorkStep(s) PROVE LifeStep(t)
  <2> USE DEF OfHost
  <2>1. CASE HostFaults(s)
    BY <2>1 DEF HostFaults, Fault, TypeOK
  <2>2. CASE DispatchNextOperation(s)
    <3>1. UNCHANGED power /\ at[s] = "idle"
      BY <2>2 DEF DispatchNextOperation
    <3>2. CASE queued[s] \in Operations
      <4>1. /\ running' = [running EXCEPT ![s] = TRUE] /\ at' = [at EXCEPT ![s] = "beginning"]
            /\ \A u \in Configured \ {s} : serviced'[u] = serviced[u]
        BY <2>2, <3>2 DEF DispatchNextOperation, TypeOK, Operations
      <4> QED BY <3>1, <3>2, <4>1 DEF TypeOK, HostInv
    <3>3. CASE queued[s] \notin Operations
      BY <1>1, <2>2, <3>1, <3>3 DEF DispatchNextOperation
    <3> QED BY <3>2, <3>3
  <2>3. CASE Begin(s) \/ Pause(s) \/ TakesCommand(s) \/ Joined(s) \/ ReadsPower(s)
             \/ StoresActivity(s)
    BY <2>3 DEF Begin, Pause, TakesCommand, Joined, ReadsPower, StoresActivity, Goes, TypeOK,
                HostInv
  <2>4. CASE ProgramEnds(s)
    <3>1. /\ UNCHANGED <<power, serviced>> /\ at[s] = "program"
          /\ at' = [at EXCEPT ![s] = "joining"]
          /\ \A u \in Configured \ {s} : running'[u] = running[u]
      BY <2>4 DEF ProgramEnds, TypeOK
    <3> QED BY <3>1 DEF TypeOK, HostInv
  <2>5. CASE ServicedMotionEnds(s)
    <3>1. /\ UNCHANGED workVars /\ at[s] = "serviced" /\ at' = [at EXCEPT ![s] = "finishing"]
          /\ Fault(s) \/ UNCHANGED powerVars
      BY <2>5 DEF ServicedMotionEnds
    <3> QED BY <3>1 DEF Fault, TypeOK, HostInv
  <2>6. CASE Releases(s)
    BY <2>6 DEF Releases, TypeOK, HostInv
  <2> QED BY <1>7, <2>1, <2>2, <2>3, <2>4, <2>5, <2>6 DEF WorkStep
<1>8. ASSUME NEW s \in Configured, Executor(s) PROVE LifeStep(t)
  BY <1>1, <1>8, ExecutorType
<1> QED BY <1>2, <1>3, <1>4, <1>5, <1>6, <1>7, <1>8 DEF Next

\* For any number of requests, transfers and disasters, and with or without a Machine, each
\* session works only when powered and is not powered again before its fault is reset.
THEOREM SessionsLive == Spec => SessionsLiveAsPromised
<1> USE DEF PowerOf, Works
<1>1. Init => SimulationLife!Init /\ MachineLife!Init
  BY DEF Init, Everywhere, SimulationLife!Init, MachineLife!Init, EpochActive
<1>2. ASSUME IInv, [Next]_vars
      PROVE  [SimulationLife!Next]_SimulationLife!vars
  <2>1. "Simulation" \in Configured
    BY ConfiguredAssumption
  <2>2. LifeStep("Simulation")
    BY <1>2, <2>1, SessionStep
  <2> QED BY <2>1, <2>2 DEF LifeStep, Working, SimulationLife!Next, SimulationLife!vars,
       SimulationLife!PowersOn, SimulationLife!PowersOff, SimulationLife!Faults,
       SimulationLife!Resets, SimulationLife!Begins, SimulationLife!Ends
<1>3. ASSUME IInv, [Next]_vars
      PROVE  [MachineLife!Next]_MachineLife!vars
  <2>1. CASE "Machine" \in Configured
    <3>1. LifeStep("Machine")
      BY <1>3, <2>1, SessionStep
    <3> QED BY <2>1, <3>1 DEF LifeStep, Working, MachineLife!Next, MachineLife!vars,
         MachineLife!PowersOn, MachineLife!PowersOff, MachineLife!Faults, MachineLife!Resets,
         MachineLife!Begins, MachineLife!Ends
  <2>2. CASE "Machine" \notin Configured
    BY <2>2 DEF MachineLife!vars
  <2> QED BY <2>1, <2>2
<1> QED BY <1>1, <1>2, <1>3, Invariance, PTL
        DEF Spec, SessionsLiveAsPromised, SimulationLife!Spec, MachineLife!Spec
=============================================================================
