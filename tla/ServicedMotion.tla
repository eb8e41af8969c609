--------------------------- MODULE ServicedMotion ---------------------------
(***************************************************************************)
(* Homing and jogging, which the host thread services itself:              *)
(* HomingController and JoggingController over a ServicedMotionOperation.  *)
(* They publish and submit one thing at a time, and service the executor   *)
(* until the event they wait for has come.  A result that leaves the       *)
(* executor possibly in motion is cleaned up: it is stopped, and the       *)
(* operation waits until it stands.                                        *)
(*                                                                         *)
(* The limit of 10,000,000 iterations of a service loop is left out.       *)
(***************************************************************************)
EXTENDS SessionState

\* The moves of a group: fast search, backoff, release check, slow search, and
\* the move to the home position, each with its trigger scheme.
HomingMoves == <<"Search", "Backoff", "ReleaseCheck", "Search", "Backoff">>
Backoff == 2
SlowSearch == 4
MustReach == {Backoff, 5}

Terminal(snapshot) == snapshot.state \in {"Faulted", "Disabled"}

\* motionMayBeActive
MayMove(m) == [m EXCEPT !.mayMove = TRUE]

\* finish: what may still move is stopped first.
Finish(m, result) ==
    [m EXCEPT !.result = result, !.at = IF m.mayMove THEN "stopping" ELSE "over"]

\* drainSnapshots
Drain(m) ==
    LET drained == [m EXCEPT !.seen = Polled(@)]
    IN  IF fresh /\ Terminal(Snapshot) THEN [drained EXCEPT !.mayMove = FALSE] ELSE drained

ObserveTerminal(m, state) == [m EXCEPT !.seen.state = state, !.mayMove = FALSE]

\* Mutant: a stationary executor is taken for a stopped one.
StationaryWhenHeld(m) == Terminal(m.seen) \/ (m.seen.state = "Held" /\ ~m.seen.moving)

\* Mutant: the snapshot of the stop itself is not new enough.
StationaryLater(m) ==
    \/ Terminal(m.seen)
    \/ /\ m.seen.state = "Held" /\ ~m.seen.moving
       /\ m.seen.generation > m.stopGeneration
       /\ m.seen.mode = "Stop" /\ m.seen.accepted

\* stationaryAfterStop: a snapshot from before the stop was accepted shows nothing.
StationaryAfterStop(m) ==
    \/ Terminal(m.seen)
    \/ /\ m.seen.state = "Held" /\ ~m.seen.moving
       /\ m.seen.generation >= m.stopGeneration
       /\ m.seen.mode = "Stop" /\ m.seen.accepted

\* An operation that has seen Faulted faults the session, once.
Faulting(m) == m.seen.state = "Faulted" /\ ~m.reported

MotionBecomes(m) ==
    /\ motion' = [m EXCEPT !.reported = @ \/ m.seen.state = "Faulted"]
    /\ IF Faulting(m) THEN power' = "Faulted" /\ activity' = "Faulted"
       ELSE UNCHANGED <<power, activity>>

SameElsewhere == UNCHANGED <<observed, programVars, producerVars, homed, jogOwned, pending,
                             shownVars, given>>

-----------------------------------------------------------------------------
(* Calls that hand something to the executor.                              *)

\* ServicedMotionOperation::begin, unless an emergency stop took the activity.
BeginMotion ==
    /\ host = "motion" /\ motion.at = "begin"
    /\ IF activity # motion.kind
       THEN /\ motion' = [motion EXCEPT !.at = "refused", !.result = "Error"]
            /\ UNCHANGED <<events, fresh, demanded, nextEpoch>>
       ELSE /\ motion' = [(IF Linked THEN motion ELSE Finish(motion, "Error")) EXCEPT
                             !.epoch = nextEpoch, !.at = IF Linked THEN "set positions" ELSE @]
            /\ events' = <<>> /\ fresh' = FALSE
            /\ Request(IF motion.kind = "Homing" THEN "Idle" ELSE "Jog", nextEpoch)
            /\ nextEpoch' = nextEpoch + 1
    /\ UNCHANGED <<core, link, requested, latched, ingress, power, activity, commands,
                   host>>
    /\ SameElsewhere

\* submit and publish: what a lost executor refuses ends the operation.
Hands(record, next) ==
    /\ host = "motion"
    /\ MotionBecomes(IF Linked THEN next ELSE Finish(motion, "Error"))
    /\ ingress' = IF Linked THEN Append(ingress, record) ELSE ingress

NextRequest(type) ==
    [id |-> motion.request + 1, type |-> type, jog |-> motion.epoch,
     kind |-> motion.jog]

\* setJointPositions; in homing its answer is waited for after the slow search too.
SetsPositions ==
    /\ motion.at = "set positions"
    /\ Hands(NextRequest("SetJointPosition"),
             [Drain(motion) EXCEPT !.request = @ + 1, !.at = "positions"])
    /\ fresh' = FALSE
    /\ UNCHANGED <<core, link, requested, latched, events, demanded, commands,
                   nextEpoch, host>>
    /\ SameElsewhere

\* requestDemand(Run), after which the executor may move.
RunsHoming ==
    /\ host = "motion" /\ motion.at = "run"
    /\ MotionBecomes(IF Linked THEN [MayMove(Drain(motion)) EXCEPT !.at = "publish"]
                     ELSE Finish(motion, "Error"))
    /\ fresh' = FALSE
    /\ Request("Run", motion.epoch)
    /\ UNCHANGED <<core, link, requested, latched, ingress, events, commands,
                   nextEpoch, host>>
    /\ SameElsewhere

\* executeMove up to its service loop.  The moves continue one another.
PublishesMove ==
    /\ motion.at = "publish"
    /\ LET move == motion.move + 1
           item == [id |-> move, epoch |-> motion.epoch, kind |-> "Joint",
                    predecessor |-> move - 1, policy |-> HomingMoves[move]]
       IN  Hands(PlanRecord(item), [MayMove(Drain(motion)) EXCEPT !.move = move, !.at = "moving"])
    /\ events' = <<>> /\ fresh' = FALSE
    /\ UNCHANGED <<core, link, requested, latched, demanded, commands, nextEpoch,
                   host>>
    /\ SameElsewhere

StartsJog ==
    /\ motion.at = "start"
    /\ Hands(NextRequest("StartJog"),
             [MayMove(Drain(motion)) EXCEPT !.request = @ + 1, !.at = "jogging"])
    /\ fresh' = FALSE
    /\ UNCHANGED <<core, link, requested, latched, events, demanded, commands,
                   nextEpoch, host>>
    /\ SameElsewhere

-----------------------------------------------------------------------------
(* serviceUntil: the operator's commands, the snapshots, and the events up *)
(* to the one that is waited for.  The executor may be between two events  *)
(* of one tick, so those read may be any first part.                       *)

\* The events of a type with an id.
EventsOf(type, id) == {i \in DOMAIN events : events[i].type = type /\ events[i].id = id}

\* m is motion after its commands; next is what follows each event that is waited for.
Observe(m, next) ==
    \E n \in Readable :
        LET drained == Drain(m)
            ends == {i \in 1..n : i \in DOMAIN next \/ events[i].type = "BackendFault"}
            last == Min(ends)
        IN  IF m.at \in {"stopping", "over"}
            THEN MotionBecomes(m) /\ UNCHANGED <<events, fresh>>
            ELSE IF Terminal(drained.seen)
            THEN MotionBecomes(Finish(drained, "Error")) /\ UNCHANGED events /\ fresh' = FALSE
            ELSE IF ends = {}
            THEN /\ MotionBecomes(drained) /\ fresh' = FALSE
                 /\ events' = SubSeq(events, n + 1, Len(events))
            ELSE /\ MotionBecomes(IF last \in DOMAIN next THEN next[last]
                                  ELSE Finish(ObserveTerminal(drained, "Faulted"), "Error"))
                 /\ fresh' = FALSE
                 /\ events' = SubSeq(events, last + 1, Len(events))

AwaitsPositions ==
    /\ host = "motion" /\ motion.at = "positions"
    /\ LET drained == Drain(motion)
           goesOn == [drained EXCEPT !.at = IF motion.kind = "Jogging" THEN "start"
                                            ELSE IF motion.move = 0 THEN "run" ELSE "publish"]
       IN  Observe(motion, [i \in EventsOf("RequestCompleted", motion.request) |->
                                IF events[i].info THEN goesOn ELSE Finish(drained, "Error")])
    /\ UNCHANGED <<core, link, requested, latched, ingress, demanded, commands,
                   nextEpoch, host>>
    /\ SameElsewhere

\* A stop of the operator is demanded once.
Stopping(m) == m.stop \/ "Stop" \in Range(commands)

\* After a move: it was aborted, it missed its target or did not clear the switch, or
\* the next one is made.
AfterMove(m, status, clears) ==
    LET done == ObserveTerminal(m, "Held")
    IN  CASE status = "Aborted" -> Finish(done, "Stopped")
          [] status # "Aborted" /\ m.move \in MustReach /\ (status # "ReachedTarget" \/ ~clears) ->
                Finish(done, "Error")
          [] OTHER ->
                IF m.move = Len(HomingMoves) THEN Finish(done, "Completed")
                ELSE [done EXCEPT !.at = IF m.move = SlowSearch THEN "set positions"
                                         ELSE "publish"]

AwaitsMove == \E clears \in IF motion.move = Backoff THEN BOOLEAN ELSE {TRUE} :
    /\ host = "motion" /\ motion.at = "moving"
    /\ commands' = <<>>
    /\ LET sends == Stopping(motion) /\ ~motion.stopSent
           told == [motion EXCEPT !.stop = Stopping(motion), !.stopSent = @ \/ sends]
           m == IF sends /\ ~Linked THEN Finish(told, "Error") ELSE told
       IN  /\ IF sends THEN Request("Stop", motion.epoch) ELSE UNCHANGED demanded
           /\ Observe(m, [i \in EventsOf("TriggeredMoveCompleted", motion.move) |->
                              AfterMove(Drain(m), events[i].info, clears)])
    /\ UNCHANGED <<core, link, requested, latched, ingress, nextEpoch, host>>
    /\ SameElsewhere

\* The controls of a jog are forwarded in the order they were given; the stop of the
\* session becomes one StopJog after them.
JogControls == [RenewJog |-> "RenewJogLease", SetJogVelocity |-> "SetContinuousJogVelocity",
                StopJog |-> "StopJog"]

\* trySubmit: the executor takes what its control capacity has room for.
Room == IF Linked THEN ControlCapacity - (Len(ingress) - Len(PlansIn(ingress))) ELSE 0

\* A control that is refused ends the jog, and those behind it go with it.
AwaitsJog ==
    /\ host = "motion" /\ motion.at = "jogging"
    /\ commands' = <<>>
    /\ LET controls == SelectSeq(commands, LAMBDA command : command \in DOMAIN JogControls)
           sends == Stopping(motion) /\ ~motion.stopSent
           request(type) == [id |-> 0, type |-> type, jog |-> motion.epoch, kind |-> motion.jog]
           forwarded == [i \in DOMAIN controls |-> request(JogControls[controls[i]])]
           all == IF sends THEN Append(forwarded, request("StopJog")) ELSE forwarded
           taken == SubSeq(all, 1, Min({Len(all), Room}))
           told == [motion EXCEPT !.stop = Stopping(motion), !.stopSent = @ \/ sends]
           m == IF taken # all THEN Finish(told, "Error") ELSE told
           refusals == {i \in EventsOf("RequestCompleted", motion.request) : ~events[i].info}
           stopped(reason) ==
                Finish(ObserveTerminal(Drain(m), CASE reason = "Fault" -> "Faulted"
                                                   [] reason = "Disabled" -> "Disabled"
                                                   [] OTHER -> "Held"),
                       IF reason = "Fault" THEN "Error"
                       ELSE IF m.stopSent THEN "Stopped" ELSE "Completed")
       IN  /\ ingress' = ingress \o taken
           /\ Observe(m, [i \in refusals \union EventsOf("JogStopped", motion.epoch) |->
                              IF i \in refusals THEN Finish(Drain(m), "Error")
                              ELSE stopped(events[i].info)])
    /\ UNCHANGED <<core, link, requested, latched, demanded, nextEpoch, host>>
    /\ SameElsewhere

-----------------------------------------------------------------------------
(* stopAndQuiesce                                                          *)

\* An executor that cannot be told to stop is stopped with its process.
DemandsCleanup ==
    /\ host = "motion" /\ motion.at = "stopping"
    /\ IF Linked
       THEN /\ motion' = [motion EXCEPT !.at = "quiescing",
                                        !.stopGeneration = demanded.generation + 1]
            /\ UNCHANGED <<core, link, requested, latched, ingress, fresh, events,
                           power, activity>>
       ELSE /\ StopRuntime
            /\ motion' = [motion EXCEPT !.at = "over", !.result = "Error", !.mayMove = FALSE,
                                        !.reported = TRUE]
            /\ IF motion.reported THEN UNCHANGED <<power, activity>>
               ELSE power' = "Faulted" /\ activity' = "Faulted"
    /\ Request("Stop", motion.epoch)
    /\ UNCHANGED <<commands, nextEpoch, host>>
    /\ SameElsewhere

Quiesces ==
    /\ host = "motion" /\ motion.at = "quiescing"
    /\ \E n \in Readable :
          LET drained == Drain(motion)
              faults == {i \in 1..n : events[i].type = "BackendFault"}
              over(m) == [m EXCEPT !.at = "over", !.mayMove = FALSE]
          IN  IF StationaryAfterStop(drained)
              THEN MotionBecomes(over(drained)) /\ UNCHANGED events
              ELSE /\ MotionBecomes(IF faults = {} THEN drained
                                    ELSE over(ObserveTerminal(drained, "Faulted")))
                   /\ events' = SubSeq(events, (IF faults = {} THEN n ELSE Min(faults)) + 1,
                                       Len(events))
    /\ fresh' = FALSE
    /\ UNCHANGED <<core, link, requested, latched, ingress, demanded, commands,
                   nextEpoch, host>>
    /\ SameElsewhere

ServicesMotion ==
    \/ BeginMotion \/ SetsPositions \/ RunsHoming \/ PublishesMove \/ StartsJog
    \/ AwaitsPositions \/ AwaitsMove \/ AwaitsJog \/ DemandsCleanup \/ Quiesces
=============================================================================
