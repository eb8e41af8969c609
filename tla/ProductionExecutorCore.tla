----------------------- MODULE ProductionExecutorCore -----------------------
(***************************************************************************)
(* The servo-side state of src/ProductionExecutorCore.cpp and one operator *)
(* per member function that changes it.  An operator takes the executor's  *)
(* record c and returns the record the function leaves behind; the module  *)
(* ExecutorSession turns these operators into the steps of a servo tick    *)
(* and composes them with the threads around the executor.                 *)
(*                                                                         *)
(* Trajectories, positions and velocities are abstract: what a numeric     *)
(* test decides in one step is a field of the outcome o of that step       *)
(*   trouble  the check that fails: a trajectory cannot be generated, a    *)
(*            commanded position leaves its limits, a chunk does not start *)
(*            where the machine is, the retiming interval is empty         *)
(*   done     the current span, stop or move ends within the period        *)
(*   moves    the commanded velocity or acceleration is not zero           *)
(*   reached  the marker of the current span is reached                    *)
(*   settled  the feed rate reaches 0 (hold) or 1 (resume)                 *)
(*   hits     the joints (any, for a probe) whose trigger input is met     *)
(*   ends     the joints that reach the end of their trajectory            *)
(* A function that emits events appends them to c.out, in order.           *)
(***************************************************************************)
EXTENDS Integers, Sequences, FiniteSets, SequencesExt

CONSTANTS
    Spans,              \* normal-motion spans of a chunk; its stop tail has one
    Joints,             \* joints of a homing group
    LeaseTicks,         \* lease of a continuous jog, in servo ticks
    FeedHoldConfigured  \* feedHold limits are configured

ASSUME CoreAssumption ==
    /\ Spans \in Nat \ {0}
    /\ LeaseTicks \in Nat \ {0}
    /\ FeedHoldConfigured \in BOOLEAN
    /\ IsFiniteSet(Joints)

States == {"Disabled", "Held", "Running", "Holding", "Faulted"}
Modes == {"Disabled", "Idle", "Run", "FeedHold", "Stop", "Jog"}
Executing(c) == c.state \in {"Running", "Holding"}

NoDemand == [generation |-> 0, mode |-> "Disabled", epoch |-> 0]
NoJog == [id |-> 0, kind |-> "Incremental", lease |-> 0,
          stopping |-> FALSE, reason |-> "TargetReached"]

(***************************************************************************)
(* An execution item.  The branch of an item is named by the item's id, so *)
(* predecessor is the id of the item it continues, or 0.  policy is the    *)
(* stop-tail policy of a chunk and the trigger scheme of a homing move.    *)
(***************************************************************************)
ItemKinds == {"Chunk", "Triggered", "Joint"}
Policies == {"StopAllowed", "ContinuationRequired", "Search", "Backoff", "ReleaseCheck"}
NoItem == [id |-> 0, epoch |-> 0, kind |-> "Chunk", predecessor |-> 0,
           policy |-> "StopAllowed"]
TriggerJoints(item) == IF item.policy = "Backoff" THEN {} ELSE Joints

InitialCore ==
    [state |-> "Disabled", epoch |-> 0, fault |-> "None",
     demand |-> NoDemand, accepted |-> TRUE,
     active |-> NoItem, plans |-> <<>>,
     stopping |-> FALSE, tailFault |-> "None",
     span |-> 0, marker |-> 0, event |-> 0,
     planStop |-> "None", feed |-> "None",
     triggered |-> "Approach",
     joints |-> [j \in Joints |-> "Approach"], touched |-> {},
     aborted |-> FALSE,
     jog |-> NoJog, stoppedEpoch |-> 0, moving |-> FALSE,
     safeOutputs |-> TRUE, spindle |-> "Safe",
     faultReported |-> FALSE, out |-> <<>>]

Active(c) == c.active # NoItem
Jogging(c) == c.jog # NoJog
Retiming(c) == c.feed \in {"Holding", "Resuming"}

-----------------------------------------------------------------------------
(* Events and faults.  The event ring is taken to be large enough.         *)

Emit(c, event) == [c EXCEPT !.out = Append(@, event)]

Event(type, id, info) == [type |-> type, id |-> id, info |-> info]

BackendHeld(c, epoch, reason) == Emit(c, Event("BackendHeld", epoch, reason))

\* resetFeedRetiming: full rate, not holding, held or resuming.
ResetFeedRetiming(c) == [c EXCEPT !.feed = "None"]

\* fault: the active item, the queue and a jog are left as they are.
Fault(c, code) ==
    LET faulted == [c EXCEPT !.state = "Faulted", !.fault = code,
                             !.safeOutputs = TRUE, !.spindle = "Safe",
                             !.faultReported = TRUE]
    IN  IF c.faultReported THEN faulted
        ELSE Emit(faulted, Event("BackendFault", 0, code))

\* The cursors and the runtimes of triggered moves, as no item has touched them.
FreshRuntimes(c) ==
    [c EXCEPT !.stopping = FALSE, !.span = 0, !.event = 0, !.marker = 0,
              !.triggered = "Approach",
              !.joints = [j \in Joints |-> "Approach"], !.touched = {},
              !.aborted = FALSE, !.tailFault = "None"]

\* discardExecution: active item and queue are released without an event.
DiscardExecution(c) ==
    [ResetFeedRetiming(FreshRuntimes(c)) EXCEPT
        !.active = NoItem, !.plans = <<>>, !.planStop = "None"]

JogStopped(c, reason) == Emit(c, Event("JogStopped", c.jog.id, reason))

JogFaulted(c) == [JogStopped(c, "Fault") EXCEPT !.jog = NoJog]

FaultSoftLimit(c) ==
    LET stopped == IF Jogging(c) THEN JogFaulted(c) ELSE c
    IN  Fault(DiscardExecution(stopped), "SoftLimit")

\* commitMotionState: a state outside the limits is not commanded at all.
Commit(c, o, moving) ==
    IF o.trouble = "Limit" THEN FaultSoftLimit(c)
    ELSE [c EXCEPT !.moving = moving]

-----------------------------------------------------------------------------
(* Jogging.                                                                *)

CompleteJog(c) ==
    [JogStopped(c, c.jog.reason) EXCEPT !.state = "Held", !.jog = NoJog]

AbandonJog(c, o, reason) ==
    LET stopped == Commit([c EXCEPT !.jog.reason = reason], o, FALSE)
    IN  IF ~Jogging(c) THEN c
        ELSE IF Jogging(stopped) THEN CompleteJog(stopped) ELSE stopped

FaultJog(c) ==
    Fault(JogFaulted(c), "JogGeneration")

\* Mutant: a moving jog is complete at once too.
BeginJogStopWithoutBraking(c, o, reason) ==
    IF ~Jogging(c) \/ c.jog.stopping THEN c
    ELSE CompleteJog([c EXCEPT !.jog.reason = reason])

\* beginJogStop: a standing jog is complete at once.
BeginJogStop(c, o, reason) ==
    LET stopping == [c EXCEPT !.jog.stopping = TRUE, !.jog.reason = reason]
        standing == Commit(stopping, o, FALSE)
    IN  IF ~Jogging(c) \/ c.jog.stopping THEN c
        ELSE IF ~c.moving
             THEN IF Jogging(standing) THEN CompleteJog(standing) ELSE standing
        ELSE IF o.trouble = "Generation" THEN FaultJog(stopping)
        ELSE stopping

InitializeJog(c, o, request) ==
    IF c.state # "Held" \/ Active(c) \/ Jogging(c) \/ o.trouble = "Generation"
    THEN c
    ELSE [c EXCEPT !.state = "Running",
                   !.jog = [id |-> request.id, kind |-> request.kind,
                            lease |-> IF request.kind = "Incremental"
                                      THEN 0 ELSE LeaseTicks,
                            stopping |-> FALSE, reason |-> "TargetReached"]]

JogControllable(c, jog) ==
    /\ Jogging(c) /\ c.jog.id = jog
    /\ c.jog.kind # "Incremental" /\ ~c.jog.stopping

\* Mutant: the expired lease stops nothing.
LeaseOnlyCounted(c, o) ==
    IF c.jog.lease = 0 THEN c ELSE [c EXCEPT !.jog.lease = @ - 1]

\* The lease is counted down before the jog moves, so the tick that expires
\* it already brakes.
LeaseChecked(c, o) ==
    IF c.jog.kind = "Incremental" \/ c.jog.stopping \/ c.jog.lease = 0 THEN c
    ELSE LET ticked == [c EXCEPT !.jog.lease = @ - 1]
         IN  IF ticked.jog.lease > 0 THEN ticked
             ELSE BeginJogStop(ticked, o, "LeaseExpired")

\* advanceJog: an unbounded continuous jog cruises after its ramp, the others
\* end at their target or at the travel limit.
AdvanceJog(c, o) ==
    LET leased == LeaseChecked(c, o)
        ends == o.done /\ (leased.jog.stopping \/ leased.jog.kind # "Continuous")
        moved == Commit(leased, o, ~ends)
        reason == IF moved.jog.stopping THEN moved.jog.reason
                  ELSE IF moved.jog.kind = "Bounded" THEN "LimitReached"
                  ELSE "TargetReached"
    IN  IF ~Jogging(leased) THEN leased
        ELSE IF ~Jogging(moved) \/ ~ends THEN moved
        ELSE CompleteJog([moved EXCEPT !.jog.reason = reason])

-----------------------------------------------------------------------------
(* Spindle events and execution markers of the active chunk.  Span n       *)
(* carries spindle event n, applied when the span begins, and marker n.    *)

ApplyScheduledEventsForCurrentSpan(c) ==
    IF c.stopping \/ c.event > c.span THEN c
    ELSE IF c.event < c.span THEN Fault(c, "InvalidExecutionState")
    ELSE Emit([c EXCEPT !.spindle = "Commanded", !.event = @ + 1],
              Event("SpindleApplied", c.active.id, c.event))

EmitExecutionMarkersThrough(c, reached) ==
    IF c.stopping \/ c.marker > c.span THEN c
    ELSE IF c.marker < c.span THEN Fault(c, "InvalidExecutionState")
    ELSE IF ~reached THEN c
    ELSE Emit([c EXCEPT !.marker = @ + 1],
              Event("ExecutionMarkerReached", c.active.id, c.marker))

BeginSpan(c, o) ==
    LET applied == ApplyScheduledEventsForCurrentSpan(c)
    IN  IF applied.state = "Faulted" THEN applied
        ELSE EmitExecutionMarkersThrough(applied, o.reached)

-----------------------------------------------------------------------------
(* Activation: ChunkAccepted, then the preparation of the item's kind.     *)

InitializeTriggered(c, o) ==
    IF o.trouble = "Generation" THEN Fault(c, "InvalidExecutionState")
    ELSE [c EXCEPT !.triggered = "Approach"]

\* A joint that is already at its target has nothing to do.
InitializeTriggeredJoints(c, o) ==
    IF o.trouble = "Generation" THEN Fault(c, "InvalidExecutionState")
    ELSE [c EXCEPT !.touched = {}, !.aborted = FALSE,
                   !.joints = [j \in Joints |->
                       IF j \in o.ends THEN "Finished" ELSE "Approach"]]

Accept(c, o, item) ==
    LET accepted == Emit([c EXCEPT !.active = item, !.stopping = FALSE,
                                   !.span = 0, !.event = 0, !.marker = 0],
                         Event("ChunkAccepted", item.id, item.epoch))
    IN  CASE item.kind = "Chunk" -> BeginSpan(accepted, o)
          [] item.kind = "Triggered" -> InitializeTriggered(accepted, o)
          [] item.kind = "Joint" -> InitializeTriggeredJoints(accepted, o)

Reject(c, item) == Emit(c, Event("ChunkRejected", item.id, item.epoch))
Retire(c, item) == Emit(c, Event("ChunkRetired", item.id, item.epoch))

ActivateNext(c, o) ==
    LET item == Head(c.plans)
        popped == [c EXCEPT !.plans = Tail(@)]
    IN  IF c.plans = <<>> THEN c
        ELSE IF item.epoch # c.epoch THEN Reject(popped, item)
        ELSE IF item.kind = "Chunk" /\ o.trouble = "Join"
        THEN Fault(Reject(popped, item), "PlanStartDiscontinuity")
        ELSE Accept(FreshRuntimes(popped), o, item)

-----------------------------------------------------------------------------
(* Planned motion, its branch and its feed hold.                           *)

FinishFeedHold(c) ==
    BackendHeld([c EXCEPT !.feed = "Held", !.state = "Held", !.moving = FALSE],
                c.epoch, "FeedHold")

SelectContinuationOrStop(c, o) ==
    LET current == c.active
        next == Head(c.plans)
        popped == [c EXCEPT !.plans = Tail(@)]
        continues == /\ next.epoch = current.epoch
                     /\ next.predecessor = current.id
                     /\ ~(next.kind = "Chunk" /\ o.trouble = "Join")
        selected(choice) == Event("BranchSelected", current.id, choice)
        ending ==
            IF c.plans # <<>>
            THEN [Reject(popped, next) EXCEPT !.tailFault = "Discontinuity"]
            ELSE IF current.policy = "ContinuationRequired"
            THEN [c EXCEPT !.tailFault = "Underrun"] ELSE c
    IN  IF c.plans # <<>> /\ continues
        THEN Accept(Retire(Emit(popped, selected("Continue")), current), o, next)
        ELSE IF Retiming(ending)
        THEN Fault(DiscardExecution(ending), "FeedRetimingStopBranch")
        ELSE [Emit(ending, selected("Stop")) EXCEPT !.stopping = TRUE, !.span = 0]

\* Mutant: one span too many.
MoreSpansOffByOne(c) == c.span <= Spans

MoreSpans(c) == c.span < Spans

\* completeSpan: the end of the stop tail leaves the feed state alone.
CompleteSpan(c, o) ==
    LET next == [c EXCEPT !.span = @ + 1]
        stopped == [Retire(next, c.active) EXCEPT !.moving = FALSE]
    IN  IF ~c.stopping
        THEN IF MoreSpans(next) THEN BeginSpan(next, o)
             ELSE SelectContinuationOrStop(next, o)
        ELSE IF c.tailFault # "None"
        THEN Fault(DiscardExecution(stopped), c.tailFault)
        ELSE [BackendHeld(stopped, c.active.epoch, "StopBranch")
                EXCEPT !.state = "Held", !.active = NoItem]

\* advancePlan, one span of it.  Under retiming the whole period is consumed.
AdvancePlan(c, o) ==
    LET rated == IF c.feed = "Resuming" /\ o.settled
                 THEN [c EXCEPT !.feed = "None"] ELSE c
        moved == Commit(rated, o, o.moves)
        marked == EmitExecutionMarkersThrough(moved, o.reached \/ o.done)
        advanced == IF o.done THEN CompleteSpan(marked, o) ELSE marked
    IN  IF Retiming(c) /\ o.trouble = "Retiming" THEN Fault(c, "FeedRetiming")
        ELSE IF o.trouble = "Limit" THEN moved
        ELSE IF marked.state = "Faulted" THEN marked
        ELSE IF advanced.feed = "Holding" /\ o.settled
                /\ advanced.state # "Faulted"
        THEN FinishFeedHold(advanced)
        ELSE advanced

-----------------------------------------------------------------------------
(* The controlled stop of planned motion.                                  *)

\* beginPlanStop succeeds exactly when it leaves a stop behind.
BeginPlanStop(c, o) ==
    IF c.planStop # "None" THEN c
    ELSE IF ~c.moving THEN [c EXCEPT !.planStop = "Stationary"]
    ELSE IF o.trouble = "Generation" THEN c
    ELSE [c EXCEPT !.planStop = "Braking"]

\* Mutant: the queue is retired before the chunk it follows.
AbandonQueueFirst(c) == c.plans \o <<c.active>>
AbandonedItems(c) == <<c.active>> \o c.plans

\* Mutant: the epoch may run again.
StopForgetsEpoch(c) == c
StopEpoch(c) == [c EXCEPT !.stoppedEpoch = c.active.epoch]

\* completePlanStop: the active chunk and the queue retire in order.
CompletePlanStop(c) ==
    LET items == AbandonedItems(c)
        retirements == [i \in 1..Len(items) |->
                            Event("ChunkRetired", items[i].id, items[i].epoch)]
    IN  BackendHeld(
            [StopEpoch(c) EXCEPT !.active = NoItem, !.plans = <<>>,
                                 !.planStop = "None", !.stopping = FALSE,
                                 !.span = 0, !.event = 0, !.marker = 0,
                                 !.state = "Held", !.out = @ \o retirements],
            c.active.epoch, "ControlledStop")

AdvancePlanStop(c, o) ==
    LET finished == o.done \/ c.planStop = "Stationary"
        moved == Commit(c, o, ~finished)
    IN  IF Active(moved) /\ finished THEN CompletePlanStop(moved) ELSE moved

-----------------------------------------------------------------------------
(* Triggered moves (probing) and triggered joint moves (homing).           *)

\* beginTriggeredStop succeeds unless a moving axis gets no trajectory.
BeginTriggeredStop(c, mode) == [c EXCEPT !.triggered = mode]
TriggeredStopFails(c, o) == c.moving /\ o.trouble = "Generation"

FinishTriggeredFeedHold(c) == FinishFeedHold([c EXCEPT !.triggered = "Approach"])

CompleteTriggered(c, status) ==
    LET item == c.active
        told == Retire(Emit(Emit(c, Event("TriggeredMoveCompleted", item.id, status)),
                            Event("BranchSelected", item.id, "Stop")), item)
        reason == IF status = "Aborted" THEN "ControlledStop" ELSE "StopBranch"
    IN  [ResetFeedRetiming(BackendHeld(told, item.epoch, reason))
            EXCEPT !.state = "Held", !.active = NoItem]

\* The trigger is looked at before the move advances; a sampled trigger during
\* the braking of a feed hold turns the hold into the stop of the trigger.
AdvanceTriggered(c, o) ==
    LET triggers == o.hits # {} /\ c.triggered \in {"Approach", "HoldStop"}
        armed == IF triggers THEN BeginTriggeredStop(c, "TriggerStop") ELSE c
        stopping == armed.triggered # "Approach"
        finished == o.done \/ (stopping /\ ~c.moving)
        moved == Commit(armed, o, ~finished)
    IN  IF triggers /\ c.triggered = "Approach" /\ TriggeredStopFails(c, o)
        THEN Fault(armed, "InvalidExecutionState")
        ELSE IF o.trouble = "Limit" \/ ~finished THEN moved
        ELSE CASE armed.triggered = "Approach" ->
                    CompleteTriggered(moved, "ReachedTarget")
               [] armed.triggered = "HoldStop" -> FinishTriggeredFeedHold(moved)
               [] armed.triggered = "TriggerStop" ->
                    CompleteTriggered(moved, "Triggered")
               [] armed.triggered = "AbortStop" ->
                    CompleteTriggered(moved, "Aborted")

CompleteTriggeredJoints(c) ==
    LET item == c.active
        expected == TriggerJoints(item)
        missed == ~c.aborted /\ item.policy # "Backoff" /\ c.touched # expected
        status == IF c.aborted THEN "Aborted"
                  ELSE IF expected # {} /\ c.touched = expected THEN "Triggered"
                  ELSE "ReachedTarget"
        told == Retire(Emit(Emit(c, Event("TriggeredMoveCompleted", item.id, status)),
                            Event("BranchSelected", item.id, "Stop")), item)
    IN  IF missed THEN Fault(DiscardExecution(c), "TriggerNotReached")
        ELSE [BackendHeld(told, item.epoch, IF c.aborted THEN "ControlledStop"
                                            ELSE "StopBranch")
                EXCEPT !.state = "Held", !.active = NoItem]

\* A release check samples its triggers once, with every joint at rest.
CheckTriggersAtStart(c, o) ==
    IF \E j \in Joints : c.joints[j] # "Finished"
    THEN Fault(c, "InvalidExecutionState")
    ELSE CompleteTriggeredJoints([c EXCEPT !.touched = @ \union o.hits])

AdvanceTriggeredJoints(c, o) ==
    LET hit == {j \in TriggerJoints(c.active) \intersect o.hits :
                    c.joints[j] = "Approach"}
        stopped(j) == IF c.joints[j] = "Finished" \/ j \in o.ends THEN "Finished"
                      ELSE IF j \in hit THEN "Stopping" ELSE c.joints[j]
        advanced == [c EXCEPT !.joints = [j \in Joints |-> stopped(j)],
                              !.touched = @ \union hit]
        finished == \A j \in Joints : stopped(j) = "Finished"
        moved == Commit(advanced, o, ~finished)
    IN  IF c.active.policy = "ReleaseCheck" THEN CheckTriggersAtStart(c, o)
        ELSE IF hit # {} /\ o.trouble = "Generation"
        THEN Fault(c, "InvalidExecutionState")
        ELSE IF Active(moved) /\ finished THEN CompleteTriggeredJoints(moved)
        ELSE moved

\* advanceActive, one turn of its loop.
AdvanceActive(c, o) ==
    CASE c.planStop # "None" -> AdvancePlanStop(c, o)
      [] c.planStop = "None" /\ c.active.kind = "Chunk" -> AdvancePlan(c, o)
      [] c.active.kind = "Triggered" -> AdvanceTriggered(c, o)
      [] c.active.kind = "Joint" -> AdvanceTriggeredJoints(c, o)

-----------------------------------------------------------------------------
(* serviceControl: the lifecycle controls, which only the demand issues    *)
(* once one is established.  queued says m_queuedExecutionItems # 0.       *)

Enable(c) ==
    IF Jogging(c) \/ c.state \notin {"Disabled", "Held"} THEN c
    ELSE [c EXCEPT !.state = "Held", !.fault = "None", !.faultReported = FALSE]

\* Mutant: the spindle is left as it was commanded.
DisableKeepsSpindle(c, o) ==
    [DiscardExecution(AbandonJog(c, o, "Disabled")) EXCEPT
        !.state = "Disabled", !.moving = FALSE, !.safeOutputs = TRUE]

Disable(c, o) ==
    [DiscardExecution(AbandonJog(c, o, "Disabled")) EXCEPT
        !.state = "Disabled", !.moving = FALSE,
        !.safeOutputs = TRUE, !.spindle = "Safe"]

EpochMayRun(c, epoch) ==
    /\ ~Jogging(c) /\ c.state = "Held"
    /\ epoch # 0 /\ epoch = c.epoch /\ epoch # c.stoppedEpoch

Start(c, epoch) ==
    IF ~EpochMayRun(c, epoch) \/ c.feed = "Held" THEN c
    ELSE [ResetFeedRetiming(c) EXCEPT !.state = "Running", !.safeOutputs = FALSE]

\* Mutant: the markers of the chunk are reported from the first one again.
ResumeChunkReplays(c) == [c EXCEPT !.feed = "Resuming", !.marker = 0]
ResumeChunk(c) == [c EXCEPT !.feed = "Resuming"]

\* A feed-held chunk accelerates from the path point it stopped at; a feed-held
\* triggered move is planned anew from where it stands.
Resume(c, o, epoch, queued) ==
    LET running == [c EXCEPT !.state = "Running", !.safeOutputs = FALSE]
        approach == InitializeTriggered(running, o)
    IN  IF ~EpochMayRun(c, epoch) THEN c
        ELSE IF c.feed # "Held"
        THEN IF ~Active(c) /\ queued THEN ResetFeedRetiming(running) ELSE c
        ELSE IF ~Active(c) \/ c.stopping THEN c
        ELSE CASE c.active.kind = "Chunk" -> ResumeChunk(running)
               [] c.active.kind = "Triggered" ->
                    IF c.triggered = "Approach" /\ o.trouble # "Generation"
                    THEN ResetFeedRetiming(approach) ELSE c
               [] c.active.kind = "Joint" -> c

FeedHold(c, o) ==
    LET holding == [c EXCEPT !.feed = "Holding", !.state = "Holding"]
        braking == BeginTriggeredStop(holding, "HoldStop")
    IN  IF \/ Jogging(c) \/ c.state # "Running" \/ c.feed = "Resuming"
           \/ ~Active(c) \/ c.stopping
        THEN c
        ELSE CASE c.active.kind = "Chunk" ->
                    IF FeedHoldConfigured THEN holding ELSE c
               [] c.active.kind = "Triggered" ->
                    IF c.triggered # "Approach" THEN c
                    ELSE IF TriggeredStopFails(c, o)
                    THEN BeginTriggeredStop(c, "HoldStop")
                    ELSE braking
               [] c.active.kind = "Joint" -> c

\* The branches of ControlledStopRequest for the item that is active.
StopChunk(c, o) ==
    LET braking == BeginPlanStop(c, o)
    IN  IF c.stopping \/ braking.planStop = "None" THEN c
        ELSE [ResetFeedRetiming(braking) EXCEPT !.state = "Holding"]

StopTriggered(c, o) ==
    LET braking == BeginTriggeredStop(c, "AbortStop")
    IN  IF c.triggered # "Approach" THEN c
        ELSE IF TriggeredStopFails(c, o)
        THEN Fault(braking, "InvalidExecutionState")
        ELSE [ResetFeedRetiming(braking) EXCEPT !.state = "Holding"]

StopTriggeredJoints(c, o) ==
    LET braking == [c EXCEPT !.aborted = TRUE,
                             !.joints = [j \in Joints |->
                                 IF c.joints[j] = "Approach"
                                 THEN "Stopping" ELSE c.joints[j]]]
    IN  IF o.trouble = "Generation" /\ c.moving
           /\ \E j \in Joints : c.joints[j] = "Approach"
        THEN Fault(braking, "InvalidExecutionState")
        ELSE [braking EXCEPT !.state = "Holding"]

ControlledStop(c, o) ==
    IF Jogging(c) THEN BeginJogStop(c, o, "RequestedStop")
    ELSE IF ~Active(c) \/ ~(Executing(c) \/ (c.state = "Held" /\ c.feed = "Held"))
    THEN c
    ELSE CASE c.active.kind = "Chunk" -> StopChunk(c, o)
           [] c.active.kind = "Triggered" -> StopTriggered(c, o)
           [] c.active.kind = "Joint" -> StopTriggeredJoints(c, o)

\* Reset adopts the next epoch; the machine stays enabled if it was.
Reset(c, o, nextEpoch) ==
    [DiscardExecution(AbandonJog(c, o, "Aborted")) EXCEPT
        !.state = IF c.state = "Disabled" THEN "Disabled" ELSE "Held",
        !.epoch = nextEpoch, !.fault = "None", !.faultReported = FALSE,
        !.accepted = TRUE, !.stoppedEpoch = 0,
        !.safeOutputs = TRUE, !.spindle = "Safe"]

-----------------------------------------------------------------------------
(* serviceControl: requests from the ingress queue.                        *)

RequestCompleted(c, request, succeeded) ==
    Emit(c, Event("RequestCompleted", request.id, succeeded))

\* The coordinates of the joints are set, and their velocity is zero.
SetJointPosition(c) == [c EXCEPT !.moving = FALSE]

SetContinuousJogVelocity(c, o) ==
    IF o.trouble = "Generation" THEN c
    ELSE [c EXCEPT !.jog.lease = LeaseTicks]

RenewJogLease(c) == [c EXCEPT !.jog.lease = LeaseTicks]

LifecycleControls == {"Enable", "Disable", "Start", "FeedHold",
                      "ControlledStop", "Resume", "Abort", "Reset"}

ServiceControl(c, o, request) ==
    LET type == request.type
        controllable == JogControllable(c, request.jog)
        started == InitializeJog(c, o, [id |-> request.jog, kind |-> request.kind])
        stopped == BeginJogStop(c, o, "RequestedStop")
        velocity == SetContinuousJogVelocity(c, o)
    IN  CASE type \in LifecycleControls -> RequestCompleted(c, request, FALSE)
          [] type = "SetJointPosition" ->
                IF ~Jogging(c) /\ c.state = "Held" /\ ~Active(c)
                THEN RequestCompleted(SetJointPosition(c), request, TRUE)
                ELSE RequestCompleted(c, request, FALSE)
          [] type = "StartJog" ->
                RequestCompleted(started, request, started # c)
          [] type = "RenewJogLease" ->
                IF controllable THEN RequestCompleted(RenewJogLease(c), request, TRUE)
                ELSE RequestCompleted(c, request, FALSE)
          [] type = "SetContinuousJogVelocity" ->
                IF controllable
                THEN RequestCompleted(velocity, request, o.trouble # "Generation")
                ELSE RequestCompleted(c, request, FALSE)
          [] type = "StopJog" ->
                IF Jogging(c) /\ c.jog.id = request.jog
                THEN RequestCompleted(stopped, request,
                        ~c.jog.stopping
                        /\ (Jogging(stopped) \/ stopped.state = "Held"))
                ELSE RequestCompleted(c, request, FALSE)

-----------------------------------------------------------------------------
(* The demand: consumed from its mailbox, then converged to twice a tick.  *)

ServiceDemand(c, demand) == [c EXCEPT !.demand = demand, !.accepted = TRUE]

DemandEstablished(c) == c.demand.generation # 0

\* m_queuedExecutionItems # 0: an item waits in the plan queue, or (pending) it
\* is counted by its publisher and has not been taken from the ingress queue.
Queued(c, pending) == pending \/ c.plans # <<>>

Stationary(c) == ~Jogging(c) /\ c.state \in {"Disabled", "Held"} /\ ~c.moving

DemandAllowsActivation(c) ==
    /\ c.demand.mode = "Run"
    /\ c.demand.epoch = c.epoch
    /\ c.demand.epoch # c.stoppedEpoch

\* beginDemandStop: without an active item the queue is dropped and the stop
\* is complete; otherwise the active item is brought to a controlled stop.
BeginDemandStop(c, o) ==
    IF Jogging(c) THEN BeginJogStop(c, o, "RequestedStop")
    ELSE IF Active(c) THEN ControlledStop(c, o)
    ELSE BackendHeld([DiscardExecution(c) EXCEPT
                         !.stoppedEpoch = c.demand.epoch, !.state = "Held",
                         !.safeOutputs = TRUE, !.spindle = "Safe"],
                     c.epoch, "ControlledStop")

\* establishEpoch and enable of convergeDemand; the epoch is adopted only at
\* rest, and nothing else happens until it is.
Prepare(c, o) ==
    LET established == IF c.epoch # c.demand.epoch /\ Stationary(c)
                       THEN Reset(c, o, c.demand.epoch) ELSE c
    IN  IF established.epoch = c.demand.epoch /\ established.state = "Disabled"
        THEN Enable(established) ELSE established
Prepared(c) == c.epoch = c.demand.epoch /\ c.state # "Disabled"

RejectDemand(c) == [c EXCEPT !.accepted = FALSE]

ConvergeRun(c, o, pending) ==
    LET prepared == Prepare(c, o)
    IN  IF ~Prepared(prepared) THEN prepared
        ELSE IF c.demand.epoch = prepared.stoppedEpoch THEN RejectDemand(prepared)
        ELSE IF prepared.state # "Held" THEN prepared
        ELSE IF prepared.feed = "Held"
        THEN Resume(prepared, o, c.demand.epoch, Queued(prepared, pending))
        ELSE IF Queued(prepared, pending)
        THEN Start(prepared, c.demand.epoch) ELSE prepared

ConvergeFeedHold(c, o) ==
    IF c.epoch # c.demand.epoch THEN RejectDemand(c)
    ELSE IF c.state # "Running" THEN c
    ELSE IF Active(c) THEN FeedHold(c, o)
    ELSE BackendHeld(ResetFeedRetiming([c EXCEPT !.state = "Held"]),
                     c.epoch, "FeedHold")

\* Mutant: what is queued after the stop stays.
ConvergeStopOnce(c, o, pending) ==
    IF c.epoch # c.demand.epoch THEN RejectDemand(c)
    ELSE IF c.stoppedEpoch # c.demand.epoch THEN BeginDemandStop(c, o) ELSE c

\* Once the epoch is stopped, whatever is still queued is dropped.
ConvergeStop(c, o, pending) ==
    IF c.epoch # c.demand.epoch THEN RejectDemand(c)
    ELSE IF c.stoppedEpoch # c.demand.epoch THEN BeginDemandStop(c, o)
    ELSE IF Active(c) \/ ~Queued(c, pending) THEN c
    ELSE DiscardExecution(c)

ConvergeDisabled(c, o) ==
    IF Executing(c)
    THEN IF c.stoppedEpoch # c.epoch THEN BeginDemandStop(c, o) ELSE c
    ELSE IF c.state # "Disabled" THEN Disable(c, o) ELSE c

\* Mutant: a faulted executor follows its demand.
IgnoresDemandUnestablished(c) == ~DemandEstablished(c)
IgnoresDemand(c) == ~DemandEstablished(c) \/ c.state = "Faulted"

ConvergeDemand(c, o, pending) ==
    IF IgnoresDemand(c) THEN c
    ELSE CASE c.demand.mode = "Disabled" -> ConvergeDisabled(c, o)
           [] c.demand.mode \in {"Idle", "Jog"} -> Prepare(c, o)
           [] c.demand.mode = "Run" -> ConvergeRun(c, o, pending)
           [] c.demand.mode = "FeedHold" -> ConvergeFeedHold(c, o)
           [] c.demand.mode = "Stop" -> ConvergeStop(c, o, pending)

-----------------------------------------------------------------------------
(* Calls of the hosting thread outside servoTick.                          *)

\* Mutant: the queue survives the emergency stop.
LatchKeepsQueue(c, o) ==
    Fault([AbandonJog(c, o, "Aborted") EXCEPT !.moving = FALSE, !.active = NoItem],
          "EmergencyStop")

LatchEmergencyStop(c, o) ==
    Fault([AbandonJog(DiscardExecution(c), o, "Aborted") EXCEPT !.moving = FALSE],
          "EmergencyStop")

ResetEmergencyStop(c) ==
    IF c.state # "Faulted" THEN c
    ELSE [c EXCEPT !.state = "Disabled", !.fault = "None",
                   !.faultReported = FALSE,
                   !.safeOutputs = TRUE, !.spindle = "Safe"]

ReportHostFault(c, code) == Fault(c, code)
=============================================================================
