-------------------------- MODULE ProgramOperation --------------------------
(***************************************************************************)
(* A program while it executes: ProgramExecutionController, which answers  *)
(* the operator, and PreparedTrajectoryExecutionDriver, which turns the    *)
(* prepared geometry of the producer thread into execution items.  Both    *)
(* belong to the thread of the machine session; an operator takes their    *)
(* joint record                                                            *)
(*   control  the controller        driver   the driver                    *)
(*   ask      the mode demanded of the executor in this step, or "None"    *)
(*   told     the feedback pushed to the producer in this step             *)
(*   linked   whether the executor can be reached: a lost one refuses      *)
(*            demands and items                                            *)
(* and returns what the member function leaves behind.                     *)
(*                                                                         *)
(* Geometry is abstract: a slice is one path, the planner retains it until *)
(* its chain ends and then plans one execution item from it.  Rolling      *)
(* horizon planning, in which a chain is planned before it ends, and the   *)
(* presentation of what executes are left out.                             *)
(***************************************************************************)
EXTENDS ProductionExecutorCore

Commands == {"Stop", "FeedHold", "Resume"}
ControlStates == {"Inactive", "Running", "Holding", "Paused", "StopComplete", "Error"}

\* Messages of the producer, and the answer each barrier among them waits for.
Barriers == {"SynchronizationFence", "ProbeFence", "ProgramPause"}
MessageTypes == Barriers \union {"Slice", "ContinuousEnd", "Standalone",
                                 "PresentationUpdate", "ProgramEnd", "Failure"}
AnswerTo == [SynchronizationFence |-> "ReleaseSynchronization",
             ProbeFence           |-> "DeliverProbeResult",
             ProgramPause         |-> "ResumeProgram"]

Feedback(type, epoch, barrier) == [type |-> type, epoch |-> epoch, barrier |-> barrier]

InactiveControl ==
    [state |-> "Inactive", stopRequested |-> FALSE, controlledStop |-> FALSE,
     programPaused |-> FALSE, programResume |-> FALSE,
     holdRequested |-> FALSE, holdInProgress |-> FALSE, held |-> FALSE,
     resumeRequested |-> FALSE, resumeInProgress |-> FALSE,
     failureStopped |-> FALSE, error |-> FALSE]

\* Barriers are named by the sequence number of their message, or 0, and items are
\* numbered on from one epoch to the next: those of this epoch come after base.
DriverOf(epoch, base) ==
    [epoch |-> epoch, sequence |-> 1, window |-> 0, pending |-> NoItem,
     base |-> base, items |-> base,
     outstanding |-> 0, complete |-> FALSE, probe |-> 0, probePending |-> FALSE,
     pause |-> 0, fence |-> 0, update |-> FALSE,
     waitingForHeld |-> FALSE, exactStopHeld |-> FALSE, error |-> FALSE]

-----------------------------------------------------------------------------
(* PreparedTrajectoryExecutionDriver                                       *)

DriverFails(s) ==
    IF s.driver.error THEN s
    ELSE [s EXCEPT !.driver.error = TRUE,
                   !.told = Append(@, Feedback("AbortGeometryRun", s.driver.epoch, 0))]

\* Mutant: items that are still outstanding do not count.
DrainedWhenPublished(d) == d.pending = NoItem /\ d.window = 0

\* Nothing of the program is being planned, published or executed.
Drained(d) == d.pending = NoItem /\ d.window = 0 /\ d.outstanding = 0

\* Mutant: a program whose last message was taken is complete.
DriverStateWhenTaken(d) ==
    LET settled == Drained(d) /\ ~d.probePending /\ d.fence = 0 /\ ~d.update
    IN  IF d.error THEN "Error"
        ELSE IF d.pause # 0 /\ settled THEN "ProgramPaused"
        ELSE IF d.complete THEN "Completed" ELSE "Running"

DriverState(d) ==
    LET settled == Drained(d) /\ ~d.probePending /\ d.fence = 0 /\ ~d.update
    IN  IF d.error THEN "Error"
        ELSE IF d.pause # 0 /\ settled THEN "ProgramPaused"
        ELSE IF d.complete /\ settled THEN "Completed" ELSE "Running"

ReleaseSynchronizationIfHeld(s) ==
    IF s.driver.fence = 0 \/ ~Drained(s.driver) THEN s
    ELSE [s EXCEPT !.driver.fence = 0,
                   !.told = Append(@, Feedback("ReleaseSynchronization",
                                               s.driver.epoch, s.driver.fence))]

ResumeProgram(s) ==
    [s EXCEPT !.driver.pause = 0,
              !.told = Append(@, Feedback("ResumeProgram", s.driver.epoch, s.driver.pause))]

\* One execution item from the retained window, or from a standalone probe.
Plan(d, kind) ==
    [d EXCEPT !.items = @ + 1, !.window = 0,
              !.pending = [id |-> d.items + 1, epoch |-> d.epoch, kind |-> kind,
                           predecessor |-> 0, policy |-> "StopAllowed"]]

ProcessMessage(s, message) ==
    LET d == s.driver
        taken == [s EXCEPT !.driver.sequence = @ + 1]
        Process(type) ==
            CASE type = "Slice" -> [taken EXCEPT !.driver.window = @ + 1]
              [] type = "ContinuousEnd" -> [taken EXCEPT !.driver = Plan(taken.driver, "Chunk")]
              [] type = "Standalone" ->
                    [taken EXCEPT !.driver = Plan([taken.driver EXCEPT
                        !.probe = message.sequence + 1], "Triggered")]
              [] type = "ProbeFence" -> taken
              [] type = "SynchronizationFence" ->
                    ReleaseSynchronizationIfHeld([taken EXCEPT !.driver.fence = message.sequence])
              [] type = "ProgramPause" -> [taken EXCEPT !.driver.pause = message.sequence]
              [] type = "PresentationUpdate" ->
                    IF d.window # 0 \/ d.fence # 0 \/ d.probePending
                    THEN DriverFails(taken) ELSE [taken EXCEPT !.driver.update = TRUE]
              [] type = "ProgramEnd" -> [taken EXCEPT !.driver.complete = TRUE]
              [] type = "Failure" -> DriverFails(taken)
    IN  IF message.epoch # d.epoch \/ message.sequence # d.sequence THEN DriverFails(s)
        ELSE Process(message.type)

\* Mutant: only an update that follows a program pause is taken.
TakeUpdateAfterPause(s) ==
    IF Drained(s.driver) /\ s.driver.pause # 0 /\ ~s.driver.probePending
    THEN [s EXCEPT !.driver.update = FALSE] ELSE s

\* takePresentationUpdate: the update waits until what precedes it is executed.
TakePresentationUpdate(s) ==
    IF Drained(s.driver) /\ s.driver.fence = 0 /\ ~s.driver.probePending
    THEN [s EXCEPT !.driver.update = FALSE] ELSE s

MayPump(d) == ~d.error /\ ~d.waitingForHeld /\ ~d.update

\* The first item after an exact stop is published with a new demand to run.
Publish(s) ==
    LET d == s.driver
        published == [s EXCEPT !.driver.pending = NoItem,
                               !.driver.outstanding = @ + 1,
                               !.driver.probePending = @ \/ d.pending.kind = "Triggered",
                               !.driver.exactStopHeld = FALSE,
                               !.ask = IF d.exactStopHeld THEN "Run" ELSE @]
    IN  IF s.linked THEN ReleaseSynchronizationIfHeld(published) ELSE DriverFails(s)

Ours(d, event) ==
    CASE event.type \in {"TriggeredMoveCompleted", "BranchSelected"} -> event.id > d.base
      [] event.type \in {"ChunkRetired", "ChunkRejected"} -> event.info = d.epoch
      [] event.type = "BackendHeld" -> event.id = d.epoch
      [] event.type = "BackendFault" -> TRUE
      [] OTHER -> FALSE

\* serviceBackend, for one event.
DriverObserves(s, event) ==
    LET d == s.driver
        delivered == [s EXCEPT !.driver.probePending = FALSE, !.driver.probe = 0,
                               !.told = Append(@, Feedback("DeliverProbeResult",
                                                           d.epoch, d.probe))]
        retired == [s EXCEPT !.driver.outstanding = @ - 1]
        halted == [s EXCEPT !.driver.waitingForHeld = FALSE]
        stopped == [ReleaseSynchronizationIfHeld(halted) EXCEPT !.driver.exactStopHeld = TRUE]
    IN  IF ~Ours(d, event)
        THEN IF event.type = "ChunkRetired" THEN ReleaseSynchronizationIfHeld(s) ELSE s
        ELSE CASE event.type = "TriggeredMoveCompleted" ->
                    IF d.probePending THEN delivered ELSE s
               [] event.type = "ChunkRetired" ->
                    ReleaseSynchronizationIfHeld(IF d.outstanding > 0 THEN retired ELSE s)
               [] event.type \in {"BackendFault", "ChunkRejected"} -> DriverFails(s)
               [] event.type = "BranchSelected" ->
                    [s EXCEPT !.driver.waitingForHeld = @ \/ event.info = "Stop"]
               [] event.type = "BackendHeld" ->
                    IF event.info \in {"FeedHold", "ControlledStop"} THEN halted ELSE stopped

-----------------------------------------------------------------------------
(* ProgramExecutionController                                              *)

ControlActive(c) == c.state \notin {"Inactive", "StopComplete", "Error"}

\* fail: an error that already brakes is kept.
Fail(s) ==
    IF s.control.error /\ s.control.state # "Error" THEN s
    ELSE [s EXCEPT !.control.error = TRUE, !.control.state = "Error"]

\* What the operator asked for before a stop is forgotten.
Forget(c) ==
    [c EXCEPT !.stopRequested = TRUE, !.programResume = FALSE,
              !.holdRequested = FALSE, !.resumeRequested = FALSE]

ConsumeCommand(c, command) ==
    CASE command = "Stop" -> [Forget(c) EXCEPT !.state = "Holding"]
      [] command = "FeedHold" ->
            IF c.state = "Running" /\ ~c.holdInProgress /\ ~c.held /\ ~c.resumeInProgress
            THEN [c EXCEPT !.holdRequested = TRUE, !.holdInProgress = TRUE, !.state = "Holding"]
            ELSE c
      [] command = "Resume" ->
            IF c.programPaused THEN [c EXCEPT !.programResume = TRUE, !.state = "Running"]
            ELSE IF c.held /\ ~c.resumeInProgress
            THEN [c EXCEPT !.resumeRequested = TRUE, !.resumeInProgress = TRUE,
                           !.state = "Running"]
            ELSE c

\* The stop is complete at once when the observation shows the executor at rest,
\* and waits while a feed hold is in progress.
RequestControlledStop(s, seen) ==
    LET c == s.control
        stationary == seen.state = "Held" /\ ~seen.moving
        demanded == IF s.linked THEN [s EXCEPT !.ask = "Stop", !.control.controlledStop = TRUE]
                    ELSE IF c.error THEN s ELSE Fail(s)
    IN  IF c.controlledStop \/ c.state = "StopComplete" \/ c.holdInProgress THEN s
        ELSE IF c.error
        THEN IF seen.state \in {"Faulted", "Disabled"}
             THEN [s EXCEPT !.control.state = "Error"]
             ELSE IF c.failureStopped \/ stationary
             THEN [s EXCEPT !.control.failureStopped = TRUE, !.control.state = "Error"]
             ELSE demanded
        ELSE IF c.programPaused \/ stationary
        THEN [s EXCEPT !.control.state = "StopComplete"]
        ELSE demanded

RequestProgramResume(s) ==
    LET resumed == [ResumeProgram(s) EXCEPT !.control.programResume = FALSE,
                                            !.control.programPaused = FALSE]
    IN  IF ~s.control.programResume THEN s
        ELSE IF DriverState(s.driver) # "ProgramPaused"
        THEN Fail([s EXCEPT !.control.programResume = FALSE])
        ELSE resumed

RequestFeedHold(s) ==
    LET taken == [s EXCEPT !.control.holdRequested = FALSE]
    IN  IF ~s.control.holdRequested THEN s
        ELSE IF s.linked THEN [taken EXCEPT !.ask = "FeedHold"] ELSE Fail(taken)

RequestFeedResume(s) ==
    LET taken == [s EXCEPT !.control.resumeRequested = FALSE]
    IN  IF ~s.control.resumeRequested THEN s
        ELSE IF s.linked THEN [taken EXCEPT !.control.held = FALSE, !.ask = "Run"]
        ELSE Fail(taken)

ObserveDriverState(s) ==
    LET paused == [s EXCEPT !.control.programPaused = TRUE, !.control.state = "Paused"]
        failing == [s EXCEPT !.control = [Forget(s.control) EXCEPT !.error = TRUE,
                                                                   !.state = "Holding"]]
    IN  IF ~ControlActive(s.control) THEN s
        ELSE IF DriverState(s.driver) = "ProgramPaused" THEN paused
        ELSE IF s.driver.error /\ ~s.control.error THEN failing ELSE s

\* service: seen is the observation of the executor the iteration began with,
\* generation the demand published last.
Service(s, seen, commands, shutdown, generation) ==
    LET resumed == s.control.resumeInProgress /\ seen.epoch = s.driver.epoch
                   /\ seen.state = "Running" /\ seen.fullRate
        noticed == [s.control EXCEPT !.resumeInProgress = @ /\ ~resumed]
        consumed == FoldLeft(ConsumeCommand, noticed, commands)
        ordered == [s EXCEPT !.control = IF shutdown THEN Forget(consumed) ELSE consumed]
        requested == IF ordered.control.stopRequested THEN RequestControlledStop(ordered, seen)
                     ELSE RequestFeedResume(RequestFeedHold(RequestProgramResume(ordered)))
    IN  IF ~ControlActive(s.control) THEN s
        ELSE IF seen.generation = generation /\ ~seen.accepted THEN Fail(s)
        ELSE ObserveDriverState(requested)

\* observeBackendEvent
ControlObserves(s, event) ==
    LET c == s.control
        triggered == [c EXCEPT !.holdInProgress = FALSE, !.held = FALSE, !.state = "Running"]
        failed == [c EXCEPT !.controlledStop = FALSE, !.holdInProgress = FALSE, !.held = FALSE,
                            !.resumeInProgress = FALSE, !.failureStopped = TRUE,
                            !.state = "Error"]
        held == [c EXCEPT !.holdInProgress = FALSE, !.held = TRUE, !.state = "Paused"]
        stopped == [c EXCEPT !.controlledStop = FALSE, !.state = "StopComplete"]
        observed ==
            CASE event.type = "TriggeredMoveCompleted" ->
                    IF c.holdInProgress THEN triggered ELSE c
              [] event.type = "BackendHeld" ->
                    IF ~Ours(s.driver, event) THEN c
                    ELSE IF c.error THEN failed
                    ELSE IF event.info = "FeedHold" THEN held
                    ELSE IF event.info = "ControlledStop" THEN stopped ELSE c
              [] OTHER -> c
    IN  IF ControlActive(c) THEN [s EXCEPT !.control = observed] ELSE s

\* programOperationUpdate: what the thread of the session acts on.
OperationState(s) ==
    CASE s.control.state \in {"Error", "StopComplete"} -> s.control.state
      [] s.control.state \notin {"Error", "StopComplete"} ->
            IF DriverState(s.driver) = "Completed" THEN "Completed"
            ELSE IF s.control.state = "Paused" \/ DriverState(s.driver) = "ProgramPaused"
            THEN "Paused"
            ELSE IF s.control.state = "Holding" THEN "Holding" ELSE "Running"
=============================================================================
