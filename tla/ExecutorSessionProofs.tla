------------------------ MODULE ExecutorSessionProofs ------------------------
(***************************************************************************)
(* What the executor keeps true for any number of spans, joints, lease     *)
(* ticks, demands, items and requests, and whatever the drive, the inputs  *)
(* and the host do.                                                        *)
(*                                                                         *)
(* The first part: its types and cursors, safe outputs unless it is        *)
(* enabled, and the two ways in which a fault ends.  The operators of      *)
(* ProductionExecutorCore call one another as the member functions do, so  *)
(* the proof has a lemma per operator: what it returns is sound if its     *)
(* argument is.  A step of ExecutorSession then needs only the lemma of    *)
(* the operator it calls.                                                  *)
(*                                                                         *)
(* The second part: it starts the published items in the order of their    *)
(* publication, each at most once, ends each of them at most once, after   *)
(* its start and in the same order, and never starts an item that an       *)
(* emergency stop has abandoned, nor one of an epoch it reported as        *)
(* stopped.  The way: what a sequence of events tells, and what the log    *)
(* keeps of it; for every operator of the executor, which of its events    *)
(* tell of items and how it moves the active item and the queue; and the   *)
(* invariant that the items are in one line, from the publishing thread    *)
(* through the ingress and the queue to the active item and the log.  The  *)
(* epochs then have an invariant of their own: the executor adopts them in *)
(* the order in which the session announces them, and sleeps in one that   *)
(* is to come.                                                             *)
(*                                                                         *)
(* The third part: what it calls Held or Disabled is at rest.  Operator by *)
(* operator, again: which of them end all motion, which leave a chunk or a *)
(* triggered move under way, and that a joint move is started only when    *)
(* nothing moves.  Two facts come from the session: it starts a jog only   *)
(* while it demands one, and the items of an epoch are all homing moves or *)
(* none is.                                                                *)
(*                                                                         *)
(* The fourth part: markers and spindle events.  The cursors of the active *)
(* item are how many of either the log has counted of it, and a span that  *)
(* runs has fired its event and at most its own marker.  Operator by       *)
(* operator, once more: what fires moves the cursor with it, and what has  *)
(* ended, branched or waits fires nothing.                                 *)
(***************************************************************************)
EXTENDS ExecutorSession, SequenceTheorems, NaturalsInduction, WellFoundedInduction,
        FiniteSetTheorems, TLAPS

CoreFields == {"state", "moving", "safeOutputs", "spindle", "demand", "active", "plans", "jog",
               "epoch", "stoppedEpoch", "planStop", "feed", "triggered",
               "span", "event", "marker", "out"}
Epochs == 0..MaxGeneration
Demands == [generation : 0..MaxGeneration, mode : Modes, epoch : Epochs]
TriggeredModes == {"Approach", "HoldStop", "TriggerStop", "AbortStop"}
PlanStops == {"None", "Stationary", "Braking"}
Feeds == {"None", "Holding", "Held", "Resuming"}

\* The type of the executor's record, with the outputs its state implies.
Typed(c) ==
    /\ CoreFields \subseteq DOMAIN c
    /\ c.state \in States
    /\ c.state \in {"Disabled", "Faulted"} => c.safeOutputs /\ c.spindle = "Safe"
    /\ c.demand \in Demands
    /\ c.epoch \in Epochs /\ c.stoppedEpoch \in Epochs
    /\ c.active \in Items /\ c.plans \in Seq(Items)
    /\ c.planStop \in PlanStops /\ c.feed \in Feeds /\ c.triggered \in TriggeredModes
    /\ c.span \in 0..Spans /\ c.event \in 0..Spans /\ c.marker \in 0..Spans
    /\ "lease" \in DOMAIN c.jog /\ c.jog.lease \in 0..LeaseTicks

\* The span cursor is inside the item, except while completeSpan moves it on.
Cursor(c) == Active(c) /\ c.planStop = "None" => c.span < Spans
Sound(c) == Typed(c) /\ Cursor(c)

\* No jog is active; and an item may be executed; and was, unless it faulted.
Free(c) == Sound(c) /\ ~Jogging(c)
Busy(c) == Free(c) /\ Executing(c)
Served(c) == Free(c) /\ (Executing(c) \/ c.state = "Faulted")

LEMMA FreeOk == \A c : Free(c) => Sound(c)
  BY DEF Free

LEMMA ServedFree == \A c : Served(c) => Free(c)
  BY DEF Served

LEMMA NoItemIsItem == NoItem \in Items
  BY SessionAssumption DEF NoItem, Items, ItemKinds, Policies

LEMMA NoItems == <<>> \in Seq(Items)
  OBVIOUS

-----------------------------------------------------------------------------
(* Events, faults and what discardExecution leaves behind.                 *)

Unmoved(c, d) ==
    /\ d.state = c.state /\ d.jog = c.jog /\ d.demand = c.demand
    /\ d.active = c.active /\ d.plans = c.plans
    /\ d.planStop = c.planStop /\ d.span = c.span

LEMMA EmitOk == \A c, e :
    /\ Typed(c) => Typed(Emit(c, e)) /\ Unmoved(c, Emit(c, e))
    /\ Sound(c) => Sound(Emit(c, e))
  BY DEF Typed, CoreFields, Emit, Unmoved, Sound, Cursor, Active

LEMMA FaultOk == \A c, code : Sound(c) =>
    /\ Sound(Fault(c, code))
    /\ Fault(c, code).state = "Faulted" /\ Fault(c, code).jog = c.jog
  BY DEF Typed, CoreFields, Emit, Fault, States, Sound, Cursor, Active

LEMMA FreshOk == \A c : Typed(c) =>
    /\ Typed(FreshRuntimes(c))
    /\ FreshRuntimes(c).state = c.state /\ FreshRuntimes(c).jog = c.jog
    /\ FreshRuntimes(c).span = 0
  BY CoreAssumption DEF Typed, CoreFields, TriggeredModes, FreshRuntimes

LEMMA RetimingReset == \A c : Typed(c) =>
    Typed(ResetFeedRetiming(c)) /\ Unmoved(c, ResetFeedRetiming(c))
  BY DEF Typed, CoreFields, Feeds, Unmoved, ResetFeedRetiming

LEMMA DiscardOk == ASSUME NEW c, Typed(c)
    PROVE  /\ Sound(DiscardExecution(c))
           /\ DiscardExecution(c).state = c.state /\ DiscardExecution(c).jog = c.jog
<1> DEFINE fresh == ResetFeedRetiming(FreshRuntimes(c))
<1>1. Typed(fresh) /\ fresh.state = c.state /\ fresh.jog = c.jog
  BY FreshOk, RetimingReset DEF Unmoved
<1> HIDE DEF fresh
<1> QED
  BY <1>1, NoItemIsItem, NoItems
     DEF Sound, Typed, Cursor, Active, CoreFields, PlanStops, DiscardExecution, fresh

LEMMA FaultFree == \A c, code : Free(c) => Served(Fault(c, code))
  BY FaultOk DEF Free, Served, Jogging

LEMMA EmitFree == \A c, e :
    /\ Free(c) => Free(Emit(c, e)) /\ Unmoved(c, Emit(c, e))
    /\ Busy(c) => Busy(Emit(c, e))
    /\ Served(c) => Served(Emit(c, e))
  BY EmitOk DEF Free, Busy, Served, Jogging, Executing, Sound, Unmoved

LEMMA DiscardFree == \A c : Free(c) => Free(DiscardExecution(c))
  BY DiscardOk DEF Free, Jogging, Sound

-----------------------------------------------------------------------------
(* Committing a motion state, and jogging.                                 *)

LEMMA NoJogTyped == "lease" \in DOMAIN NoJog /\ NoJog.lease \in 0..LeaseTicks
  BY CoreAssumption DEF NoJog

LEMMA JogFaultedOk == ASSUME NEW c, Sound(c)
    PROVE  Sound(JogFaulted(c)) /\ ~Jogging(JogFaulted(c)) /\ JogFaulted(c).state = c.state
<1> DEFINE told == JogStopped(c, "Fault")
<1>1. Sound(told) /\ told.state = c.state
  BY EmitOk DEF JogStopped, Sound, Unmoved
<1> HIDE DEF told
<1> QED
  BY <1>1, NoJogTyped DEF Sound, Typed, Cursor, Active, CoreFields, Jogging, JogFaulted, told

LEMMA FaultSoftLimitOk == \A c : Sound(c) =>
    Sound(FaultSoftLimit(c)) /\ ~Jogging(FaultSoftLimit(c))
  BY FaultOk, DiscardOk, JogFaultedOk DEF FaultSoftLimit, Jogging, Sound

LEMMA CommitOk == \A c, o, m : Sound(c) =>
    /\ Sound(Commit(c, o, m))
    /\ o.trouble # "Limit" => Unmoved(c, Commit(c, o, m))
    /\ o.trouble = "Limit" => ~Jogging(Commit(c, o, m))
<1>1. \A c, m : Sound(c) => Sound([c EXCEPT !.moving = m]) /\ Unmoved(c, [c EXCEPT !.moving = m])
  BY DEF Sound, Typed, Cursor, Active, CoreFields, Unmoved
<1> QED
  BY <1>1, FaultSoftLimitOk DEF Commit

LEMMA CommitFree == \A c, o, m :
    /\ Free(c) => Free(Commit(c, o, m))
    /\ Busy(c) /\ o.trouble # "Limit" => Busy(Commit(c, o, m)) /\ Unmoved(c, Commit(c, o, m))
  BY CommitOk DEF Free, Busy, Jogging, Executing, Unmoved

LEMMA CompleteJogOk == ASSUME NEW c, Sound(c) PROVE Free(CompleteJog(c))
<1> DEFINE told == JogStopped(c, c.jog.reason)
<1>1. Sound(told)
  BY EmitOk DEF JogStopped
<1> HIDE DEF told
<1> QED
  BY <1>1, NoJogTyped
     DEF Free, Sound, Typed, Cursor, Active, CoreFields, CompleteJog, Jogging, States, told

LEMMA BeginJogStopOk == \A c, o, r : Sound(c) => Sound(BeginJogStop(c, o, r))
<1> SUFFICES ASSUME NEW c, NEW o, NEW r, Sound(c), Jogging(c)
             PROVE  Sound(BeginJogStop(c, o, r))
  BY DEF BeginJogStop
<1> DEFINE stopping == [c EXCEPT !.jog.stopping = TRUE, !.jog.reason = r]
           standing == Commit(stopping, o, FALSE)
<1>1. Sound(stopping)
  BY DEF Sound, Typed, Cursor, Active, CoreFields
<1> HIDE DEF stopping
<1>2. Sound(standing)
  BY <1>1, CommitOk
<1>3. Sound(FaultJog(stopping))
  BY <1>1, JogFaultedOk, FaultOk DEF FaultJog, Jogging
<1>4. Sound(CompleteJog(standing))
  BY <1>2, CompleteJogOk, FreeOk
<1> HIDE DEF standing
<1> QED
  BY <1>1, <1>2, <1>3, <1>4 DEF BeginJogStop, stopping, standing

\* However it ends, an abandoned jog is over.
LEMMA AbandonJogOk == ASSUME NEW c, NEW o, NEW r, Sound(c) PROVE Free(AbandonJog(c, o, r))
<1> DEFINE told == [c EXCEPT !.jog.reason = r]
           stopped == Commit(told, o, FALSE)
<1>1. Sound(told)
  BY DEF Sound, Typed, Cursor, Active, CoreFields
<1> HIDE DEF told
<1>2. Sound(stopped)
  BY <1>1, CommitOk
<1> HIDE DEF stopped
<1>3. Free(CompleteJog(stopped))
  BY <1>2, CompleteJogOk
<1> QED
  BY <1>2, <1>3 DEF AbandonJog, stopped, told, Free

LEMMA InitializeJogOk == ASSUME NEW c, NEW o, NEW request, Sound(c)
    PROVE  Sound(InitializeJog(c, o, request))
<1> DEFINE jog == [id |-> request.id, kind |-> request.kind,
                   lease |-> IF request.kind = "Incremental" THEN 0 ELSE LeaseTicks,
                   stopping |-> FALSE, reason |-> "TargetReached"]
<1>1. "lease" \in DOMAIN jog /\ jog.lease \in 0..LeaseTicks
  BY CoreAssumption
<1> HIDE DEF jog
<1>2. Sound([c EXCEPT !.state = "Running", !.jog = jog])
  BY <1>1 DEF Sound, Typed, Cursor, Active, CoreFields, Jogging, States
<1> QED
  BY <1>2 DEF InitializeJog, jog

LEMMA JogUpdateOk == \A c, n : Sound(c) /\ Jogging(c) /\ n \in 0..LeaseTicks =>
    Sound([c EXCEPT !.jog.lease = n])
  BY DEF Sound, Typed, Cursor, Active, CoreFields

LEMMA LeaseCheckedOk == \A c, o : Sound(c) /\ Jogging(c) => Sound(LeaseChecked(c, o))
<1> SUFFICES ASSUME NEW c, NEW o, Sound(c), Jogging(c), c.jog.lease # 0
             PROVE  Sound(LeaseChecked(c, o))
  BY DEF LeaseChecked
<1> DEFINE ticked == [c EXCEPT !.jog.lease = @ - 1]
<1>1. c.jog.lease - 1 \in 0..LeaseTicks
  BY CoreAssumption DEF Sound, Typed
<1>2. Sound(ticked)
  BY <1>1, JogUpdateOk
<1> HIDE DEF ticked
<1> QED
  BY <1>2, BeginJogStopOk DEF LeaseChecked, ticked

LEMMA AdvanceJogOk == ASSUME NEW c, NEW o, Sound(c), Jogging(c)
    PROVE  Sound(AdvanceJog(c, o))
<1> DEFINE leased == LeaseChecked(c, o)
           ends == o.done /\ (leased.jog.stopping \/ leased.jog.kind # "Continuous")
           moved == Commit(leased, o, ~ends)
           reason == IF moved.jog.stopping THEN moved.jog.reason
                     ELSE IF moved.jog.kind = "Bounded" THEN "LimitReached"
                     ELSE "TargetReached"
           told == [moved EXCEPT !.jog.reason = reason]
<1>1. Sound(leased)
  BY LeaseCheckedOk
<1> HIDE DEF leased
<1>2. Sound(moved)
  BY <1>1, CommitOk DEF Jogging, Unmoved
<1> HIDE DEF moved
<1>3. Sound(told)
  BY <1>2 DEF Sound, Typed, Cursor, Active, CoreFields
<1> HIDE DEF told
<1>4. Sound(CompleteJog(told))
  BY <1>3, CompleteJogOk, FreeOk
<1> QED
  BY <1>1, <1>2, <1>4 DEF AdvanceJog, leased, moved, told


-----------------------------------------------------------------------------
(* Spans, activation and the branch of a chunk.                            *)

LEMMA SpansPositive == 0 \in 0..Spans /\ 0 < Spans
  BY CoreAssumption

LEMMA ApplyOk == ASSUME NEW c, Busy(c), c.span < Spans
    PROVE  LET d == ApplyScheduledEventsForCurrentSpan(c)
           IN  Served(d) /\ (d.state # "Faulted" => Unmoved(c, d))
<1> DEFINE commanded == [c EXCEPT !.spindle = "Commanded", !.event = @ + 1]
<1>1. c.event = c.span => Busy(commanded) /\ Unmoved(c, commanded)
  BY CoreAssumption
     DEF Busy, Free, Sound, Typed, Cursor, Active, CoreFields, Executing, Jogging, Unmoved
<1>2. c.event \in Int /\ c.span \in Int
  BY DEF Busy, Free, Sound, Typed
<1> HIDE DEF commanded
<1> DEFINE told == Emit(commanded, Event("SpindleApplied", c.active.id, c.event))
<1>3. c.event = c.span => Served(told) /\ Unmoved(c, told)
  BY <1>1, EmitFree DEF Busy, Served, Unmoved
<1>4. LET d == Fault(c, "InvalidExecutionState") IN Served(d) /\ d.state = "Faulted"
  BY FaultFree, FaultOk DEF Busy, Free
<1>5. Served(c) /\ Unmoved(c, c)
  BY DEF Busy, Served, Unmoved
<1> HIDE DEF told
<1> QED
  BY <1>2, <1>3, <1>4, <1>5 DEF ApplyScheduledEventsForCurrentSpan, told, commanded

LEMMA MarkersOk == ASSUME NEW c, NEW reached, Busy(c), c.span < Spans
    PROVE  LET d == EmitExecutionMarkersThrough(c, reached)
           IN  Served(d) /\ (d.state # "Faulted" => Unmoved(c, d))
<1> DEFINE marked == [c EXCEPT !.marker = @ + 1]
<1>1. c.marker = c.span => Busy(marked) /\ Unmoved(c, marked)
  BY CoreAssumption
     DEF Busy, Free, Sound, Typed, Cursor, Active, CoreFields, Executing, Jogging, Unmoved
<1>2. c.marker \in Int /\ c.span \in Int
  BY DEF Busy, Free, Sound, Typed
<1> HIDE DEF marked
<1> DEFINE told == Emit(marked, Event("ExecutionMarkerReached", c.active.id, c.marker))
<1>3. c.marker = c.span => Served(told) /\ Unmoved(c, told)
  BY <1>1, EmitFree DEF Busy, Served, Unmoved
<1>4. LET d == Fault(c, "InvalidExecutionState") IN Served(d) /\ d.state = "Faulted"
  BY FaultFree, FaultOk DEF Busy, Free
<1>5. Served(c) /\ Unmoved(c, c)
  BY DEF Busy, Served, Unmoved
<1> HIDE DEF told
<1> QED
  BY <1>2, <1>3, <1>4, <1>5 DEF EmitExecutionMarkersThrough, told, marked

LEMMA BeginSpanOk == ASSUME NEW c, NEW o, Busy(c), c.span < Spans PROVE Served(BeginSpan(c, o))
<1> DEFINE applied == ApplyScheduledEventsForCurrentSpan(c)
<1>1. Served(applied) /\ (applied.state # "Faulted" => Unmoved(c, applied))
  BY ApplyOk
<1> HIDE DEF applied
<1> QED
  BY <1>1, MarkersOk DEF BeginSpan, Served, Busy, Unmoved, applied

LEMMA InitializeTriggeredOk == ASSUME NEW c, NEW o, Free(c)
    PROVE  /\ Free(InitializeTriggered(c, o))
           /\ Executing(c) => Served(InitializeTriggered(c, o))
<1> DEFINE ready == [c EXCEPT !.triggered = "Approach"]
<1>1. Free(ready) /\ ready.state = c.state
  BY DEF Free, Sound, Typed, Cursor, Active, CoreFields, Jogging, TriggeredModes
<1> HIDE DEF ready
<1> QED
  BY <1>1, FaultFree DEF InitializeTriggered, Served, Executing, ready

\* What Accept starts from may be an item that has run out of spans.
LEMMA AcceptOk == ASSUME NEW c, NEW o, NEW item \in Items, Typed(c), ~Jogging(c), Executing(c)
    PROVE  Served(Accept(c, o, item))
<1> DEFINE taken == [c EXCEPT !.active = item, !.stopping = FALSE,
                              !.span = 0, !.event = 0, !.marker = 0]
           accepted == Emit(taken, Event("ChunkAccepted", item.id, item.epoch))
<1>1. Busy(taken) /\ taken.span = 0
  BY SpansPositive
     DEF Busy, Free, Sound, Typed, Cursor, Active, CoreFields, Executing, Jogging
<1> HIDE DEF taken
<1>2. Busy(accepted) /\ accepted.span < Spans
  BY <1>1, EmitFree, SpansPositive DEF Busy, Unmoved
<1> HIDE DEF accepted
<1>3. Served(BeginSpan(accepted, o)) /\ Served(InitializeTriggered(accepted, o))
  BY <1>2, BeginSpanOk, InitializeTriggeredOk DEF Busy
<1>4. Served(InitializeTriggeredJoints(accepted, o))
  <2> DEFINE ready == [accepted EXCEPT !.touched = {}, !.aborted = FALSE,
                           !.joints = [j \in Joints |->
                               IF j \in o.ends THEN "Finished" ELSE "Approach"]]
  <2>1. Busy(ready)
    BY <1>2 DEF Busy, Free, Sound, Typed, Cursor, Active, CoreFields, Executing, Jogging
  <2> HIDE DEF ready
  <2> QED
    BY <1>2, <2>1, FaultFree DEF InitializeTriggeredJoints, Busy, Served, ready
<1>5. item.kind \in ItemKinds
  BY DEF Items
<1> QED
  BY <1>3, <1>4, <1>5 DEF Accept, accepted, taken, ItemKinds

LEMMA PoppedOk == \A c : Typed(c) /\ c.plans # <<>> =>
    LET popped == [c EXCEPT !.plans = Tail(@)]
    IN  /\ Head(c.plans) \in Items /\ Typed(popped)
        /\ popped.state = c.state /\ popped.jog = c.jog
        /\ popped.active = c.active /\ popped.planStop = c.planStop /\ popped.span = c.span
  BY DEF Typed, CoreFields

LEMMA EmitTyped == \A c, e : Typed(c) /\ ~Jogging(c) /\ Executing(c) =>
    Typed(Emit(c, e)) /\ ~Jogging(Emit(c, e)) /\ Executing(Emit(c, e))
  BY EmitOk DEF Unmoved, Jogging, Executing

LEMMA ActivateNextOk == \A c, o : Busy(c) => Served(ActivateNext(c, o))
<1> SUFFICES ASSUME NEW c, NEW o, Busy(c), c.plans # <<>> PROVE Served(ActivateNext(c, o))
  BY DEF ActivateNext, Busy, Served
<1> DEFINE item == Head(c.plans)
           popped == [c EXCEPT !.plans = Tail(@)]
<1>1. item \in Items /\ Busy(popped)
  BY PoppedOk DEF Busy, Free, Sound, Cursor, Active, Jogging, Executing
<1> HIDE DEF item, popped
<1>2. Busy(Reject(popped, item))
  BY <1>1, EmitFree DEF Reject
<1>3. Served(Accept(FreshRuntimes(popped), o, item))
  BY <1>1, FreshOk, AcceptOk DEF Busy, Free, Sound, Jogging, Executing
<1> QED
  BY <1>2, <1>3, FaultFree DEF ActivateNext, item, popped, Busy, Served

LEMMA FinishFeedHoldOk == ASSUME NEW c, Free(c) PROVE Free(FinishFeedHold(c))
<1> DEFINE held == [c EXCEPT !.feed = "Held", !.state = "Held", !.moving = FALSE]
<1>1. Free(held)
  BY DEF Free, Sound, Typed, Cursor, Active, CoreFields, Jogging, States, Feeds
<1> HIDE DEF held
<1> QED
  BY <1>1, EmitFree DEF FinishFeedHold, BackendHeld, held

\* The chunk whose spans are all done continues, stops or faults.
LEMMA SelectOk == ASSUME NEW c, NEW o, Typed(c), ~Jogging(c), Executing(c)
    PROVE  Served(SelectContinuationOrStop(c, o))
<1> DEFINE current == c.active
           next == Head(c.plans)
           popped == [c EXCEPT !.plans = Tail(@)]
           selected(choice) == Event("BranchSelected", current.id, choice)
           ending ==
            IF c.plans # <<>>
            THEN [Reject(popped, next) EXCEPT !.tailFault = "Discontinuity"]
            ELSE IF current.policy = "ContinuationRequired"
            THEN [c EXCEPT !.tailFault = "Underrun"] ELSE c
           continued == Retire(Emit(popped, selected("Continue")), current)
           told == Emit(ending, selected("Stop"))
           stopped == [told EXCEPT !.stopping = TRUE, !.span = 0]
           Running(d) == Typed(d) /\ ~Jogging(d) /\ Executing(d)
<1>1. \A d, x : Running(d) => Running([d EXCEPT !.tailFault = x])
  BY DEF Typed, CoreFields, Executing, Jogging
<1>2. c.plans # <<>> => next \in Items /\ Running(popped)
  BY PoppedOk DEF Jogging, Executing
<1> HIDE DEF next, popped
<1>3. c.plans # <<>> => Served(Accept(continued, o, next))
  BY <1>2, EmitTyped, AcceptOk DEF Retire
<1>4. Running(ending)
  BY <1>1, <1>2, EmitTyped DEF Reject
<1> HIDE DEF ending
<1>5. Served(Fault(DiscardExecution(ending), "FeedRetimingStopBranch"))
  BY <1>4, DiscardOk, FaultFree DEF Free, Jogging
<1>6. Running(told)
  BY <1>4, EmitTyped
<1> HIDE DEF told
<1>7. Served(stopped)
  BY <1>6, SpansPositive
     DEF Served, Free, Sound, Typed, Cursor, Active, CoreFields, Executing, Jogging
<1> HIDE DEF stopped, continued
<1> QED
  BY <1>3, <1>5, <1>7
     DEF SelectContinuationOrStop, next, popped, ending, told, stopped, continued

LEMMA CompleteSpanOk == ASSUME NEW c, NEW o, Busy(c), c.span < Spans
    PROVE  Free(CompleteSpan(c, o))
<1> DEFINE next == [c EXCEPT !.span = @ + 1]
           retired == Retire(next, c.active)
           stopped == [retired EXCEPT !.moving = FALSE]
           held == BackendHeld(stopped, c.active.epoch, "StopBranch")
           Running(d) == Typed(d) /\ ~Jogging(d) /\ Executing(d)
<1>1. Running(next)
  BY CoreAssumption DEF Busy, Free, Sound, Typed, CoreFields, Executing, Jogging
<1>2. next.span < Spans => Busy(next)
  BY <1>1 DEF Busy, Free, Sound, Cursor
<1> HIDE DEF next
<1>3. Running(retired)
  BY <1>1, EmitTyped DEF Retire
<1> HIDE DEF retired
<1>4. Running(stopped)
  BY <1>3 DEF Typed, CoreFields, Executing, Jogging
<1> HIDE DEF stopped
<1>5. Running(held)
  BY <1>4, EmitTyped DEF BackendHeld
<1> HIDE DEF held
<1>6. Free([held EXCEPT !.state = "Held", !.active = NoItem])
  BY <1>5, NoItemIsItem DEF Free, Sound, Typed, Cursor, Active, CoreFields, Jogging, States
<1>7. Free(Fault(DiscardExecution(stopped), c.tailFault))
  BY <1>4, DiscardOk, FaultFree, ServedFree DEF Free, Jogging
<1>8. Free(SelectContinuationOrStop(next, o)) /\ (next.span < Spans => Free(BeginSpan(next, o)))
  BY <1>1, <1>2, SelectOk, BeginSpanOk, ServedFree
<1> QED
  BY <1>6, <1>7, <1>8 DEF CompleteSpan, MoreSpans, next, retired, stopped, held

LEMMA AdvancePlanOk == ASSUME NEW c, NEW o, Busy(c), Active(c), c.planStop = "None"
    PROVE  Free(AdvancePlan(c, o))
<1> DEFINE rated == IF c.feed = "Resuming" /\ o.settled
                    THEN [c EXCEPT !.feed = "None"] ELSE c
           moved == Commit(rated, o, o.moves)
           marked == EmitExecutionMarkersThrough(moved, o.reached \/ o.done)
           advanced == IF o.done THEN CompleteSpan(marked, o) ELSE marked
<1>1. Busy(rated) /\ rated.span < Spans
  BY DEF Busy, Free, Sound, Typed, Cursor, Active, CoreFields, Executing, Jogging, Feeds
<1> HIDE DEF rated
<1>2. Free(moved) /\ (o.trouble # "Limit" => Busy(moved) /\ moved.span < Spans)
  BY <1>1, CommitFree DEF Busy, Unmoved
<1> HIDE DEF moved
<1>3. o.trouble # "Limit" =>
        Served(marked) /\ (marked.state # "Faulted" => marked.span < Spans)
  BY <1>2, MarkersOk DEF Unmoved
<1> HIDE DEF marked
<1>4. o.trouble # "Limit" /\ marked.state # "Faulted" => Free(advanced)
  BY <1>3, CompleteSpanOk DEF Served, Busy
<1> HIDE DEF advanced
<1>5. o.trouble # "Limit" /\ marked.state # "Faulted" => Free(FinishFeedHold(advanced))
  BY <1>4, FinishFeedHoldOk
<1>6. Free(Fault(c, "FeedRetiming"))
  BY FaultFree, ServedFree DEF Busy
<1> QED
  BY <1>2, <1>3, <1>4, <1>5, <1>6, ServedFree
     DEF AdvancePlan, rated, moved, marked, advanced

-----------------------------------------------------------------------------
(* The controlled stop of a chunk, and triggered moves.                    *)

LEMMA HeldWithoutItem == \A c : Free(c) => Free([c EXCEPT !.state = "Held", !.active = NoItem])
  BY NoItemIsItem DEF Free, Sound, Typed, Cursor, Active, CoreFields, Jogging, States

LEMMA CompletePlanStopOk == ASSUME NEW c, Free(c) PROVE Free(CompletePlanStop(c))
<1> DEFINE stopped(retirements) ==
               [StopEpoch(c) EXCEPT !.active = NoItem, !.plans = <<>>,
                                    !.planStop = "None", !.stopping = FALSE,
                                    !.span = 0, !.event = 0, !.marker = 0,
                                    !.state = "Held", !.out = @ \o retirements]
<1>1. ASSUME NEW r PROVE Free(stopped(r))
  <2>1. c.active.epoch \in Epochs
    BY DEF Free, Sound, Typed, Items, Epochs
  <2> QED
    BY <2>1, NoItems, NoItemIsItem, SpansPositive
       DEF StopEpoch, Free, Sound, Typed, Cursor, Active, CoreFields, Jogging, States, PlanStops
<1> HIDE DEF stopped
<1> QED
  BY <1>1, EmitFree DEF CompletePlanStop, BackendHeld, stopped

LEMMA AdvancePlanStopOk == \A c, o : Free(c) => Free(AdvancePlanStop(c, o))
  BY CommitFree, CompletePlanStopOk DEF AdvancePlanStop

LEMMA TriggeredModeOk == \A c, mode : Free(c) /\ mode \in TriggeredModes =>
    Free(BeginTriggeredStop(c, mode))
  BY DEF Free, Sound, Typed, Cursor, Active, CoreFields, Jogging, BeginTriggeredStop

LEMMA RetimingFree == \A c : Free(c) => Free(ResetFeedRetiming(c))
  BY RetimingReset DEF Free, Sound, Cursor, Active, Unmoved, Jogging

LEMMA CompleteTriggeredOk == \A c, status : Free(c) => Free(CompleteTriggered(c, status))
  BY HeldWithoutItem, RetimingFree, EmitFree DEF CompleteTriggered, Retire, BackendHeld

LEMMA AdvanceTriggeredOk == ASSUME NEW c, NEW o, Free(c) PROVE Free(AdvanceTriggered(c, o))
<1> DEFINE triggers == o.hits # {} /\ c.triggered \in {"Approach", "HoldStop"}
           armed == IF triggers THEN BeginTriggeredStop(c, "TriggerStop") ELSE c
           stopping == armed.triggered # "Approach"
           finished == o.done \/ (stopping /\ ~c.moving)
           moved == Commit(armed, o, ~finished)
           completed == CASE armed.triggered = "Approach" ->
                               CompleteTriggered(moved, "ReachedTarget")
                          [] armed.triggered = "HoldStop" -> FinishTriggeredFeedHold(moved)
                          [] armed.triggered = "TriggerStop" ->
                               CompleteTriggered(moved, "Triggered")
                          [] armed.triggered = "AbortStop" ->
                               CompleteTriggered(moved, "Aborted")
<1>1. Free(armed)
  BY TriggeredModeOk DEF TriggeredModes
<1> HIDE DEF armed
<1>2. Free(moved)
  BY <1>1, CommitFree
<1> HIDE DEF moved
<1>3. Free(FinishTriggeredFeedHold(moved))
  BY <1>2, TriggeredModeOk, FinishFeedHoldOk
     DEF FinishTriggeredFeedHold, BeginTriggeredStop, TriggeredModes
<1>4. armed.triggered \in TriggeredModes
  BY <1>1 DEF Free, Sound, Typed
<1>5. Free(completed)
  BY <1>2, <1>3, <1>4, CompleteTriggeredOk DEF TriggeredModes
<1> QED
  BY <1>1, <1>2, <1>5, FaultFree, ServedFree DEF AdvanceTriggered, armed, moved

LEMMA CompleteJointsOk == \A c : Free(c) => Free(CompleteTriggeredJoints(c))
  BY HeldWithoutItem, DiscardFree, FaultFree, ServedFree, EmitFree
     DEF CompleteTriggeredJoints, Retire, BackendHeld

LEMMA JointsUpdateOk == \A c, x, y :
    Free(c) => Free([c EXCEPT !.joints = x, !.touched = y]) /\ Free([c EXCEPT !.touched = y])
  BY DEF Free, Sound, Typed, Cursor, Active, CoreFields, Jogging

LEMMA AdvanceJointsOk == ASSUME NEW c, NEW o, Free(c) PROVE Free(AdvanceTriggeredJoints(c, o))
<1>1. Free(CheckTriggersAtStart(c, o))
  BY JointsUpdateOk, CompleteJointsOk, FaultFree, ServedFree DEF CheckTriggersAtStart
<1> DEFINE hit == {j \in TriggerJoints(c.active) \intersect o.hits : c.joints[j] = "Approach"}
           stopped(j) == IF c.joints[j] = "Finished" \/ j \in o.ends THEN "Finished"
                         ELSE IF j \in hit THEN "Stopping" ELSE c.joints[j]
           advanced == [c EXCEPT !.joints = [j \in Joints |-> stopped(j)],
                                 !.touched = @ \union hit]
           finished == \A j \in Joints : stopped(j) = "Finished"
           moved == Commit(advanced, o, ~finished)
<1>2. Free(advanced)
  BY JointsUpdateOk
<1> HIDE DEF advanced
<1>3. Free(moved) /\ Free(CompleteTriggeredJoints(moved))
  BY <1>2, CommitFree, CompleteJointsOk
<1> HIDE DEF moved
<1> QED
  BY <1>1, <1>3, FaultFree, ServedFree DEF AdvanceTriggeredJoints, moved, advanced

LEMMA AdvanceActiveOk == ASSUME NEW c, NEW o, Busy(c), Active(c) PROVE Free(AdvanceActive(c, o))
<1>1. c.active.kind \in ItemKinds
  BY DEF Busy, Free, Sound, Typed, Items
<1> QED
  BY <1>1, AdvancePlanOk, AdvancePlanStopOk, AdvanceTriggeredOk, AdvanceJointsOk
     DEF AdvanceActive, Busy, ItemKinds

-----------------------------------------------------------------------------
(* Controls, and the convergence to a demand.                              *)

LEMMA DisableOk == ASSUME NEW c, NEW o, Sound(c) PROVE Free(Disable(c, o))
<1> DEFINE dropped == DiscardExecution(AbandonJog(c, o, "Disabled"))
<1>1. Free(dropped)
  BY AbandonJogOk, DiscardFree
<1> HIDE DEF dropped
<1> QED
  BY <1>1 DEF Disable, Free, Sound, Typed, Cursor, Active, CoreFields, Jogging, States, dropped

LEMMA ResetOk == ASSUME NEW c, NEW o, NEW epoch \in Epochs, Sound(c)
    PROVE  Free(Reset(c, o, epoch))
<1> DEFINE dropped == DiscardExecution(AbandonJog(c, o, "Aborted"))
<1>1. Free(dropped)
  BY AbandonJogOk, DiscardFree
<1>2. 0 \in Epochs
  BY SessionAssumption DEF Epochs
<1> HIDE DEF dropped
<1> QED
  BY <1>1, <1>2
     DEF Reset, Free, Sound, Typed, Cursor, Active, CoreFields, Jogging, States, dropped

LEMMA EnableOk == \A c : Sound(c) => Sound(Enable(c))
  BY DEF Enable, Sound, Typed, Cursor, Active, CoreFields, Jogging, States

LEMMA RunningOk == \A c : Free(c) =>
    Free([c EXCEPT !.state = "Running", !.safeOutputs = FALSE])
  BY DEF Free, Sound, Typed, Cursor, Active, CoreFields, Jogging, States

LEMMA StartOk == \A c, epoch : Sound(c) => Sound(Start(c, epoch))
<1> SUFFICES ASSUME NEW c, NEW epoch, Sound(c), EpochMayRun(c, epoch)
             PROVE  Sound(Start(c, epoch))
  BY DEF Start
<1> QED
  BY RetimingFree, RunningOk, FreeOk DEF Start, EpochMayRun, Free

LEMMA ResumeOk == \A c, o, epoch, queued :
    Sound(c) => Sound(Resume(c, o, epoch, queued))
<1> SUFFICES ASSUME NEW c, NEW o, NEW epoch, NEW queued,
                    Sound(c), EpochMayRun(c, epoch)
             PROVE  Sound(Resume(c, o, epoch, queued))
  BY DEF Resume
<1> DEFINE running == [c EXCEPT !.state = "Running", !.safeOutputs = FALSE]
<1>1. Free(running)
  BY RunningOk DEF Free, EpochMayRun
<1>2. c.active.kind \in ItemKinds
  BY DEF Sound, Typed, Items
<1> HIDE DEF running
<1>3. Free(ResumeChunk(running))
  BY <1>1 DEF Free, Sound, Typed, Cursor, Active, CoreFields, Jogging, Feeds, ResumeChunk
<1> QED
  BY <1>1, <1>2, <1>3, InitializeTriggeredOk, RetimingFree, FreeOk
     DEF Resume, running, ItemKinds

LEMMA FeedHoldOk == \A c, o : Sound(c) => Sound(FeedHold(c, o))
<1> SUFFICES ASSUME NEW c, NEW o, Sound(c), c.state = "Running", ~Jogging(c)
             PROVE  Sound(FeedHold(c, o))
  BY DEF FeedHold
<1> DEFINE holding == [c EXCEPT !.feed = "Holding", !.state = "Holding"]
<1>1. Free(c) /\ Free(holding)
  BY DEF Free, Sound, Typed, Cursor, Active, CoreFields, Jogging, States, Feeds
<1>2. c.active.kind \in ItemKinds
  BY DEF Sound, Typed, Items
<1> HIDE DEF holding
<1>3. Free(BeginTriggeredStop(c, "HoldStop")) /\ Free(BeginTriggeredStop(holding, "HoldStop"))
  BY <1>1, TriggeredModeOk DEF TriggeredModes
<1> QED
  BY <1>1, <1>2, <1>3, FreeOk DEF FeedHold, holding, ItemKinds

LEMMA ControlledStopOk == \A c, o : Sound(c) => Sound(ControlledStop(c, o))
<1> SUFFICES ASSUME NEW c, NEW o, Sound(c), ~Jogging(c)
             PROVE  Sound(ControlledStop(c, o))
  BY BeginJogStopOk DEF ControlledStop
<1>1. Free(c) /\ c.active.kind \in ItemKinds
  BY DEF Free, Sound, Typed, Items
<1>2. \A d : Free(d) => Free([d EXCEPT !.state = "Holding"])
  BY DEF Free, Sound, Typed, Cursor, Active, CoreFields, Jogging, States
<1>3. Free(StopChunk(c, o))
  <2>1. Free(BeginPlanStop(c, o))
    BY <1>1
       DEF BeginPlanStop, Free, Sound, Typed, Cursor, Active, CoreFields, Jogging, PlanStops
  <2> QED
    BY <1>1, <1>2, <2>1, RetimingFree DEF StopChunk
<1>4. Free(StopTriggered(c, o))
  <2>1. Free(BeginTriggeredStop(c, "AbortStop"))
    BY <1>1, TriggeredModeOk DEF TriggeredModes
  <2> QED
    BY <1>1, <1>2, <2>1, RetimingFree, FaultFree, ServedFree DEF StopTriggered
<1>5. Free(StopTriggeredJoints(c, o))
  <2> DEFINE braking == [c EXCEPT !.aborted = TRUE,
                             !.joints = [j \in Joints |->
                                 IF c.joints[j] = "Approach"
                                 THEN "Stopping" ELSE c.joints[j]]]
  <2>1. Free(braking)
    BY <1>1 DEF Free, Sound, Typed, Cursor, Active, CoreFields, Jogging
  <2> HIDE DEF braking
  <2> QED
    BY <1>2, <2>1, FaultFree, ServedFree DEF StopTriggeredJoints, braking
<1> QED
  BY <1>1, <1>3, <1>4, <1>5, FreeOk DEF ControlledStop, ItemKinds

LEMMA BeginDemandStopOk == \A c, o : Sound(c) => Sound(BeginDemandStop(c, o))
<1> SUFFICES ASSUME NEW c, NEW o, Sound(c), ~Jogging(c), ~Active(c)
             PROVE  Sound(BeginDemandStop(c, o))
  BY BeginJogStopOk, ControlledStopOk DEF BeginDemandStop
<1> DEFINE dropped == DiscardExecution(c)
           stopped == [dropped EXCEPT !.stoppedEpoch = c.demand.epoch, !.state = "Held",
                         !.safeOutputs = TRUE, !.spindle = "Safe"]
<1>1. Free(dropped)
  BY DiscardFree DEF Free
<1>2. c.demand.epoch \in Epochs
  BY DEF Sound, Typed, Demands
<1> HIDE DEF dropped
<1>3. Free(stopped)
  BY <1>1, <1>2 DEF Free, Sound, Typed, Cursor, Active, CoreFields, Jogging, States
<1> HIDE DEF stopped
<1> QED
  BY <1>3, EmitFree, FreeOk DEF BeginDemandStop, BackendHeld, stopped, dropped

LEMMA PrepareOk == ASSUME NEW c, NEW o, Sound(c) PROVE Sound(Prepare(c, o))
<1>1. Sound(Reset(c, o, c.demand.epoch))
  BY ResetOk, FreeOk DEF Sound, Typed, Demands
<1> QED
  BY <1>1, EnableOk DEF Prepare

LEMMA ConvergeDemandOk == ASSUME NEW c, NEW o, NEW pending, Sound(c)
    PROVE  Sound(ConvergeDemand(c, o, pending))
<1>1. c.demand.mode \in Modes
  BY DEF Sound, Typed, Demands
<1>2. \A d : Sound(d) => Sound(RejectDemand(d))
  BY DEF Sound, Typed, Cursor, Active, CoreFields, RejectDemand
<1>3. Sound(ConvergeRun(c, o, pending))
  BY <1>2, PrepareOk, ResumeOk, StartOk DEF ConvergeRun
<1>4. Sound(ConvergeFeedHold(c, o))
  <2> DEFINE held == [c EXCEPT !.state = "Held"]
  <2>1. c.state = "Running" => Sound(held)
    BY DEF Sound, Typed, Cursor, Active, CoreFields, Jogging, States
  <2>2. c.state = "Running" => Sound(ResetFeedRetiming(held))
                               /\ ResetFeedRetiming(held).state = "Held"
    <3>1. c.state = "Running" => held.state = "Held"
      BY DEF Sound, Typed, CoreFields
    <3> HIDE DEF held
    <3> QED
      BY <2>1, <3>1, RetimingReset DEF Sound, Cursor, Active, Unmoved
  <2> HIDE DEF held
  <2>3. c.state = "Running" =>
          Sound(BackendHeld(ResetFeedRetiming(held), c.epoch, "FeedHold"))
    BY <2>2, EmitOk DEF BackendHeld
  <2> QED
    BY <1>2, <2>3, FeedHoldOk DEF ConvergeFeedHold, held
<1>5. Sound(ConvergeStop(c, o, pending))
  <2>1. Sound(DiscardExecution(c))
    BY DiscardOk DEF Sound
  <2> QED
    BY <1>2, <2>1, BeginDemandStopOk DEF ConvergeStop
<1>6. Sound(ConvergeDisabled(c, o))
  BY BeginDemandStopOk, DisableOk, FreeOk DEF ConvergeDisabled
<1>7. Sound(Prepare(c, o))
  BY PrepareOk
<1> QED
  BY <1>1, <1>3, <1>4, <1>5, <1>6, <1>7 DEF ConvergeDemand, Modes

ControlTypes == LifecycleControls \union
    {"SetJointPosition", "StartJog", "RenewJogLease", "SetContinuousJogVelocity", "StopJog"}

LEMMA ServiceControlOk == ASSUME NEW c, NEW o, NEW request,
                                 Sound(c), request.type \in ControlTypes
    PROVE  Sound(ServiceControl(c, o, request))
<1>1. \A d, b : Sound(d) => Sound(RequestCompleted(d, request, b))
  BY EmitOk DEF RequestCompleted
<1>2. Sound(SetJointPosition(c))
  BY DEF SetJointPosition, Sound, Typed, Cursor, Active, CoreFields
<1>3. Jogging(c) => Sound(RenewJogLease(c)) /\ Sound(SetContinuousJogVelocity(c, o))
  BY JogUpdateOk, CoreAssumption DEF RenewJogLease, SetContinuousJogVelocity
<1> QED
  BY <1>1, <1>2, <1>3, InitializeJogOk, BeginJogStopOk
     DEF ServiceControl, ControlTypes, JogControllable

LEMMA ServiceDemandOk == \A c, demand :
    Sound(c) /\ demand \in Demands => Sound(ServiceDemand(c, demand))
  BY DEF ServiceDemand, Sound, Typed, Cursor, Active, CoreFields

LEMMA LatchOk == ASSUME NEW c, NEW o, Sound(c) PROVE Free(LatchEmergencyStop(c, o))
<1> DEFINE abandoned == AbandonJog(DiscardExecution(c), o, "Aborted")
           standing == [abandoned EXCEPT !.moving = FALSE]
<1>1. Free(abandoned)
  BY AbandonJogOk, DiscardOk DEF Sound
<1> HIDE DEF abandoned
<1>2. Free(standing)
  BY <1>1 DEF Free, Sound, Typed, Cursor, Active, CoreFields, Jogging
<1> HIDE DEF standing
<1> QED
  BY <1>2, FaultFree, ServedFree DEF LatchEmergencyStop, standing, abandoned

LEMMA ResetEmergencyStopOk == \A c : Sound(c) => Sound(ResetEmergencyStop(c))
  BY DEF ResetEmergencyStop, Sound, Typed, Cursor, Active, CoreFields, States

\* What a step leaves in core is what the operator returned, its events taken.
LEMMA StepOk == \A c :
    /\ Sound(c) => Sound([c EXCEPT !.out = <<>>])
    /\ Sound(c) => /\ [c EXCEPT !.out = <<>>].state = c.state
                   /\ [c EXCEPT !.out = <<>>].jog = c.jog
                   /\ [c EXCEPT !.out = <<>>].active = c.active
                   /\ [c EXCEPT !.out = <<>>].marker = c.marker
                   /\ [c EXCEPT !.out = <<>>].spindle = c.spindle
                   /\ [c EXCEPT !.out = <<>>].out = <<>>
  BY DEF Sound, Typed, Cursor, Active, CoreFields, Jogging

-----------------------------------------------------------------------------
(* The session's counters and messages, and the invariant of the servo     *)
(* tick: what a phase relies on is still true when it is entered.          *)

PlanRecords == [type : {"Plan"}, item : Items]
Controls == [id : Nat, type : ControlTypes, jog : Nat, kind : JogKinds \union {"Incremental"}]
CounterFields == {"generation", "epoch", "epochs", "item", "request"}

\* Every epoch in use was announced by a demand of its own.
Counting(s) ==
    /\ CounterFields \subseteq DOMAIN s
    /\ s.generation \in 1..MaxGeneration
    /\ s.epochs \in Nat /\ s.epochs + 1 <= s.generation
    /\ s.epoch \in Epochs
    /\ s.item \in 0..MaxItems /\ s.request \in Nat

SessionTypes ==
    /\ mailbox \in Demands
    /\ reserved \in Items
    /\ ingress \in Seq(PlanRecords \union Controls)
    /\ Counting(session)

Ticking ==
    /\ Sound(core) /\ core.out = <<>>
    /\ phase \in Phases /\ latched \in BOOLEAN /\ ioFault \in BOOLEAN
    /\ phase \in {"execute", "advance"} => Executing(core)
    /\ phase = "advance" => ~Jogging(core) /\ Active(core)
    /\ ioFault => phase = "idle"

LEMMA NoDemandIsDemand == NoDemand \in Demands
  BY SessionAssumption DEF NoDemand, Demands, Modes, Epochs

LEMMA InitInv == ASSUME Init PROVE SessionTypes /\ Ticking
<1>1. SessionTypes
  <2>1. ingress \in Seq(PlanRecords \union Controls)
    BY DEF Init
  <2>2. mailbox \in Demands
    BY SessionAssumption DEF Init, Demands, Epochs, Modes
  <2>3. Counting(session)
    BY SessionAssumption DEF Init, Counting, CounterFields, Epochs
  <2> QED
    BY <2>1, <2>2, <2>3, NoItemIsItem DEF Init, SessionTypes
<1>2. Sound(core)
  <2>1. core.epoch \in Epochs /\ core.stoppedEpoch \in Epochs
    BY SessionAssumption DEF Init, InitialCore, Epochs
  <2>2. "lease" \in DOMAIN core.jog /\ core.jog.lease \in 0..LeaseTicks
    BY NoJogTyped DEF Init, InitialCore
  <2> QED
    BY <2>1, <2>2, NoItems, NoItemIsItem, NoDemandIsDemand, SpansPositive
       DEF Init, InitialCore, Sound, Typed, Cursor, Active, CoreFields, States,
           TriggeredModes, PlanStops, Feeds
<1>3. ~Jogging(core) /\ core.out = <<>>
  BY DEF Init, InitialCore, Jogging
<1> QED
  BY <1>1, <1>2, <1>3 DEF Init, Ticking, Phases

LEMMA HeadControl == ASSUME SessionTypes, ingress # <<>>
    PROVE  /\ Tail(ingress) \in Seq(PlanRecords \union Controls)
           /\ IsPlan(Head(ingress)) => Head(ingress).item \in Items
           /\ ~IsPlan(Head(ingress)) => Head(ingress).type \in ControlTypes
<1>1. /\ Tail(ingress) \in Seq(PlanRecords \union Controls)
      /\ Head(ingress) \in PlanRecords \union Controls
  BY DEF SessionTypes
<1>2. \A r \in PlanRecords \union Controls :
         /\ IsPlan(r) => r.item \in Items
         /\ ~IsPlan(r) => r.type \in ControlTypes
  BY DEF PlanRecords, Controls, IsPlan, ControlTypes, LifecycleControls
<1> QED
  BY <1>1, <1>2

\* A demand that is published counts one generation up.
LEMMA Published == ASSUME SessionTypes, NEW mode, NEW epoch \in Epochs,
                          PublishDemand(mode, epoch)
                   PROVE  /\ mailbox' \in Demands /\ mode \in Modes
                          /\ session.generation + 1 \in 1..MaxGeneration
                          /\ UNCHANGED <<reserved, ingress>>
<1>1. session.generation + 1 \in 1..MaxGeneration
  BY SessionAssumption DEF PublishDemand, SessionTypes, Counting
<1>2. mode \in Modes /\ UNCHANGED <<reserved, ingress>>
  BY SessionAssumption DEF PublishDemand
<1>3. mailbox' = [generation |-> session.generation + 1, mode |-> mode, epoch |-> epoch]
  BY DEF PublishDemand
<1>4. session.generation + 1 \in 0..MaxGeneration
  BY <1>1, SessionAssumption
<1> QED
  BY <1>1, <1>2, <1>3, <1>4 DEF Demands

\* The epoch after the last one is still within the bound on generations.
LEMMA NextEpoch == SessionTypes => session.epochs + 1 \in Epochs /\ 0 \in Epochs
  BY SessionAssumption DEF SessionTypes, Counting, Epochs

LEMMA NextSessionTypes == ASSUME SessionTypes, [Next]_vars PROVE SessionTypes'
<1> DEFINE Records == Seq(PlanRecords \union Controls)
<1>0. mailbox \in Demands /\ reserved \in Items /\ ingress \in Records /\ Counting(session)
  BY DEF SessionTypes
<1>1. CASE UNCHANGED vars
  BY <1>0, <1>1 DEF vars, SessionTypes
<1>2. CASE ServoThread \/ Host
  <2>1. CASE IngressPlan \/ IngressControl
    BY <1>0, <2>1, HeadControl DEF IngressPlan, IngressControl, SessionTypes
  <2>2. CASE TickBegins \/ IngressEnds \/ NotReady \/ ExecuteJog \/ ExecuteItem \/ Advance
    BY <1>0, <2>2, NoDemandIsDemand
       DEF TickBegins, IngressEnds, NotReady, ExecuteJog, ExecuteJogStep, ExecuteItem,
           Advance, AdvanceStep, SessionTypes
  <2>3. CASE Host
    <3>1. <<>> \in Records
      OBVIOUS
    <3> HIDE DEF Records
    <3> QED
      BY <1>0, <2>3, <3>1
         DEF Host, EmergencyStopLatches, EmergencyStopResets, IoFaults, DeadlineMissed,
             Records, SessionTypes
  <2> QED
    BY <1>2, <2>1, <2>2, <2>3 DEF ServoThread
<1>3. CASE ReserveItem
  <2>1. PICK kind \in Kinds :
          reserved' = [id |-> session.item + 1, epoch |-> session.epoch,
                       kind |-> kind[1], policy |-> kind[2],
                       predecessor |-> IF session.itemEpoch = session.epoch
                                       THEN session.item ELSE 0]
    BY <1>3 DEF ReserveItem
  <2>2. kind[1] \in ItemKinds /\ kind[2] \in Policies
    BY SessionAssumption
  <2>3. session.item + 1 \in 0..MaxItems
    BY <1>0, <1>3, SessionAssumption DEF ReserveItem, Counting
  <2>4. reserved' \in Items
    BY <1>0, <2>1, <2>2, <2>3, SessionAssumption DEF Items, Counting, Epochs
  <2>5. Counting(session')
    BY <1>0, <1>3, <2>3 DEF ReserveItem, Counting, CounterFields
  <2> QED
    BY <1>0, <1>3, <2>4, <2>5 DEF ReserveItem, SessionTypes
<1>4. CASE EnqueueItem
  <2>1. [type |-> "Plan", item |-> reserved] \in PlanRecords
    BY <1>0 DEF PlanRecords
  <2>2. ingress' \in Records
    BY <1>0, <1>4, <2>1 DEF EnqueueItem
  <2> QED
    BY <1>0, <1>4, <2>2, NoItemIsItem DEF EnqueueItem, SessionTypes
<1>5. CASE SubmitControl
  <2>1. PICK request \in Requests :
          /\ ingress' = Append(ingress, request)
          /\ session' = [session EXCEPT
                !.request = request.id,
                !.setup = IF request.type = "SetJointPosition"
                          THEN request.id ELSE @,
                !.jogged = @ \/ request.type = "StartJog"]
    BY <1>5 DEF SubmitControl
  <2>2. request \in Controls
    <3>1. \A type, kind : [id |-> session.request + 1, type |-> type,
                                jog |-> session.epoch, kind |-> kind] \in
             [id : Nat, type : {type}, jog : Nat, kind : {kind}]
      BY <1>0, SessionAssumption DEF Counting, Epochs
    <3> QED
      BY <3>1 DEF Requests, Controls, ControlTypes
  <2>3. ingress' \in Records
    BY <1>0, <2>1, <2>2
  <2>4. Counting(session')
    BY <1>0, <2>1, <2>2 DEF Counting, CounterFields, Controls
  <2> QED
    BY <1>0, <1>5, <2>3, <2>4 DEF SubmitControl, SessionTypes
<1>6. CASE ContinueOperation
  <2>1. PICK mode : /\ PublishDemand(mode, session.epoch)
                    /\ session' = [session EXCEPT !.generation = @ + 1, !.mode = mode]
    BY <1>6 DEF ContinueOperation
  <2>2. /\ mailbox' \in Demands /\ UNCHANGED <<reserved, ingress>>
        /\ session.generation + 1 \in 1..MaxGeneration
    BY <1>0, <2>1, Published DEF Counting
  <2>3. Counting(session')
    BY <1>0, <2>1, <2>2 DEF Counting, CounterFields
  <2> QED
    BY <1>0, <2>2, <2>3 DEF SessionTypes
<1>7. CASE BeginOperation
  <2>1. PICK operation \in Operations :
          /\ PublishDemand(FirstMode(operation), session.epochs + 1)
          /\ session' = [session EXCEPT
                !.generation = @ + 1, !.mode = FirstMode(operation),
                !.operation = operation,
                !.epoch = session.epochs + 1, !.epochs = @ + 1,
                !.setup = 0, !.jogged = FALSE]
    BY <1>7 DEF BeginOperation
  <2>2. /\ mailbox' \in Demands /\ UNCHANGED <<reserved, ingress>>
        /\ session.generation + 1 \in 1..MaxGeneration
    BY <2>1, NextEpoch, Published
  <2>3. Counting(session')
    BY <1>0, <2>1, <2>2, NextEpoch DEF Counting, CounterFields
  <2> QED
    BY <1>0, <2>2, <2>3 DEF SessionTypes
<1>8. CASE SwitchPower
  <2> DEFINE mode == IF session.mode = "Disabled" THEN "Idle" ELSE "Disabled"
             epoch == IF mode = "Disabled" THEN 0 ELSE session.epochs + 1
  <2>1. /\ PublishDemand(mode, epoch)
        /\ session' = [session EXCEPT !.generation = @ + 1, !.mode = mode,
                                      !.operation = "None", !.epoch = epoch]
    BY <1>8 DEF SwitchPower
  <2>2. epoch \in Epochs
    BY NextEpoch
  <2> HIDE DEF mode, epoch
  <2>3. /\ mailbox' \in Demands /\ UNCHANGED <<reserved, ingress>>
        /\ session.generation + 1 \in 1..MaxGeneration
    BY <2>1, <2>2, Published
  <2>4. Counting(session')
    BY <1>0, <2>1, <2>2, <2>3 DEF Counting, CounterFields
  <2> QED
    BY <1>0, <2>3, <2>4 DEF SessionTypes
<1> QED
  BY <1>1, <1>2, <1>3, <1>4, <1>5, <1>6, <1>7, <1>8 DEF Next, Session

\* Whatever the hosting runtime reports, it calls the same function.
LEMMA HostFault == IoFaults \/ DeadlineMissed => \E code : Step(Fault(core, code))
  BY DEF IoFaults, DeadlineMissed, ReportHostFault

LEMMA NextTicking == ASSUME SessionTypes, Ticking, [Next]_vars PROVE Ticking'
<1>1. ASSUME NEW next, Step(next), Sound(next)
      PROVE  /\ Sound(core')
             /\ core'.state = next.state /\ core'.jog = next.jog
             /\ core'.out = <<>>
  <2>1. core' = [next EXCEPT !.out = <<>>]
    BY <1>1 DEF Step
  <2> QED
    BY <1>1, <2>1, StepOk
<1>2. CASE TickBegins
  <2>1. PICK o \in ControlOutcomes :
          Step(ConvergeDemand(IF mailbox = NoDemand THEN core
                              ELSE ServiceDemand(core, mailbox), o, Pending))
    BY <1>2 DEF TickBegins
  <2> DEFINE demanded == IF mailbox = NoDemand THEN core ELSE ServiceDemand(core, mailbox)
  <2>2. Sound(demanded)
    BY ServiceDemandOk DEF Ticking, SessionTypes
  <2> HIDE DEF demanded
  <2>3. Sound(ConvergeDemand(demanded, o, Pending))
    BY <2>2, ConvergeDemandOk
  <2>4. Sound(core') /\ core'.out = <<>>
    BY <1>1, <1>2, <2>1, <2>3 DEF TickBegins, demanded
  <2> QED
    BY <1>2, <2>4 DEF TickBegins, Ticking, Phases
<1>3. CASE IngressPlan
  <2>1. Head(ingress).item \in Items
    BY <1>3, HeadControl DEF IngressPlan
  <2>2. core' = [core EXCEPT !.plans = Append(@, Head(ingress).item)]
    BY <1>3 DEF IngressPlan
  <2>3. Sound(core') /\ core'.out = <<>>
    BY <2>1, <2>2 DEF Ticking, Sound, Typed, Cursor, Active, CoreFields
  <2> QED
    BY <1>3, <2>3 DEF IngressPlan, Ticking, Phases
<1>4. CASE IngressControl
  <2>1. PICK o \in ControlOutcomes : Step(ServiceControl(core, o, Head(ingress)))
    BY <1>4 DEF IngressControl
  <2>2. Sound(ServiceControl(core, o, Head(ingress)))
    BY <1>4, HeadControl, ServiceControlOk DEF IngressControl, Ticking
  <2>3. Sound(core') /\ core'.out = <<>>
    BY <1>1, <1>4, <2>1, <2>2 DEF IngressControl
  <2> QED
    BY <1>4, <2>3 DEF IngressControl, Ticking, Phases
<1>5. CASE IngressEnds
  <2>1. PICK o \in ControlOutcomes : Step(ConvergeDemand(core, o, Pending))
    BY <1>5 DEF IngressEnds
  <2>2. Sound(ConvergeDemand(core, o, Pending))
    BY ConvergeDemandOk DEF Ticking
  <2>3. Sound(core') /\ core'.out = <<>>
    BY <1>1, <1>5, <2>1, <2>2 DEF IngressEnds
  <2> QED
    BY <1>5, <2>3 DEF IngressEnds, Ticking, Phases
<1>6. CASE NotReady
  BY <1>6 DEF NotReady, Ticking, Phases
<1>7. CASE ExecuteJog
  <2>1. PICK o \in JogOutcomes : Step(AdvanceJog(core, o))
    BY <1>7 DEF ExecuteJog, ExecuteJogStep
  <2>2. Sound(AdvanceJog(core, o))
    BY <1>7, AdvanceJogOk DEF ExecuteJog, ExecuteJogStep, Ticking
  <2>3. Sound(core') /\ core'.out = <<>>
    BY <1>1, <1>7, <2>1, <2>2 DEF ExecuteJog, ExecuteJogStep
  <2> QED
    BY <1>7, <2>3 DEF ExecuteJog, ExecuteJogStep, Ticking, Phases
<1>8. CASE ExecuteItem
  <2>1. Busy(core)
    BY <1>8 DEF ExecuteItem, Ticking, Busy, Free
  <2>2. Sound(core') /\ ~Jogging(core') /\ core'.out = <<>>
    <3>1. CASE UNCHANGED core
      BY <1>8, <2>1, <3>1, FreeOk DEF ExecuteItem, Busy, Free, Ticking
    <3>2. ASSUME NEW o \in ActivationOutcomes, Step(ActivateNext(core, o))
          PROVE  Sound(core') /\ ~Jogging(core') /\ core'.out = <<>>
      <4>1. Free(ActivateNext(core, o))
        BY <2>1, ActivateNextOk, ServedFree
      <4> QED
        BY <1>1, <1>8, <3>2, <4>1, FreeOk DEF ExecuteItem, Free, Jogging
    <3> QED
      BY <1>8, <3>1, <3>2 DEF ExecuteItem
  <2> QED
    BY <1>8, <2>2 DEF ExecuteItem, Ticking, Phases
<1>9. CASE Advance
  <2>1. PICK o \in AdvanceOutcomes : AdvanceStep(o)
    BY <1>9 DEF Advance
  <2>2. Busy(core) /\ Active(core)
    BY <1>9 DEF Advance, Ticking, Busy, Free
  <2>3. Free(AdvanceActive(core, o))
    BY <2>2, AdvanceActiveOk
  <2>4. Sound(core') /\ ~Jogging(core') /\ core'.out = <<>>
    BY <1>1, <2>1, <2>3, FreeOk DEF AdvanceStep, Free, Jogging
  <2> QED
    BY <1>9, <2>1, <2>4 DEF Advance, AdvanceStep, Ticking, Phases
<1>10. CASE EmergencyStopLatches
  <2> DEFINE latchedCore == LatchEmergencyStop(core, [trouble |-> "None"])
  <2>1. core' = [latchedCore EXCEPT !.out = <<>>]
    BY <1>10 DEF EmergencyStopLatches
  <2>2. Sound(latchedCore)
    BY LatchOk, FreeOk DEF Ticking
  <2> HIDE DEF latchedCore
  <2>3. Sound(core') /\ core'.out = <<>>
    BY <2>1, <2>2, StepOk
  <2> QED
    BY <1>10, <2>3 DEF EmergencyStopLatches, Ticking, Phases
<1>11. CASE EmergencyStopResets
  <2>1. Sound(ResetEmergencyStop(core))
    BY ResetEmergencyStopOk DEF Ticking
  <2>2. Sound(core') /\ core'.out = <<>>
    BY <1>1, <1>11, <2>1 DEF EmergencyStopResets
  <2> QED
    BY <1>11, <2>2 DEF EmergencyStopResets, Ticking, Phases
<1>12. CASE IoFaults \/ DeadlineMissed
  <2>1. PICK code : Step(Fault(core, code))
    BY <1>12, HostFault
  <2>2. Sound(core') /\ core'.out = <<>>
    BY <1>1, <2>1, FaultOk DEF Ticking
  <2> QED
    BY <1>12, <2>2 DEF IoFaults, DeadlineMissed, Ticking, Phases
<1>13. CASE Session \/ UNCHANGED vars
  <2>1. UNCHANGED <<core, phase, latched, ioFault>>
    BY <1>13 DEF Session, vars, ReserveItem, EnqueueItem, SubmitControl, ContinueOperation,
                 BeginOperation, SwitchPower, PublishDemand
  <2> QED
    BY <2>1 DEF Ticking
<1> QED
  BY <1>2, <1>3, <1>4, <1>5, <1>6, <1>7, <1>8, <1>9, <1>10, <1>11, <1>12, <1>13
     DEF Next, ServoThread, Host

LEMMA TickingHolds == Spec => [](SessionTypes /\ Ticking)
  BY InitInv, NextSessionTypes, NextTicking, PTL DEF Spec

-----------------------------------------------------------------------------
(* The theorems.                                                           *)

\* Every field of the servo-owned state keeps its type, the span, event and
\* marker cursors of ProductionExecutorCore.cpp stay inside the active item, and
\* its events have been taken by the end of every step.
THEOREM ExecutorTypeCorrect == Spec => []TypeOK
<1>1. Ticking => TypeOK
  BY DEF Ticking, Sound, Typed, Cursor, TypeOK, Epochs, PlanStops, Feeds, TriggeredModes
<1> QED
  BY <1>1, TickingHolds, PTL

\* Whichever way the executor came to be Disabled or Faulted (fault, disable, an
\* emergency stop and its reset), safe outputs are requested and the spindle is
\* safe.
THEOREM OutputsAreSafe == Spec => []OutputsSafeUnlessEnabled
<1>1. Ticking => OutputsSafeUnlessEnabled
  BY DEF Ticking, Sound, Typed, OutputsSafeUnlessEnabled
<1> QED
  BY <1>1, TickingHolds, PTL

-----------------------------------------------------------------------------
(* How faults end: what each operator does to a faulted executor.          *)

Same(c, d) == /\ d.state = c.state /\ d.active = c.active
              /\ d.marker = c.marker /\ d.spindle = c.spindle

\* d is faulted as c was, or the standing jog of c has been completed in it.
FaultKept(c, d) ==
    /\ \/ d.state = "Faulted"
       \/ Jogging(c) /\ ~c.moving /\ d.state = "Held" /\ ~Jogging(d) /\ ~d.moving
    /\ d.active \in {c.active, NoItem} /\ d.marker \in {c.marker, 0} /\ d.spindle = "Safe"

LEMMA FaultedJogStop ==
    ASSUME NEW c, NEW o, NEW r, Sound(c), c.state = "Faulted", Jogging(c)
    PROVE  Sound(BeginJogStop(c, o, r)) /\ FaultKept(c, BeginJogStop(c, o, r))
<1> DEFINE stopping == [c EXCEPT !.jog.stopping = TRUE, !.jog.reason = r]
           standing == Commit(stopping, o, FALSE)
           told(d) == /\ CoreFields \subseteq DOMAIN d /\ d.state = "Faulted"
                      /\ d.active \in {c.active, NoItem} /\ d.marker \in {c.marker, 0}
                      /\ d.spindle = "Safe"
<1>1. told(c) /\ told(stopping)
  BY DEF Sound, Typed, CoreFields
<1> HIDE DEF stopping
<1>2. \A d, code : told(d) => told(Fault(d, code))
  BY DEF Fault, Emit, CoreFields
<1>3. \A d : told(d) => told(JogFaulted(d)) /\ ~Jogging(JogFaulted(d))
  BY DEF JogFaulted, JogStopped, Emit, CoreFields, Jogging
<1>4. \A d : told(d) => told(DiscardExecution(d)) /\ DiscardExecution(d).jog = d.jog
  BY DEF DiscardExecution, ResetFeedRetiming, FreshRuntimes, CoreFields
<1>5. told(stopping) => LET d == [stopping EXCEPT !.moving = FALSE] IN told(d) /\ ~d.moving
  BY DEF CoreFields
<1>6. told(standing) /\ (standing.moving = FALSE \/ standing = FaultSoftLimit(stopping))
  BY <1>1, <1>2, <1>3, <1>4, <1>5 DEF Commit, FaultSoftLimit
<1>7. ~Jogging(FaultSoftLimit(stopping))
  BY <1>1, <1>3, <1>4 DEF FaultSoftLimit, Jogging, Fault, Emit
<1>8. Jogging(standing) /\ ~c.moving => FaultKept(c, CompleteJog(standing))
  BY <1>6, <1>7 DEF FaultKept, CompleteJog, JogStopped, Emit, CoreFields, Jogging
<1>9. FaultKept(c, c) /\ FaultKept(c, standing) /\ FaultKept(c, stopping)
      /\ FaultKept(c, FaultJog(stopping))
  BY <1>1, <1>2, <1>3, <1>6 DEF FaultKept, FaultJog
<1> HIDE DEF standing
<1> QED
  BY <1>8, <1>9, BeginJogStopOk DEF BeginJogStop, standing, stopping

LEMMA FaultedControl ==
    ASSUME NEW c, NEW o, NEW request, Sound(c), c.state = "Faulted",
           request.type \in ControlTypes
    PROVE  FaultKept(c, ServiceControl(c, o, request))
<1>1. \A d, b : Sound(d) /\ FaultKept(c, d) => FaultKept(c, RequestCompleted(d, request, b))
  BY DEF RequestCompleted, Emit, Sound, Typed, CoreFields, FaultKept, Jogging
<1>2. InitializeJog(c, o, [id |-> request.jog, kind |-> request.kind]) = c
  BY DEF InitializeJog
<1>3. Sound(c) /\ FaultKept(c, c)
  BY DEF Sound, Typed, FaultKept
<1>4. Jogging(c) => /\ Sound(RenewJogLease(c)) /\ FaultKept(c, RenewJogLease(c))
                    /\ Sound(SetContinuousJogVelocity(c, o))
                    /\ FaultKept(c, SetContinuousJogVelocity(c, o))
  <2>1. Jogging(c) => Sound(RenewJogLease(c))
    BY JogUpdateOk, CoreAssumption DEF RenewJogLease
  <2>2. FaultKept(c, RenewJogLease(c))
    BY <1>3 DEF RenewJogLease, Sound, Typed, CoreFields, FaultKept
  <2> QED
    BY <1>3, <2>1, <2>2 DEF RenewJogLease, SetContinuousJogVelocity
<1>5. Jogging(c) => /\ Sound(BeginJogStop(c, o, "RequestedStop"))
                    /\ FaultKept(c, BeginJogStop(c, o, "RequestedStop"))
  BY FaultedJogStop
<1> QED
  BY <1>1, <1>2, <1>3, <1>4, <1>5 DEF ServiceControl, ControlTypes, JogControllable

LEMMA FaultedDemand == \A c, o, pending :
    c.state = "Faulted" => ConvergeDemand(c, o, pending) = c
  BY DEF ConvergeDemand, IgnoresDemand

LEMMA FaultedLatch == ASSUME NEW c, NEW o, Sound(c), o.trouble # "Limit"
    PROVE  /\ LatchEmergencyStop(c, o).state = "Faulted"
           /\ LatchEmergencyStop(c, o).active = NoItem
           /\ LatchEmergencyStop(c, o).marker = 0
           /\ LatchEmergencyStop(c, o).spindle = "Safe"
<1> DEFINE Cleared(d) == CoreFields \subseteq DOMAIN d /\ d.active = NoItem /\ d.marker = 0
           discarded == DiscardExecution(c)
           abandoned == AbandonJog(discarded, o, "Aborted")
           standing == [abandoned EXCEPT !.moving = FALSE]
<1>1. Cleared(discarded)
  BY DEF DiscardExecution, ResetFeedRetiming, FreshRuntimes, Sound, Typed, CoreFields
<1> HIDE DEF discarded
<1>2. Cleared(abandoned)
  BY <1>1 DEF AbandonJog, Commit, CompleteJog, JogStopped, Emit, CoreFields
<1> HIDE DEF abandoned
<1>3. Cleared(standing)
  BY <1>2 DEF CoreFields
<1> HIDE DEF standing
<1> QED
  BY <1>3 DEF LatchEmergencyStop, Fault, Emit, CoreFields, standing, abandoned, discarded

\* No demand, item or control makes a faulted executor accept an item, report a
\* marker or command the spindle; the fault ends by the reset of a latched emergency
\* stop, or by the stop of a jog that stands, which beginJogStop completes whatever
\* the state, and by nothing else.
THEOREM FaultsEndTwoWays == Spec => FaultEndsByResetOrJogStop
<1> DEFINE Ends == core.state = "Faulted" =>
          /\ core'.state = "Faulted" \/ (latched /\ ~latched') \/ StandingJogEnds
          /\ core'.active \in {core.active, NoItem}
          /\ core'.marker \in {core.marker, 0}
          /\ core'.spindle = "Safe"
<1>1. SessionTypes /\ Ticking /\ [Next]_vars => [Ends]_vars
  <2> SUFFICES ASSUME SessionTypes, Ticking, [Next]_vars, core.state = "Faulted"
               PROVE  Ends
    OBVIOUS
  <2>1. Sound(core) /\ core.spindle = "Safe"
    BY DEF Ticking, Sound, Typed
  <2>2. phase \notin {"execute", "advance"}
    BY DEF Ticking, Executing
  <2>3. ASSUME NEW next, Step(next), Sound(next), Same(core, next)
        PROVE  Same(core, core')
    BY <2>3, StepOk DEF Step, Same
  <2>4. CASE UNCHANGED core
    BY <2>1, <2>4
  <2>5. CASE TickBegins
    <3> DEFINE demanded == IF mailbox = NoDemand THEN core ELSE ServiceDemand(core, mailbox)
    <3>1. Sound(demanded) /\ Same(core, demanded)
      BY <2>1
         DEF ServiceDemand, Sound, Typed, Cursor, Active, CoreFields, Same, SessionTypes
    <3> HIDE DEF demanded
    <3>2. \A o : ConvergeDemand(demanded, o, Pending) = demanded
      BY <3>1, FaultedDemand DEF Same
    <3>3. Step(demanded)
      BY <2>5, <3>2 DEF TickBegins, demanded
    <3>4. Same(core, core')
      BY <2>3, <3>1, <3>3
    <3> QED
      BY <2>1, <3>4 DEF Same
  <2>6. CASE IngressPlan
    BY <2>1, <2>6 DEF IngressPlan, Sound, Typed, CoreFields
  <2>7. CASE IngressControl
    <3>1. PICK o \in ControlOutcomes : Step(ServiceControl(core, o, Head(ingress)))
      BY <2>7 DEF IngressControl
    <3>2. Head(ingress).type \in ControlTypes
      BY <2>7, HeadControl DEF IngressControl
    <3> DEFINE next == ServiceControl(core, o, Head(ingress))
    <3>3. Sound(next) /\ FaultKept(core, next)
      BY <2>1, <3>2, FaultedControl, ServiceControlOk
    <3> HIDE DEF next
    <3>4. core' = [next EXCEPT !.out = <<>>]
      BY <3>1 DEF Step, next
    <3>5. FaultKept(core, core')
      BY <3>3, <3>4 DEF FaultKept, Sound, Typed, CoreFields, Jogging
    <3> QED
      BY <3>5 DEF FaultKept, StandingJogEnds
  <2>8. CASE IngressEnds
    <3>1. Step(core)
      BY <2>8, FaultedDemand DEF IngressEnds
    <3>2. Same(core, core')
      BY <2>1, <2>3, <3>1 DEF Same
    <3> QED
      BY <2>1, <3>2 DEF Same
  <2>9. CASE EmergencyStopLatches
    <3> DEFINE o == [trouble |-> "None"]
               stopped == LatchEmergencyStop(core, o)
    <3>1. o.trouble # "Limit"
      OBVIOUS
    <3>2. core' = [stopped EXCEPT !.out = <<>>]
      BY <2>9 DEF EmergencyStopLatches
    <3>3. Sound(stopped)
      BY <2>1, LatchOk DEF Free
    <3>4. /\ stopped.state = "Faulted" /\ stopped.active = NoItem
          /\ stopped.marker = 0 /\ stopped.spindle = "Safe"
      BY <2>1, <3>1, FaultedLatch
    <3> HIDE DEF stopped
    <3> QED
      BY <3>2, <3>3, <3>4, StepOk
  <2>10. CASE EmergencyStopResets
    <3> DEFINE reset == ResetEmergencyStop(core)
    <3>1. core' = [reset EXCEPT !.out = <<>>] /\ latched /\ latched' = FALSE
      BY <2>10 DEF EmergencyStopResets, Step
    <3>2. Sound(reset)
      BY ResetEmergencyStopOk DEF Ticking
    <3>3. reset.active = core.active /\ reset.marker = core.marker /\ reset.spindle = "Safe"
      BY <2>1 DEF ResetEmergencyStop, Sound, Typed, CoreFields
    <3> HIDE DEF reset
    <3> QED
      BY <3>1, <3>2, <3>3, StepOk
  <2>11. CASE IoFaults \/ DeadlineMissed
    <3>1. PICK code : Step(Fault(core, code))
      BY <2>11, HostFault
    <3> DEFINE faulted == Fault(core, code)
    <3>2. Sound(faulted) /\ Same(core, faulted)
      BY ZenonT(60), <2>1, FaultOk DEF Fault, Emit, Sound, Typed, CoreFields, Same
    <3> HIDE DEF faulted
    <3>3. Same(core, core')
      BY <2>3, <3>1, <3>2 DEF faulted
    <3> QED
      BY <2>1, <3>3 DEF Same
  <2>12. CASE NotReady \/ ExecuteJog \/ ExecuteItem \/ Advance
    BY <2>2, <2>12 DEF NotReady, ExecuteJog, ExecuteJogStep, ExecuteItem, Advance
  <2>13. CASE Session \/ UNCHANGED vars
    <3>1. UNCHANGED core
      BY <2>13 DEF Session, vars, ReserveItem, EnqueueItem, SubmitControl, ContinueOperation,
                 BeginOperation, SwitchPower, PublishDemand
    <3> QED
      BY <2>4, <3>1
  <2> QED
    BY <2>5, <2>6, <2>7, <2>8, <2>9, <2>10, <2>11, <2>12, <2>13
       DEF Next, ServoThread, Host
<1> QED
  BY <1>1, TickingHolds, PTL DEF Spec, FaultEndsByResetOrJogStop

-----------------------------------------------------------------------------
(* What a sequence of events tells.                                        *)

IsSequence(s) == s \in Seq(Range(s))

\* The ids of the events of a type, and the epochs reported as stopped.
Told(s, type) == {s[i].id : i \in {j \in DOMAIN s : s[j].type = type}}
Stops(s) == {s[i].id : i \in {j \in DOMAIN s :
                                  s[j].type = "BackendHeld" /\ s[j].info = "ControlledStop"}}

\* The events of a type are told in the order of their ids, each once.
InOrder(s, type) ==
    \A i, j \in DOMAIN s :
        i < j /\ s[i].type = type /\ s[j].type = type => s[i].id < s[j].id

LEMMA NoEvents == IsSequence(<<>>) /\ (\A T : Told(<<>>, T) = {} /\ InOrder(<<>>, T))
                  /\ Stops(<<>>) = {} /\ Len(<<>>) = 0
<1>1. <<>> \in Seq(Range(<<>>)) /\ DOMAIN <<>> = {} /\ Len(<<>>) = 0
  OBVIOUS
<1> QED
  BY <1>1 DEF IsSequence, Told, Stops, InOrder

LEMMA SequenceFacts == ASSUME NEW s, IsSequence(s)
    PROVE  Len(s) \in Nat /\ DOMAIN s = 1..Len(s)
  BY DEF IsSequence

LEMMA AppendEvent == ASSUME NEW s, NEW e, IsSequence(s)
    PROVE  /\ IsSequence(Append(s, e))
           /\ Len(Append(s, e)) = Len(s) + 1 /\ DOMAIN Append(s, e) = 1..(Len(s) + 1)
           /\ \A i \in 1..Len(s) : Append(s, e)[i] = s[i]
           /\ Append(s, e)[Len(s) + 1] = e
<1> DEFINE R == Range(s) \union {e}
<1>1. s \in Seq(R) /\ e \in R
  BY DEF IsSequence
<1> HIDE DEF R
<1>2. /\ Append(s, e) \in Seq(R)
      /\ Len(Append(s, e)) = Len(s) + 1 /\ DOMAIN Append(s, e) = 1..(Len(s) + 1)
      /\ \A i \in 1..Len(s) : Append(s, e)[i] = s[i]
      /\ Append(s, e)[Len(s) + 1] = e
  BY <1>1
<1>3. \A i \in 1..(Len(s) + 1) : Append(s, e)[i] \in Range(Append(s, e))
  BY <1>2 DEF Range
<1>4. Append(s, e) \in Seq(Range(Append(s, e)))
  BY <1>1, <1>2, <1>3
<1> QED
  BY <1>2, <1>4 DEF IsSequence

LEMMA ToldAppend == ASSUME NEW s, NEW e, IsSequence(s)
    PROVE  /\ \A T : Told(Append(s, e), T) =
                     Told(s, T) \union (IF e.type = T THEN {e.id} ELSE {})
           /\ \A T : InOrder(s, T) /\ (e.type = T => \A x \in Told(s, T) : x < e.id)
                     => InOrder(Append(s, e), T)
           /\ Stops(Append(s, e)) = Stops(s) \union
                 (IF e.type = "BackendHeld" /\ e.info = "ControlledStop" THEN {e.id} ELSE {})
<1> DEFINE t == Append(s, e)
           n == Len(s)
<1>1. /\ n \in Nat /\ DOMAIN s = 1..n /\ DOMAIN t = 1..(n + 1)
      /\ \A i \in 1..n : t[i] = s[i]
      /\ t[n + 1] = e
  BY AppendEvent, SequenceFacts
<1> HIDE DEF t, n
<1>2. \A i \in 1..(n + 1) : i \in 1..n \/ i = n + 1
  BY <1>1
<1>3. \A i \in 1..n : i \in 1..(n + 1) /\ i < n + 1
  BY <1>1
<1>4. n + 1 \in 1..(n + 1)
  BY <1>1
<1>5. ASSUME NEW T PROVE Told(t, T) = Told(s, T) \union (IF e.type = T THEN {e.id} ELSE {})
  BY <1>1, <1>2, <1>3, <1>4 DEF Told
<1>6. Stops(t) = Stops(s) \union
                 (IF e.type = "BackendHeld" /\ e.info = "ControlledStop" THEN {e.id} ELSE {})
  BY <1>1, <1>2, <1>3, <1>4 DEF Stops
<1>7. ASSUME NEW T, InOrder(s, T), e.type = T => \A x \in Told(s, T) : x < e.id
      PROVE  InOrder(t, T)
  <2> SUFFICES ASSUME NEW i \in 1..(n + 1), NEW j \in 1..(n + 1), i < j,
                      t[i].type = T, t[j].type = T
               PROVE  t[i].id < t[j].id
    BY <1>1 DEF InOrder
  <2>1. i \in 1..n
    BY <1>1
  <2>2. CASE j \in 1..n
    BY <1>1, <1>7, <2>1, <2>2 DEF InOrder
  <2>3. CASE j = n + 1
    <3>1. s[i].id \in Told(s, T)
      BY <1>1, <2>1 DEF Told
    <3> QED
      BY <1>1, <1>7, <2>1, <2>3, <3>1
  <2> QED
    BY <1>2, <2>2, <2>3
<1> QED
  BY <1>5, <1>6, <1>7 DEF t

-----------------------------------------------------------------------------
(* What the log keeps of the events of a step.                             *)

\* Induction over the natural numbers, for a set of them.
LEMMA SetInduction == ASSUME NEW S \in SUBSET Nat, 0 \in S, \A n \in S : n + 1 \in S
                      PROVE  S = Nat
<1> DEFINE Missing == Nat \ S
<1> SUFFICES ASSUME Missing # {} PROVE FALSE
  OBVIOUS
<1>1. IsWellFoundedOn(OpToRel(<, Nat), Nat) /\ Missing \subseteq Nat
  BY NatLessThanWellFounded
<1> HIDE DEF Missing
<1>2. PICK m \in Missing : \A k \in Missing : ~(<<k, m>> \in OpToRel(<, Nat))
  BY <1>1, WFMin
<1>3. m \in Nat /\ m \notin S /\ \A k \in Nat : k < m => k \in S
  BY <1>1, <1>2 DEF OpToRel, Missing
<1>4. m # 0
  BY <1>3
<1>5. m - 1 \in S /\ (m - 1) + 1 = m
  BY <1>3, <1>4
<1> QED
  BY <1>3, <1>5

\* f[n] is the log after the first n of the events s.
Sees(f, s, n) == f = [i \in 0..n |-> IF i = 0 THEN log ELSE Observed(f[i - 1], s[i])]

LEMMA SeesOne == ASSUME NEW s, NEW n \in Nat, NEW f, Sees(f, s, n)
    PROVE  f[0] = log /\ \A i \in 1..n : f[i] = Observed(f[i - 1], s[i])
<1>1. \A i \in 0..n : f[i] = IF i = 0 THEN log ELSE Observed(f[i - 1], s[i])
  BY DEF Sees
<1>2. 0 \in 0..n /\ \A i \in 1..n : i \in 0..n /\ i # 0
  OBVIOUS
<1> QED
  BY <1>1, <1>2

LEMMA SeenExists == ASSUME NEW s, NEW n \in Nat PROVE \E f : Sees(f, s, n)
<1> DEFINE Reached == {m \in Nat : \E f : Sees(f, s, m)}
<1>1. 0 \in Reached
  <2> DEFINE g == [i \in 0..0 |-> log]
  <2>1. \A i \in 0..0 : i = 0
    OBVIOUS
  <2>2. Sees(g, s, 0)
    BY <2>1 DEF Sees
  <2> HIDE DEF g
  <2> QED
    BY <2>2
<1>2. ASSUME NEW k \in Reached PROVE k + 1 \in Reached
  <2>1. PICK f : Sees(f, s, k)
    BY <1>2
  <2> DEFINE m == k + 1
             g == [i \in 0..m |-> IF i = m THEN Observed(f[k], s[m]) ELSE f[i]]
  <2>2. k \in Nat /\ m \in Nat /\ m # 0 /\ m - 1 = k
    OBVIOUS
  <2> HIDE DEF m
  <2>3. f[0] = log /\ \A i \in 1..k : f[i] = Observed(f[i - 1], s[i])
    BY <2>1, <2>2, SeesOne
  <2>4. \A i \in 0..m : g[i] = IF i = 0 THEN log ELSE Observed(g[i - 1], s[i])
    <3> SUFFICES ASSUME NEW i \in 0..m
                 PROVE  g[i] = IF i = 0 THEN log ELSE Observed(g[i - 1], s[i])
      OBVIOUS
    <3>1. CASE i = 0
      BY <2>2, <2>3, <3>1
    <3>2. CASE i = m
      <4>1. k \in 0..m /\ k # m
        BY <2>2
      <4>2. g[k] = f[k]
        BY <4>1
      <4> QED
        BY <2>2, <3>2, <4>2
    <3>3. CASE i # 0 /\ i # m
      <4>1. i - 1 \in 0..m /\ i - 1 # m /\ i \in 1..k
        BY <2>2, <3>3
      <4>2. g[i - 1] = f[i - 1] /\ g[i] = f[i]
        BY <3>3, <4>1
      <4> HIDE DEF g
      <4> QED
        BY <2>3, <3>3, <4>1, <4>2
    <3> QED
      BY <3>1, <3>2, <3>3
  <2>5. g = [i \in 0..m |-> g[i]]
    OBVIOUS
  <2> HIDE DEF g
  <2>6. Sees(g, s, m)
    BY <2>4, <2>5 DEF Sees
  <2> QED
    BY <2>2, <2>6 DEF m
<1>3. Reached \in SUBSET Nat
  OBVIOUS
<1> HIDE DEF Reached
<1>4. Reached = Nat
  BY <1>1, <1>2, <1>3, SetInduction
<1> QED
  BY <1>4 DEF Reached

LEMMA LogSees == ASSUME NEW s
    PROVE  \/ s = <<>> /\ LogAfter(s) = log
           \/ /\ s # <<>>
              /\ Len(s) \in Nat => \E f : /\ Sees(f, s, Len(s))
                      /\ LogAfter(s) = [f[Len(s)] EXCEPT
                                          !.stoppedEpochs = @ \union StoppedIn(Range(s))]
<1>1. CASE s = <<>>
  BY <1>1 DEF LogAfter
<1>2. CASE s # <<>> /\ Len(s) \in Nat
  <2> DEFINE seen == CHOOSE seen : seen = [n \in 0..Len(s) |->
                        IF n = 0 THEN log ELSE Observed(seen[n - 1], s[n])]
  <2>1. Sees(seen, s, Len(s))
    BY <1>2, SeenExists DEF Sees
  <2>2. LogAfter(s) = [seen[Len(s)] EXCEPT !.stoppedEpochs = @ \union StoppedIn(Range(s))]
    BY <1>2 DEF LogAfter
  <2> HIDE DEF seen
  <2> QED
    BY <1>2, <2>1, <2>2
<1> QED
  BY <1>1, <1>2

LogFields == {"accepted", "retired", "rejected", "markers", "applied", "branched",
              "stoppedEpochs", "answers", "doomed"}

\* The lists of items in the log, and the type of event each of them keeps.
ItemLists == {"accepted", "retired", "rejected"}
Kept(list) == CASE list = "accepted" -> "ChunkAccepted"
                [] list = "retired" -> "ChunkRetired"
                [] list = "rejected" -> "ChunkRejected"

LogTyped(l) ==
    /\ LogFields \subseteq DOMAIN l
    /\ \A list \in ItemLists : l[list] \in Seq(Int)
    /\ IsSequence(l.answers)
Answered(l) == {a[1] : a \in Range(l.answers)}

LEMMA ObservedOne == ASSUME NEW l, NEW e, LogFields \subseteq DOMAIN l
    PROVE  /\ LogFields \subseteq DOMAIN Observed(l, e)
           /\ \A list \in ItemLists :
                 Observed(l, e)[list] = IF e.type = Kept(list) THEN Append(l[list], e.id)
                                        ELSE l[list]
           /\ Observed(l, e).answers = IF e.type = "RequestCompleted"
                                       THEN Append(l.answers, <<e.id, e.info>>) ELSE l.answers
           /\ Observed(l, e).stoppedEpochs = l.stoppedEpochs
           /\ Observed(l, e).doomed = l.doomed
<1>1. CASE e.type = "ChunkAccepted"
  BY <1>1 DEF Observed, LogFields, ItemLists, Kept
<1>2. CASE e.type = "ChunkRetired"
  BY <1>2 DEF Observed, LogFields, ItemLists, Kept
<1>3. CASE e.type = "ChunkRejected"
  BY <1>3 DEF Observed, LogFields, ItemLists, Kept
<1>4. CASE e.type = "RequestCompleted"
  BY <1>4 DEF Observed, LogFields, ItemLists, Kept
<1>5. CASE e.type \in {"ExecutionMarkerReached", "SpindleApplied", "BranchSelected"}
  BY <1>5 DEF Observed, LogFields, ItemLists, Kept
<1>6. CASE e.type \notin {"ChunkAccepted", "ChunkRetired", "ChunkRejected", "RequestCompleted",
                          "ExecutionMarkerReached", "SpindleApplied", "BranchSelected"}
  BY <1>6 DEF Observed, LogFields, ItemLists, Kept
<1> QED
  BY <1>1, <1>2, <1>3, <1>4, <1>5, <1>6

LEMMA AppendId == ASSUME NEW q \in Seq(Int), NEW x \in Int
    PROVE  /\ Append(q, x) \in Seq(Int)
           /\ Range(Append(q, x)) = Range(q) \union {x} /\ Last(Append(q, x)) = x
           /\ StrictlyIncreasing(q) /\ (\A y \in Range(q) : y < x)
              => StrictlyIncreasing(Append(q, x))
<1> DEFINE t == Append(q, x)
           n == Len(q)
<1>1. /\ t \in Seq(Int) /\ n \in Nat /\ DOMAIN q = 1..n /\ DOMAIN t = 1..(n + 1)
      /\ \A i \in 1..n : t[i] = q[i]
      /\ t[n + 1] = x /\ Len(t) = n + 1
  OBVIOUS
<1> HIDE DEF t, n
<1>2. /\ \A i \in 1..(n + 1) : i \in 1..n \/ i = n + 1
      /\ \A i \in 1..n : i \in 1..(n + 1) /\ i < n + 1
      /\ n + 1 \in 1..(n + 1)
  BY <1>1
<1>3. Range(t) = Range(q) \union {x}
  BY <1>1, <1>2 DEF Range
<1>4. ASSUME StrictlyIncreasing(q), \A y \in Range(q) : y < x
      PROVE  StrictlyIncreasing(t)
  <2> SUFFICES ASSUME NEW i \in 1..(n + 1), NEW j \in 1..(n + 1), i < j PROVE t[i] < t[j]
    BY <1>1 DEF StrictlyIncreasing
  <2>1. i \in 1..n
    BY <1>1
  <2>2. CASE j \in 1..n
    BY <1>1, <1>4, <2>1, <2>2 DEF StrictlyIncreasing
  <2>3. CASE j = n + 1
    BY <1>1, <1>4, <2>1, <2>3 DEF Range
  <2> QED
    BY <1>2, <2>2, <2>3
<1> QED
  BY <1>1, <1>3, <1>4 DEF t, Last

\* What the log holds after the first n of the events s, in terms of what they tell.
ToldBefore(s, type, n) == {s[i].id : i \in {j \in 1..n : s[j].type = type}}
KeptSoFar(l, s, n) ==
    /\ LogFields \subseteq DOMAIN l
    /\ l.stoppedEpochs = log.stoppedEpochs /\ l.doomed = log.doomed
    /\ IsSequence(l.answers)
    /\ Answered(l) = Answered(log) \union ToldBefore(s, "RequestCompleted", n)
    /\ ToldBefore(s, "RequestCompleted", n) = {} => l.answers = log.answers
    /\ \A list \in ItemLists :
          LET told == ToldBefore(s, Kept(list), n)
          IN  /\ l[list] \in Seq(Int)
              /\ Range(l[list]) = Range(log[list]) \union told
              /\ told = {} => l[list] = log[list]
              /\ told # {} => Last(l[list]) \in told
              /\ (/\ StrictlyIncreasing(log[list]) /\ InOrder(s, Kept(list))
                  /\ \A x \in Range(log[list]), y \in Told(s, Kept(list)) : x < y)
                 => StrictlyIncreasing(l[list])

ItemIdsAreInts(s) == \A list \in ItemLists : Told(s, Kept(list)) \subseteq Int

LEMMA ToldStep == ASSUME NEW s, NEW n \in Nat, NEW T
    PROVE  /\ ToldBefore(s, T, 0) = {}
           /\ ToldBefore(s, T, n + 1) =
                ToldBefore(s, T, n) \union (IF s[n + 1].type = T THEN {s[n + 1].id} ELSE {})
<1>1. 1..0 = {} /\ 1..(n + 1) = (1..n) \union {n + 1}
  OBVIOUS
<1> QED
  BY <1>1 DEF ToldBefore

LEMMA KeptStep == ASSUME NEW s, IsSequence(s), ItemIdsAreInts(s),
                         NEW n \in Nat, n + 1 <= Len(s), NEW l, KeptSoFar(l, s, n)
                  PROVE  KeptSoFar(Observed(l, s[n + 1]), s, n + 1)
<1> DEFINE e == s[n + 1]
           m == Observed(l, e)
<1>1. /\ LogFields \subseteq DOMAIN m
      /\ \A list \in ItemLists :
            m[list] = IF e.type = Kept(list) THEN Append(l[list], e.id) ELSE l[list]
      /\ m.answers = IF e.type = "RequestCompleted"
                     THEN Append(l.answers, <<e.id, e.info>>) ELSE l.answers
      /\ m.stoppedEpochs = l.stoppedEpochs /\ m.doomed = l.doomed
  BY ObservedOne DEF KeptSoFar
<1>2. Len(s) \in Nat /\ DOMAIN s = 1..Len(s) /\ n + 1 \in 1..Len(s)
  BY SequenceFacts
<1>3. \A T : ToldBefore(s, T, n + 1) =
                ToldBefore(s, T, n) \union (IF e.type = T THEN {e.id} ELSE {})
  BY ToldStep
<1>4. \A T : e.type = T => e.id \in Told(s, T)
  BY <1>2 DEF Told
<1>5. \A i \in 1..n : i \in DOMAIN s /\ i < n + 1
  BY <1>2
<1> HIDE DEF m
<1>6. /\ IsSequence(m.answers)
      /\ Answered(m) = Answered(log) \union ToldBefore(s, "RequestCompleted", n + 1)
      /\ ToldBefore(s, "RequestCompleted", n + 1) = {} => m.answers = log.answers
  <2>1. CASE e.type = "RequestCompleted"
    <3> DEFINE a == <<e.id, e.info>>
    <3>1. m.answers = Append(l.answers, a) /\ a[1] = e.id /\ IsSequence(l.answers)
      BY <1>1, <2>1 DEF KeptSoFar
    <3> HIDE DEF a
    <3>2. IsSequence(m.answers) /\ Range(m.answers) = Range(l.answers) \union {a}
      <4> DEFINE k == Len(l.answers)
      <4>1. /\ k \in Nat /\ DOMAIN l.answers = 1..k /\ DOMAIN m.answers = 1..(k + 1)
            /\ \A i \in 1..k : m.answers[i] = l.answers[i]
            /\ m.answers[k + 1] = a /\ IsSequence(m.answers)
        BY <3>1, AppendEvent, SequenceFacts
      <4> HIDE DEF k
      <4>2. 1..(k + 1) = (1..k) \union {k + 1}
        BY <4>1
      <4> QED
        BY <4>1, <4>2 DEF Range
    <3>3. Answered(m) = Answered(l) \union {e.id}
      BY <3>1, <3>2 DEF Answered
    <3> QED
      BY <1>3, <2>1, <3>2, <3>3 DEF KeptSoFar
  <2>2. CASE e.type # "RequestCompleted"
    <3>1. m.answers = l.answers /\ Answered(m) = Answered(l)
      BY <1>1, <2>2 DEF Answered
    <3> QED
      BY <1>3, <2>2, <3>1 DEF KeptSoFar
  <2> QED
    BY <2>1, <2>2
<1>7. ASSUME NEW list \in ItemLists
      PROVE  LET told == ToldBefore(s, Kept(list), n + 1)
             IN  /\ m[list] \in Seq(Int)
                 /\ Range(m[list]) = Range(log[list]) \union told
                 /\ told = {} => m[list] = log[list]
                 /\ told # {} => Last(m[list]) \in told
                 /\ (/\ StrictlyIncreasing(log[list]) /\ InOrder(s, Kept(list))
                     /\ \A x \in Range(log[list]), y \in Told(s, Kept(list)) : x < y)
                    => StrictlyIncreasing(m[list])
  <2> DEFINE T == Kept(list)
             told == ToldBefore(s, T, n)
  <2>1. /\ l[list] \in Seq(Int)
        /\ Range(l[list]) = Range(log[list]) \union told
        /\ told = {} => l[list] = log[list]
        /\ told # {} => Last(l[list]) \in told
        /\ (/\ StrictlyIncreasing(log[list]) /\ InOrder(s, T)
            /\ \A x \in Range(log[list]), y \in Told(s, T) : x < y)
           => StrictlyIncreasing(l[list])
    BY DEF KeptSoFar
  <2> HIDE DEF T
  <2>2. CASE e.type = T
    <3>1. m[list] = Append(l[list], e.id) /\ e.id \in Int /\ e.id \in Told(s, T)
      BY <1>1, <1>4, <2>2 DEF T, ItemIdsAreInts
    <3>2. ToldBefore(s, T, n + 1) = told \union {e.id}
      BY <1>3, <2>2
    <3> HIDE DEF told, e
    <3>3. /\ m[list] \in Seq(Int) /\ Range(m[list]) = Range(l[list]) \union {e.id}
          /\ Last(m[list]) = e.id
          /\ StrictlyIncreasing(l[list]) /\ (\A y \in Range(l[list]) : y < e.id)
             => StrictlyIncreasing(m[list])
      BY <2>1, <3>1, AppendId
    <3>4. ASSUME InOrder(s, T), \A x \in Range(log[list]), y \in Told(s, T) : x < y,
                 NEW y \in Range(l[list])
          PROVE  y < e.id
      <4>1. CASE y \in Range(log[list])
        BY <3>1, <3>4, <4>1
      <4>2. CASE y \in told
        <5>1. PICK i \in 1..n : s[i].type = T /\ y = s[i].id
          BY <4>2 DEF told, ToldBefore
        <5> QED
          BY <1>2, <1>5, <2>2, <3>4, <5>1 DEF InOrder, e
      <4> QED
        BY <2>1, <4>1, <4>2
    <3> QED
      BY <2>1, <3>2, <3>3, <3>4 DEF T
  <2>3. CASE e.type # T
    <3>1. m[list] = l[list] /\ ToldBefore(s, T, n + 1) = told
      BY <1>1, <1>3, <2>3 DEF T
    <3> HIDE DEF told
    <3> QED
      BY <2>1, <3>1 DEF T
  <2> QED
    BY <2>2, <2>3
<1>8. m.stoppedEpochs = log.stoppedEpochs /\ m.doomed = log.doomed
  BY <1>1 DEF KeptSoFar
<1> QED
  BY <1>1, <1>6, <1>7, <1>8 DEF KeptSoFar, m

\* The log after a step holds what it held and what the events of the step told.
LEMMA LogKeeps == ASSUME NEW s, IsSequence(s), ItemIdsAreInts(s), LogTyped(log)
    PROVE  LET l == LogAfter(s)
           IN  /\ LogTyped(l) /\ l.doomed = log.doomed
               /\ l.stoppedEpochs = log.stoppedEpochs \union StoppedIn(Range(s))
               /\ Answered(l) = Answered(log) \union Told(s, "RequestCompleted")
               /\ Told(s, "RequestCompleted") = {} => l.answers = log.answers
               /\ \A list \in ItemLists :
                     LET told == Told(s, Kept(list))
                     IN  /\ Range(l[list]) = Range(log[list]) \union told
                         /\ told = {} => l[list] = log[list]
                         /\ told # {} => Last(l[list]) \in told
                         /\ (/\ StrictlyIncreasing(log[list]) /\ InOrder(s, Kept(list))
                             /\ \A x \in Range(log[list]), y \in told : x < y)
                            => StrictlyIncreasing(l[list])
<1>1. Len(s) \in Nat /\ DOMAIN s = 1..Len(s)
  BY SequenceFacts
<1>2. \A T : Told(s, T) = ToldBefore(s, T, Len(s))
  BY <1>1 DEF Told, ToldBefore
<1>3. KeptSoFar(log, s, 0)
  <2>1. \A T : ToldBefore(s, T, 0) = {}
    BY ToldStep
  <2> QED
    BY <2>1 DEF KeptSoFar, LogTyped
<1>4. CASE s = <<>>
  <2>1. LogAfter(s) = log /\ StoppedIn(Range(s)) = {} /\ Len(s) = 0
    <3>1. Range(<<>>) = {} /\ Len(<<>>) = 0
      BY DEF Range
    <3> QED
      BY <1>4, <3>1, LogSees DEF StoppedIn
  <2> QED
    BY <1>2, <1>3, <2>1 DEF KeptSoFar, LogTyped
<1>5. CASE s # <<>>
  <2>1. PICK f : /\ Sees(f, s, Len(s))
                 /\ LogAfter(s) = [f[Len(s)] EXCEPT
                                     !.stoppedEpochs = @ \union StoppedIn(Range(s))]
    BY <1>1, <1>5, LogSees
  <2>2. f[0] = log /\ \A i \in 1..Len(s) : f[i] = Observed(f[i - 1], s[i])
    BY ZenonT(60), <1>1, <2>1, SeesOne
  <2> DEFINE Right == {n \in Nat : n <= Len(s) => KeptSoFar(f[n], s, n)}
  <2>3. 0 \in Right
    BY <1>3, <2>2
  <2>4. ASSUME NEW n \in Right PROVE n + 1 \in Right
    <3> SUFFICES ASSUME n + 1 <= Len(s) PROVE KeptSoFar(f[n + 1], s, n + 1)
      OBVIOUS
    <3>1. n \in Nat /\ n <= Len(s) /\ n + 1 \in 1..Len(s) /\ (n + 1) - 1 = n
      BY <1>1
    <3>2. KeptSoFar(f[n], s, n) /\ f[n + 1] = Observed(f[n], s[n + 1])
      BY <2>2, <3>1
    <3> QED
      BY <3>1, <3>2, KeptStep
  <2>5. Right \in SUBSET Nat
    OBVIOUS
  <2> HIDE DEF Right
  <2>6. Right = Nat
    BY <2>3, <2>4, <2>5, SetInduction
  <2>7. KeptSoFar(f[Len(s)], s, Len(s))
    BY <1>1, <2>6 DEF Right
  <2> DEFINE l == f[Len(s)]
             r == LogAfter(s)
  <2> HIDE DEF l
  <2>8. /\ DOMAIN r = DOMAIN l /\ r.doomed = l.doomed /\ r.answers = l.answers
        /\ r.stoppedEpochs = l.stoppedEpochs \union StoppedIn(Range(s))
        /\ \A list \in ItemLists : r[list] = l[list]
    BY <2>1, <2>7 DEF KeptSoFar, LogFields, ItemLists, l
  <2>9. KeptSoFar(l, s, Len(s))
    BY <2>7 DEF l
  <2> HIDE DEF r
  <2>10. LogTyped(r) /\ Answered(r) = Answered(l)
    BY <2>8, <2>9 DEF KeptSoFar, LogTyped, Answered
  <2> QED
    BY <1>2, <2>8, <2>9, <2>10 DEF KeptSoFar, r
<1> QED
  BY <1>4, <1>5

-----------------------------------------------------------------------------
(* Operators that tell nothing of items and stops: the active item and the *)
(* queue stay, or are dropped together.                                    *)

Counted == {"ChunkAccepted", "ChunkRejected", "ChunkRetired",
            "RequestCompleted", "TriggeredMoveCompleted"}
Uncounted(e) == e.type \notin Counted /\ ~(e.type = "BackendHeld" /\ e.info = "ControlledStop")

\* The events t add nothing that counts to s.
Hush(s, t) == /\ IsSequence(t) /\ Stops(t) = Stops(s)
              /\ \A T \in Counted : Told(t, T) = Told(s, T) /\ (InOrder(s, T) => InOrder(t, T))

Whole(c) == CoreFields \subseteq DOMAIN c /\ IsSequence(c.out)
SameEpochs(c, d) == d.epoch = c.epoch /\ d.stoppedEpoch = c.stoppedEpoch /\ d.demand = c.demand
SameItems(c, d) == d.active = c.active /\ d.plans = c.plans
NoItemsLeft(d) == d.active = NoItem /\ d.plans = <<>>

Hushed(c, d) == Whole(d) /\ Hush(c.out, d.out) /\ SameEpochs(c, d)
Stays(c, d) == Hushed(c, d) /\ SameItems(c, d)
Drops(c, d) == Hushed(c, d) /\ NoItemsLeft(d)
Quiet(c, d) == Stays(c, d) \/ Drops(c, d)

LEMMA HushEmit == ASSUME NEW s, NEW e, IsSequence(s), Uncounted(e) PROVE Hush(s, Append(s, e))
<1>1. IsSequence(Append(s, e))
  BY AppendEvent
<1>2. Stops(Append(s, e)) = Stops(s)
  BY ToldAppend DEF Uncounted
<1>3. ASSUME NEW T \in Counted
      PROVE  Told(Append(s, e), T) = Told(s, T) /\ (InOrder(s, T) => InOrder(Append(s, e), T))
  BY ToldAppend DEF Uncounted
<1> QED
  BY <1>1, <1>2, <1>3 DEF Hush

LEMMA Untouched == \A c, d :
    Whole(c) /\ CoreFields \subseteq DOMAIN d /\ d.out = c.out /\ SameEpochs(c, d)
    /\ SameItems(c, d) => Stays(c, d)
  BY DEF Whole, Stays, Hushed, Hush

LEMMA StaysSelf == \A c : Whole(c) => Stays(c, c)
  BY DEF Whole, Stays, Hushed, Hush, SameEpochs, SameItems

LEMMA HushedTrans == \A c, d, e : Hushed(c, d) /\ Hushed(d, e) => Hushed(c, e)
  BY DEF Hushed, Hush, SameEpochs

LEMMA StaysTrans == \A c, d, e : Stays(c, d) /\ Stays(d, e) => Stays(c, e)
  BY HushedTrans DEF Stays, SameItems

LEMMA QuietTrans == \A c, d, e : Quiet(c, d) /\ Quiet(d, e) => Quiet(c, e)
  BY HushedTrans DEF Quiet, Stays, Drops, SameItems, NoItemsLeft

LEMMA DropsTrans == \A c, d, e :
    /\ Quiet(c, d) /\ Drops(d, e) => Drops(c, e)
    /\ Drops(c, d) /\ Quiet(d, e) => Drops(c, e)
  BY HushedTrans DEF Quiet, Stays, Drops, SameItems, NoItemsLeft

LEMMA QuietWhole == \A c, d : (Stays(c, d) => Whole(d) /\ Quiet(c, d))
                              /\ (Drops(c, d) => Whole(d) /\ Quiet(c, d))
                              /\ (Quiet(c, d) => Whole(d))
  BY DEF Stays, Drops, Quiet, Hushed

LEMMA EmitStays == ASSUME NEW c, NEW e, Whole(c), Uncounted(e) PROVE Stays(c, Emit(c, e))
<1>1. /\ CoreFields \subseteq DOMAIN Emit(c, e) /\ Emit(c, e).out = Append(c.out, e)
      /\ SameEpochs(c, Emit(c, e)) /\ SameItems(c, Emit(c, e))
  BY DEF Whole, CoreFields, Emit, SameEpochs, SameItems
<1> QED
  BY <1>1, HushEmit DEF Whole, Stays, Hushed, Hush

LEMMA EventUncounted == \A type, id, info :
    type \notin Counted /\ (type # "BackendHeld" \/ info # "ControlledStop")
    => Uncounted(Event(type, id, info))
  BY DEF Uncounted, Event

LEMMA FaultStays == ASSUME NEW c, NEW code, Whole(c) PROVE Stays(c, Fault(c, code))
<1> DEFINE faulted == [c EXCEPT !.state = "Faulted", !.fault = code,
                             !.safeOutputs = TRUE, !.spindle = "Safe",
                             !.faultReported = TRUE]
<1>1. Stays(c, faulted)
  <2>1. /\ CoreFields \subseteq DOMAIN faulted /\ faulted.out = c.out
        /\ SameEpochs(c, faulted) /\ SameItems(c, faulted)
    BY DEF Whole, CoreFields, SameEpochs, SameItems
  <2> QED
    BY <2>1, Untouched
<1> HIDE DEF faulted
<1>2. Stays(c, Emit(faulted, Event("BackendFault", 0, code)))
  BY <1>1, EmitStays, EventUncounted, QuietWhole, StaysTrans DEF Counted
<1> QED
  BY <1>1, <1>2 DEF Fault, faulted

LEMMA FreshStays == ASSUME NEW c, Whole(c) PROVE Stays(c, FreshRuntimes(c))
<1>1. LET d == FreshRuntimes(c)
      IN  /\ CoreFields \subseteq DOMAIN d /\ d.out = c.out
          /\ SameEpochs(c, d) /\ SameItems(c, d)
  BY DEF Whole, CoreFields, SameEpochs, SameItems, FreshRuntimes
<1> QED
  BY <1>1, Untouched

LEMMA RetimingStays == ASSUME NEW c, Whole(c) PROVE Stays(c, ResetFeedRetiming(c))
<1>1. LET d == ResetFeedRetiming(c)
      IN  /\ CoreFields \subseteq DOMAIN d /\ d.out = c.out
          /\ SameEpochs(c, d) /\ SameItems(c, d)
  BY DEF Whole, CoreFields, SameEpochs, SameItems, ResetFeedRetiming
<1> QED
  BY <1>1, Untouched

LEMMA DiscardDrops == ASSUME NEW c, Whole(c) PROVE Drops(c, DiscardExecution(c))
<1> DEFINE fresh == ResetFeedRetiming(FreshRuntimes(c))
<1>1. Stays(c, fresh)
  BY FreshStays, RetimingStays, StaysTrans, QuietWhole
<1> HIDE DEF fresh
<1>2. LET d == [fresh EXCEPT !.active = NoItem, !.plans = <<>>, !.planStop = "None"]
      IN  /\ CoreFields \subseteq DOMAIN d /\ d.out = fresh.out
          /\ SameEpochs(fresh, d) /\ NoItemsLeft(d)
  BY <1>1 DEF Stays, Hushed, Whole, CoreFields, SameEpochs, NoItemsLeft
<1> QED
  BY <1>1, <1>2 DEF DiscardExecution, Drops, Stays, Hushed, Whole, SameEpochs, fresh
LEMMA JogStoppedStays == \A c, reason : Whole(c) => Stays(c, JogStopped(c, reason))
  BY EmitStays, EventUncounted DEF JogStopped, Counted

\* Setting fields that are neither items nor epochs nor events.
Elsewhere(c, d) == /\ DOMAIN d = DOMAIN c
                   /\ "out" \in DOMAIN c => d.out = c.out
                   /\ "active" \in DOMAIN c => d.active = c.active
                   /\ "plans" \in DOMAIN c => d.plans = c.plans
                   /\ "epoch" \in DOMAIN c => d.epoch = c.epoch
                   /\ "stoppedEpoch" \in DOMAIN c => d.stoppedEpoch = c.stoppedEpoch
                   /\ "demand" \in DOMAIN c => d.demand = c.demand

LEMMA ElsewhereStays == \A c, d : Whole(c) /\ Elsewhere(c, d) => Stays(c, d)
  BY Untouched DEF Elsewhere, Whole, CoreFields, SameEpochs, SameItems

LEMMA ElsewhereOn == \A c, d, e :
    /\ Stays(c, d) /\ Elsewhere(d, e) => Stays(c, e)
    /\ Quiet(c, d) /\ Elsewhere(d, e) => Quiet(c, e)
    /\ Drops(c, d) /\ Elsewhere(d, e) => Drops(c, e)
  BY ElsewhereStays, StaysTrans, QuietTrans, DropsTrans, QuietWhole

LEMMA ElsewhereUpdates == \A c, x, y :
    /\ Elsewhere(c, [c EXCEPT !.jog = x]) /\ Elsewhere(c, [c EXCEPT !.moving = x])
    /\ Elsewhere(c, [c EXCEPT !.state = x, !.jog = y])
    /\ Elsewhere(c, [c EXCEPT !.state = x]) /\ Elsewhere(c, [c EXCEPT !.feed = x])
    /\ Elsewhere(c, [c EXCEPT !.feed = x, !.state = y])
    /\ Elsewhere(c, [c EXCEPT !.triggered = x])
    /\ Elsewhere(c, [c EXCEPT !.planStop = x])
    /\ Elsewhere(c, [c EXCEPT !.state = x, !.safeOutputs = y])
    /\ Elsewhere(c, [c EXCEPT !.accepted = x])
    /\ Elsewhere(c, [c EXCEPT !.jog.lease = x])
    /\ Elsewhere(c, [c EXCEPT !.jog.reason = x])
    /\ Elsewhere(c, [c EXCEPT !.jog.stopping = x, !.jog.reason = y])
    /\ Elsewhere(c, [c EXCEPT !.marker = x]) /\ Elsewhere(c, [c EXCEPT !.span = x])
    /\ Elsewhere(c, [c EXCEPT !.spindle = x, !.event = y])
    /\ Elsewhere(c, [c EXCEPT !.tailFault = x])
    /\ Elsewhere(c, [c EXCEPT !.stopping = x, !.span = y])
    /\ Elsewhere(c, [c EXCEPT !.joints = x, !.touched = y])
    /\ Elsewhere(c, [c EXCEPT !.touched = x])
    /\ Elsewhere(c, [c EXCEPT !.aborted = x, !.joints = y])
  BY DEF Elsewhere

LEMMA JogFaultedStays == ASSUME NEW c, Whole(c) PROVE Stays(c, JogFaulted(c))
<1>1. Stays(c, JogStopped(c, "Fault"))
  BY JogStoppedStays
<1>2. Elsewhere(JogStopped(c, "Fault"), JogFaulted(c))
  BY DEF Elsewhere, JogFaulted
<1> QED
  BY <1>1, <1>2, ElsewhereOn

LEMMA FaultJogStays == \A c : Whole(c) => Stays(c, FaultJog(c))
  BY JogFaultedStays, FaultStays, StaysTrans, QuietWhole DEF FaultJog

LEMMA SoftLimitDrops == ASSUME NEW c, Whole(c) PROVE Drops(c, FaultSoftLimit(c))
<1> DEFINE stopped == IF Jogging(c) THEN JogFaulted(c) ELSE c
<1>1. Quiet(c, stopped)
  BY JogFaultedStays, StaysSelf, QuietWhole
<1> HIDE DEF stopped
<1>2. Drops(c, DiscardExecution(stopped))
  BY <1>1, DiscardDrops, QuietWhole, DropsTrans
<1> QED
  BY <1>2, FaultStays, QuietWhole, DropsTrans DEF FaultSoftLimit, stopped

LEMMA CommitQuiet == \A c, o, m : Whole(c) =>
    /\ Quiet(c, Commit(c, o, m))
    /\ o.trouble # "Limit" => Stays(c, Commit(c, o, m))
  BY SoftLimitDrops, ElsewhereStays, ElsewhereUpdates, QuietWhole DEF Commit

LEMMA CompleteJogStays == ASSUME NEW c, Whole(c) PROVE Stays(c, CompleteJog(c))
<1>1. Stays(c, JogStopped(c, c.jog.reason))
  BY JogStoppedStays
<1>2. Elsewhere(JogStopped(c, c.jog.reason), CompleteJog(c))
  BY DEF Elsewhere, CompleteJog
<1> QED
  BY <1>1, <1>2, ElsewhereOn

LEMMA AbandonJogQuiet == ASSUME NEW c, NEW o, NEW r, Whole(c)
    PROVE  Quiet(c, AbandonJog(c, o, r))
<1> DEFINE told == [c EXCEPT !.jog.reason = r]
           stopped == Commit(told, o, FALSE)
<1>1. Stays(c, told)
  BY ElsewhereStays, ElsewhereUpdates
<1> HIDE DEF told
<1>2. Quiet(c, stopped)
  BY <1>1, CommitQuiet, QuietTrans, QuietWhole
<1> HIDE DEF stopped
<1>3. Quiet(c, CompleteJog(stopped))
  BY <1>2, CompleteJogStays, QuietTrans, QuietWhole
<1>4. Quiet(c, c)
  BY StaysSelf, QuietWhole
<1> QED
  BY <1>2, <1>3, <1>4 DEF AbandonJog, stopped, told

LEMMA BeginJogStopQuiet == ASSUME NEW c, NEW o, NEW r, Whole(c)
    PROVE  Quiet(c, BeginJogStop(c, o, r))
<1> DEFINE stopping == [c EXCEPT !.jog.stopping = TRUE, !.jog.reason = r]
           standing == Commit(stopping, o, FALSE)
<1>1. Stays(c, stopping)
  BY ElsewhereStays, ElsewhereUpdates
<1> HIDE DEF stopping
<1>2. Quiet(c, standing) /\ Quiet(c, FaultJog(stopping)) /\ Quiet(c, stopping)
  BY <1>1, CommitQuiet, FaultJogStays, QuietTrans, QuietWhole
<1> HIDE DEF standing
<1>3. Quiet(c, CompleteJog(standing))
  BY <1>2, CompleteJogStays, QuietTrans, QuietWhole
<1>4. Quiet(c, c)
  BY StaysSelf, QuietWhole
<1> QED
  BY <1>2, <1>3, <1>4 DEF BeginJogStop, standing, stopping

LEMMA InitializeJogStays ==
  \A c, o, request : Whole(c) => Stays(c, InitializeJog(c, o, request))
  BY ZenonT(60), StaysSelf, ElsewhereStays, ElsewhereUpdates DEF InitializeJog

LEMMA AdvanceJogQuiet == ASSUME NEW c, NEW o, Whole(c) PROVE Quiet(c, AdvanceJog(c, o))
<1> DEFINE ticked == [c EXCEPT !.jog.lease = @ - 1]
           leased == LeaseChecked(c, o)
           ends == o.done /\ (leased.jog.stopping \/ leased.jog.kind # "Continuous")
           moved == Commit(leased, o, ~ends)
           reason == IF moved.jog.stopping THEN moved.jog.reason
                     ELSE IF moved.jog.kind = "Bounded" THEN "LimitReached"
                     ELSE "TargetReached"
           told == [moved EXCEPT !.jog.reason = reason]
<1>0. Elsewhere(c, ticked)
  BY DEF Elsewhere
<1> HIDE DEF ticked
<1>1. Stays(c, ticked) /\ Quiet(c, c)
  BY <1>0, StaysSelf, ElsewhereStays, QuietWhole
<1>2. Quiet(c, leased)
  <2>1. Quiet(c, ticked) /\ Quiet(c, BeginJogStop(ticked, o, "LeaseExpired"))
    BY <1>1, BeginJogStopQuiet, QuietTrans, QuietWhole
  <2> QED
    BY <1>1, <2>1 DEF LeaseChecked, ticked
<1> HIDE DEF leased
<1>3. Quiet(c, moved)
  BY <1>2, CommitQuiet, QuietTrans, QuietWhole
<1> HIDE DEF moved
<1>4. Elsewhere(moved, told)
  BY DEF Elsewhere
<1> HIDE DEF told
<1>5. Quiet(c, CompleteJog(told))
  BY <1>3, <1>4, ElsewhereOn, CompleteJogStays, QuietTrans, QuietWhole
<1> QED
  BY <1>2, <1>3, <1>5 DEF AdvanceJog, told, moved, leased
LEMMA ApplyStays == ASSUME NEW c, Whole(c) PROVE Stays(c, ApplyScheduledEventsForCurrentSpan(c))
<1> DEFINE commanded == [c EXCEPT !.spindle = "Commanded", !.event = @ + 1]
           told == Emit(commanded, Event("SpindleApplied", c.active.id, c.event))
<1>1. Stays(c, commanded)
  BY ElsewhereStays, ElsewhereUpdates
<1> HIDE DEF commanded
<1>2. Stays(c, told)
  BY <1>1, EmitStays, EventUncounted, StaysTrans, QuietWhole DEF Counted
<1> HIDE DEF told
<1> QED
  BY <1>2, StaysSelf, FaultStays DEF ApplyScheduledEventsForCurrentSpan, told, commanded

LEMMA MarkersStay == ASSUME NEW c, NEW reached, Whole(c)
    PROVE  Stays(c, EmitExecutionMarkersThrough(c, reached))
<1> DEFINE marked == [c EXCEPT !.marker = @ + 1]
           told == Emit(marked, Event("ExecutionMarkerReached", c.active.id, c.marker))
<1>1. Stays(c, marked)
  BY ElsewhereStays, ElsewhereUpdates
<1> HIDE DEF marked
<1>2. Stays(c, told)
  BY <1>1, EmitStays, EventUncounted, StaysTrans, QuietWhole DEF Counted
<1> HIDE DEF told
<1> QED
  BY <1>2, StaysSelf, FaultStays DEF EmitExecutionMarkersThrough, told, marked

LEMMA BeginSpanStays == \A c, o : Whole(c) => Stays(c, BeginSpan(c, o))
  BY ApplyStays, MarkersStay, StaysTrans, QuietWhole DEF BeginSpan

LEMMA InitializeTriggeredStays == ASSUME NEW c, NEW o, Whole(c)
    PROVE  /\ Stays(c, InitializeTriggered(c, o))
           /\ Stays(c, InitializeTriggeredJoints(c, o))
<1>1. \A x : Elsewhere(c, [c EXCEPT !.touched = {}, !.aborted = FALSE, !.joints = x])
  BY DEF Elsewhere
<1> QED
  BY <1>1, FaultStays, ElsewhereStays, ElsewhereUpdates
     DEF InitializeTriggered, InitializeTriggeredJoints

LEMMA FinishFeedHoldStays == ASSUME NEW c, Whole(c) PROVE Stays(c, FinishFeedHold(c))
<1> DEFINE held == [c EXCEPT !.feed = "Held", !.state = "Held", !.moving = FALSE]
<1>1. Elsewhere(c, held)
  BY DEF Elsewhere
<1>2. Stays(c, held)
  BY <1>1, ElsewhereStays
<1> HIDE DEF held
<1> QED
  BY <1>2, EmitStays, EventUncounted, StaysTrans, QuietWhole
     DEF FinishFeedHold, BackendHeld, Counted, held

LEMMA StopsStay == \A c, o, mode : Whole(c) =>
    Stays(c, BeginPlanStop(c, o)) /\ Stays(c, BeginTriggeredStop(c, mode))
  BY StaysSelf, ElsewhereStays, ElsewhereUpdates DEF BeginPlanStop, BeginTriggeredStop
LEMMA EnableStays == ASSUME NEW c, Whole(c)
    PROVE  Stays(c, Enable(c)) /\ Stays(c, ResetEmergencyStop(c))
<1>1. Elsewhere(c, [c EXCEPT !.state = "Held", !.fault = "None", !.faultReported = FALSE])
  BY DEF Elsewhere
<1>2. Elsewhere(c, [c EXCEPT !.state = "Disabled", !.fault = "None", !.faultReported = FALSE,
                             !.safeOutputs = TRUE, !.spindle = "Safe"])
  BY DEF Elsewhere
<1> QED
  BY <1>1, <1>2, StaysSelf, ElsewhereStays DEF Enable, ResetEmergencyStop

LEMMA DisableDrops == ASSUME NEW c, NEW o, Whole(c) PROVE Drops(c, Disable(c, o))
<1> DEFINE dropped == DiscardExecution(AbandonJog(c, o, "Disabled"))
           disabled == [dropped EXCEPT !.state = "Disabled", !.moving = FALSE,
                                       !.safeOutputs = TRUE, !.spindle = "Safe"]
<1>1. Drops(c, dropped)
  BY AbandonJogQuiet, DiscardDrops, DropsTrans, QuietWhole
<1> HIDE DEF dropped
<1>2. Elsewhere(dropped, disabled)
  BY DEF Elsewhere
<1>3. Stays(dropped, disabled)
  BY <1>1, <1>2, ElsewhereStays, QuietWhole
<1> HIDE DEF disabled
<1>4. Drops(c, disabled)
  BY <1>1, <1>3, DropsTrans, QuietWhole
<1> QED
  BY <1>4 DEF Disable, disabled, dropped

LEMMA StartStays == ASSUME NEW c, NEW epoch, Whole(c) PROVE Stays(c, Start(c, epoch))
<1>1. Stays(c, ResetFeedRetiming(c))
  BY RetimingStays
<1>2. \A d : Elsewhere(d, [d EXCEPT !.state = "Running", !.safeOutputs = FALSE])
  BY DEF Elsewhere
<1> QED
  BY <1>1, <1>2, StaysSelf, ElsewhereOn DEF Start

LEMMA ResumeStays ==
    ASSUME NEW c, NEW o, NEW epoch, NEW queued, Whole(c), c.active.kind \in ItemKinds
    PROVE  Stays(c, Resume(c, o, epoch, queued))
<1> DEFINE running == [c EXCEPT !.state = "Running", !.safeOutputs = FALSE]
<1>1. Stays(c, running) /\ Stays(c, c)
  BY StaysSelf, ElsewhereStays, ElsewhereUpdates
<1> HIDE DEF running
<1>2. Stays(c, ResetFeedRetiming(running)) /\ Stays(c, ResumeChunk(running))
  <2>1. Elsewhere(running, ResumeChunk(running))
    BY DEF Elsewhere, ResumeChunk
  <2> QED
    BY <1>1, <2>1, RetimingStays, ElsewhereOn, StaysTrans, QuietWhole
<1>3. Stays(c, InitializeTriggered(running, o))
  BY <1>1, InitializeTriggeredStays, StaysTrans, QuietWhole
<1>4. Stays(c, ResetFeedRetiming(InitializeTriggered(running, o)))
  BY <1>3, RetimingStays, StaysTrans, QuietWhole
<1> QED
  BY <1>1, <1>2, <1>4 DEF Resume, ItemKinds, running

LEMMA FeedHoldStays == ASSUME NEW c, NEW o, Whole(c), c.active.kind \in ItemKinds
    PROVE  Stays(c, FeedHold(c, o))
<1> DEFINE holding == [c EXCEPT !.feed = "Holding", !.state = "Holding"]
<1>1. Stays(c, holding) /\ Stays(c, c)
  BY StaysSelf, ElsewhereStays, ElsewhereUpdates
<1> HIDE DEF holding
<1>2. Stays(c, BeginTriggeredStop(c, "HoldStop"))
      /\ Stays(c, BeginTriggeredStop(holding, "HoldStop"))
  BY <1>1, StopsStay, StaysTrans, QuietWhole
<1> QED
  BY <1>1, <1>2 DEF FeedHold, ItemKinds, holding

LEMMA ControlledStopQuiet == ASSUME NEW c, NEW o, Whole(c), c.active.kind \in ItemKinds
    PROVE  Quiet(c, ControlledStop(c, o))
<1>1. \A d : Stays(c, d) => Stays(c, [d EXCEPT !.state = "Holding"])
  BY ElsewhereStays, ElsewhereUpdates, StaysTrans, QuietWhole
<1>2. \A d : Stays(c, d) => Stays(c, ResetFeedRetiming(d))
  BY RetimingStays, StaysTrans, QuietWhole
<1>3. \A d, code : Stays(c, d) => Stays(c, Fault(d, code))
  BY FaultStays, StaysTrans, QuietWhole
<1>4. /\ Stays(c, c) /\ Stays(c, BeginPlanStop(c, o))
      /\ Stays(c, BeginTriggeredStop(c, "AbortStop"))
  BY StaysSelf, StopsStay
<1>5. Stays(c, StopChunk(c, o))
  BY <1>1, <1>2, <1>4 DEF StopChunk
<1>6. Stays(c, StopTriggered(c, o))
  BY <1>1, <1>2, <1>3, <1>4 DEF StopTriggered
<1>7. Stays(c, StopTriggeredJoints(c, o))
  <2> DEFINE braking == [c EXCEPT !.aborted = TRUE,
                             !.joints = [j \in Joints |->
                                 IF c.joints[j] = "Approach"
                                 THEN "Stopping" ELSE c.joints[j]]]
  <2>1. Stays(c, braking)
    BY ElsewhereStays, ElsewhereUpdates
  <2> HIDE DEF braking
  <2> QED
    BY <1>1, <1>3, <2>1 DEF StopTriggeredJoints, braking
<1> QED
  BY <1>4, <1>5, <1>6, <1>7, BeginJogStopQuiet, QuietWhole DEF ControlledStop, ItemKinds

LEMMA LatchDrops == ASSUME NEW c, NEW o, Whole(c) PROVE Drops(c, LatchEmergencyStop(c, o))
<1> DEFINE abandoned == AbandonJog(DiscardExecution(c), o, "Aborted")
           standing == [abandoned EXCEPT !.moving = FALSE]
<1>1. Drops(c, abandoned)
  BY DiscardDrops, AbandonJogQuiet, DropsTrans, QuietWhole
<1> HIDE DEF abandoned
<1>2. Drops(c, standing)
  BY ZenonT(60), <1>1, ElsewhereStays, ElsewhereUpdates, DropsTrans, QuietWhole
<1> HIDE DEF standing
<1> QED
  BY <1>2, FaultStays, DropsTrans, QuietWhole DEF LatchEmergencyStop, standing, abandoned

-----------------------------------------------------------------------------
(* What becomes of the items: the events of a step in sets, and the ways   *)
(* in which the active item and the queue move on.                         *)

ItemEvents == {"ChunkAccepted", "ChunkRejected", "ChunkRetired"}

Tells(s, accepted, rejected, retired, stops) ==
    /\ IsSequence(s)
    /\ Told(s, "ChunkAccepted") = accepted /\ Told(s, "ChunkRejected") = rejected
    /\ Told(s, "ChunkRetired") = retired /\ Stops(s) = stops
    /\ Told(s, "RequestCompleted") = {}
    /\ \A T \in ItemEvents : InOrder(s, T)
Untold(s) == Tells(s, {}, {}, {}, {})

LEMMA TellsHush == ASSUME NEW s, NEW t, NEW a, NEW j, NEW r, NEW p,
                          Tells(s, a, j, r, p), Hush(s, t)
                   PROVE  Tells(t, a, j, r, p)
  BY DEF Tells, Hush, Counted, ItemEvents

LEMMA TellsItem == ASSUME NEW s, NEW e, NEW a, NEW j, NEW r, NEW p, Tells(s, a, j, r, p)
    PROVE  LET t == Append(s, e)
           IN  /\ e.type = "ChunkAccepted" /\ a = {} => Tells(t, {e.id}, j, r, p)
               /\ e.type = "ChunkRejected" /\ j = {} => Tells(t, a, {e.id}, r, p)
               /\ e.type = "ChunkRetired" /\ r = {} => Tells(t, a, j, {e.id}, p)
               /\ e.type = "TriggeredMoveCompleted" =>
                    Tells(t, a, j, r, p) /\ Told(t, "TriggeredMoveCompleted") # {}
               /\ e.type = "BackendHeld" /\ e.info = "ControlledStop" =>
                    Tells(t, a, j, r, p \union {e.id})
<1> DEFINE t == Append(s, e)
<1>1. IsSequence(s) /\ IsSequence(t)
  BY AppendEvent DEF Tells
<1>2. /\ \A T : Told(t, T) = Told(s, T) \union (IF e.type = T THEN {e.id} ELSE {})
      /\ \A T : InOrder(s, T) /\ (e.type = T => \A x \in Told(s, T) : x < e.id) => InOrder(t, T)
      /\ Stops(t) = Stops(s) \union
            (IF e.type = "BackendHeld" /\ e.info = "ControlledStop" THEN {e.id} ELSE {})
  BY <1>1, ToldAppend
<1> HIDE DEF t
<1>3. ASSUME e.type = "ChunkAccepted", a = {} PROVE Tells(t, {e.id}, j, r, p)
  BY <1>1, <1>2, <1>3 DEF Tells, ItemEvents
<1>4. ASSUME e.type = "ChunkRejected", j = {} PROVE Tells(t, a, {e.id}, r, p)
  BY <1>1, <1>2, <1>4 DEF Tells, ItemEvents
<1>5. ASSUME e.type = "ChunkRetired", r = {} PROVE Tells(t, a, j, {e.id}, p)
  BY <1>1, <1>2, <1>5 DEF Tells, ItemEvents
<1>6. ASSUME e.type = "TriggeredMoveCompleted"
      PROVE  Tells(t, a, j, r, p) /\ Told(t, "TriggeredMoveCompleted") # {}
  BY <1>1, <1>2, <1>6 DEF Tells, ItemEvents
<1>7. ASSUME e.type = "BackendHeld", e.info = "ControlledStop"
      PROVE  Tells(t, a, j, r, p \union {e.id})
  BY <1>1, <1>2, <1>7 DEF Tells, ItemEvents
<1> QED
  BY <1>3, <1>4, <1>5, <1>6, <1>7 DEF t

LEMMA TellsAccepted == ASSUME NEW s, NEW e, NEW j, NEW r, NEW p,
                              Tells(s, {}, j, r, p), e.type = "ChunkAccepted"
                       PROVE  Tells(Append(s, e), {e.id}, j, r, p)
  BY TellsItem
LEMMA TellsRejected == ASSUME NEW s, NEW e, NEW a, NEW r, NEW p,
                              Tells(s, a, {}, r, p), e.type = "ChunkRejected"
                       PROVE  Tells(Append(s, e), a, {e.id}, r, p)
  BY TellsItem
LEMMA TellsRetired == ASSUME NEW s, NEW e, NEW a, NEW j, NEW p,
                             Tells(s, a, j, {}, p), e.type = "ChunkRetired"
                      PROVE  Tells(Append(s, e), a, j, {e.id}, p)
  BY TellsItem

LEMMA WiderSequence == ASSUME NEW S, NEW s \in Seq(S), NEW R, S \subseteq R
                       PROVE  s \in Seq(R)
<1>1. \A i \in 1..Len(s) : s[i] \in R
  OBVIOUS
<1> QED
  BY <1>1

\* The retirement of all items of a queue at once.
LEMMA AppendRetirements == ASSUME NEW s, IsSequence(s), NEW items \in Seq(Items)
    PROVE  LET n == Len(items)
               r == [i \in 1..n |-> Event("ChunkRetired", items[i].id, items[i].epoch)]
               t == s \o r
               k == Len(s)
           IN  /\ n \in Nat /\ k \in Nat /\ IsSequence(t)
               /\ DOMAIN t = 1..(k + n) /\ Len(t) = k + n
               /\ \A i \in 1..k : t[i] = s[i]
               /\ \A i \in 1..n : t[k + i].type = "ChunkRetired" /\ t[k + i].id = items[i].id
               /\ \A i \in (k + 1)..(k + n) : t[i].type = "ChunkRetired"
<1> DEFINE n == Len(items)
           r == [i \in 1..n |-> Event("ChunkRetired", items[i].id, items[i].epoch)]
           t == s \o r
           k == Len(s)
           R == Range(s) \union Range(r)
<1>1. n \in Nat /\ k \in Nat /\ DOMAIN s = 1..k /\ s \in Seq(R)
  <2>1. n \in Nat /\ k \in Nat /\ DOMAIN s = 1..k
    BY SequenceFacts
  <2>2. s \in Seq(Range(s)) /\ Range(s) \subseteq R
    BY DEF IsSequence
  <2> HIDE DEF R
  <2>3. s \in Seq(R)
    BY <2>2, WiderSequence
  <2> QED
    BY <2>1, <2>3
<1>2. r \in Seq(R) /\ Len(r) = n
  <2>1. DOMAIN r = 1..n /\ r = [i \in 1..n |-> r[i]]
    OBVIOUS
  <2> HIDE DEF r
  <2>2. \A i \in 1..n : r[i] \in R
    BY <2>1 DEF Range
  <2> HIDE DEF n, R
  <2>3. n \in Nat
    BY <1>1
  <2> QED
    BY <2>1, <2>2, <2>3
<1>3. \A i \in 1..n : r[i].type = "ChunkRetired" /\ r[i].id = items[i].id
  BY DEF Event
<1> HIDE DEF R, n, r, k
<1>4. /\ DOMAIN t = 1..(k + n) /\ Len(t) = k + n /\ t \in Seq(R)
      /\ \A i \in 1..k : t[i] = s[i]
      /\ \A i \in 1..n : t[k + i] = r[i]
  BY <1>1, <1>2 DEF k
<1> HIDE DEF t
<1>5. \A i \in (k + 1)..(k + n) : i - k \in 1..n /\ i = k + (i - k)
  BY <1>1
<1>6. IsSequence(t)
  <2>1. \A i \in 1..(k + n) : t[i] \in Range(t)
    BY <1>4 DEF Range
  <2>2. k + n \in Nat
    BY <1>1
  <2> QED
    BY <1>4, <2>1, <2>2 DEF IsSequence
<1> QED
  BY <1>1, <1>3, <1>4, <1>5, <1>6 DEF n, r, k, t

LEMMA TellsRetirements == ASSUME NEW s, Untold(s), NEW items \in Seq(Items),
                                 \A i, j \in 1..Len(items) : i < j => items[i].id < items[j].id
    PROVE  LET r == [i \in 1..Len(items) |->
                        Event("ChunkRetired", items[i].id, items[i].epoch)]
           IN  Tells(s \o r, {}, {}, {items[i].id : i \in 1..Len(items)}, {})
<1> DEFINE n == Len(items)
           r == [i \in 1..n |-> Event("ChunkRetired", items[i].id, items[i].epoch)]
           t == s \o r
           k == Len(s)
<1>1. n \in Nat /\ k \in Nat /\ DOMAIN s = 1..k
  BY SequenceFacts DEF Untold, Tells
<1>2. /\ IsSequence(t) /\ DOMAIN t = 1..(k + n)
      /\ \A i \in 1..k : t[i] = s[i]
      /\ \A i \in 1..n : t[k + i].type = "ChunkRetired" /\ t[k + i].id = items[i].id
      /\ \A i \in (k + 1)..(k + n) : t[i].type = "ChunkRetired"
  <2>1. IsSequence(s)
    BY DEF Untold, Tells
  <2> QED
    BY <2>1, AppendRetirements
<1> HIDE DEF n, k, t
<1>3. \A i \in 1..(k + n) : i \in 1..k \/ (i - k \in 1..n /\ i = k + (i - k))
  BY <1>1
<1>4. /\ \A i \in 1..k : i \in 1..(k + n)
      /\ \A i \in 1..n : k + i \in 1..(k + n)
  BY <1>1
<1>5. \A i \in 1..(k + n) : i \in 1..k \/ t[i].type = "ChunkRetired"
  BY <1>2, <1>3
<1>6. ASSUME NEW T, T # "ChunkRetired" PROVE Told(t, T) = Told(s, T)
  BY <1>1, <1>2, <1>4, <1>5, <1>6 DEF Told
<1>7. Stops(t) = Stops(s)
  BY SMTT(30), <1>1, <1>2, <1>4, <1>5 DEF Stops
<1>8. Told(s, "ChunkRetired") = {}
  BY DEF Untold, Tells
<1>9. \A i \in 1..k : s[i].type # "ChunkRetired"
  BY <1>1, <1>8 DEF Told
<1>10. Told(t, "ChunkRetired") = {items[i].id : i \in 1..n}
  <2>1. ASSUME NEW i \in 1..(k + n), t[i].type = "ChunkRetired"
        PROVE  i - k \in 1..n /\ t[i].id = items[i - k].id
    <3>1. i - k \in 1..n /\ i = k + (i - k)
      BY <1>2, <1>3, <1>9, <2>1
    <3> QED
      BY <1>2, <3>1
  <2>2. ASSUME NEW i \in 1..n
        PROVE  /\ k + i \in 1..(k + n) /\ t[k + i].type = "ChunkRetired"
               /\ t[k + i].id = items[i].id
    BY <1>2, <1>4
  <2> QED
    BY <1>2, <2>1, <2>2 DEF Told
<1>11. ASSUME NEW T \in ItemEvents PROVE InOrder(t, T)
  <2> SUFFICES ASSUME NEW i \in 1..(k + n), NEW j \in 1..(k + n), i < j,
                      t[i].type = T, t[j].type = T
               PROVE  t[i].id < t[j].id
    BY <1>2 DEF InOrder
  <2>1. CASE T = "ChunkRetired"
    <3>1. /\ i - k \in 1..n /\ i = k + (i - k) /\ j - k \in 1..n /\ j = k + (j - k)
          /\ i - k < j - k
      BY <1>1, <1>2, <1>3, <1>9, <2>1
    <3>2. t[i].id = items[i - k].id /\ t[j].id = items[j - k].id
      BY <1>2, <3>1
    <3> QED
      BY <3>1, <3>2 DEF n
  <2>2. CASE T # "ChunkRetired"
    <3>1. i \in 1..k /\ j \in 1..k /\ InOrder(s, T)
      BY <1>5, <2>2 DEF Untold, Tells
    <3> QED
      BY <1>1, <1>2, <3>1 DEF InOrder
  <2> QED
    BY <2>1, <2>2
<1> QED
  BY <1>2, <1>6, <1>7, <1>10, <1>11 DEF Untold, Tells, t, r, n, ItemEvents

\* What a step of the executor may do with its items: the head of the queue is
\* accepted, rejected, or continues the active item; the active item retires,
\* alone or with the whole queue in a controlled stop.
TakesHead(c, d) == d.active = Head(c.plans) /\ d.plans = Tail(c.plans)

Accepted(c, d) ==
    /\ ~Active(c) /\ c.plans # <<>> /\ Head(c.plans).epoch = c.epoch
    /\ Whole(d) /\ SameEpochs(c, d) /\ TakesHead(c, d)
    /\ Tells(d.out, {Head(c.plans).id}, {}, {}, {})
Rejected(c, d) ==
    /\ c.plans # <<>>
    /\ Whole(d) /\ SameEpochs(c, d)
    /\ (d.active = c.active /\ d.plans = Tail(c.plans)) \/ NoItemsLeft(d)
    /\ Tells(d.out, {}, {Head(c.plans).id}, {}, {})
Continued(c, d) ==
    /\ Active(c) /\ c.plans # <<>> /\ Head(c.plans).epoch = c.active.epoch
    /\ Whole(d) /\ SameEpochs(c, d) /\ TakesHead(c, d)
    /\ Tells(d.out, {Head(c.plans).id}, {}, {c.active.id}, {})
Retired(c, d) ==
    /\ Active(c)
    /\ Whole(d) /\ SameEpochs(c, d) /\ d.active = NoItem /\ d.plans \in {c.plans, <<>>}
    /\ \E stops : /\ Tells(d.out, {}, {}, {c.active.id}, stops)
                  /\ stops = {} \/ Told(d.out, "TriggeredMoveCompleted") # {}
Abandoned(c, d) ==
    /\ Active(c)
    /\ Whole(d) /\ d.epoch = c.epoch /\ d.demand = c.demand
    /\ d.stoppedEpoch = c.active.epoch /\ NoItemsLeft(d)
    /\ Tells(d.out, {}, {}, {c.active.id} \union {x.id : x \in Range(c.plans)},
             {c.active.epoch})
Advanced(c, d) ==
    Quiet(c, d) \/ Rejected(c, d) \/ Continued(c, d) \/ Retired(c, d) \/ Abandoned(c, d)

LEMMA StaysOn == ASSUME NEW d, NEW e, Stays(d, e)
    PROVE  /\ Whole(e) /\ d.active = e.active /\ d.plans = e.plans /\ Hush(d.out, e.out)
           /\ e.epoch = d.epoch /\ e.demand = d.demand /\ e.stoppedEpoch = d.stoppedEpoch
           /\ Told(e.out, "TriggeredMoveCompleted") = Told(d.out, "TriggeredMoveCompleted")
           /\ (Untold(d.out) => Untold(e.out))
  BY TellsHush DEF Stays, Hushed, Hush, Counted, SameItems, SameEpochs, Untold

LEMMA AfterAccepted == \A c, d, e : Accepted(c, d) /\ Stays(d, e) => Accepted(c, e)
  BY StaysOn, TellsHush DEF Accepted, TakesHead, SameEpochs
LEMMA AfterRejected == \A c, d, e : Rejected(c, d) /\ Stays(d, e) => Rejected(c, e)
  BY StaysOn, TellsHush DEF Rejected, NoItemsLeft, SameEpochs
LEMMA AfterContinued == \A c, d, e : Continued(c, d) /\ Stays(d, e) => Continued(c, e)
  BY StaysOn, TellsHush DEF Continued, TakesHead, SameEpochs
LEMMA AfterRetired == ASSUME NEW c, NEW d, NEW e, Retired(c, d), Stays(d, e) PROVE Retired(c, e)
<1>1. PICK stops : /\ Tells(d.out, {}, {}, {c.active.id}, stops)
                   /\ stops = {} \/ Told(d.out, "TriggeredMoveCompleted") # {}
  BY DEF Retired
<1>2. Tells(e.out, {}, {}, {c.active.id}, stops)
  BY <1>1, StaysOn, TellsHush
<1> QED
  BY <1>1, <1>2, StaysOn DEF Retired, SameEpochs
LEMMA AfterAbandoned == \A c, d, e : Abandoned(c, d) /\ Stays(d, e) => Abandoned(c, e)
  BY StaysOn, TellsHush DEF Abandoned, NoItemsLeft

LEMMA AdvancedAfter == \A c, d, e : Advanced(c, d) /\ Stays(d, e) => Advanced(c, e)
  BY AfterRejected, AfterContinued, AfterRetired, AfterAbandoned, QuietTrans, QuietWhole
     DEF Advanced

LEMMA AdvancedBefore == ASSUME NEW b, NEW c, NEW d, Stays(b, c), Advanced(c, d)
    PROVE  Advanced(b, d)
<1>1. b.active = c.active /\ b.plans = c.plans /\ b.epoch = c.epoch /\ b.demand = c.demand
      /\ b.stoppedEpoch = c.stoppedEpoch
  BY StaysOn
<1>2. Quiet(c, d) => Quiet(b, d)
  BY QuietTrans, QuietWhole
<1>3. Rejected(c, d) => Rejected(b, d)
  BY <1>1 DEF Rejected, SameEpochs
<1>4. Continued(c, d) => Continued(b, d)
  BY <1>1 DEF Continued, SameEpochs, TakesHead, Active
<1>5. Retired(c, d) => Retired(b, d)
  BY <1>1 DEF Retired, SameEpochs, Active
<1>6. Abandoned(c, d) => Abandoned(b, d)
  BY <1>1 DEF Abandoned, Active
<1> QED
  BY <1>2, <1>3, <1>4, <1>5, <1>6 DEF Advanced

\* Emit, as the sequence of events sees it.
LEMMA EmitOut == ASSUME NEW c, NEW e, Whole(c)
    PROVE  /\ Whole(Emit(c, e)) /\ Emit(c, e).out = Append(c.out, e)
           /\ SameEpochs(c, Emit(c, e)) /\ SameItems(c, Emit(c, e))
<1>1. /\ CoreFields \subseteq DOMAIN Emit(c, e) /\ Emit(c, e).out = Append(c.out, e)
      /\ SameEpochs(c, Emit(c, e)) /\ SameItems(c, Emit(c, e))
  BY DEF Whole, CoreFields, Emit, SameEpochs, SameItems
<1> QED
  BY <1>1, AppendEvent DEF Whole

LEMMA AcceptTakes == ASSUME NEW c, NEW o, NEW item, Whole(c), item.kind \in ItemKinds,
                            NEW j, NEW r, NEW p, Tells(c.out, {}, j, r, p)
    PROVE  LET d == Accept(c, o, item)
           IN  /\ Whole(d) /\ SameEpochs(c, d) /\ d.active = item /\ d.plans = c.plans
               /\ Tells(d.out, {item.id}, j, r, p)
<1> DEFINE taken == [c EXCEPT !.active = item, !.stopping = FALSE,
                              !.span = 0, !.event = 0, !.marker = 0]
           accepted == Emit(taken, Event("ChunkAccepted", item.id, item.epoch))
<1>1. /\ Whole(taken) /\ SameEpochs(c, taken) /\ taken.active = item /\ taken.plans = c.plans
      /\ taken.out = c.out
  BY DEF Whole, CoreFields, SameEpochs
<1> HIDE DEF taken
<1>2. Tells(accepted.out, {item.id}, j, r, p)
  <2> DEFINE e == Event("ChunkAccepted", item.id, item.epoch)
  <2>1. e.type = "ChunkAccepted" /\ e.id = item.id
    BY DEF Event
  <2> HIDE DEF e
  <2>2. accepted.out = Append(c.out, e)
    BY <1>1, EmitOut DEF e
  <2> HIDE DEF accepted
  <2>3. Tells(Append(c.out, e), {e.id}, j, r, p)
    BY <2>1, TellsAccepted
  <2> QED
    BY <2>1, <2>2, <2>3
<1>3. /\ Whole(accepted) /\ SameEpochs(c, accepted) /\ accepted.active = item
      /\ accepted.plans = c.plans
  BY <1>1, EmitOut DEF SameEpochs, SameItems
<1> HIDE DEF accepted
<1>4. Stays(accepted, Accept(c, o, item))
  <2>1. /\ Stays(accepted, BeginSpan(accepted, o))
        /\ Stays(accepted, InitializeTriggered(accepted, o))
        /\ Stays(accepted, InitializeTriggeredJoints(accepted, o))
    BY <1>3, BeginSpanStays, InitializeTriggeredStays
  <2> QED
    BY <2>1 DEF Accept, ItemKinds, accepted, taken
<1> QED
  BY <1>2, <1>3, <1>4, StaysOn, TellsHush DEF SameEpochs

LEMMA PoppedWhole == \A c : Whole(c) =>
    LET popped == [c EXCEPT !.plans = Tail(@)]
    IN  /\ Whole(popped) /\ SameEpochs(c, popped) /\ popped.out = c.out
        /\ popped.active = c.active /\ popped.plans = Tail(c.plans)
  BY DEF Whole, CoreFields, SameEpochs

LEMMA ActivateNextFlows == \A c, o :
    Whole(c) /\ Untold(c.out) /\ ~Active(c) /\ c.plans \in Seq(Items) =>
        LET d == ActivateNext(c, o) IN Quiet(c, d) \/ Rejected(c, d) \/ Accepted(c, d)
<1> SUFFICES ASSUME NEW c, NEW o, Whole(c), Untold(c.out), ~Active(c), c.plans \in Seq(Items),
                    c.plans # <<>>
             PROVE  LET d == ActivateNext(c, o)
                    IN  Quiet(c, d) \/ Rejected(c, d) \/ Accepted(c, d)
  BY StaysSelf, QuietWhole DEF ActivateNext
<1> DEFINE item == Head(c.plans)
           popped == [c EXCEPT !.plans = Tail(@)]
           rejected == Reject(popped, item)
           fresh == FreshRuntimes(popped)
<1>1. item.kind \in ItemKinds
  <2>1. item \in Items
    OBVIOUS
  <2> HIDE DEF item
  <2> QED
    BY <2>1 DEF Items
<1>2. /\ Whole(popped) /\ SameEpochs(c, popped) /\ popped.out = c.out
      /\ popped.active = c.active /\ popped.plans = Tail(c.plans)
  BY PoppedWhole
<1> HIDE DEF popped
<1>3. Rejected(c, rejected)
  <2>1. Tells(rejected.out, {}, {item.id}, {}, {})
    <3> DEFINE e == Event("ChunkRejected", item.id, item.epoch)
    <3>1. e.type = "ChunkRejected" /\ e.id = item.id
      BY DEF Event
    <3>2. rejected.out = Append(c.out, e)
      BY <1>2, EmitOut DEF Reject
    <3> HIDE DEF e, rejected, item
    <3> QED
      BY <3>1, <3>2, TellsRejected DEF Untold
  <2> QED
    BY <1>2, <2>1, EmitOut DEF Rejected, Reject, SameEpochs, SameItems
<1> HIDE DEF rejected
<1>4. Rejected(c, Fault(rejected, "PlanStartDiscontinuity"))
  BY <1>3, FaultStays, AfterRejected DEF Rejected
<1>5. Stays(popped, fresh) /\ Untold(fresh.out)
  BY <1>2, FreshStays, StaysOn
<1> HIDE DEF fresh
<1>6. item.epoch = c.epoch => Accepted(c, Accept(fresh, o, item))
  <2> DEFINE d == Accept(fresh, o, item)
  <2>1. /\ Whole(d) /\ SameEpochs(fresh, d) /\ d.active = item /\ d.plans = fresh.plans
        /\ Tells(d.out, {item.id}, {}, {}, {})
    BY <1>1, <1>5, AcceptTakes, StaysOn DEF Untold
  <2> HIDE DEF d
  <2> QED
    BY <1>2, <1>5, <2>1, StaysOn DEF Accepted, SameEpochs, TakesHead, d
<1> QED
  BY <1>3, <1>4, <1>6 DEF ActivateNext, popped, rejected, fresh

\* The active item and the queue are in the order of their ids.
InLine(c) == LET q == <<c.active>> \o c.plans
             IN  \A i, j \in 1..Len(q) : i < j => q[i].id < q[j].id
Ready(c) == Whole(c) /\ Untold(c.out) /\ Active(c)
            /\ c.active \in Items /\ c.plans \in Seq(Items)

LEMMA ReadyAfter == \A c, d : Ready(c) /\ Stays(c, d) => Ready(d)
  BY StaysOn DEF Ready, Active

LEMMA HeadKind == ASSUME NEW c, c.plans \in Seq(Items), c.plans # <<>>
    PROVE  Head(c.plans) \in Items /\ Head(c.plans).kind \in ItemKinds
<1>1. Head(c.plans) \in Items
  OBVIOUS
<1> QED
  BY <1>1 DEF Items

\* Emit of a retirement, and of a rejection, where none was told.
LEMMA RetireTells ==
    ASSUME NEW c, NEW item, Whole(c), NEW a, NEW j, NEW p, Tells(c.out, a, j, {}, p)
    PROVE  LET d == Retire(c, item)
           IN  /\ Whole(d) /\ SameEpochs(c, d) /\ SameItems(c, d)
               /\ Tells(d.out, a, j, {item.id}, p)
<1> DEFINE e == Event("ChunkRetired", item.id, item.epoch)
<1>1. e.type = "ChunkRetired" /\ e.id = item.id
  BY DEF Event
<1> HIDE DEF e
<1>2. Tells(Append(c.out, e), a, j, {e.id}, p)
  BY <1>1, TellsRetired
<1> QED
  BY <1>1, <1>2, EmitOut DEF Retire, e

LEMMA RejectTells ==
    ASSUME NEW c, NEW item, Whole(c), NEW a, NEW r, NEW p, Tells(c.out, a, {}, r, p)
    PROVE  LET d == Reject(c, item)
           IN  /\ Whole(d) /\ SameEpochs(c, d) /\ SameItems(c, d)
               /\ Tells(d.out, a, {item.id}, r, p)
<1> DEFINE e == Event("ChunkRejected", item.id, item.epoch)
<1>1. e.type = "ChunkRejected" /\ e.id = item.id
  BY DEF Event
<1> HIDE DEF e
<1>2. Tells(Append(c.out, e), a, {e.id}, r, p)
  BY <1>1, TellsRejected
<1> QED
  BY <1>1, <1>2, EmitOut DEF Reject, e

\* A rejected item may be followed by the loss of all others.
LEMMA RejectedDrops == \A c, d, e : Rejected(c, d) /\ Drops(d, e) => Rejected(c, e)
  BY TellsHush DEF Rejected, Drops, Hushed, SameEpochs

LEMMA SelectFlows == ASSUME NEW c, NEW o, Ready(c)
    PROVE  Advanced(c, SelectContinuationOrStop(c, o))
<1> DEFINE current == c.active
           next == Head(c.plans)
           popped == [c EXCEPT !.plans = Tail(@)]
           selected(choice) == Event("BranchSelected", current.id, choice)
           rejected == Reject(popped, next)
           ending ==
            IF c.plans # <<>>
            THEN [rejected EXCEPT !.tailFault = "Discontinuity"]
            ELSE IF current.policy = "ContinuationRequired"
            THEN [c EXCEPT !.tailFault = "Underrun"] ELSE c
           chosen == Emit(popped, selected("Continue"))
           continued == Retire(chosen, current)
           told == Emit(ending, selected("Stop"))
           stopped == [told EXCEPT !.stopping = TRUE, !.span = 0]
<1>1. Whole(c) /\ Untold(c.out) /\ Active(c) /\ (c.plans # <<>> => next.kind \in ItemKinds)
  BY HeadKind DEF Ready
<1>2. /\ Whole(popped) /\ SameEpochs(c, popped) /\ popped.out = c.out
      /\ popped.active = c.active /\ popped.plans = Tail(c.plans)
  BY <1>1, PoppedWhole
<1>3. \A choice : Uncounted(selected(choice))
  BY EventUncounted DEF Counted
<1> HIDE DEF popped, next, selected
<1>4. ASSUME c.plans # <<>>, next.epoch = current.epoch
      PROVE  Continued(c, Accept(continued, o, next))
  <2>1. Stays(popped, chosen) /\ Untold(chosen.out)
    BY <1>1, <1>2, <1>3, EmitStays, StaysOn
  <2> HIDE DEF chosen
  <2>2. /\ Whole(continued) /\ SameEpochs(chosen, continued) /\ SameItems(chosen, continued)
        /\ Tells(continued.out, {}, {}, {current.id}, {})
    BY <2>1, RetireTells, StaysOn DEF Untold
  <2> HIDE DEF continued
  <2> DEFINE d == Accept(continued, o, next)
  <2>3. /\ Whole(d) /\ SameEpochs(continued, d) /\ d.active = next /\ d.plans = continued.plans
        /\ Tells(d.out, {next.id}, {}, {current.id}, {})
    BY <1>1, <1>4, <2>2, AcceptTakes
  <2> HIDE DEF d
  <2>4. SameEpochs(c, d) /\ d.plans = Tail(c.plans)
    BY <1>2, <2>1, <2>2, <2>3, StaysOn DEF SameEpochs, SameItems
  <2> QED
    BY <1>1, <1>4, <2>3, <2>4 DEF Continued, TakesHead, next, d
<1>5. Advanced(c, ending) /\ Whole(ending)
      /\ (Rejected(c, ending) \/ Stays(c, ending))
  <2>1. CASE c.plans # <<>>
    <3>1. Rejected(c, rejected)
      <4>1. /\ Whole(rejected) /\ SameEpochs(popped, rejected) /\ SameItems(popped, rejected)
            /\ Tells(rejected.out, {}, {next.id}, {}, {})
        BY <1>1, <1>2, RejectTells DEF Untold
      <4> HIDE DEF rejected
      <4> QED
        BY <1>2, <2>1, <4>1 DEF Rejected, SameEpochs, SameItems, next
    <3> HIDE DEF rejected
    <3>2. Stays(rejected, ending)
      BY <2>1, <3>1, ElsewhereStays, ElsewhereUpdates DEF Rejected
    <3> QED
      BY <3>1, <3>2, AfterRejected DEF Advanced, Rejected
  <2>2. CASE c.plans = <<>>
    <3>1. Stays(c, ending)
      BY <1>1, <2>2, ElsewhereStays, ElsewhereUpdates, StaysSelf
    <3> QED
      BY <3>1, QuietWhole DEF Advanced
  <2> QED
    BY <2>1, <2>2
<1> HIDE DEF ending
<1>6. Advanced(c, Fault(DiscardExecution(ending), "FeedRetimingStopBranch"))
  <2>1. Drops(ending, DiscardExecution(ending))
    BY <1>5, DiscardDrops
  <2>2. Advanced(c, DiscardExecution(ending))
    BY <1>5, <2>1, RejectedDrops, DropsTrans, QuietWhole DEF Advanced
  <2>3. Whole(DiscardExecution(ending))
    BY <2>1, QuietWhole
  <2> QED
    BY <2>2, <2>3, FaultStays, AdvancedAfter
<1>7. Advanced(c, stopped)
  <2>1. Stays(ending, told)
    BY <1>3, <1>5, EmitStays
  <2> HIDE DEF told
  <2>2. Elsewhere(told, stopped)
    BY DEF Elsewhere
  <2>3. Stays(ending, stopped)
    BY <2>1, <2>2, ElsewhereOn
  <2> HIDE DEF stopped
  <2> QED
    BY <1>5, <2>3, AdvancedAfter
<1> HIDE DEF continued, stopped
<1> QED
  BY <1>4, <1>6, <1>7
     DEF SelectContinuationOrStop, Advanced, next, popped, selected, chosen, ending, told,
         stopped, continued, rejected

LEMMA CompleteSpanFlows == ASSUME NEW c, NEW o, Ready(c) PROVE Advanced(c, CompleteSpan(c, o))
<1> DEFINE next == [c EXCEPT !.span = @ + 1]
           retired == Retire(next, c.active)
           stopped == [retired EXCEPT !.moving = FALSE]
           held == BackendHeld(stopped, c.active.epoch, "StopBranch")
           ended == [held EXCEPT !.state = "Held", !.active = NoItem]
<1>0. Elsewhere(c, next)
  BY DEF Elsewhere
<1> HIDE DEF next
<1>1. Stays(c, next) /\ Ready(next)
  BY <1>0, ElsewhereStays, ReadyAfter DEF Ready
<1>2. Advanced(c, BeginSpan(next, o)) /\ Advanced(c, SelectContinuationOrStop(next, o))
  <2>1. Advanced(next, SelectContinuationOrStop(next, o))
    BY <1>1, SelectFlows
  <2>2. Stays(c, BeginSpan(next, o))
    BY <1>1, BeginSpanStays, StaysTrans DEF Ready
  <2> QED
    BY <1>1, <2>1, <2>2, AdvancedBefore, QuietWhole DEF Advanced
<1>3. /\ Whole(retired) /\ SameEpochs(c, retired) /\ SameItems(c, retired)
      /\ Tells(retired.out, {}, {}, {c.active.id}, {})
  <2>1. /\ Whole(retired) /\ SameEpochs(next, retired) /\ SameItems(next, retired)
        /\ Tells(retired.out, {}, {}, {c.active.id}, {})
    BY <1>1, RetireTells DEF Ready, Untold
  <2> HIDE DEF retired
  <2> QED
    BY <1>1, <2>1, StaysOn DEF SameEpochs, SameItems
<1> HIDE DEF retired
<1>4. Stays(retired, stopped)
  BY <1>3, ElsewhereStays, ElsewhereUpdates
<1> HIDE DEF stopped
<1>5. Retired(c, Fault(DiscardExecution(stopped), c.tailFault))
  <2> DEFINE d == DiscardExecution(stopped)
  <2>1. Drops(stopped, d)
    BY <1>4, DiscardDrops, QuietWhole
  <2> HIDE DEF d
  <2>2. Drops(retired, d)
    BY <1>4, <2>1, DropsTrans, QuietWhole
  <2>3. Tells(d.out, {}, {}, {c.active.id}, {})
    BY <1>3, <2>2, TellsHush DEF Drops, Hushed
  <2>4. Retired(c, d) /\ Whole(d)
    BY <1>3, <2>2, <2>3 DEF Retired, Drops, Hushed, NoItemsLeft, SameEpochs, Ready
  <2> QED
    BY <2>4, FaultStays, AfterRetired DEF d
<1>6. Stays(retired, held)
  BY <1>4, EmitStays, EventUncounted, StaysTrans, QuietWhole DEF BackendHeld, Counted
<1> HIDE DEF held
<1>7. Retired(c, ended)
  <2>1. /\ Whole(ended) /\ SameEpochs(held, ended) /\ ended.active = NoItem
        /\ ended.plans = held.plans /\ ended.out = held.out
    BY <1>6 DEF Stays, Hushed, Whole, CoreFields, SameEpochs
  <2> HIDE DEF ended
  <2>2. Tells(ended.out, {}, {}, {c.active.id}, {})
    BY <1>3, <1>6, <2>1, TellsHush, StaysOn
  <2> QED
    BY <1>3, <1>6, <2>1, <2>2, StaysOn DEF Retired, SameEpochs, SameItems, Ready
<1> HIDE DEF ended
<1> QED
  BY <1>2, <1>5, <1>7 DEF CompleteSpan, Advanced, next, retired, stopped, held, ended

LEMMA AdvancePlanFlows == ASSUME NEW c, NEW o, Ready(c) PROVE Advanced(c, AdvancePlan(c, o))
<1> DEFINE rated == IF c.feed = "Resuming" /\ o.settled
                    THEN [c EXCEPT !.feed = "None"] ELSE c
           moved == Commit(rated, o, o.moves)
           marked == EmitExecutionMarkersThrough(moved, o.reached \/ o.done)
           advanced == IF o.done THEN CompleteSpan(marked, o) ELSE marked
<1>1. Stays(c, rated)
  BY ElsewhereStays, ElsewhereUpdates, StaysSelf DEF Ready
<1> HIDE DEF rated
<1>2. Quiet(c, moved) /\ (o.trouble # "Limit" => Stays(c, moved))
  BY <1>1, CommitQuiet, QuietTrans, StaysTrans, QuietWhole
<1> HIDE DEF moved
<1>3. o.trouble # "Limit" => Stays(c, marked)
  BY <1>2, MarkersStay, StaysTrans, QuietWhole
<1> HIDE DEF marked
<1>4. o.trouble # "Limit" => Advanced(c, advanced) /\ Whole(advanced)
  <2>1. Stays(c, marked) => Advanced(c, CompleteSpan(marked, o))
    BY ReadyAfter, CompleteSpanFlows, AdvancedBefore
  <2>2. \A d : Advanced(c, d) => Whole(d)
    BY QuietWhole DEF Advanced, Rejected, Continued, Retired, Abandoned
  <2>3. Stays(c, marked) => Advanced(c, marked)
    BY QuietWhole DEF Advanced
  <2> QED
    BY <1>3, <2>1, <2>2, <2>3
<1> HIDE DEF advanced
<1>5. o.trouble # "Limit" => Advanced(c, FinishFeedHold(advanced))
  BY <1>4, FinishFeedHoldStays, AdvancedAfter
<1>6. Advanced(c, Fault(c, "FeedRetiming"))
  BY FaultStays, QuietWhole DEF Ready, Advanced
<1>7. o.trouble # "Limit" => Advanced(c, marked)
  BY <1>3, QuietWhole DEF Advanced
<1>8. Advanced(c, moved)
  BY <1>2 DEF Advanced
<1> QED
  BY <1>4, <1>5, <1>6, <1>7, <1>8 DEF AdvancePlan, rated, moved, marked, advanced

LEMMA TellsStop == ASSUME NEW s, NEW e, NEW a, NEW j, NEW r, NEW p, Tells(s, a, j, r, p),
                          e.type = "BackendHeld", e.info = "ControlledStop"
                   PROVE  Tells(Append(s, e), a, j, r, p \union {e.id})
  BY TellsItem

LEMMA QueueIds == ASSUME NEW x \in Items, NEW q \in Seq(Items)
    PROVE  LET items == <<x>> \o q
           IN  /\ items \in Seq(Items)
               /\ {items[i].id : i \in 1..Len(items)} = {x.id} \union {y.id : y \in Range(q)}
<1> DEFINE items == <<x>> \o q
           n == Len(q)
<1>1. /\ n \in Nat /\ DOMAIN q = 1..n /\ items \in Seq(Items) /\ Len(items) = n + 1
      /\ items[1] = x
      /\ \A i \in 1..n : items[i + 1] = q[i]
  OBVIOUS
<1> HIDE DEF items, n
<1>2. /\ 1 \in 1..(n + 1)
      /\ \A i \in 1..n : i + 1 \in 1..(n + 1)
      /\ \A i \in 1..(n + 1) : i = 1 \/ (i - 1 \in 1..n /\ i = (i - 1) + 1)
  BY <1>1
<1>3. ASSUME NEW i \in 1..(n + 1)
      PROVE  items[i] = x \/ items[i] \in Range(q)
  <2>1. CASE i = 1
    BY <1>1, <2>1
  <2>2. CASE i - 1 \in 1..n /\ i = (i - 1) + 1
    <3>1. items[i] = q[i - 1]
      BY <1>1, <2>2
    <3> QED
      BY <1>1, <2>2, <3>1 DEF Range
  <2> QED
    BY <1>2, <2>1, <2>2
<1>4. x.id \in {items[i].id : i \in 1..(n + 1)}
  BY <1>1, <1>2
<1>5. ASSUME NEW k \in 1..n PROVE q[k].id \in {items[i].id : i \in 1..(n + 1)}
  BY <1>1, <1>2
<1>6. \A y \in Range(q) : \E k \in 1..n : y = q[k]
  BY <1>1 DEF Range
<1>7. {items[i].id : i \in 1..(n + 1)} = {x.id} \union {y.id : y \in Range(q)}
  BY <1>3, <1>4, <1>5, <1>6
<1> QED
  BY <1>1, <1>7 DEF items

LEMMA CompletePlanStopFlows == ASSUME NEW c, Ready(c), InLine(c)
    PROVE  Abandoned(c, CompletePlanStop(c))
<1> DEFINE items == <<c.active>> \o c.plans
           retirements == [i \in 1..Len(items) |->
                            Event("ChunkRetired", items[i].id, items[i].epoch)]
           stopped == [StopEpoch(c) EXCEPT !.active = NoItem, !.plans = <<>>,
                                 !.planStop = "None", !.stopping = FALSE,
                                 !.span = 0, !.event = 0, !.marker = 0,
                                 !.state = "Held", !.out = @ \o retirements]
           ids == {c.active.id} \union {x.id : x \in Range(c.plans)}
           e == Event("BackendHeld", c.active.epoch, "ControlledStop")
<1>1. Tells(c.out \o retirements, {}, {}, ids, {})
  <2>1. items \in Seq(Items) /\ {items[i].id : i \in 1..Len(items)} = ids
    BY QueueIds DEF Ready
  <2>2. \A i, j \in 1..Len(items) : i < j => items[i].id < items[j].id
    BY DEF InLine
  <2> HIDE DEF items, ids
  <2>3. Tells(c.out \o retirements, {}, {}, {items[i].id : i \in 1..Len(items)}, {})
    BY <2>1, <2>2, TellsRetirements DEF Ready
  <2> QED
    BY <2>1, <2>3
<1> HIDE DEF items, retirements, ids
<1>2. /\ CoreFields \subseteq DOMAIN stopped /\ stopped.out = c.out \o retirements
      /\ stopped.epoch = c.epoch /\ stopped.demand = c.demand
      /\ stopped.stoppedEpoch = c.active.epoch
      /\ NoItemsLeft(stopped)
  BY DEF Ready, Whole, CoreFields, StopEpoch, NoItemsLeft
<1> HIDE DEF stopped
<1>3. Whole(stopped)
  BY <1>1, <1>2 DEF Whole, Tells
<1>4. e.type = "BackendHeld" /\ e.info = "ControlledStop" /\ e.id = c.active.epoch
  BY DEF Event
<1> HIDE DEF e
<1>5. Tells(Append(stopped.out, e), {}, {}, ids, {} \union {c.active.epoch})
  BY <1>1, <1>2, <1>4, TellsStop
<1>6. Abandoned(c, Emit(stopped, e))
  <2> DEFINE d == Emit(stopped, e)
  <2>1. /\ Whole(d) /\ d.out = Append(stopped.out, e) /\ SameEpochs(stopped, d)
        /\ SameItems(stopped, d)
    BY <1>3, EmitOut
  <2> HIDE DEF d
  <2>2. {} \union {c.active.epoch} = {c.active.epoch}
    OBVIOUS
  <2>3. Tells(d.out, {}, {}, ids, {c.active.epoch})
    BY <1>5, <2>1, <2>2
  <2> QED
    BY <1>2, <2>1, <2>3 DEF Abandoned, Ready, SameEpochs, SameItems, NoItemsLeft, d, ids
<1> QED
  BY <1>6 DEF CompletePlanStop, AbandonedItems, BackendHeld, stopped, e, retirements, items

LEMMA AdvancePlanStopFlows ==
  \A c, o : Ready(c) /\ InLine(c) => Advanced(c, AdvancePlanStop(c, o))
<1> SUFFICES ASSUME NEW c, NEW o, Ready(c), InLine(c) PROVE Advanced(c, AdvancePlanStop(c, o))
  OBVIOUS
<1> DEFINE finished == o.done \/ c.planStop = "Stationary"
           moved == Commit(c, o, ~finished)
<1>1. Quiet(c, moved)
  BY CommitQuiet DEF Ready
<1> HIDE DEF moved
<1>2. Active(moved) => Stays(c, moved)
  BY <1>1 DEF Quiet, Drops, NoItemsLeft, Active
<1>3. Stays(c, moved) => Ready(moved) /\ InLine(moved)
  BY ReadyAfter, StaysOn DEF InLine
<1>4. Active(moved) => Advanced(c, CompletePlanStop(moved))
  BY <1>2, <1>3, CompletePlanStopFlows, AdvancedBefore DEF Advanced
<1> QED
  BY <1>1, <1>4 DEF AdvancePlanStop, Advanced, moved

\* The end of a move that is active with no path of its own: completed, its
\* branch selected, retired and the machine held.
LEMMA MoveEnds == ASSUME NEW c, Ready(c), NEW status, NEW reason
    PROVE  LET item == c.active
               told == Retire(Emit(Emit(c, Event("TriggeredMoveCompleted", item.id, status)),
                                   Event("BranchSelected", item.id, "Stop")), item)
               held == BackendHeld(told, item.epoch, reason)
           IN  /\ Retired(c, [held EXCEPT !.state = "Held", !.active = NoItem])
               /\ Retired(c, [ResetFeedRetiming(held) EXCEPT !.state = "Held",
                                                             !.active = NoItem])
<1> DEFINE item == c.active
           e == Event("TriggeredMoveCompleted", item.id, status)
           ended == Emit(c, e)
           chosen == Emit(ended, Event("BranchSelected", item.id, "Stop"))
           told == Retire(chosen, item)
           b == Event("BackendHeld", item.epoch, reason)
           held == Emit(told, b)
<1>1. e.type = "TriggeredMoveCompleted" /\ b.type = "BackendHeld"
  BY DEF Event
<1>2. Whole(c) /\ Untold(c.out) /\ Active(c)
  BY DEF Ready
<1> HIDE DEF e, b
<1>3. /\ Whole(ended) /\ SameEpochs(c, ended) /\ SameItems(c, ended)
      /\ Untold(ended.out) /\ Told(ended.out, "TriggeredMoveCompleted") # {}
  <2>1. /\ Whole(ended) /\ ended.out = Append(c.out, e)
        /\ SameEpochs(c, ended) /\ SameItems(c, ended)
    BY <1>2, EmitOut
  <2> HIDE DEF ended
  <2>2. /\ Tells(Append(c.out, e), {}, {}, {}, {})
        /\ Told(Append(c.out, e), "TriggeredMoveCompleted") # {}
    BY <1>1, <1>2, TellsItem DEF Untold
  <2> QED
    BY <2>1, <2>2 DEF Untold
<1> HIDE DEF ended
<1>4. Stays(ended, chosen)
  BY <1>3, EmitStays, EventUncounted DEF Counted
<1> HIDE DEF chosen
<1>5. /\ Whole(chosen) /\ SameEpochs(c, chosen) /\ SameItems(c, chosen)
      /\ Untold(chosen.out) /\ Told(chosen.out, "TriggeredMoveCompleted") # {}
  BY <1>3, <1>4, StaysOn DEF SameEpochs, SameItems
<1>6. /\ Whole(told) /\ SameEpochs(c, told) /\ SameItems(c, told)
      /\ Tells(told.out, {}, {}, {item.id}, {})
  <2>1. /\ Whole(told) /\ SameEpochs(chosen, told) /\ SameItems(chosen, told)
        /\ Tells(told.out, {}, {}, {item.id}, {})
    BY <1>5, RetireTells DEF Untold
  <2> HIDE DEF told
  <2> QED
    BY <1>5, <2>1 DEF SameEpochs, SameItems
<1>7. Told(told.out, "TriggeredMoveCompleted") # {}
  <2> DEFINE r == Event("ChunkRetired", item.id, item.epoch)
  <2>1. told.out = Append(chosen.out, r)
    BY <1>5, EmitOut DEF Retire
  <2> HIDE DEF told, r
  <2>2. Told(Append(chosen.out, r), "TriggeredMoveCompleted") # {}
    BY <1>5, ToldAppend DEF Whole
  <2> QED
    BY <2>1, <2>2
<1> HIDE DEF told
<1>8. /\ Whole(held) /\ SameEpochs(c, held) /\ SameItems(c, held)
      /\ \E stops : Tells(held.out, {}, {}, {item.id}, stops)
      /\ Told(held.out, "TriggeredMoveCompleted") # {}
  <2>1. Whole(held) /\ SameEpochs(told, held) /\ SameItems(told, held)
        /\ held.out = Append(told.out, b)
    BY <1>6, EmitOut
  <2> HIDE DEF held
  <2>2. Told(Append(told.out, b), "TriggeredMoveCompleted") # {}
    BY <1>6, <1>7, ToldAppend DEF Whole
  <2>3. \E stops : Tells(Append(told.out, b), {}, {}, {item.id}, stops)
    <3>1. CASE b.info = "ControlledStop"
      BY <1>1, <1>6, <3>1, TellsStop
    <3>2. CASE b.info # "ControlledStop"
      <4>1. Hush(told.out, Append(told.out, b))
        BY <1>1, <1>6, <3>2, HushEmit DEF Uncounted, Counted, Whole
      <4> QED
        BY <1>6, <4>1, TellsHush
    <3> QED
      BY <3>1, <3>2
  <2> QED
    BY <1>6, <2>1, <2>2, <2>3 DEF SameEpochs, SameItems
<1> HIDE DEF held
<1>9. ASSUME NEW d, Stays(held, d)
      PROVE  Retired(c, [d EXCEPT !.state = "Held", !.active = NoItem])
  <2> DEFINE f == [d EXCEPT !.state = "Held", !.active = NoItem]
  <2>1. /\ Whole(d) /\ SameEpochs(c, d) /\ d.plans = c.plans
        /\ Told(d.out, "TriggeredMoveCompleted") # {}
    BY <1>8, <1>9, StaysOn DEF SameEpochs, SameItems
  <2>2. \E stops : Tells(d.out, {}, {}, {item.id}, stops)
    BY <1>8, <1>9, StaysOn, TellsHush
  <2>3. /\ Whole(f) /\ SameEpochs(c, f) /\ f.active = NoItem /\ f.plans = c.plans
        /\ f.out = d.out
    BY <2>1 DEF Whole, CoreFields, SameEpochs
  <2> HIDE DEF f
  <2> QED
    BY <1>2, <2>1, <2>2, <2>3 DEF Retired, f
<1>10. Stays(held, held) /\ Stays(held, ResetFeedRetiming(held))
  BY <1>8, StaysSelf, RetimingStays
<1> QED
  BY <1>9, <1>10 DEF BackendHeld, held, told, chosen, ended, e, b

LEMMA AdvancedQuiet == \A c, d : Quiet(c, d) => Advanced(c, d)
  BY DEF Advanced
LEMMA AdvancedFault == \A c, code : Ready(c) => Advanced(c, Fault(c, code))
  BY FaultStays, QuietWhole DEF Ready, Advanced

LEMMA CompleteTriggeredFlows ==
  \A c, status : Ready(c) => Retired(c, CompleteTriggered(c, status))
  BY MoveEnds DEF CompleteTriggered

LEMMA AdvanceTriggeredFlows == ASSUME NEW c, NEW o, Ready(c), c.triggered \in TriggeredModes
    PROVE  Advanced(c, AdvanceTriggered(c, o))
<1> DEFINE triggers == o.hits # {} /\ c.triggered \in {"Approach", "HoldStop"}
           armed == IF triggers THEN BeginTriggeredStop(c, "TriggerStop") ELSE c
           stopping == armed.triggered # "Approach"
           finished == o.done \/ (stopping /\ ~c.moving)
           moved == Commit(armed, o, ~finished)
           approach == [moved EXCEPT !.triggered = "Approach"]
<1>1. Stays(c, armed)
  BY StopsStay, StaysSelf DEF Ready
<1>2. Advanced(c, Fault(armed, "InvalidExecutionState"))
  BY <1>1, FaultStays, AdvancedQuiet, StaysTrans, QuietWhole
<1>3. armed.triggered \in TriggeredModes
  <2>1. c.triggered = "Approach" \/ c.triggered # "Approach"
    OBVIOUS
  <2>2. "triggered" \in DOMAIN c
    BY DEF Ready, Whole, CoreFields
  <2> QED
    BY <2>2 DEF BeginTriggeredStop, TriggeredModes
<1> HIDE DEF armed
<1>4. Quiet(c, moved) /\ (o.trouble # "Limit" => Stays(c, moved))
  BY <1>1, CommitQuiet, QuietTrans, StaysTrans, QuietWhole
<1> HIDE DEF moved
<1>5. ASSUME NEW status, o.trouble # "Limit"
      PROVE  Advanced(c, CompleteTriggered(moved, status))
  BY <1>4, <1>5, ReadyAfter, CompleteTriggeredFlows, AdvancedBefore DEF Advanced
<1>6. ASSUME o.trouble # "Limit" PROVE Advanced(c, FinishTriggeredFeedHold(moved))
  <2>1. Stays(c, approach)
    BY <1>4, <1>6, ElsewhereUpdates, ElsewhereOn
  <2> HIDE DEF approach
  <2>2. Stays(c, FinishFeedHold(approach))
    BY <2>1, FinishFeedHoldStays, StaysTrans, QuietWhole
  <2> QED
    BY <2>2, AdvancedQuiet, QuietWhole DEF FinishTriggeredFeedHold, approach
<1>7. Advanced(c, moved)
  BY <1>4, AdvancedQuiet
<1> QED
  BY <1>2, <1>3, <1>5, <1>6, <1>7
     DEF AdvanceTriggered, moved, armed, stopping, finished, triggers, TriggeredModes

LEMMA CompleteJointsFlows == ASSUME NEW c, Ready(c)
    PROVE  Advanced(c, CompleteTriggeredJoints(c))
<1>1. Drops(c, Fault(DiscardExecution(c), "TriggerNotReached"))
  BY DiscardDrops, FaultStays, DropsTrans, QuietWhole DEF Ready
<1>2. Advanced(c, Fault(DiscardExecution(c), "TriggerNotReached"))
  BY <1>1, AdvancedQuiet, QuietWhole
<1> DEFINE item == c.active
           told(status) ==
             Retire(Emit(Emit(c, Event("TriggeredMoveCompleted", item.id, status)),
                         Event("BranchSelected", item.id, "Stop")), item)
<1>3. \A status, reason :
        Advanced(c, [BackendHeld(told(status), item.epoch, reason)
                        EXCEPT !.state = "Held", !.active = NoItem])
  BY MoveEnds DEF Advanced
<1> QED
  BY <1>2, <1>3 DEF CompleteTriggeredJoints

LEMMA CheckTriggersFlows == ASSUME NEW c, NEW o, Ready(c)
    PROVE  Advanced(c, CheckTriggersAtStart(c, o))
<1> DEFINE touched == [c EXCEPT !.touched = @ \union o.hits]
<1>1. Elsewhere(c, touched)
  BY DEF Elsewhere
<1> HIDE DEF touched
<1>2. Stays(c, touched) /\ Ready(touched)
  BY <1>1, ElsewhereStays, ReadyAfter DEF Ready
<1>3. Advanced(c, CompleteTriggeredJoints(touched))
  BY <1>2, CompleteJointsFlows, AdvancedBefore
<1> QED
  BY <1>3, AdvancedFault DEF CheckTriggersAtStart, touched

LEMMA AdvanceJointsFlows == ASSUME NEW c, NEW o, Ready(c)
    PROVE  Advanced(c, AdvanceTriggeredJoints(c, o))
<1> DEFINE hit == {j \in TriggerJoints(c.active) \intersect o.hits :
                       c.joints[j] = "Approach"}
           stopped(j) == IF c.joints[j] = "Finished" \/ j \in o.ends THEN "Finished"
                         ELSE IF j \in hit THEN "Stopping" ELSE c.joints[j]
           advanced == [c EXCEPT !.joints = [j \in Joints |-> stopped(j)],
                                 !.touched = @ \union hit]
           finished == \A j \in Joints : stopped(j) = "Finished"
           moved == Commit(advanced, o, ~finished)
<1>1. Elsewhere(c, advanced)
  BY DEF Elsewhere
<1> HIDE DEF advanced
<1>2. Quiet(c, moved)
  BY <1>1, ElsewhereStays, CommitQuiet, QuietTrans, QuietWhole DEF Ready
<1> HIDE DEF moved
<1>3. Active(moved) => Stays(c, moved)
  BY <1>2 DEF Quiet, Drops, NoItemsLeft, Active
<1>4. Active(moved) => Advanced(c, CompleteTriggeredJoints(moved))
  BY <1>3, ReadyAfter, CompleteJointsFlows, AdvancedBefore
<1>5. Advanced(c, moved)
  BY <1>2, AdvancedQuiet
<1> QED
  BY <1>4, <1>5, CheckTriggersFlows, AdvancedFault
     DEF AdvanceTriggeredJoints, moved, finished, advanced, stopped, hit

\* A turn of advanceActive ends the active item, continues it, or leaves it.
LEMMA AdvanceActiveFlows ==
    ASSUME NEW c, NEW o, Ready(c), InLine(c), c.triggered \in TriggeredModes
    PROVE  Advanced(c, AdvanceActive(c, o))
<1>1. c.active.kind \in ItemKinds
  BY DEF Ready, Items
<1>2. /\ Advanced(c, AdvancePlanStop(c, o)) /\ Advanced(c, AdvancePlan(c, o))
      /\ Advanced(c, AdvanceTriggered(c, o)) /\ Advanced(c, AdvanceTriggeredJoints(c, o))
  BY AdvancePlanStopFlows, AdvancePlanFlows, AdvanceTriggeredFlows, AdvanceJointsFlows
<1> QED
  BY <1>1, <1>2 DEF AdvanceActive, ItemKinds

\* A control may end a jog; it answers its request and leaves the items.
LEMMA ServiceControlFlows == ASSUME NEW c, NEW o, NEW request, Whole(c), Untold(c.out),
                                    request.type \in ControlTypes
    PROVE  \E d, succeeded :
               /\ Quiet(c, d)
               /\ ServiceControl(c, o, request) =
                    RequestCompleted(d, request, succeeded)
<1>1. Quiet(c, c)
  BY StaysSelf, QuietWhole
<1>7. Elsewhere(c, SetJointPosition(c)) /\ Elsewhere(c, RenewJogLease(c))
      /\ (Elsewhere(c, SetContinuousJogVelocity(c, o)) \/ c = SetContinuousJogVelocity(c, o))
  BY DEF Elsewhere, SetJointPosition, RenewJogLease, SetContinuousJogVelocity
<1>8. /\ Quiet(c, SetJointPosition(c)) /\ Quiet(c, RenewJogLease(c))
      /\ Quiet(c, SetContinuousJogVelocity(c, o))
  BY <1>1, <1>7, ElsewhereStays, QuietWhole
<1>9. /\ Quiet(c, InitializeJog(c, o, [id |-> request.jog, kind |-> request.kind]))
      /\ Quiet(c, BeginJogStop(c, o, "RequestedStop"))
  BY InitializeJogStays, BeginJogStopQuiet, QuietWhole
<1> DEFINE Answer(d) == \E succeeded : ServiceControl(c, o, request)
                                         = RequestCompleted(d, request, succeeded)
<1>2. CASE request.type = "SetJointPosition"
  <2>1. Answer(c) \/ Answer(SetJointPosition(c))
    BY <1>2 DEF ServiceControl, LifecycleControls
  <2> QED
    BY <1>1, <1>8, <1>9, <2>1
<1>3. CASE request.type = "StartJog"
  <2>1. Answer(InitializeJog(c, o, [id |-> request.jog, kind |-> request.kind]))
    BY <1>3 DEF ServiceControl, LifecycleControls
  <2> QED
    BY <1>1, <1>8, <1>9, <2>1
<1>4. CASE request.type = "RenewJogLease"
  <2>1. Answer(c) \/ Answer(RenewJogLease(c))
    BY <1>4 DEF ServiceControl, LifecycleControls
  <2> QED
    BY <1>1, <1>8, <1>9, <2>1
<1>5. CASE request.type = "SetContinuousJogVelocity"
  <2>1. Answer(c) \/ Answer(SetContinuousJogVelocity(c, o))
    BY <1>5 DEF ServiceControl, LifecycleControls
  <2> QED
    BY <1>1, <1>8, <1>9, <2>1
<1>6. CASE request.type = "StopJog"
  <2>1. Answer(c) \/ Answer(BeginJogStop(c, o, "RequestedStop"))
    BY <1>6 DEF ServiceControl, LifecycleControls
  <2> QED
    BY <1>1, <1>8, <1>9, <2>1
<1>10. CASE request.type \in LifecycleControls
  <2>1. Answer(c)
    BY <1>10 DEF ServiceControl, LifecycleControls
  <2> QED
    BY <1>1, <2>1
<1> QED
  BY <1>2, <1>3, <1>4, <1>5, <1>6, <1>10 DEF ControlTypes

-----------------------------------------------------------------------------
(* What converging to a demand may do besides: a new epoch is adopted at   *)
(* rest, and a stop without an active item forgets the queue.              *)

Restarted(c, d) ==
    /\ c.epoch # c.demand.epoch /\ c.demand.mode \in {"Idle", "Jog", "Run"}
    /\ c.state \in {"Disabled", "Held"}
    /\ Whole(d) /\ Hush(c.out, d.out) /\ NoItemsLeft(d)
    /\ d.demand = c.demand /\ d.epoch = c.demand.epoch /\ d.stoppedEpoch = 0
Forgotten(c, d) ==
    /\ ~Active(c) /\ c.demand.mode \in {"Stop", "Disabled"}
    /\ c.demand.mode = "Stop" => c.epoch = c.demand.epoch
    /\ c.demand.mode = "Disabled" => Executing(c)
    /\ Whole(d) /\ NoItemsLeft(d)
    /\ d.demand = c.demand /\ d.epoch = c.epoch /\ d.stoppedEpoch = c.demand.epoch
    /\ Tells(d.out, {}, {}, {}, {c.epoch})
Convergent(c, d) == Quiet(c, d) \/ Restarted(c, d) \/ Forgotten(c, d)

LEMMA AfterRestarted == \A c, d, e : Restarted(c, d) /\ Stays(d, e) => Restarted(c, e)
  BY StaysOn DEF Restarted, NoItemsLeft, Stays, Hushed, Hush

LEMMA ResetRestarts == ASSUME NEW c, NEW o, Whole(c), Stationary(c)
    PROVE  LET d == Reset(c, o, c.demand.epoch)
           IN  /\ Whole(d) /\ Hush(c.out, d.out) /\ NoItemsLeft(d)
               /\ d.demand = c.demand /\ d.epoch = c.demand.epoch
               /\ d.stoppedEpoch = 0
<1> DEFINE dropped == DiscardExecution(c)
           d == [dropped EXCEPT
                    !.state = IF c.state = "Disabled" THEN "Disabled" ELSE "Held",
                    !.epoch = c.demand.epoch, !.fault = "None", !.faultReported = FALSE,
                    !.accepted = TRUE, !.stoppedEpoch = 0,
                    !.safeOutputs = TRUE, !.spindle = "Safe"]
<1>1. Reset(c, o, c.demand.epoch) = d
  BY DEF Reset, AbandonJog, Stationary
<1>2. Drops(c, dropped)
  BY DiscardDrops
<1> HIDE DEF dropped
<1>3. /\ CoreFields \subseteq DOMAIN d /\ d.out = dropped.out /\ NoItemsLeft(d)
      /\ d.demand = dropped.demand /\ d.epoch = c.demand.epoch /\ d.stoppedEpoch = 0
  BY <1>2 DEF Drops, Hushed, Whole, CoreFields, NoItemsLeft
<1> HIDE DEF d
<1> QED
  BY <1>1, <1>2, <1>3 DEF Drops, Hushed, Whole, SameEpochs

LEMMA PrepareServes == ASSUME NEW c, NEW o, Whole(c), c.demand.mode \in {"Idle", "Jog", "Run"}
    PROVE  Stays(c, Prepare(c, o)) \/ Restarted(c, Prepare(c, o))
<1> DEFINE established == IF c.epoch # c.demand.epoch /\ Stationary(c)
                          THEN Reset(c, o, c.demand.epoch) ELSE c
<1>1. Stays(c, established) \/ Restarted(c, established)
  <2>1. CASE c.epoch # c.demand.epoch /\ Stationary(c)
    <3>1. Restarted(c, Reset(c, o, c.demand.epoch))
      BY <2>1, ResetRestarts DEF Restarted, Stationary
    <3> QED
      BY <2>1, <3>1
  <2>2. CASE ~(c.epoch # c.demand.epoch /\ Stationary(c))
    BY <2>2, StaysSelf
  <2> QED
    BY <2>1, <2>2
<1> HIDE DEF established
<1>2. Whole(established) => Stays(established, Enable(established))
  BY EnableStays
<1>3. Whole(established)
  BY <1>1, QuietWhole DEF Restarted
<1>4. Stays(c, Enable(established)) \/ Restarted(c, Enable(established))
  BY <1>1, <1>2, <1>3, AfterRestarted, StaysTrans
<1> QED
  BY <1>1, <1>4 DEF Prepare, established

LEMMA PreparedOn == \A c, d, e :
    (Stays(c, d) \/ Restarted(c, d)) /\ Stays(d, e) => Stays(c, e) \/ Restarted(c, e)
  BY AfterRestarted, StaysTrans

LEMMA RejectDemandStays == \A c : Whole(c) => Stays(c, RejectDemand(c))
  BY ElsewhereStays, ElsewhereUpdates DEF RejectDemand

LEMMA ConvergeRunServes == ASSUME NEW c, NEW o, NEW pending, Whole(c), c.demand.mode = "Run",
                                  Active(c) => c.active.kind \in ItemKinds
    PROVE  LET d == ConvergeRun(c, o, pending) IN Stays(c, d) \/ Restarted(c, d)
<1> DEFINE prepared == Prepare(c, o)
<1>1. Stays(c, prepared) \/ Restarted(c, prepared)
  BY PrepareServes
<1> HIDE DEF prepared
<1>2. Whole(prepared) /\ (Active(prepared) => prepared.active.kind \in ItemKinds)
  BY <1>1, StaysOn, QuietWhole DEF Restarted, NoItemsLeft, Active
<1>3. Stays(prepared, RejectDemand(prepared))
      /\ Stays(prepared, Start(prepared, c.demand.epoch))
  BY <1>2, RejectDemandStays, StartStays
<1>4. Stays(prepared, Resume(prepared, o, c.demand.epoch, Queued(prepared, pending)))
  <2>1. CASE Active(prepared)
    BY <1>2, <2>1, ResumeStays
  <2>2. CASE ~Active(prepared)
    <3> DEFINE queued == Queued(prepared, pending)
               running == [prepared EXCEPT !.state = "Running", !.safeOutputs = FALSE]
    <3>1. Stays(prepared, running) /\ Stays(prepared, prepared)
      BY <1>2, ElsewhereStays, ElsewhereUpdates, StaysSelf
    <3> HIDE DEF running, queued
    <3>2. Stays(prepared, ResetFeedRetiming(running))
      BY <3>1, RetimingStays, StaysTrans, QuietWhole
    <3>3. Resume(prepared, o, c.demand.epoch, queued) = prepared
          \/ Resume(prepared, o, c.demand.epoch, queued) = ResetFeedRetiming(running)
      BY <2>2 DEF Resume, running
    <3> QED
      BY <3>1, <3>2, <3>3 DEF queued
  <2> QED
    BY <2>1, <2>2
<1> QED
  BY <1>1, <1>3, <1>4, PreparedOn DEF ConvergeRun, prepared

LEMMA ConvergeFeedHoldServes ==
    ASSUME NEW c, NEW o, Whole(c), Active(c) => c.active.kind \in ItemKinds
    PROVE  Stays(c, ConvergeFeedHold(c, o))
<1> DEFINE halted == [c EXCEPT !.state = "Held"]
           e == Event("BackendHeld", c.epoch, "FeedHold")
<1>1. Stays(c, halted)
  BY ElsewhereStays, ElsewhereUpdates
<1> HIDE DEF halted
<1>2. Stays(c, ResetFeedRetiming(halted))
  BY <1>1, RetimingStays, StaysTrans, QuietWhole
<1>3. Uncounted(e)
  BY EventUncounted DEF Counted
<1> HIDE DEF e
<1>4. Stays(c, Emit(ResetFeedRetiming(halted), e))
  BY <1>2, <1>3, EmitStays, StaysTrans, QuietWhole
<1>5. Stays(c, c) /\ Stays(c, RejectDemand(c)) /\ (Active(c) => Stays(c, FeedHold(c, o)))
  BY StaysSelf, RejectDemandStays, FeedHoldStays
<1> QED
  BY <1>4, <1>5 DEF ConvergeFeedHold, BackendHeld, halted, e

LEMMA BeginDemandStopServes == ASSUME NEW c, NEW o, Whole(c), Untold(c.out),
                                      Active(c) => c.active.kind \in ItemKinds,
                                      c.demand.mode \in {"Stop", "Disabled"},
                                      c.demand.mode = "Stop" => c.epoch = c.demand.epoch,
                                      c.demand.mode = "Disabled" => Executing(c)
    PROVE  Quiet(c, BeginDemandStop(c, o)) \/ Forgotten(c, BeginDemandStop(c, o))
<1> DEFINE dropped == DiscardExecution(c)
           stopped == [dropped EXCEPT !.stoppedEpoch = c.demand.epoch, !.state = "Held",
                                      !.safeOutputs = TRUE, !.spindle = "Safe"]
           e == Event("BackendHeld", c.epoch, "ControlledStop")
           d == Emit(stopped, e)
<1>1. Drops(c, dropped)
  BY DiscardDrops
<1> HIDE DEF dropped
<1>2. /\ CoreFields \subseteq DOMAIN stopped /\ stopped.out = dropped.out
      /\ stopped.demand = c.demand /\ stopped.epoch = c.epoch
      /\ stopped.stoppedEpoch = c.demand.epoch /\ NoItemsLeft(stopped)
  BY <1>1 DEF Drops, Hushed, Whole, CoreFields, SameEpochs, NoItemsLeft
<1> HIDE DEF stopped
<1>3. Whole(stopped) /\ Untold(stopped.out)
  BY <1>1, <1>2, TellsHush DEF Drops, Hushed, Whole, Untold
<1>4. e.type = "BackendHeld" /\ e.info = "ControlledStop" /\ e.id = c.epoch
  BY DEF Event
<1> HIDE DEF e
<1>5. /\ Whole(d) /\ SameEpochs(stopped, d) /\ SameItems(stopped, d)
      /\ d.out = Append(stopped.out, e)
  BY <1>3, EmitOut
<1>6. Tells(Append(stopped.out, e), {}, {}, {}, {} \union {e.id})
  BY <1>3, <1>4, TellsStop DEF Untold
<1> HIDE DEF d
<1>7. {} \union {e.id} = {c.epoch}
  BY <1>4
<1>8. Tells(d.out, {}, {}, {}, {c.epoch})
  BY <1>5, <1>6, <1>7
<1>9. ~Active(c) => Forgotten(c, d)
  BY <1>2, <1>5, <1>8 DEF Forgotten, SameEpochs, SameItems, NoItemsLeft
<1>10. Quiet(c, BeginJogStop(c, o, "RequestedStop"))
       /\ (Active(c) => Quiet(c, ControlledStop(c, o)))
  BY BeginJogStopQuiet, ControlledStopQuiet
<1> QED
  BY <1>9, <1>10 DEF BeginDemandStop, BackendHeld, d, stopped, e, dropped

LEMMA ConvergeServes == ASSUME NEW c, NEW o, NEW pending, Whole(c), Untold(c.out),
                               Active(c) => c.active.kind \in ItemKinds, c.demand.mode \in Modes
    PROVE  Convergent(c, ConvergeDemand(c, o, pending))
<1>1. Convergent(c, c)
  BY StaysSelf, QuietWhole DEF Convergent
<1>2. ASSUME c.demand.mode = "Disabled" PROVE Convergent(c, ConvergeDisabled(c, o))
  BY <1>1, <1>2, BeginDemandStopServes, DisableDrops, QuietWhole
     DEF ConvergeDisabled, Convergent
<1>3. ASSUME c.demand.mode \in {"Idle", "Jog"} PROVE Convergent(c, Prepare(c, o))
  BY <1>3, PrepareServes, QuietWhole DEF Convergent
<1>4. ASSUME c.demand.mode = "Run" PROVE Convergent(c, ConvergeRun(c, o, pending))
  BY <1>4, ConvergeRunServes, QuietWhole DEF Convergent
<1>5. Convergent(c, ConvergeFeedHold(c, o))
  BY ConvergeFeedHoldServes, QuietWhole DEF Convergent
<1>6. ASSUME c.demand.mode = "Stop" PROVE Convergent(c, ConvergeStop(c, o, pending))
  BY <1>1, <1>6, BeginDemandStopServes, DiscardDrops, RejectDemandStays, QuietWhole
     DEF ConvergeStop, Convergent
<1> QED
  BY <1>1, <1>2, <1>3, <1>4, <1>5, <1>6 DEF ConvergeDemand, Modes

-----------------------------------------------------------------------------
(* The order of the items, from the publishing thread to the log.          *)

Before(S, T) == \A x \in S, y \in T : x < y
PlanIds(plans) == {x.id : x \in Range(plans)}
ArrivalIds(records) == {r.item.id : r \in {q \in Range(records) : IsPlan(q)}}
ReservedIds(item) == IF item = NoItem THEN {} ELSE {item.id}

PlansInOrder(plans) == \A i, j \in DOMAIN plans : i < j => plans[i].id < plans[j].id
ArrivalsInOrder(records) ==
    \A i, j \in DOMAIN records :
        i < j /\ IsPlan(records[i]) /\ IsPlan(records[j])
        => records[i].item.id < records[j].item.id

Waits(plans, records, item) ==
    PlanIds(plans) \union ArrivalIds(records) \union ReservedIds(item)
Past(l) == Range(l.accepted) \union Range(l.retired) \union Range(l.rejected)

\* Items wait in the order of their publication: in the plan queue, behind them
\* in the ingress queue, and last the one that is being published.
LineUp(plans, records, item, n) ==
    /\ PlansInOrder(plans) /\ ArrivalsInOrder(records)
    /\ Before(PlanIds(plans), ArrivalIds(records))
    /\ Before(PlanIds(plans) \union ArrivalIds(records), ReservedIds(item))
    /\ Waits(plans, records, item) \subseteq 1..n

\* Whatever is reported or was lost to the emergency stop waits no more.
Apart(l, waiting, n) ==
    /\ Past(l) \subseteq 1..n /\ l.doomed \subseteq 1..n
    /\ Before(Past(l), waiting)
    /\ l.doomed \intersect waiting = {}

\* The reports so far, and the active item's place in them.
History(l, active, epoch) ==
    /\ \A list \in ItemLists : StrictlyIncreasing(l[list])
    /\ (Range(l.accepted) \union Range(l.retired)) \intersect Range(l.rejected) = {}
    /\ active # NoItem => /\ active.id = Last(l.accepted)
                          /\ active.id \in Range(l.accepted)
                          /\ \A x \in Range(l.retired) : x < active.id
                          /\ active.epoch = epoch

ItemsInv ==
    /\ LogTyped(log)
    /\ LineUp(core.plans, ingress, reserved, session.item)
    /\ Apart(log, Waits(core.plans, ingress, reserved), session.item)
    /\ History(log, core.active, core.epoch)

LEMMA InRange == \A f, y : y \in Range(f) <=> \E i \in DOMAIN f : y = f[i]
  BY DEF Range

LEMMA TakeHead == ASSUME NEW q \in Seq(Items), q # <<>>, PlansInOrder(q)
    PROVE  /\ Head(q) \in Items /\ Tail(q) \in Seq(Items)
           /\ PlanIds(q) = {Head(q).id} \union PlanIds(Tail(q))
           /\ PlansInOrder(Tail(q)) /\ Before({Head(q).id}, PlanIds(Tail(q)))
<1> DEFINE t == Tail(q)
           n == Len(q)
<1>1. /\ n \in Nat /\ n # 0 /\ DOMAIN q = 1..n /\ t \in Seq(Items) /\ DOMAIN t = 1..(n - 1)
      /\ Head(q) = q[1] /\ Head(q) \in Items
      /\ \A i \in 1..(n - 1) : t[i] = q[i + 1]
  OBVIOUS
<1> HIDE DEF t, n
<1>2. /\ 1 \in 1..n /\ \A i \in 1..(n - 1) : i + 1 \in 1..n /\ 1 < i + 1
      /\ \A i \in 1..n : i = 1 \/ (i - 1 \in 1..(n - 1) /\ i = (i - 1) + 1)
  BY <1>1
<1>3. Range(q) = {q[1]} \union Range(t)
  <2>1. \A i \in 1..n : q[i] = q[1] \/ \E k \in 1..(n - 1) : q[i] = t[k]
    BY <1>1, <1>2
  <2>2. \A i \in 1..(n - 1) : \E k \in 1..n : t[i] = q[k]
    BY <1>1, <1>2
  <2>3. \A y \in Range(q) : y = q[1] \/ y \in Range(t)
    BY <1>1, <2>1, InRange
  <2>4. q[1] \in Range(q) /\ \A y \in Range(t) : y \in Range(q)
    BY <1>1, <1>2, <2>2, InRange
  <2> QED
    BY <2>3, <2>4
<1>4. PlanIds(q) = {Head(q).id} \union PlanIds(t)
  BY <1>1, <1>3 DEF PlanIds
<1>5. PlansInOrder(t)
  <2> SUFFICES ASSUME NEW i \in 1..(n - 1), NEW j \in 1..(n - 1), i < j
               PROVE  t[i].id < t[j].id
    BY <1>1 DEF PlansInOrder
  <2>1. i + 1 \in 1..n /\ j + 1 \in 1..n /\ i + 1 < j + 1
    BY <1>1
  <2>2. q[i + 1].id < q[j + 1].id
    BY <1>1, <2>1 DEF PlansInOrder
  <2> QED
    BY <1>1, <2>2
<1>6. \A i \in 1..(n - 1) : q[1].id < t[i].id
  BY <1>1, <1>2 DEF PlansInOrder
<1>7. Before({Head(q).id}, PlanIds(t))
  BY <1>1, <1>6 DEF Before, PlanIds, Range
<1> QED
  BY <1>1, <1>4, <1>5, <1>7 DEF t

\* A queue joined by an item with a greater id.
LEMMA JoinQueue == ASSUME NEW q \in Seq(Items), NEW x \in Items, PlansInOrder(q),
                          Before(PlanIds(q), {x.id})
    PROVE  /\ Append(q, x) \in Seq(Items) /\ PlansInOrder(Append(q, x))
           /\ PlanIds(Append(q, x)) = PlanIds(q) \union {x.id}
<1> DEFINE t == Append(q, x)
           n == Len(q)
<1>1. /\ n \in Nat /\ DOMAIN q = 1..n /\ t \in Seq(Items) /\ DOMAIN t = 1..(n + 1)
      /\ \A i \in 1..n : t[i] = q[i]
      /\ t[n + 1] = x
  OBVIOUS
<1> HIDE DEF t, n
<1>2. /\ \A i \in 1..(n + 1) : i \in 1..n \/ i = n + 1
      /\ \A i \in 1..n : i \in 1..(n + 1) /\ i < n + 1
      /\ n + 1 \in 1..(n + 1)
  BY <1>1
<1>3. Range(t) = Range(q) \union {x}
  BY <1>1, <1>2 DEF Range
<1>4. PlanIds(t) = PlanIds(q) \union {x.id}
  BY <1>3 DEF PlanIds
<1>5. \A i \in 1..n : q[i].id < x.id
  BY <1>1 DEF Before, PlanIds, Range
<1>6. PlansInOrder(t)
  <2> SUFFICES ASSUME NEW i \in 1..(n + 1), NEW j \in 1..(n + 1), i < j
               PROVE  t[i].id < t[j].id
    BY <1>1 DEF PlansInOrder
  <2>1. i \in 1..n
    BY <1>1
  <2>2. CASE j \in 1..n
    BY <1>1, <2>1, <2>2 DEF PlansInOrder
  <2>3. CASE j = n + 1
    BY <1>1, <1>5, <2>1, <2>3
  <2> QED
    BY <1>2, <2>2, <2>3
<1> QED
  BY <1>1, <1>4, <1>6 DEF t

Records == PlanRecords \union Controls

\* The ingress queue loses its head, or a record joins it.
LEMMA TakeRecord == ASSUME NEW q \in Seq(Records), q # <<>>, ArrivalsInOrder(q)
    PROVE  /\ Tail(q) \in Seq(Records) /\ ArrivalsInOrder(Tail(q))
           /\ IsPlan(Head(q)) => /\ ArrivalIds(q) = {Head(q).item.id} \union ArrivalIds(Tail(q))
                                 /\ Before({Head(q).item.id}, ArrivalIds(Tail(q)))
           /\ ~IsPlan(Head(q)) => ArrivalIds(q) = ArrivalIds(Tail(q))
           /\ \A r \in Range(Tail(q)) : r \in Range(q)
<1> DEFINE t == Tail(q)
           n == Len(q)
<1>1. /\ n \in Nat /\ n # 0 /\ DOMAIN q = 1..n /\ t \in Seq(Records) /\ DOMAIN t = 1..(n - 1)
      /\ Head(q) = q[1]
      /\ \A i \in 1..(n - 1) : t[i] = q[i + 1]
  OBVIOUS
<1> HIDE DEF t, n
<1>2. /\ 1 \in 1..n /\ \A i \in 1..(n - 1) : i + 1 \in 1..n /\ 1 < i + 1
      /\ \A i \in 1..n : i = 1 \/ (i - 1 \in 1..(n - 1) /\ i = (i - 1) + 1)
  BY <1>1
<1>3. Range(q) = {q[1]} \union Range(t)
  <2>1. \A i \in 1..n : q[i] = q[1] \/ \E k \in 1..(n - 1) : q[i] = t[k]
    BY <1>1, <1>2
  <2>2. \A i \in 1..(n - 1) : \E k \in 1..n : t[i] = q[k]
    BY <1>1, <1>2
  <2>3. \A y \in Range(q) : y = q[1] \/ y \in Range(t)
    BY <1>1, <2>1, InRange
  <2>4. q[1] \in Range(q) /\ \A y \in Range(t) : y \in Range(q)
    BY <1>1, <1>2, <2>2, InRange
  <2> QED
    BY <2>3, <2>4
<1>4. ArrivalsInOrder(t)
  <2> SUFFICES ASSUME NEW i \in 1..(n - 1), NEW j \in 1..(n - 1), i < j,
                      IsPlan(t[i]), IsPlan(t[j])
               PROVE  t[i].item.id < t[j].item.id
    BY <1>1 DEF ArrivalsInOrder
  <2>1. i + 1 \in 1..n /\ j + 1 \in 1..n /\ i + 1 < j + 1 /\ t[i] = q[i + 1] /\ t[j] = q[j + 1]
    BY <1>1
  <2> QED
    BY <1>1, <2>1 DEF ArrivalsInOrder
<1>5. IsPlan(q[1]) => \A i \in 1..(n - 1) : IsPlan(t[i]) => q[1].item.id < t[i].item.id
  BY <1>1, <1>2 DEF ArrivalsInOrder
<1>6. IsPlan(q[1]) => Before({q[1].item.id}, ArrivalIds(t))
  BY <1>1, <1>5 DEF Before, ArrivalIds, Range
<1>7. /\ IsPlan(q[1]) => ArrivalIds(q) = {q[1].item.id} \union ArrivalIds(t)
      /\ ~IsPlan(q[1]) => ArrivalIds(q) = ArrivalIds(t)
  BY <1>3 DEF ArrivalIds
<1> QED
  BY <1>1, <1>3, <1>4, <1>6, <1>7 DEF t

LEMMA JoinRecord == ASSUME NEW q \in Seq(Records), NEW x \in Records, ArrivalsInOrder(q),
                           IsPlan(x) => Before(ArrivalIds(q), {x.item.id})
    PROVE  /\ ArrivalsInOrder(Append(q, x))
           /\ Range(Append(q, x)) = Range(q) \union {x}
           /\ ArrivalIds(Append(q, x)) =
                ArrivalIds(q) \union (IF IsPlan(x) THEN {x.item.id} ELSE {})
<1> DEFINE t == Append(q, x)
           n == Len(q)
<1>1. /\ n \in Nat /\ DOMAIN q = 1..n /\ t \in Seq(Records) /\ DOMAIN t = 1..(n + 1)
      /\ \A i \in 1..n : t[i] = q[i]
      /\ t[n + 1] = x
  OBVIOUS
<1> HIDE DEF t, n
<1>2. /\ \A i \in 1..(n + 1) : i \in 1..n \/ i = n + 1
      /\ \A i \in 1..n : i \in 1..(n + 1) /\ i < n + 1
      /\ n + 1 \in 1..(n + 1)
  BY <1>1
<1>3. Range(t) = Range(q) \union {x}
  BY <1>1, <1>2 DEF Range
<1>4. ArrivalIds(t) = ArrivalIds(q) \union (IF IsPlan(x) THEN {x.item.id} ELSE {})
  BY <1>3 DEF ArrivalIds
<1>5. IsPlan(x) => \A i \in 1..n : IsPlan(q[i]) => q[i].item.id < x.item.id
  BY <1>1 DEF Before, ArrivalIds, Range
<1>6. ArrivalsInOrder(t)
  <2> SUFFICES ASSUME NEW i \in 1..(n + 1), NEW j \in 1..(n + 1), i < j,
                      IsPlan(t[i]), IsPlan(t[j])
               PROVE  t[i].item.id < t[j].item.id
    BY <1>1 DEF ArrivalsInOrder
  <2>1. i \in 1..n
    BY <1>1
  <2>2. CASE j \in 1..n
    BY <1>1, <2>1, <2>2 DEF ArrivalsInOrder
  <2>3. CASE j = n + 1
    BY <1>1, <1>5, <2>1, <2>3
  <2> QED
    BY <1>2, <2>2, <2>3
<1> QED
  BY <1>3, <1>4, <1>6 DEF t

-----------------------------------------------------------------------------
(* A step of the executor moves its items on, and the log with them.       *)

Heard(s, A, J, R) ==
    /\ IsSequence(s)
    /\ Told(s, "ChunkAccepted") = A /\ Told(s, "ChunkRejected") = J
    /\ Told(s, "ChunkRetired") = R
    /\ \A T \in ItemEvents : InOrder(s, T)

\* The log l with the ids A accepted, J rejected and R retired.
ListGrows(old, new, ids) ==
    /\ Range(new) = Range(old) \union ids
    /\ ids = {} => new = old
    /\ ids # {} => Last(new) \in ids
    /\ StrictlyIncreasing(old) /\ Before(Range(old), ids) => StrictlyIncreasing(new)
LogGrows(l, m, A, J, R) ==
    /\ LogTyped(m) /\ m.doomed = l.doomed
    /\ ListGrows(l.accepted, m.accepted, A)
    /\ ListGrows(l.rejected, m.rejected, J)
    /\ ListGrows(l.retired, m.retired, R)

\* What becomes of the active item and of the queue.
Idles(c, d) == (SameItems(c, d) /\ d.epoch = c.epoch) \/ NoItemsLeft(d)
AcceptsHead(c, d) == ~Active(c) /\ TakesHead(c, d) /\ Head(c.plans).epoch = d.epoch
RejectsHead(c, d) ==
    (d.active = c.active /\ d.plans = Tail(c.plans) /\ d.epoch = c.epoch) \/ NoItemsLeft(d)
ContinuesToHead(c, d) ==
    /\ Active(c) /\ TakesHead(c, d) /\ d.epoch = c.epoch
    /\ Head(c.plans).epoch = c.active.epoch
RetiresActive(c, d) == Active(c) /\ d.active = NoItem /\ d.plans \in {c.plans, <<>>}
AbandonsAll(c, d) == Active(c) /\ NoItemsLeft(d)

ItemsMove(c, d, A, J, R) ==
    \/ Idles(c, d) /\ A = {} /\ J = {} /\ R = {}
    \/ c.plans # <<>> /\ AcceptsHead(c, d) /\ A = {Head(c.plans).id} /\ J = {} /\ R = {}
    \/ c.plans # <<>> /\ RejectsHead(c, d) /\ A = {} /\ J = {Head(c.plans).id} /\ R = {}
    \/ c.plans # <<>> /\ ContinuesToHead(c, d) /\ A = {Head(c.plans).id} /\ J = {}
       /\ R = {c.active.id}
    \/ RetiresActive(c, d) /\ A = {} /\ J = {} /\ R = {c.active.id}
    \/ AbandonsAll(c, d) /\ A = {} /\ J = {} /\ R = {c.active.id} \union PlanIds(c.plans)

LEMMA LogHears == ASSUME NEW s, NEW A, NEW J, NEW R, Heard(s, A, J, R), LogTyped(log),
                         A \union J \union R \subseteq Int
                  PROVE  LogGrows(log, LogAfter(s), A, J, R)
<1> DEFINE l == LogAfter(s)
<1>1. ItemIdsAreInts(s)
  BY DEF ItemIdsAreInts, Heard, ItemLists, Kept
<1>2. /\ LogTyped(l) /\ l.doomed = log.doomed
      /\ \A list \in ItemLists :
            LET told == Told(s, Kept(list))
            IN  /\ Range(l[list]) = Range(log[list]) \union told
                /\ told = {} => l[list] = log[list]
                /\ told # {} => Last(l[list]) \in told
                /\ (/\ StrictlyIncreasing(log[list]) /\ InOrder(s, Kept(list))
                    /\ \A x \in Range(log[list]), y \in told : x < y)
                   => StrictlyIncreasing(l[list])
  BY <1>1, LogKeeps DEF Heard
<1> HIDE DEF l
<1>3. ListGrows(log.accepted, l.accepted, A)
  <2>1. "accepted" \in ItemLists /\ Kept("accepted") = "ChunkAccepted"
    BY DEF ItemLists, Kept
  <2>2. Told(s, "ChunkAccepted") = A /\ InOrder(s, "ChunkAccepted")
    BY DEF Heard, ItemEvents
  <2> QED
    BY <1>2, <2>1, <2>2 DEF ListGrows, Before
<1>4. ListGrows(log.rejected, l.rejected, J)
  <2>1. "rejected" \in ItemLists /\ Kept("rejected") = "ChunkRejected"
    BY DEF ItemLists, Kept
  <2>2. Told(s, "ChunkRejected") = J /\ InOrder(s, "ChunkRejected")
    BY DEF Heard, ItemEvents
  <2> QED
    BY <1>2, <2>1, <2>2 DEF ListGrows, Before
<1>5. ListGrows(log.retired, l.retired, R)
  <2>1. "retired" \in ItemLists /\ Kept("retired") = "ChunkRetired"
    BY DEF ItemLists, Kept
  <2>2. Told(s, "ChunkRetired") = R /\ InOrder(s, "ChunkRetired")
    BY DEF Heard, ItemEvents
  <2> QED
    BY <1>2, <2>1, <2>2 DEF ListGrows, Before
<1> QED
  BY <1>2, <1>3, <1>4, <1>5 DEF LogGrows, l

\* What a flow of items tells, and how it moves them.
LEMMA MoveOfQuiet == ASSUME NEW c, NEW d, Quiet(c, d), Untold(c.out)
    PROVE  Heard(d.out, {}, {}, {}) /\ ItemsMove(c, d, {}, {}, {})
<1>1. Untold(d.out)
  BY TellsHush DEF Quiet, Stays, Drops, Hushed, Untold
<1>2. Idles(c, d)
  BY DEF Quiet, Stays, Drops, Idles, Hushed, SameEpochs
<1> QED
  BY <1>1, <1>2 DEF ItemsMove, Heard, Untold, Tells

LEMMA MoveOfAdvanced == ASSUME NEW c, NEW d, Advanced(c, d), Untold(c.out)
    PROVE  \E A, J, R : Heard(d.out, A, J, R) /\ ItemsMove(c, d, A, J, R)
<1>1. CASE Quiet(c, d)
  BY <1>1, MoveOfQuiet
<1>2. CASE Rejected(c, d)
  <2>1. Heard(d.out, {}, {Head(c.plans).id}, {}) /\ c.plans # <<>> /\ RejectsHead(c, d)
    BY <1>2 DEF Rejected, Heard, Tells, RejectsHead, SameEpochs
  <2>2. ItemsMove(c, d, {}, {Head(c.plans).id}, {})
    BY <2>1 DEF ItemsMove
  <2> QED
    BY <2>1, <2>2
<1>3. CASE Continued(c, d)
  <2>1. /\ Heard(d.out, {Head(c.plans).id}, {}, {c.active.id})
        /\ c.plans # <<>> /\ ContinuesToHead(c, d)
    BY <1>3 DEF Continued, Heard, Tells, ContinuesToHead, SameEpochs
  <2>2. ItemsMove(c, d, {Head(c.plans).id}, {}, {c.active.id})
    BY <2>1 DEF ItemsMove
  <2> QED
    BY <2>1, <2>2
<1>4. CASE Retired(c, d)
  <2>1. Heard(d.out, {}, {}, {c.active.id}) /\ RetiresActive(c, d)
    BY <1>4 DEF Retired, Heard, Tells, RetiresActive
  <2>2. ItemsMove(c, d, {}, {}, {c.active.id})
    BY <2>1 DEF ItemsMove
  <2> QED
    BY <2>1, <2>2
<1>5. CASE Abandoned(c, d)
  <2>1. Heard(d.out, {}, {}, {c.active.id} \union PlanIds(c.plans)) /\ AbandonsAll(c, d)
    BY <1>5 DEF Abandoned, Heard, Tells, AbandonsAll, PlanIds
  <2>2. ItemsMove(c, d, {}, {}, {c.active.id} \union PlanIds(c.plans))
    BY <2>1 DEF ItemsMove
  <2> QED
    BY <2>1, <2>2
<1> QED
  BY <1>1, <1>2, <1>3, <1>4, <1>5 DEF Advanced

LEMMA MoveOfAccepted == ASSUME NEW c, NEW d, Accepted(c, d)
    PROVE  LET A == {Head(c.plans).id}
           IN  Heard(d.out, A, {}, {}) /\ ItemsMove(c, d, A, {}, {})
<1>1. Heard(d.out, {Head(c.plans).id}, {}, {}) /\ c.plans # <<>> /\ AcceptsHead(c, d)
  BY DEF Accepted, Heard, Tells, AcceptsHead, SameEpochs
<1> QED
  BY <1>1 DEF ItemsMove

LEMMA MoveOfConvergence == ASSUME NEW c, NEW d, Convergent(c, d), Untold(c.out)
    PROVE  Heard(d.out, {}, {}, {}) /\ ItemsMove(c, d, {}, {}, {})
<1>1. CASE Restarted(c, d)
  <2>1. Untold(d.out) /\ Idles(c, d)
    BY <1>1, TellsHush DEF Restarted, Untold, Idles
  <2> QED
    BY <2>1 DEF Heard, Untold, Tells, ItemsMove
<1>2. CASE Forgotten(c, d)
  BY <1>2 DEF Forgotten, Heard, Tells, ItemsMove, Idles
<1> QED
  BY <1>1, <1>2, MoveOfQuiet DEF Convergent

\* The answer to a request is nothing of an item.
LEMMA MoveOfControl == ASSUME NEW c, NEW d, NEW request, NEW succeeded,
                              Quiet(c, d), Untold(c.out)
    PROVE  LET e == RequestCompleted(d, request, succeeded)
           IN  Heard(e.out, {}, {}, {}) /\ ItemsMove(c, e, {}, {}, {}) /\ Whole(e)
<1> DEFINE a == Event("RequestCompleted", request.id, succeeded)
           e == Emit(d, a)
<1>1. a.type = "RequestCompleted"
  BY DEF Event
<1> HIDE DEF a
<1>2. Heard(d.out, {}, {}, {}) /\ Whole(d)
  BY MoveOfQuiet, QuietWhole
<1>3. /\ Whole(e) /\ e.out = Append(d.out, a) /\ SameEpochs(d, e) /\ SameItems(d, e)
  BY <1>2, EmitOut
<1> HIDE DEF e
<1>4. Heard(Append(d.out, a), {}, {}, {})
  <2>1. IsSequence(Append(d.out, a))
    BY <1>2, AppendEvent DEF Whole
  <2>2. \A T \in ItemEvents : Told(Append(d.out, a), T) = Told(d.out, T) /\
                              (InOrder(d.out, T) => InOrder(Append(d.out, a), T))
    BY SMTT(30), <1>1, <1>2, ToldAppend DEF Whole, ItemEvents
  <2> QED
    BY <1>2, <2>1, <2>2 DEF Heard, ItemEvents
<1>5. Idles(c, e)
  BY <1>3 DEF Quiet, Stays, Drops, Idles, Hushed, SameEpochs, SameItems, NoItemsLeft
<1> QED
  BY <1>3, <1>4, <1>5 DEF RequestCompleted, ItemsMove, e, a

LEMMA MovedIds == ASSUME NEW c, NEW d, NEW A, NEW J, NEW R,
                         c.active \in Items, c.plans \in Seq(Items), PlansInOrder(c.plans),
                         ItemsMove(c, d, A, J, R)
    PROVE  /\ d.plans \in Seq(Items) /\ PlansInOrder(d.plans)
           /\ PlanIds(d.plans) \subseteq PlanIds(c.plans)
           /\ A \union J \subseteq PlanIds(c.plans)
           /\ R \subseteq PlanIds(c.plans) \union {c.active.id}
           /\ Active(c) \/ R = {}
           /\ Before(A \union J, PlanIds(d.plans))
           /\ R \subseteq {c.active.id} \/ PlanIds(d.plans) = {}
           /\ A \union J \union R \subseteq Int
           /\ c.active.id \in Nat /\ PlanIds(c.plans) \subseteq Nat
<1> DEFINE P == PlanIds(c.plans)
<1>1. c.active.id \in Nat /\ P \subseteq Nat
  <2>1. \A x \in Items : x.id \in Nat
    BY SessionAssumption DEF Items
  <2>2. \A x \in Range(c.plans) : x \in Items
    BY InRange
  <2> QED
    BY <2>1, <2>2 DEF PlanIds
<1>2. c.plans # <<>> =>
           /\ Tail(c.plans) \in Seq(Items)
           /\ P = {Head(c.plans).id} \union PlanIds(Tail(c.plans))
           /\ PlansInOrder(Tail(c.plans)) /\ Before({Head(c.plans).id}, PlanIds(Tail(c.plans)))
  BY TakeHead
<1>3. <<>> \in Seq(Items) /\ PlansInOrder(<<>>) /\ PlanIds(<<>>) = {}
  <2>1. <<>> \in Seq(Items) /\ DOMAIN <<>> = {}
    OBVIOUS
  <2>2. Range(<<>>) = {}
    BY <2>1, InRange
  <2> QED
    BY <2>1, <2>2 DEF PlansInOrder, PlanIds
<1> HIDE DEF P
<1>4. \A S : Before({}, S) /\ Before(S, {})
  BY DEF Before
<1>5. CASE Idles(c, d) /\ A = {} /\ J = {} /\ R = {}
  BY <1>1, <1>3, <1>4, <1>5 DEF Idles, SameItems, NoItemsLeft, P
<1>6. CASE c.plans # <<>> /\ AcceptsHead(c, d) /\ A = {Head(c.plans).id} /\ J = {} /\ R = {}
  BY <1>1, <1>2, <1>4, <1>6 DEF AcceptsHead, TakesHead, P
<1>7. CASE c.plans # <<>> /\ RejectsHead(c, d) /\ A = {} /\ J = {Head(c.plans).id} /\ R = {}
  <2>1. CASE d.plans = Tail(c.plans)
    BY <1>1, <1>2, <1>4, <1>7, <2>1 DEF P
  <2>2. CASE d.plans = <<>>
    <3>1. /\ d.plans \in Seq(Items) /\ PlansInOrder(d.plans) /\ PlanIds(d.plans) = {}
          /\ J \subseteq P
      BY <1>2, <1>3, <1>7, <2>2
    <3> QED
      BY <1>1, <1>4, <1>7, <3>1 DEF P
  <2> QED
    BY <1>7, <2>1, <2>2 DEF RejectsHead, NoItemsLeft
<1>8. CASE /\ c.plans # <<>> /\ ContinuesToHead(c, d) /\ A = {Head(c.plans).id} /\ J = {}
           /\ R = {c.active.id}
  BY <1>1, <1>2, <1>4, <1>8 DEF ContinuesToHead, TakesHead, P
<1>9. CASE RetiresActive(c, d) /\ A = {} /\ J = {} /\ R = {c.active.id}
  <2>1. /\ d.plans \in Seq(Items) /\ PlansInOrder(d.plans) /\ PlanIds(d.plans) \subseteq P
        /\ Active(c)
    BY <1>3, <1>9 DEF RetiresActive, P
  <2> QED
    BY <1>1, <1>4, <1>9, <2>1 DEF P
<1>10. CASE AbandonsAll(c, d) /\ A = {} /\ J = {} /\ R = {c.active.id} \union P
  BY <1>1, <1>3, <1>4, <1>10 DEF AbandonsAll, NoItemsLeft, P
<1> QED
  BY <1>5, <1>6, <1>7, <1>8, <1>9, <1>10 DEF ItemsMove, P

LEMMA ItemsMoveOn == ASSUME NEW c, NEW d, NEW l, NEW m, NEW records, NEW item, NEW n \in Nat,
                            NEW A, NEW J, NEW R,
                            c.active \in Items, c.plans \in Seq(Items),
                            LineUp(c.plans, records, item, n),
                            Apart(l, Waits(c.plans, records, item), n),
                            History(l, c.active, c.epoch),
                            ItemsMove(c, d, A, J, R), LogGrows(l, m, A, J, R)
    PROVE  /\ LineUp(d.plans, records, item, n)
           /\ Apart(m, Waits(d.plans, records, item), n)
           /\ History(m, d.active, d.epoch)
           /\ m.accepted # l.accepted => Last(m.accepted) \notin l.doomed
<1> DEFINE P == PlanIds(c.plans)
           Q == PlanIds(d.plans)
           G == ArrivalIds(records)
           V == ReservedIds(item)
<1>1. /\ PlansInOrder(d.plans) /\ Q \subseteq P
      /\ A \union J \subseteq P /\ R \subseteq P \union {c.active.id}
      /\ Active(c) \/ R = {}
      /\ Before(A \union J, Q)
      /\ R \subseteq {c.active.id} \/ Q = {}
      /\ c.active.id \in Nat /\ P \subseteq Nat
  BY ZenonT(60), MovedIds DEF LineUp
<1>2. /\ Before(P, G) /\ Before(P \union G, V) /\ P \union G \union V \subseteq 1..n
      /\ ArrivalsInOrder(records)
  BY DEF LineUp, Waits
<1>3. /\ Past(l) \subseteq 1..n /\ l.doomed \subseteq 1..n
      /\ Before(Past(l), P \union G \union V) /\ l.doomed \intersect (P \union G \union V) = {}
  BY DEF Apart, Waits
<1>4. Past(m) = Past(l) \union A \union J \union R /\ m.doomed = l.doomed
  BY DEF LogGrows, ListGrows, Past
<1>5. Active(c) => /\ c.active.id = Last(l.accepted)
                   /\ c.active.id \in Range(l.accepted)
                   /\ \A x \in Range(l.retired) : x < c.active.id
                   /\ c.active.epoch = c.epoch
  BY DEF History, Active
<1>6. Active(c) => c.active.id \in Past(l)
  BY <1>5 DEF Past
<1>7. LineUp(d.plans, records, item, n)
  <2> HIDE DEF P, Q, G, V
  <2>1. Before(Q, G) /\ Before(Q \union G, V) /\ Q \union G \union V \subseteq 1..n
    BY <1>1, <1>2 DEF Before
  <2> QED
    BY <1>1, <1>2, <2>1 DEF LineUp, Waits, P, Q, G, V
<1>8. Apart(m, Waits(d.plans, records, item), n)
  <2> HIDE DEF P, Q, G, V
  <2>1. Past(m) \subseteq 1..n
    BY <1>1, <1>2, <1>3, <1>4, <1>6
  <2>2. Before(Past(m), Q \union G \union V)
    <3>1. Before(Past(l), Q \union G \union V)
      BY <1>1, <1>3 DEF Before
    <3>2. Before(A \union J, Q \union G \union V)
      BY <1>1, <1>2 DEF Before
    <3>3. Before(R, Q \union G \union V)
      BY <1>1, <1>2, <1>3, <1>6, <3>1 DEF Before
    <3> QED
      BY <1>4, <3>1, <3>2, <3>3 DEF Before
  <2>3. m.doomed \subseteq 1..n /\ m.doomed \intersect (Q \union G \union V) = {}
    BY <1>1, <1>3, <1>4
  <2> QED
    BY <2>1, <2>2, <2>3 DEF Apart, Waits, Q, G, V
<1>9. /\ ListGrows(l.accepted, m.accepted, A) /\ ListGrows(l.rejected, m.rejected, J)
      /\ ListGrows(l.retired, m.retired, R)
  BY DEF LogGrows
<1>10. \A list \in ItemLists : StrictlyIncreasing(m[list])
  <2>1. /\ Before(Range(l.accepted), A) /\ Before(Range(l.rejected), J)
    BY <1>1, <1>3 DEF Before, Past
  <2>2. Before(Range(l.retired), R)
    BY <1>1, <1>3, <1>5 DEF Before, Past
  <2>3. /\ StrictlyIncreasing(l.accepted) /\ StrictlyIncreasing(l.rejected)
        /\ StrictlyIncreasing(l.retired)
    BY DEF History, ItemLists
  <2> QED
    BY <1>9, <2>1, <2>2, <2>3 DEF ListGrows, ItemLists
<1>11. (Range(m.accepted) \union Range(m.retired)) \intersect Range(m.rejected) = {}
  <2>1. \A x \in Past(l) : x \notin P
    <3> HIDE DEF P, G, V
    <3>1. \A x \in Past(l), y \in P : x < y /\ x \in 1..n
      BY <1>3 DEF Before
    <3> QED
      BY <3>1
  <2>2. A \union R = {} \/ J = {}
    BY DEF ItemsMove
  <2>3. (Range(l.accepted) \union Range(l.retired)) \intersect Range(l.rejected) = {}
    BY DEF History
  <2>4. \A x \in R : x \in P \/ x \in Range(l.accepted)
    BY <1>1, <1>5
  <2>5. /\ Range(m.accepted) = Range(l.accepted) \union A
        /\ Range(m.rejected) = Range(l.rejected) \union J
        /\ Range(m.retired) = Range(l.retired) \union R
    BY <1>9 DEF ListGrows
  <2>6. /\ Range(l.accepted) \subseteq Past(l) /\ Range(l.rejected) \subseteq Past(l)
        /\ Range(l.retired) \subseteq Past(l)
    BY DEF Past
  <2> HIDE DEF P
  <2> QED
    BY <1>1, <2>1, <2>2, <2>3, <2>4, <2>5, <2>6
<1>12. d.active # NoItem => /\ d.active.id = Last(m.accepted)
                            /\ d.active.id \in Range(m.accepted)
                            /\ \A x \in Range(m.retired) : x < d.active.id
                            /\ d.active.epoch = d.epoch
  <2>1. /\ Range(m.accepted) = Range(l.accepted) \union A
        /\ A = {} => m.accepted = l.accepted
        /\ A # {} => Last(m.accepted) \in A
        /\ Range(m.retired) = Range(l.retired) \union R
    BY <1>9 DEF ListGrows
  <2>2. Range(l.retired) \subseteq Past(l) /\ \A x \in Past(l), y \in P : x < y
    BY <1>3 DEF Past, Before
  <2>3. CASE d.active = c.active /\ d.epoch = c.epoch /\ A = {} /\ R = {}
    BY <1>5, <2>1, <2>3 DEF Active
  <2>4. CASE /\ d.active = Head(c.plans) /\ d.active.epoch = d.epoch
             /\ A = {Head(c.plans).id} /\ R \subseteq {c.active.id}
    <3>1. Head(c.plans).id \in P
      BY <1>1, <2>4
    <3>2. \A x \in R : x \in Past(l)
      BY <1>1, <1>6, <2>4
    <3> HIDE DEF P
    <3> QED
      BY <2>1, <2>2, <2>4, <3>1, <3>2
  <2>5. \/ d.active = NoItem
        \/ d.active = c.active /\ d.epoch = c.epoch /\ A = {} /\ R = {}
        \/ /\ d.active = Head(c.plans) /\ d.active.epoch = d.epoch
           /\ A = {Head(c.plans).id} /\ R \subseteq {c.active.id}
    BY <1>5 DEF ItemsMove, Idles, AcceptsHead, RejectsHead, ContinuesToHead, RetiresActive,
                AbandonsAll, SameItems, NoItemsLeft, TakesHead
  <2> QED
    BY <2>3, <2>4, <2>5
<1>13. m.accepted # l.accepted => Last(m.accepted) \notin l.doomed
  BY <1>1, <1>3, <1>9 DEF ListGrows
<1> QED
  BY <1>7, <1>8, <1>10, <1>11, <1>12, <1>13 DEF History

LEMMA AtStart == ASSUME Ticking
    PROVE  /\ Whole(core) /\ Untold(core.out)
           /\ core.active \in Items /\ core.plans \in Seq(Items)
           /\ core.active.kind \in ItemKinds /\ core.demand.mode \in Modes
           /\ core.triggered \in TriggeredModes
<1>1. Typed(core) /\ core.out = <<>>
  BY DEF Ticking, Sound
<1>2. Whole(core) /\ Untold(core.out)
  BY <1>1, NoEvents DEF Typed, Whole, Untold, Tells
<1> QED
  BY <1>1, <1>2 DEF Typed, Items, Demands

LEMMA RequestsAreControls == ASSUME SessionTypes, NEW request \in Requests
                             PROVE  request \in Controls /\ ~IsPlan(request)
<1>1. \A type, kind : [id |-> session.request + 1, type |-> type,
                            jog |-> session.epoch, kind |-> kind] \in
         [id : Nat, type : {type}, jog : Nat, kind : {kind}]
  BY SessionAssumption DEF Counting, Epochs, SessionTypes
<1>2. request \in Controls
  BY <1>1 DEF Requests, Controls, ControlTypes
<1> QED
  BY <1>2 DEF Controls, ControlTypes, LifecycleControls, IsPlan

\* A step of the executor, with the ingress queue's items as they were.
LEMMA StepMovesItems ==
    ASSUME SessionTypes, Ticking, ItemsInv, NEW next, Step(next), Whole(next),
           NEW A, NEW J, NEW R, Heard(next.out, A, J, R), ItemsMove(core, next, A, J, R),
           UNCHANGED <<reserved, session>>, ArrivalsInOrder(ingress'),
           ArrivalIds(ingress') = ArrivalIds(ingress)
    PROVE  ItemsInv' /\ (log'.accepted # log.accepted => Last(log'.accepted) \notin log.doomed)
<1>1. /\ core.active \in Items /\ core.plans \in Seq(Items) /\ PlansInOrder(core.plans)
      /\ session.item \in Nat
  BY AtStart, SessionAssumption DEF ItemsInv, LineUp, SessionTypes, Counting
<1>2. A \union J \union R \subseteq Int
  BY <1>1, MovedIds
<1>3. LogGrows(log, log', A, J, R)
  BY <1>2, LogHears DEF Step, ItemsInv
<1>4. /\ core'.active = next.active /\ core'.plans = next.plans /\ core'.epoch = next.epoch
  BY DEF Step, Whole, CoreFields
<1>5. /\ LineUp(core.plans, ingress', reserved, session.item)
      /\ Apart(log, Waits(core.plans, ingress', reserved), session.item)
      /\ History(log, core.active, core.epoch)
  BY DEF ItemsInv, LineUp, Apart, Waits
<1>6. /\ LineUp(next.plans, ingress', reserved, session.item)
      /\ Apart(log', Waits(next.plans, ingress', reserved), session.item)
      /\ History(log', next.active, next.epoch)
      /\ log'.accepted # log.accepted => Last(log'.accepted) \notin log.doomed
  BY <1>1, <1>3, <1>5, ItemsMoveOn
<1> QED
  BY <1>3, <1>4, <1>6 DEF ItemsInv, LogGrows

\* One that leaves the ingress queue alone.
LEMMA CoreMovesItems ==
    ASSUME SessionTypes, Ticking, ItemsInv, NEW next, Step(next), Whole(next),
           NEW A, NEW J, NEW R, Heard(next.out, A, J, R), ItemsMove(core, next, A, J, R),
           UNCHANGED <<ingress, reserved, session>>
    PROVE  ItemsInv' /\ (log'.accepted # log.accepted => Last(log'.accepted) \notin log.doomed)
  BY StepMovesItems DEF ItemsInv, LineUp

ItemsKept ==
    /\ ItemsInv'
    /\ log'.accepted # log.accepted => Last(log'.accepted) \notin log.doomed

LEMMA ActiveLeads == ASSUME NEW c, c.active \in Items, c.plans \in Seq(Items),
                            PlansInOrder(c.plans), Before({c.active.id}, PlanIds(c.plans))
                     PROVE  InLine(c)
<1> DEFINE q == <<c.active>> \o c.plans
           n == Len(c.plans)
<1>1. /\ n \in Nat /\ DOMAIN c.plans = 1..n /\ Len(q) = n + 1 /\ q[1] = c.active
      /\ \A i \in 1..n : q[i + 1] = c.plans[i]
  OBVIOUS
<1>2. \A i \in 1..n : c.active.id < c.plans[i].id
  BY <1>1, InRange DEF Before, PlanIds
<1> HIDE DEF q, n
<1>3. \A i \in 1..(n + 1) : i = 1 \/ (i - 1 \in 1..n /\ q[i] = c.plans[i - 1])
  <2> SUFFICES ASSUME NEW i \in 1..(n + 1), i # 1
               PROVE  i - 1 \in 1..n /\ q[i] = c.plans[i - 1]
    OBVIOUS
  <2>1. i - 1 \in 1..n /\ i = (i - 1) + 1
    BY <1>1
  <2> QED
    BY <1>1, <2>1
<1>4. ASSUME NEW i \in 1..(n + 1), NEW j \in 1..(n + 1), i < j PROVE q[i].id < q[j].id
  <2>1. j - 1 \in 1..n /\ q[j] = c.plans[j - 1]
    BY <1>1, <1>3, <1>4
  <2>2. CASE i = 1
    BY <1>1, <1>2, <2>1, <2>2
  <2>3. CASE i # 1
    <3>1. i - 1 \in 1..n /\ q[i] = c.plans[i - 1] /\ i - 1 < j - 1
      BY <1>1, <1>3, <1>4, <2>3
    <3> QED
      BY <1>1, <2>1, <3>1 DEF PlansInOrder
  <2> QED
    BY <2>2, <2>3
<1> QED
  BY <1>1, <1>4 DEF InLine, q

LEMMA ItemsInLine == ASSUME ItemsInv, Active(core), core.active \in Items,
                            core.plans \in Seq(Items)
                     PROVE  InLine(core)
<1>1. core.active.id \in Past(log) /\ PlansInOrder(core.plans)
  BY DEF ItemsInv, LineUp, History, Past, Active
<1>2. Before({core.active.id}, PlanIds(core.plans))
  BY <1>1 DEF ItemsInv, Apart, Before, Waits
<1> QED
  BY <1>1, <1>2, ActiveLeads

LEMMA ServoKeepsItems == ASSUME SessionTypes, Ticking, ItemsInv, ServoThread PROVE ItemsKept
<1>0. /\ Whole(core) /\ Untold(core.out)
      /\ core.active \in Items /\ core.plans \in Seq(Items)
      /\ core.active.kind \in ItemKinds /\ core.demand.mode \in Modes
      /\ core.triggered \in TriggeredModes
  BY AtStart
<1>1. CASE TickBegins
  <2> DEFINE demanded == IF mailbox = NoDemand THEN core ELSE ServiceDemand(core, mailbox)
  <2>1. PICK o \in ControlOutcomes : Step(ConvergeDemand(demanded, o, Pending))
    BY <1>1 DEF TickBegins
  <2> DEFINE next == ConvergeDemand(demanded, o, Pending)
  <2>2. /\ Whole(demanded) /\ Untold(demanded.out) /\ SameItems(core, demanded)
        /\ demanded.epoch = core.epoch /\ demanded.demand.mode \in Modes
    BY <1>0 DEF ServiceDemand, Whole, CoreFields, SameItems, SessionTypes, Demands
  <2> HIDE DEF demanded
  <2>3. Convergent(demanded, next)
    BY <1>0, <2>2, ConvergeServes DEF SameItems
  <2>4. Whole(next)
    BY <2>3, QuietWhole DEF Convergent, Restarted, Forgotten
  <2> HIDE DEF next
  <2>5. Heard(next.out, {}, {}, {}) /\ ItemsMove(demanded, next, {}, {}, {})
    BY <2>2, <2>3, MoveOfConvergence
  <2>6. ItemsMove(core, next, {}, {}, {})
    BY <2>2, <2>5 DEF ItemsMove, Idles, SameItems, NoItemsLeft
  <2>7. Step(next) /\ UNCHANGED <<ingress, reserved, session>>
    BY <1>1, <2>1 DEF TickBegins, next
  <2> QED
    BY <2>4, <2>5, <2>6, <2>7, CoreMovesItems DEF ItemsKept
<1>2. CASE IngressEnds
  <2>1. PICK o \in ControlOutcomes : Step(ConvergeDemand(core, o, Pending))
    BY <1>2 DEF IngressEnds
  <2> DEFINE next == ConvergeDemand(core, o, Pending)
  <2>3. Convergent(core, next)
    BY <1>0, ConvergeServes
  <2>4. Whole(next)
    BY <2>3, QuietWhole DEF Convergent, Restarted, Forgotten
  <2> HIDE DEF next
  <2>5. Heard(next.out, {}, {}, {}) /\ ItemsMove(core, next, {}, {}, {})
    BY <1>0, <2>3, MoveOfConvergence
  <2>7. Step(next) /\ UNCHANGED <<ingress, reserved, session>>
    BY <1>2, <2>1 DEF IngressEnds, next
  <2> QED
    BY <2>4, <2>5, <2>7, CoreMovesItems DEF ItemsKept
<1>3. CASE IngressControl
  <2>1. PICK o \in ControlOutcomes : Step(ServiceControl(core, o, Head(ingress)))
    BY <1>3 DEF IngressControl
  <2>2. Head(ingress).type \in ControlTypes /\ ~IsPlan(Head(ingress)) /\ ingress # <<>>
        /\ ingress' = Tail(ingress)
    BY <1>3, HeadControl DEF IngressControl
  <2>3. PICK d, succeeded :
            /\ Quiet(core, d)
            /\ ServiceControl(core, o, Head(ingress))
               = RequestCompleted(d, Head(ingress), succeeded)
    BY ZenonT(60), <1>0, <2>2, ServiceControlFlows
  <2> DEFINE next == RequestCompleted(d, Head(ingress), succeeded)
  <2>4. Heard(next.out, {}, {}, {}) /\ ItemsMove(core, next, {}, {}, {}) /\ Whole(next)
    BY <1>0, <2>3, MoveOfControl
  <2> HIDE DEF next
  <2>5. Step(next) /\ UNCHANGED <<reserved, session>>
    BY <1>3, <2>1, <2>3 DEF IngressControl, next
  <2>6. ArrivalsInOrder(ingress') /\ ArrivalIds(ingress') = ArrivalIds(ingress)
    <3>1. ingress \in Seq(Records) /\ ArrivalsInOrder(ingress)
      BY DEF SessionTypes, ItemsInv, LineUp, Records
    <3> QED
      BY <2>2, <3>1, TakeRecord
  <2> QED
    BY <2>4, <2>5, <2>6, StepMovesItems DEF ItemsKept
<1>4. CASE ExecuteJog
  <2>1. PICK o \in JogOutcomes : Step(AdvanceJog(core, o))
    BY <1>4 DEF ExecuteJog, ExecuteJogStep
  <2> DEFINE next == AdvanceJog(core, o)
  <2>2. Quiet(core, next)
    BY <1>0, AdvanceJogQuiet
  <2> HIDE DEF next
  <2>3. Heard(next.out, {}, {}, {}) /\ ItemsMove(core, next, {}, {}, {}) /\ Whole(next)
    BY <1>0, <2>2, MoveOfQuiet, QuietWhole
  <2>4. Step(next) /\ UNCHANGED <<ingress, reserved, session>>
    BY <1>4, <2>1 DEF ExecuteJog, ExecuteJogStep, next
  <2> QED
    BY <2>3, <2>4, CoreMovesItems DEF ItemsKept
<1>5. CASE ExecuteItem
  <2>1. UNCHANGED <<ingress, reserved, session>>
    BY <1>5 DEF ExecuteItem
  <2>2. CASE UNCHANGED <<core, log>>
    BY <2>1, <2>2 DEF ItemsKept, ItemsInv, LineUp, Apart, History, Waits
  <2>3. ASSUME NEW o \in ActivationOutcomes, Step(ActivateNext(core, o)), ~Active(core)
        PROVE  ItemsKept
    <3> DEFINE next == ActivateNext(core, o)
    <3>1. Quiet(core, next) \/ Rejected(core, next) \/ Accepted(core, next)
      BY <1>0, <2>3, ActivateNextFlows
    <3> HIDE DEF next
    <3>2. Whole(next) /\ \E A, J, R : Heard(next.out, A, J, R) /\ ItemsMove(core, next, A, J, R)
      BY <1>0, <3>1, MoveOfAdvanced, MoveOfAccepted, QuietWhole
         DEF Advanced, Rejected, Accepted
    <3>3. Step(next)
      BY <2>3 DEF next
    <3> QED
      BY <2>1, <3>2, <3>3, CoreMovesItems DEF ItemsKept
  <2> QED
    BY <1>5, <2>2, <2>3 DEF ExecuteItem
<1>6. CASE Advance
  <2>1. PICK o \in AdvanceOutcomes : AdvanceStep(o)
    BY <1>6 DEF Advance
  <2> DEFINE next == AdvanceActive(core, o)
  <2>2. Ready(core)
    BY <1>0, <1>6 DEF Ready, Advance, Ticking
  <2>3. InLine(core)
    BY <2>2, ItemsInLine DEF Ready
  <2>4. Advanced(core, next)
    BY <1>0, <2>2, <2>3, AdvanceActiveFlows
  <2> HIDE DEF next
  <2>5. Whole(next) /\ \E A, J, R : Heard(next.out, A, J, R) /\ ItemsMove(core, next, A, J, R)
    BY <1>0, <2>4, MoveOfAdvanced, QuietWhole
       DEF Advanced, Rejected, Continued, Retired, Abandoned
  <2>6. Step(next) /\ UNCHANGED <<ingress, reserved, session>>
    BY <2>1 DEF AdvanceStep, next
  <2> QED
    BY <2>5, <2>6, CoreMovesItems DEF ItemsKept
<1>7. CASE NotReady
  BY <1>7 DEF NotReady, ItemsKept, ItemsInv, LineUp, Apart, History, Waits
<1>8. CASE IngressPlan
  <2> DEFINE x == Head(ingress).item
             P == PlanIds(core.plans)
             G == ArrivalIds(ingress)
             H == ArrivalIds(Tail(ingress))
             V == ReservedIds(reserved)
  <2>1. /\ ingress \in Seq(Records) /\ ingress # <<>> /\ ArrivalsInOrder(ingress)
        /\ IsPlan(Head(ingress)) /\ ingress' = Tail(ingress) /\ x \in Items
        /\ UNCHANGED <<reserved, session, log>>
    BY <1>8, HeadControl DEF SessionTypes, ItemsInv, LineUp, Records, IngressPlan
  <2>2. /\ ArrivalsInOrder(Tail(ingress)) /\ G = {x.id} \union H /\ Before({x.id}, H)
    BY <2>1, TakeRecord
  <2>3. core'.plans = Append(core.plans, x) /\ core'.active = core.active
        /\ core'.epoch = core.epoch
    BY <1>0, <1>8 DEF IngressPlan, Whole, CoreFields
  <2>4. /\ PlansInOrder(core.plans) /\ Before(P, G) /\ Before(P \union G, V)
    BY DEF ItemsInv, LineUp
  <2> HIDE DEF x, P, G, H, V
  <2>5. Before(P, {x.id})
    BY <2>2, <2>4 DEF Before
  <2>6. PlansInOrder(core'.plans) /\ PlanIds(core'.plans) = P \union {x.id}
    BY <1>0, <2>1, <2>3, <2>4, <2>5, JoinQueue DEF P
  <2>7. Before(P \union {x.id}, H) /\ Before(P \union {x.id} \union H, V)
    BY <2>2, <2>4 DEF Before
  <2>8. Waits(core'.plans, ingress', reserved') = Waits(core.plans, ingress, reserved)
    BY <2>1, <2>2, <2>6 DEF Waits, P, G, H
  <2>9. LineUp(core'.plans, ingress', reserved', session'.item)
    BY <2>1, <2>2, <2>6, <2>7, <2>8 DEF LineUp, ItemsInv, H, V
  <2> QED
    BY <2>1, <2>3, <2>8, <2>9 DEF ItemsKept, ItemsInv
<1> QED
  BY <1>1, <1>2, <1>3, <1>4, <1>5, <1>6, <1>7, <1>8 DEF ServoThread

LEMMA HostKeepsItems == ASSUME SessionTypes, Ticking, ItemsInv, Host PROVE ItemsKept
<1>0. /\ Whole(core) /\ Untold(core.out)
      /\ core.active \in Items /\ core.plans \in Seq(Items)
  BY AtStart
<1>1. CASE EmergencyStopResets
  <2> DEFINE next == ResetEmergencyStop(core)
  <2>1. Quiet(core, next)
    BY <1>0, EnableStays, QuietWhole
  <2> HIDE DEF next
  <2>2. Heard(next.out, {}, {}, {}) /\ ItemsMove(core, next, {}, {}, {}) /\ Whole(next)
    BY <1>0, <2>1, MoveOfQuiet, QuietWhole
  <2>3. Step(next) /\ UNCHANGED <<ingress, reserved, session>>
    BY <1>1 DEF EmergencyStopResets, next
  <2> QED
    BY <2>2, <2>3, CoreMovesItems DEF ItemsKept
<1>2. CASE IoFaults \/ DeadlineMissed
  <2>1. PICK code : Step(Fault(core, code))
    BY <1>2, HostFault
  <2> DEFINE next == Fault(core, code)
  <2>2. Quiet(core, next)
    BY <1>0, FaultStays, QuietWhole
  <2> HIDE DEF next
  <2>3. Heard(next.out, {}, {}, {}) /\ ItemsMove(core, next, {}, {}, {}) /\ Whole(next)
    BY <1>0, <2>2, MoveOfQuiet, QuietWhole
  <2>4. Step(next) /\ UNCHANGED <<ingress, reserved, session>>
    BY <1>2, <2>1 DEF IoFaults, DeadlineMissed, next
  <2> QED
    BY <2>3, <2>4, CoreMovesItems DEF ItemsKept
<1>3. CASE EmergencyStopLatches
  <2> DEFINE work == {i.id : i \in ItemsIn(core, ingress) \union {core.active}}
             next == LatchEmergencyStop(core, [trouble |-> "None"])
             l == LogAfter(next.out)
             P == PlanIds(core.plans)
             G == ArrivalIds(ingress)
             V == ReservedIds(reserved)
             n == session.item
  <2>1. /\ core' = [next EXCEPT !.out = <<>>]
        /\ log' = [l EXCEPT !.doomed = @ \union (work \ {0})]
        /\ ingress' = <<>> /\ UNCHANGED <<reserved, session>>
    BY <1>3 DEF EmergencyStopLatches
  <2>2. work \subseteq P \union G \union {core.active.id}
    BY InRange DEF ItemsIn, PlanIds, ArrivalIds
  <2>3. Drops(core, next)
    BY <1>0, LatchDrops
  <2> HIDE DEF next, work
  <2>4. Heard(next.out, {}, {}, {}) /\ Whole(next) /\ NoItemsLeft(next)
    BY <1>0, <2>3, MoveOfQuiet, QuietWhole DEF Drops
  <2>5. LogGrows(log, l, {}, {}, {})
    BY <2>4, LogHears DEF ItemsInv
  <2> HIDE DEF l
  <2>6. /\ core'.active = NoItem /\ core'.plans = <<>>
        /\ LogTyped(log') /\ log'.doomed = log.doomed \union (work \ {0})
        /\ log'.accepted = log.accepted /\ log'.retired = log.retired
        /\ log'.rejected = log.rejected
    <3>1. core'.active = NoItem /\ core'.plans = <<>>
      BY <2>1, <2>4 DEF Whole, CoreFields, NoItemsLeft
    <3>2. /\ LogTyped(l) /\ l.doomed = log.doomed
          /\ l.accepted = log.accepted /\ l.retired = log.retired
          /\ l.rejected = log.rejected
      BY <2>5 DEF LogGrows, ListGrows
    <3>3. LogTyped(log')
      BY <2>1, <3>2 DEF LogTyped, LogFields, ItemLists
    <3>4. /\ log'.doomed = l.doomed \union (work \ {0})
          /\ log'.accepted = l.accepted /\ log'.retired = l.retired
          /\ log'.rejected = l.rejected
      BY <2>1, <3>2 DEF LogTyped, LogFields
    <3> QED
      BY <3>1, <3>2, <3>3, <3>4
  <2>7. PlanIds(<<>>) = {} /\ ArrivalIds(<<>>) = {} /\ PlansInOrder(<<>>)
        /\ ArrivalsInOrder(<<>>)
    <3>1. DOMAIN <<>> = {}
      OBVIOUS
    <3>2. Range(<<>>) = {}
      BY <3>1, InRange
    <3> QED
      BY <3>1, <3>2 DEF PlanIds, ArrivalIds, PlansInOrder, ArrivalsInOrder
  <2>8. /\ Before(P \union G, V) /\ P \union G \union V \subseteq 1..n
        /\ Past(log) \subseteq 1..n /\ log.doomed \subseteq 1..n
        /\ Before(Past(log), P \union G \union V)
        /\ log.doomed \intersect (P \union G \union V) = {}
    BY DEF ItemsInv, LineUp, Apart, Waits
  <2>9. core.active.id = 0 \/ core.active.id \in Past(log)
    BY DEF ItemsInv, History, Past, NoItem
  <2>10. LineUp(core'.plans, ingress', reserved', session'.item)
    BY <2>1, <2>6, <2>7, <2>8 DEF LineUp, Waits, Before, V
  <2> HIDE DEF P, G, V, n
  <2>11. log'.doomed \subseteq 1..n /\ log'.doomed \intersect V = {}
    <3>1. \A x \in work \ {0} : x \in P \union G \/ x \in Past(log)
      BY <2>2, <2>9
    <3>2. \A x \in P \union G \union Past(log), y \in V : x < y /\ x \in 1..n
      BY <2>8 DEF Before
    <3>3. \A x \in P \union G \union Past(log) : x \in 1..n
      BY <2>8
    <3>4. \A x \in work \ {0} : x \in 1..n /\ x \notin V
      BY <3>1, <3>2, <3>3
    <3> QED
      BY <2>6, <2>8, <3>4
  <2>12. Past(log') = Past(log) /\ Waits(core'.plans, ingress', reserved') = V
    BY <2>1, <2>6, <2>7 DEF Past, Waits, V
  <2>13. Apart(log', V, n)
    BY <2>8, <2>11, <2>12 DEF Apart, Before
  <2>14. History(log', core'.active, core'.epoch)
    BY <2>6 DEF ItemsInv, History, ItemLists
  <2> QED
    BY <2>1, <2>6, <2>10, <2>12, <2>13, <2>14 DEF ItemsKept, ItemsInv, n
<1> QED
  BY <1>1, <1>2, <1>3 DEF Host

LEMMA SessionKeepsItems == ASSUME SessionTypes, Ticking, ItemsInv, Session PROVE ItemsKept
<1> DEFINE P == PlanIds(core.plans)
           G == ArrivalIds(ingress)
           V == ReservedIds(reserved)
           n == session.item
<1>0. /\ PlansInOrder(core.plans) /\ ArrivalsInOrder(ingress)
      /\ Before(P, G) /\ Before(P \union G, V) /\ P \union G \union V \subseteq 1..n
      /\ Past(log) \subseteq 1..n /\ log.doomed \subseteq 1..n
      /\ Before(Past(log), P \union G \union V)
      /\ log.doomed \intersect (P \union G \union V) = {}
  BY DEF ItemsInv, LineUp, Apart, Waits
<1>1. n \in Nat /\ ingress \in Seq(Records) /\ reserved \in Items
  BY SessionAssumption DEF SessionTypes, Counting, Records
<1>2. UNCHANGED <<core, log>>
  BY DEF Session, ReserveItem, EnqueueItem, SubmitControl, ContinueOperation,
         BeginOperation, SwitchPower, PublishDemand
<1>3. LogTyped(log) /\ History(log, core.active, core.epoch)
  BY DEF ItemsInv
<1>4. CASE ReserveItem
  <2> DEFINE W == ReservedIds(reserved')
  <2>1. /\ reserved = NoItem /\ reserved'.id = n + 1 /\ ingress' = ingress
        /\ session'.item = n + 1
    <3>1. "item" \in DOMAIN session
      BY DEF SessionTypes, Counting, CounterFields
    <3> QED
      BY <1>4, <3>1 DEF ReserveItem
  <2>2. W = {n + 1} /\ V = {}
    BY <1>1, <2>1 DEF ReservedIds, NoItem
  <2> HIDE DEF P, G, V, W, n
  <2>3. \A x \in 1..n : x < n + 1 /\ x \in 1..(n + 1) /\ x # n + 1
    BY <1>1
  <2>4. /\ Before(P \union G, W) /\ P \union G \union W \subseteq 1..(n + 1)
        /\ Past(log) \subseteq 1..(n + 1) /\ log.doomed \subseteq 1..(n + 1)
        /\ Before(Past(log), P \union G \union W)
        /\ log.doomed \intersect (P \union G \union W) = {}
    <3>1. n + 1 \in 1..(n + 1)
      BY <1>1
    <3>2. \A x \in P \union G \union Past(log) \union log.doomed : x \in 1..n
      BY <1>0
    <3>3. P \union G \union W \subseteq 1..(n + 1)
      BY <2>2, <2>3, <3>1, <3>2
    <3>4. Past(log) \subseteq 1..(n + 1) /\ log.doomed \subseteq 1..(n + 1)
      BY <2>3, <3>2
    <3>5. Before(P \union G, W) /\ Before(Past(log), P \union G \union W)
      BY <1>0, <2>2, <2>3, <3>2 DEF Before
    <3>6. log.doomed \intersect (P \union G \union W) = {}
      BY <1>0, <2>2, <2>3, <3>2
    <3> QED
      BY <3>3, <3>4, <3>5, <3>6
  <2>5. LineUp(core.plans, ingress, reserved', n + 1)
        /\ Apart(log, Waits(core.plans, ingress, reserved'), n + 1)
    BY <1>0, <2>4 DEF LineUp, Apart, Waits, P, G, W
  <2> QED
    BY <1>2, <1>3, <2>1, <2>5 DEF ItemsKept, ItemsInv
<1>5. CASE EnqueueItem
  <2> DEFINE r == [type |-> "Plan", item |-> reserved]
  <2>1. /\ ingress' = Append(ingress, r) /\ reserved' = NoItem /\ session' = session
        /\ reserved # NoItem /\ IsPlan(r) /\ r.item = reserved /\ r \in Records
    BY <1>1, <1>5 DEF EnqueueItem, IsPlan, Records, PlanRecords
  <2>2. V = {reserved.id} /\ ReservedIds(reserved') = {}
    BY <2>1 DEF ReservedIds
  <2> HIDE DEF r, P, G, V
  <2>3. Before(G, {r.item.id})
    BY <1>0, <2>1, <2>2 DEF Before
  <2>4. ArrivalsInOrder(ingress') /\ ArrivalIds(ingress') = G \union V
    BY <1>0, <1>1, <2>1, <2>2, <2>3, JoinRecord DEF G
  <2>5. Before(P, G \union V) /\ \A S : Before(S, {})
    BY <1>0 DEF Before
  <2>6. Waits(core.plans, ingress', reserved') = P \union G \union V
    BY <2>2, <2>4 DEF Waits, P
  <2>7. LineUp(core.plans, ingress', reserved', n)
    BY <1>0, <2>2, <2>4, <2>5, <2>6 DEF LineUp, P
  <2>8. Apart(log, Waits(core.plans, ingress', reserved'), n)
    BY <1>0, <2>6 DEF Apart
  <2> QED
    BY <1>2, <1>3, <2>1, <2>7, <2>8 DEF ItemsKept, ItemsInv
<1>6. CASE SubmitControl
  <2>1. PICK request \in Requests :
          /\ ingress' = Append(ingress, request)
          /\ session' = [session EXCEPT
                !.request = request.id,
                !.setup = IF request.type = "SetJointPosition"
                          THEN request.id ELSE @,
                !.jogged = @ \/ request.type = "StartJog"]
    BY <1>6 DEF SubmitControl
  <2>2. request \in Records /\ ~IsPlan(request)
    BY RequestsAreControls DEF Records
  <2>3. session'.item = n /\ reserved' = reserved
    BY <1>6, <2>1 DEF SubmitControl, SessionTypes, Counting, CounterFields
  <2>4. ArrivalsInOrder(ingress') /\ ArrivalIds(ingress') = G
    BY <1>0, <1>1, <2>1, <2>2, JoinRecord
  <2>5. LineUp(core.plans, ingress', reserved, n)
        /\ Apart(log, Waits(core.plans, ingress', reserved), n)
    BY <1>0, <2>4 DEF LineUp, Apart, Waits
  <2> QED
    BY <1>2, <1>3, <2>3, <2>5 DEF ItemsKept, ItemsInv
<1>7. CASE ContinueOperation \/ BeginOperation \/ SwitchPower
  <2>1. session'.item = n /\ UNCHANGED <<ingress, reserved>>
    BY <1>7 DEF ContinueOperation, BeginOperation, SwitchPower, PublishDemand, SessionTypes,
                Counting, CounterFields
  <2> QED
    BY <1>2, <2>1 DEF ItemsKept, ItemsInv
<1> QED
  BY <1>4, <1>5, <1>6, <1>7 DEF Session

LEMMA InitItems == ASSUME Init PROVE ItemsInv
<1>1. DOMAIN <<>> = {} /\ <<>> \in Seq(Int) /\ <<>> \in Seq(Range(<<>>))
  OBVIOUS
<1>2. Range(<<>>) = {}
  BY <1>1, InRange
<1>3. core.plans = <<>> /\ core.active = NoItem /\ ingress = <<>> /\ reserved = NoItem
      /\ session.item = 0 /\ log = EmptyLog
  BY DEF Init, InitialCore
<1>4. LogTyped(log)
  BY <1>1, <1>3 DEF LogTyped, LogFields, ItemLists, EmptyLog, IsSequence
<1>5. /\ PlansInOrder(<<>>) /\ ArrivalsInOrder(<<>>)
      /\ PlanIds(<<>>) = {} /\ ArrivalIds(<<>>) = {} /\ ReservedIds(NoItem) = {}
  BY <1>1, <1>2 DEF PlansInOrder, ArrivalsInOrder, PlanIds, ArrivalIds, ReservedIds
<1>6. LineUp(core.plans, ingress, reserved, session.item)
  BY <1>3, <1>5 DEF LineUp, Waits, Before
<1>7. Past(log) = {} /\ log.doomed = {}
  BY <1>2, <1>3 DEF Past, EmptyLog
<1>8. Apart(log, Waits(core.plans, ingress, reserved), session.item)
  BY <1>7 DEF Apart, Before
<1>9. History(log, core.active, core.epoch)
  BY <1>1, <1>2, <1>3 DEF History, EmptyLog, ItemLists, StrictlyIncreasing
<1> QED
  BY <1>4, <1>6, <1>8, <1>9 DEF ItemsInv

LEMMA NextItems == ASSUME SessionTypes, Ticking, ItemsInv, [Next]_vars PROVE ItemsKept
<1>1. CASE UNCHANGED vars
  BY <1>1 DEF vars, ItemsKept, ItemsInv, LineUp, Apart, History, Waits
<1> QED
  BY <1>1, ServoKeepsItems, HostKeepsItems, SessionKeepsItems DEF Next

LEMMA ItemsHold == Spec => [](SessionTypes /\ Ticking /\ ItemsInv)
<1>1. SessionTypes /\ Ticking /\ ItemsInv /\ [Next]_vars => ItemsInv'
  BY NextItems DEF ItemsKept
<1> QED
  BY <1>1, InitItems, InitInv, NextSessionTypes, NextTicking, PTL DEF Spec

\* Items are accepted, rejected and retired in the order in which tryPublish took
\* them, each once, and the active one is the last that was accepted and has not
\* ended (ProductionExecutorCore.cpp, activateNext, completePlan, retire).
THEOREM ItemsKeepTheirOrder == Spec => []ItemsRunInOrder
<1>1. ItemsInv => ItemsRunInOrder
  <2> SUFFICES ASSUME ItemsInv PROVE ItemsRunInOrder
    OBVIOUS
  <2>1. History(log, core.active, core.epoch)
    BY DEF ItemsInv
  <2>2. StrictlyIncreasing(log.accepted) /\ StrictlyIncreasing(log.retired)
        /\ StrictlyIncreasing(log.rejected)
    BY <2>1 DEF History, ItemLists
  <2>3. Active(core) => core.active.id \notin Ended
    <3> SUFFICES ASSUME Active(core), core.active.id \in Range(log.retired) PROVE FALSE
      BY <2>1 DEF History, Active, Ended
    <3>1. core.active.id < core.active.id
      BY <2>1 DEF History, Active
    <3>2. core.active.id \in 1..session.item
      BY DEF ItemsInv, Apart, Past
    <3> QED
      BY <3>1, <3>2
  <2> QED
    BY <2>1, <2>2, <2>3 DEF ItemsRunInOrder, History, Active
<1> QED
  BY <1>1, ItemsHold, PTL

\* Of what the executor owned when the emergency stop latched, nothing is accepted
\* after the reset, although the demand and its epoch survive it
\* (ProductionExecutorCore.cpp, latchEmergencyStop and resetEmergencyStop).
THEOREM DoomedWorkStaysAbandoned == Spec => EmergencyStopAbandonsWork
<1>1. SessionTypes /\ Ticking /\ ItemsInv /\ [Next]_vars
      => [Accepts => Last(log'.accepted) \notin log.doomed]_vars
  BY NextItems DEF ItemsKept, Accepts
<1> QED
  BY <1>1, ItemsHold, PTL DEF Spec, EmergencyStopAbandonsWork

-----------------------------------------------------------------------------
(* The epochs: what the session has announced, what the executor has       *)
(* adopted, and which of them have been stopped.                           *)

\* The last epoch that a demand may have announced.
Announced(s) == IF s.operation = "None" THEN s.epochs + 1 ELSE s.epochs

DemandsFit(s) ==
    /\ CounterFields \union {"operation", "mode"} \subseteq DOMAIN s
    /\ s.operation # "None" => s.epoch = s.epochs /\ s.mode # "Disabled"
    /\ s.operation = "None" => s.mode \in {"Idle", "Disabled"}
    /\ s.operation = "None" /\ s.mode = "Idle" => s.epoch = s.epochs + 1
    /\ s.mode = "Disabled" => s.epoch = 0

\* The executor follows a demand of the session, and adopts epochs in their order.
EpochsFit(c, s) ==
    /\ c.demand.epoch <= Announced(s) /\ c.epoch <= Announced(s)
    /\ c.demand.epoch > s.epochs => c.demand.mode = "Idle"
    /\ c.demand.mode = "Disabled" => s.operation = "None"
    /\ c.demand.mode # "Disabled" => c.epoch <= c.demand.epoch

\* In the epoch of the operation to come, nothing is executed.
Asleep(c, s) ==
    c.epoch > s.epochs => ~Executing(c) /\ c.demand.mode \in {"Idle", "Disabled"}

\* No demand will name the epoch e any more.
Gone(e, c, s) ==
    /\ e <= s.epochs
    /\ s.mode # "Disabled" => s.epoch # e
    /\ c.demand.mode # "Disabled" => c.demand.epoch # e

\* A stopped epoch is past, or remembered as stopped, or gone; it has no active item.
StopsStand(c, s, stopped) ==
    /\ stopped \subseteq Nat
    /\ \A e \in stopped :
          e < c.epoch \/ (e = c.epoch /\ (c.stoppedEpoch = e \/ Gone(e, c, s)))
    /\ Active(c) => c.epoch \notin stopped

LatestDemand == IF mailbox = NoDemand THEN core.demand ELSE mailbox

EpochsInv ==
    /\ DemandsFit(session)
    /\ LatestDemand.mode = session.mode /\ LatestDemand.epoch = session.epoch
    /\ EpochsFit(core, session) /\ Asleep(core, session)
    /\ StopsStand(core, session, log.stoppedEpochs)
    /\ session.operation = "None" => \A i \in DOMAIN ingress : ingress[i].type # "StartJog"

\* What a step of the executor may do to the epochs, and the stops Q it reports.
EpochsMove(c, d, Q) ==
    \/ /\ SameEpochs(c, d) /\ Q = {}
       /\ Active(d) => Active(c) \/ DemandAllowsActivation(c)
    \/ /\ d.demand = c.demand /\ d.epoch = c.epoch /\ ~Active(d) /\ Q \subseteq {c.epoch}
       /\ d.stoppedEpoch = c.epoch \/ (c.demand.mode = "Disabled" /\ Executing(c))
    \/ /\ d.demand = c.demand /\ d.epoch = c.demand.epoch /\ ~Active(d) /\ Q = {}
       /\ c.epoch # c.demand.epoch /\ c.demand.mode # "Disabled"

EpochTypes(c, s) ==
    /\ c.epoch \in Nat /\ c.demand.epoch \in Nat
    /\ s.epoch \in Nat /\ s.epochs \in Nat

LEMMA EpochsMoveOn == ASSUME NEW c, NEW d, NEW s, NEW P, NEW Q, EpochTypes(c, s),
                             DemandsFit(s), EpochsFit(c, s), Asleep(c, s),
                             StopsStand(c, s, P), EpochsMove(c, d, Q)
                      PROVE  EpochsFit(d, s) /\ StopsStand(d, s, P \union Q)
<1>1. CASE /\ SameEpochs(c, d) /\ Q = {}
           /\ Active(d) => Active(c) \/ DemandAllowsActivation(c)
  <2>1. EpochsFit(d, s)
    BY <1>1 DEF EpochsFit, SameEpochs
  <2>2. P \union Q = P
    BY <1>1
  <2>3. \A e \in P :
          e < d.epoch \/ (e = d.epoch /\ (d.stoppedEpoch = e \/ Gone(e, d, s)))
    BY <1>1 DEF StopsStand, SameEpochs, Gone
  <2>4. DemandAllowsActivation(c) => c.epoch \notin P
    BY DEF StopsStand, DemandAllowsActivation, Gone, EpochTypes
  <2>5. Active(d) => d.epoch \notin P
    BY <1>1, <2>4 DEF StopsStand, SameEpochs
  <2> QED
    BY <2>1, <2>2, <2>3, <2>5 DEF StopsStand
<1>2. CASE /\ d.demand = c.demand /\ d.epoch = c.epoch /\ ~Active(d) /\ Q \subseteq {c.epoch}
           /\ d.stoppedEpoch = c.epoch \/ (c.demand.mode = "Disabled" /\ Executing(c))
  <2>1. EpochsFit(d, s)
    BY <1>2 DEF EpochsFit
  <2>2. \A e \in P \union Q : e \in Nat /\ (e < c.epoch \/ e = c.epoch)
    BY <1>2 DEF StopsStand, EpochTypes
  <2>3. ASSUME c.demand.mode = "Disabled", Executing(c) PROVE Gone(c.epoch, d, s)
    <3>1. c.epoch <= s.epochs
      BY <2>3 DEF Asleep, EpochTypes
    <3>2. s.mode # "Disabled" => s.epoch = s.epochs + 1
      BY <2>3 DEF EpochsFit, DemandsFit
    <3> QED
      BY <1>2, <2>3, <3>1, <3>2 DEF Gone, EpochTypes
  <2> QED
    BY <1>2, <2>1, <2>2, <2>3 DEF StopsStand
<1>3. CASE /\ d.demand = c.demand /\ d.epoch = c.demand.epoch /\ ~Active(d) /\ Q = {}
           /\ c.epoch # c.demand.epoch /\ c.demand.mode # "Disabled"
  <2>1. EpochsFit(d, s)
    BY <1>3 DEF EpochsFit, EpochTypes
  <2>2. c.epoch < d.epoch
    BY <1>3 DEF EpochsFit, EpochTypes
  <2>3. P \union Q = P
    BY <1>3
  <2>4. \A e \in P : e \in Nat /\ (e < c.epoch \/ e = c.epoch)
    BY DEF StopsStand
  <2>5. \A e \in P : e < d.epoch
    BY <1>3, <2>2, <2>4 DEF EpochTypes
  <2> QED
    BY <1>3, <2>1, <2>3, <2>4, <2>5 DEF StopsStand
<1> QED
  BY <1>1, <1>2, <1>3 DEF EpochsMove

-----------------------------------------------------------------------------
\* The stops that the log keeps are among those that are told, and none if a
\* triggered move has ended.
LEMMA StopsKept == ASSUME NEW s
    PROVE  /\ StoppedIn(Range(s)) \subseteq Stops(s)
           /\ Told(s, "TriggeredMoveCompleted") # {} => StoppedIn(Range(s)) = {}
  BY DEF StoppedIn, Stops, Told, Range

LEMMA EpochsOfQuiet == ASSUME NEW c, NEW d, Quiet(c, d), Untold(c.out)
    PROVE  EpochsMove(c, d, StoppedIn(Range(d.out)))
<1>1. SameEpochs(c, d) /\ Stops(d.out) = {} /\ (Active(d) => Active(c))
  BY DEF Quiet, Stays, Drops, Hushed, Hush, Untold, Tells, SameItems, NoItemsLeft, Active
<1>2. StoppedIn(Range(d.out)) = {}
  BY <1>1, StopsKept
<1> QED
  BY <1>1, <1>2 DEF EpochsMove

LEMMA EpochsOfAdvanced ==
    ASSUME NEW c, NEW d, Advanced(c, d), Untold(c.out), c.active.epoch = c.epoch
    PROVE  EpochsMove(c, d, StoppedIn(Range(d.out)))
<1> DEFINE Q == StoppedIn(Range(d.out))
<1>1. Q \subseteq Stops(d.out) /\ (Told(d.out, "TriggeredMoveCompleted") # {} => Q = {})
  BY StopsKept
<1> HIDE DEF Q
<1>2. CASE Quiet(c, d)
  BY <1>2, EpochsOfQuiet DEF Q
<1>3. CASE Rejected(c, d) \/ Continued(c, d)
  <2>1. SameEpochs(c, d) /\ Stops(d.out) = {} /\ (Active(d) => Active(c))
    BY <1>3 DEF Rejected, Continued, Tells, NoItemsLeft, Active
  <2> QED
    BY <1>1, <2>1 DEF EpochsMove, Q
<1>4. CASE Retired(c, d)
  <2>1. SameEpochs(c, d) /\ ~Active(d)
        /\ (Stops(d.out) = {} \/ Told(d.out, "TriggeredMoveCompleted") # {})
    BY <1>4 DEF Retired, Tells, Active
  <2> QED
    BY <1>1, <2>1 DEF EpochsMove, Q
<1>5. CASE Abandoned(c, d)
  <2>1. /\ d.demand = c.demand /\ d.epoch = c.epoch /\ ~Active(d)
        /\ d.stoppedEpoch = c.epoch /\ Stops(d.out) = {c.epoch}
    BY <1>5 DEF Abandoned, Tells, NoItemsLeft, Active
  <2> QED
    BY <1>1, <2>1 DEF EpochsMove, Q
<1> QED
  BY <1>2, <1>3, <1>4, <1>5 DEF Advanced, Q

LEMMA EpochsOfAccepted == ASSUME NEW c, NEW d, Accepted(c, d), DemandAllowsActivation(c)
    PROVE  EpochsMove(c, d, StoppedIn(Range(d.out)))
<1>1. SameEpochs(c, d) /\ Stops(d.out) = {}
  BY DEF Accepted, Tells
<1> QED
  BY <1>1, StopsKept DEF EpochsMove

LEMMA EpochsOfConvergence == ASSUME NEW c, NEW d, Convergent(c, d), Untold(c.out)
    PROVE  EpochsMove(c, d, StoppedIn(Range(d.out)))
<1> DEFINE Q == StoppedIn(Range(d.out))
<1>1. Q \subseteq Stops(d.out)
  BY StopsKept
<1> HIDE DEF Q
<1>2. CASE Quiet(c, d)
  BY <1>2, EpochsOfQuiet DEF Q
<1>3. CASE Restarted(c, d)
  <2>1. /\ d.demand = c.demand /\ d.epoch = c.demand.epoch /\ ~Active(d)
        /\ Stops(d.out) = {} /\ c.epoch # c.demand.epoch /\ c.demand.mode # "Disabled"
    BY <1>3 DEF Restarted, Hush, Untold, Tells, NoItemsLeft, Active
  <2> QED
    BY <1>1, <2>1 DEF EpochsMove, Q
<1>4. CASE Forgotten(c, d)
  <2>1. /\ d.demand = c.demand /\ d.epoch = c.epoch /\ ~Active(d)
        /\ Stops(d.out) = {c.epoch}
        /\ d.stoppedEpoch = c.epoch \/ (c.demand.mode = "Disabled" /\ Executing(c))
    BY <1>4 DEF Forgotten, Tells, NoItemsLeft, Active
  <2> QED
    BY <1>1, <2>1 DEF EpochsMove, Q
<1> QED
  BY <1>2, <1>3, <1>4 DEF Convergent, Q

\* Nothing wakes an executor that is on with nothing to do, or off.
Dozing(c) == CoreFields \subseteq DOMAIN c /\ ~Executing(c)

LEMMA FaultDozes == \A c, code : CoreFields \subseteq DOMAIN c => Dozing(Fault(c, code))
  BY DEF Dozing, CoreFields, Fault, Emit, Executing

LEMMA DiscardFields == \A c : CoreFields \subseteq DOMAIN c =>
    /\ CoreFields \subseteq DOMAIN DiscardExecution(c)
    /\ DiscardExecution(c).state = c.state /\ DiscardExecution(c).jog = c.jog
  BY DEF CoreFields, DiscardExecution, ResetFeedRetiming, FreshRuntimes

LEMMA JogStoppedFields == \A c, reason : CoreFields \subseteq DOMAIN c =>
    /\ CoreFields \subseteq DOMAIN JogStopped(c, reason)
    /\ JogStopped(c, reason).state = c.state
  BY DEF CoreFields, JogStopped, Emit

LEMMA CompleteJogDozes == ASSUME NEW c, CoreFields \subseteq DOMAIN c
    PROVE  Dozing(CompleteJog(c))
<1> DEFINE told == JogStopped(c, c.jog.reason)
<1>1. CoreFields \subseteq DOMAIN told
  BY JogStoppedFields
<1> HIDE DEF told
<1> QED
  BY <1>1 DEF Dozing, CoreFields, CompleteJog, Executing, told

LEMMA CommitDozes == ASSUME NEW c, NEW o, NEW m, Dozing(c) PROVE Dozing(Commit(c, o, m))
<1> DEFINE faulted == JogFaulted(c)
           stopped == IF Jogging(c) THEN faulted ELSE c
           told == JogStopped(c, "Fault")
<1>1. CoreFields \subseteq DOMAIN told
  BY JogStoppedFields DEF Dozing
<1> HIDE DEF told
<1>2. CoreFields \subseteq DOMAIN faulted
  BY <1>1 DEF JogFaulted, CoreFields, told
<1> HIDE DEF faulted
<1>3. CoreFields \subseteq DOMAIN DiscardExecution(stopped)
  BY <1>2, DiscardFields DEF Dozing
<1> HIDE DEF stopped
<1>4. Dozing(Fault(DiscardExecution(stopped), "SoftLimit"))
  BY <1>3, FaultDozes
<1>5. Dozing([c EXCEPT !.moving = m])
  BY DEF Dozing, CoreFields, Executing
<1> QED
  BY <1>4, <1>5 DEF Commit, FaultSoftLimit, stopped, faulted

LEMMA JogUpdateDozes == \A c, x : Dozing(c) => Dozing([c EXCEPT !.jog = x])
  BY DEF Dozing, CoreFields, Executing

LEMMA EmitDozes == \A c, e : Dozing(c) => Dozing(Emit(c, e))
  BY DEF Dozing, CoreFields, Executing, Emit

LEMMA AbandonJogDozes == ASSUME NEW c, NEW o, NEW r, Dozing(c) PROVE Dozing(AbandonJog(c, o, r))
<1> DEFINE reasoned == [c EXCEPT !.jog.reason = r]
           stopped == Commit(reasoned, o, FALSE)
<1>1. Dozing(reasoned)
  BY DEF Dozing, CoreFields, Executing
<1> HIDE DEF reasoned
<1>2. Dozing(stopped)
  BY <1>1, CommitDozes
<1> HIDE DEF stopped
<1>3. Dozing(CompleteJog(stopped))
  BY <1>2, CompleteJogDozes DEF Dozing
<1> QED
  BY <1>2, <1>3 DEF AbandonJog, stopped, reasoned

LEMMA BeginJogStopDozes == ASSUME NEW c, NEW o, NEW r, Dozing(c)
    PROVE  Dozing(BeginJogStop(c, o, r))
<1> DEFINE stopping == [c EXCEPT !.jog.stopping = TRUE, !.jog.reason = r]
           standing == Commit(stopping, o, FALSE)
           told == JogStopped(stopping, "Fault")
<1>1. Dozing(stopping)
  BY DEF Dozing, CoreFields, Executing
<1> HIDE DEF stopping
<1>2. Dozing(standing)
  BY <1>1, CommitDozes
<1> HIDE DEF standing
<1>3. Dozing(CompleteJog(standing))
  BY <1>2, CompleteJogDozes DEF Dozing
<1>4. CoreFields \subseteq DOMAIN told
  BY <1>1, JogStoppedFields DEF Dozing
<1> HIDE DEF told
<1>5. CoreFields \subseteq DOMAIN JogFaulted(stopping)
  BY <1>4 DEF JogFaulted, CoreFields, told
<1>6. Dozing(FaultJog(stopping))
  BY <1>5, FaultDozes DEF FaultJog
<1> QED
  BY <1>1, <1>2, <1>3, <1>6 DEF BeginJogStop, standing, stopping

LEMMA ControlDozes == ASSUME NEW c, NEW o, NEW request, Dozing(c),
                             request.type \in ControlTypes \ {"StartJog"}
    PROVE  Dozing(ServiceControl(c, o, request))
<1>1. \A d, b : Dozing(d) => Dozing(RequestCompleted(d, request, b))
  BY EmitDozes DEF RequestCompleted
<1>2. Dozing(SetJointPosition(c))
  BY DEF SetJointPosition, Dozing, CoreFields, Executing
<1>3. Dozing(RenewJogLease(c)) /\ Dozing(SetContinuousJogVelocity(c, o))
  BY DEF RenewJogLease, SetContinuousJogVelocity, Dozing, CoreFields, Executing
<1>4. Dozing(BeginJogStop(c, o, "RequestedStop"))
  BY BeginJogStopDozes
<1> QED
  BY <1>1, <1>2, <1>3, <1>4 DEF ServiceControl, ControlTypes

LEMMA PrepareDozes == ASSUME NEW c, NEW o, Dozing(c) PROVE Dozing(Prepare(c, o))
<1> DEFINE abandoned == AbandonJog(c, o, "Aborted")
           discarded == DiscardExecution(abandoned)
           reset == Reset(c, o, c.demand.epoch)
           established == IF c.epoch # c.demand.epoch /\ Stationary(c) THEN reset ELSE c
<1>1. Dozing(abandoned)
  BY AbandonJogDozes
<1> HIDE DEF abandoned
<1>2. CoreFields \subseteq DOMAIN discarded
  BY <1>1, DiscardFields DEF Dozing
<1> HIDE DEF discarded
<1>3. Dozing(reset)
  BY <1>2 DEF Reset, Dozing, CoreFields, Executing, discarded, abandoned
<1> HIDE DEF reset
<1>4. Dozing(established)
  BY <1>3
<1> HIDE DEF established
<1>5. Dozing(Enable(established))
  BY <1>4 DEF Enable, Dozing, CoreFields, Executing
<1> QED
  BY <1>4, <1>5 DEF Prepare, established, reset

LEMMA ConvergeDozes ==
    ASSUME NEW c, NEW o, NEW pending, Dozing(c), c.demand.mode \in {"Idle", "Disabled"}
    PROVE  Dozing(ConvergeDemand(c, o, pending))
<1> DEFINE abandoned == AbandonJog(c, o, "Disabled")
           discarded == DiscardExecution(abandoned)
<1>1. Dozing(abandoned)
  BY AbandonJogDozes
<1> HIDE DEF abandoned
<1>2. CoreFields \subseteq DOMAIN discarded
  BY <1>1, DiscardFields DEF Dozing
<1> HIDE DEF discarded
<1>3. Dozing(Disable(c, o))
  BY <1>2 DEF Disable, Dozing, CoreFields, Executing, discarded, abandoned
<1>4. Dozing(ConvergeDisabled(c, o))
  BY <1>3 DEF ConvergeDisabled, Dozing
<1> QED
  BY <1>4, PrepareDozes DEF ConvergeDemand

-----------------------------------------------------------------------------
\* The log forgets no stopped epoch.
EpochsKept == EpochsInv' /\ log.stoppedEpochs \subseteq log'.stoppedEpochs

\* A step of the executor whose flow is known.
LEMMA StepKeepsEpochs ==
    ASSUME SessionTypes, Ticking, ItemsInv, EpochsInv, NEW c, NEW next,
           Step(next), Whole(next), UNCHANGED session,
           LatestDemand' = LatestDemand,
           \A i \in DOMAIN ingress' : \E j \in DOMAIN ingress : ingress'[i] = ingress[j],
           NEW A, NEW J, NEW R, Heard(next.out, A, J, R), ItemsMove(core, next, A, J, R),
           EpochTypes(c, session), EpochsFit(c, session), Asleep(c, session),
           StopsStand(c, session, log.stoppedEpochs),
           EpochsMove(c, next, StoppedIn(Range(next.out))), Asleep(next, session)
    PROVE  EpochsKept
<1> DEFINE Q == StoppedIn(Range(next.out))
<1>1. A \union J \union R \subseteq Int
  <2>1. /\ core.active \in Items /\ core.plans \in Seq(Items) /\ PlansInOrder(core.plans)
    BY AtStart DEF ItemsInv, LineUp
  <2> QED
    BY <2>1, MovedIds
<1>2. ItemIdsAreInts(next.out) /\ IsSequence(next.out)
  BY <1>1 DEF ItemIdsAreInts, Heard, ItemLists, Kept
<1>3. log'.stoppedEpochs = log.stoppedEpochs \union Q
  BY <1>2, LogKeeps DEF Step, ItemsInv
<1> HIDE DEF Q
<1>4. EpochsFit(next, session) /\ StopsStand(next, session, log.stoppedEpochs \union Q)
  BY EpochsMoveOn DEF EpochsInv, Q
<1>5. /\ core'.epoch = next.epoch /\ core'.stoppedEpoch = next.stoppedEpoch
      /\ core'.demand = next.demand /\ core'.active = next.active /\ core'.state = next.state
  BY DEF Step, Whole, CoreFields
<1>6. /\ EpochsFit(core', session) /\ Asleep(core', session)
      /\ StopsStand(core', session, log'.stoppedEpochs)
  BY <1>3, <1>4, <1>5 DEF EpochsFit, Asleep, Executing, StopsStand, Gone, Active
<1> QED
  BY <1>3, <1>6 DEF EpochsKept, EpochsInv

LEMMA AwakeStays == ASSUME NEW c, NEW d, NEW s, EpochTypes(c, s), c.epoch <= s.epochs,
                           d.epoch = c.epoch
                    PROVE  Asleep(d, s)
  BY DEF Asleep, EpochTypes

LEMMA AtStartEpochs == ASSUME SessionTypes, Ticking, ItemsInv, EpochsInv
    PROVE  /\ EpochTypes(core, session) /\ EpochsFit(core, session)
           /\ Asleep(core, session) /\ StopsStand(core, session, log.stoppedEpochs)
           /\ Active(core) => core.active.epoch = core.epoch
           /\ Executing(core) => core.epoch <= session.epochs
<1>1. EpochTypes(core, session)
  BY SMTT(30), SessionAssumption
     DEF EpochTypes, Ticking, Sound, Typed, SessionTypes, Counting, Epochs, Demands
<1> QED
  BY <1>1 DEF EpochsInv, ItemsInv, History, Active, NoItem, Asleep, EpochTypes

LEMMA ConvergenceSleeps == ASSUME NEW c, NEW o, NEW pending, NEW s, Whole(c),
        EpochTypes(c, s), EpochsFit(c, s), Asleep(c, s),
        Convergent(c, ConvergeDemand(c, o, pending)), Untold(c.out)
    PROVE  Asleep(ConvergeDemand(c, o, pending), s)
<1> DEFINE d == ConvergeDemand(c, o, pending)
<1>1. CASE c.epoch > s.epochs
  <2>1. Dozing(d) /\ c.demand.mode \in {"Idle", "Disabled"}
    BY <1>1, ConvergeDozes DEF Asleep, Dozing, Whole
  <2>2. d.demand = c.demand
    BY DEF Convergent, Quiet, Stays, Drops, Hushed, SameEpochs, Restarted, Forgotten
  <2> QED
    BY <2>1, <2>2 DEF Asleep, Dozing
<1>2. CASE Restarted(c, d)
  <2>1. d.epoch = c.demand.epoch /\ d.demand = c.demand /\ c.state \in {"Disabled", "Held"}
    BY <1>2 DEF Restarted
  <2>2. ASSUME d.epoch > s.epochs PROVE ~Executing(d) /\ d.demand.mode \in {"Idle", "Disabled"}
    <3>1. c.demand.mode = "Idle"
      BY <2>1, <2>2 DEF EpochsFit
    <3>2. Dozing(c)
      BY <2>1 DEF Dozing, Whole, Executing
    <3>3. Dozing(d)
      BY <3>1, <3>2, ConvergeDozes
    <3> QED
      BY <2>1, <3>1, <3>3 DEF Dozing
  <2> QED
    BY <2>2 DEF Asleep
<1>3. CASE ~(c.epoch > s.epochs) /\ (Quiet(c, d) \/ Forgotten(c, d))
  <2>1. d.epoch = c.epoch
    BY <1>3 DEF Quiet, Stays, Drops, Hushed, SameEpochs, Forgotten
  <2> QED
    BY <1>3, <2>1 DEF Asleep
<1> QED
  BY <1>1, <1>2, <1>3 DEF Convergent

\* The newest demand is consumed.
LEMMA DemandConsumed == ASSUME SessionTypes, Ticking, ItemsInv, EpochsInv
    PROVE  LET c == IF mailbox = NoDemand THEN core ELSE ServiceDemand(core, mailbox)
           IN  /\ Whole(c) /\ Untold(c.out) /\ SameItems(core, c) /\ c.demand = LatestDemand
               /\ c.epoch = core.epoch /\ c.demand.mode \in Modes
               /\ EpochTypes(c, session) /\ EpochsFit(c, session)
               /\ Asleep(c, session) /\ StopsStand(c, session, log.stoppedEpochs)
<1> DEFINE c == IF mailbox = NoDemand THEN core ELSE ServiceDemand(core, mailbox)
<1>1. /\ Whole(core) /\ Untold(core.out) /\ core.demand.mode \in Modes
  BY AtStart
<1>2. /\ EpochTypes(core, session) /\ EpochsFit(core, session)
      /\ Asleep(core, session) /\ StopsStand(core, session, log.stoppedEpochs)
      /\ DemandsFit(session)
      /\ LatestDemand.mode = session.mode /\ LatestDemand.epoch = session.epoch
  BY AtStartEpochs DEF EpochsInv
<1>3. CASE mailbox = NoDemand
  BY <1>1, <1>2, <1>3 DEF SameItems, LatestDemand
<1>4. CASE mailbox # NoDemand
  <2>1. /\ mailbox.epoch \in Nat /\ mailbox.mode \in Modes
        /\ mailbox.mode = session.mode /\ mailbox.epoch = session.epoch
    BY <1>2, <1>4, SessionAssumption DEF SessionTypes, Demands, Epochs, LatestDemand
  <2>2. /\ c.demand = mailbox /\ c.epoch = core.epoch /\ c.stoppedEpoch = core.stoppedEpoch
        /\ c.state = core.state /\ SameItems(core, c) /\ c.out = core.out /\ Whole(c)
    BY <1>1, <1>4 DEF ServiceDemand, Whole, CoreFields, SameItems
  <2> HIDE DEF c
  <2>3. EpochTypes(c, session)
    BY <1>2, <2>1, <2>2 DEF EpochTypes
  <2>4. EpochsFit(c, session)
    <3>1. session.epoch <= Announced(session) \/ session.mode = "Disabled"
      BY <1>2 DEF EpochTypes, DemandsFit, Announced
    <3>2. core.epoch <= Announced(session)
      BY <1>2 DEF EpochsFit
    <3> QED
      BY <1>2, <2>1, <2>2, <3>1 DEF EpochsFit, EpochTypes, DemandsFit, Announced
  <2>5. Asleep(c, session)
    <3> SUFFICES ASSUME c.epoch > session.epochs
                 PROVE  ~Executing(c) /\ c.demand.mode \in {"Idle", "Disabled"}
      BY DEF Asleep
    <3>1. session.operation = "None"
      BY <1>2, <2>2 DEF EpochsFit, Announced, EpochTypes
    <3> QED
      BY <1>2, <2>1, <2>2, <3>1 DEF Asleep, DemandsFit, Executing
  <2>6. StopsStand(c, session, log.stoppedEpochs)
    BY <1>2, <2>1, <2>2 DEF StopsStand, Gone, Active, SameItems
  <2> QED
    BY <1>1, <1>4, <2>1, <2>2, <2>3, <2>4, <2>5, <2>6 DEF LatestDemand, c
<1> QED
  BY <1>3, <1>4

\* The ingress queue holds no start of a jog but those it held.
LEMMA TailOf == ASSUME NEW S, NEW q \in Seq(S), q # <<>>
                PROVE  \A i \in DOMAIN Tail(q) : \E j \in DOMAIN q : Tail(q)[i] = q[j]
<1>1. \A i \in DOMAIN Tail(q) : i + 1 \in DOMAIN q /\ Tail(q)[i] = q[i + 1]
  OBVIOUS
<1> QED
  BY <1>1

LEMMA ServoKeepsEpochs ==
  ASSUME SessionTypes, Ticking, ItemsInv, EpochsInv, ServoThread PROVE EpochsKept
<1>0. /\ Whole(core) /\ Untold(core.out)
      /\ core.active \in Items /\ core.plans \in Seq(Items)
      /\ core.active.kind \in ItemKinds /\ core.demand.mode \in Modes
      /\ core.triggered \in TriggeredModes
  BY AtStart
<1>00. /\ EpochTypes(core, session) /\ EpochsFit(core, session)
       /\ Asleep(core, session) /\ StopsStand(core, session, log.stoppedEpochs)
       /\ Active(core) => core.active.epoch = core.epoch
       /\ Executing(core) => core.epoch <= session.epochs
  BY AtStartEpochs
<1>000. ASSUME NEW next, Step(next), Whole(next)
        PROVE  core'.demand = next.demand
  BY <1>000 DEF Step, Whole, CoreFields
<1>1. CASE TickBegins
  <2> DEFINE demanded == IF mailbox = NoDemand THEN core ELSE ServiceDemand(core, mailbox)
  <2>1. PICK o \in ControlOutcomes : Step(ConvergeDemand(demanded, o, Pending))
    BY <1>1 DEF TickBegins
  <2>2. /\ Whole(demanded) /\ Untold(demanded.out) /\ SameItems(core, demanded)
        /\ demanded.demand = LatestDemand
        /\ demanded.epoch = core.epoch /\ demanded.demand.mode \in Modes
        /\ EpochTypes(demanded, session) /\ EpochsFit(demanded, session)
        /\ Asleep(demanded, session) /\ StopsStand(demanded, session, log.stoppedEpochs)
    BY DemandConsumed
  <2> HIDE DEF demanded
  <2> DEFINE next == ConvergeDemand(demanded, o, Pending)
  <2>3. Convergent(demanded, next)
    BY <1>0, <2>2, ConvergeServes DEF SameItems
  <2>4. Asleep(next, session)
    BY <2>2, <2>3, ConvergenceSleeps
  <2>5. Whole(next) /\ next.demand = demanded.demand
    BY <2>3, QuietWhole
       DEF Convergent, Restarted, Forgotten, Quiet, Stays, Drops, Hushed, SameEpochs
  <2>6. Step(next) /\ mailbox' = NoDemand /\ UNCHANGED <<ingress, session>>
    BY <1>1, <2>1 DEF TickBegins, demanded
  <2> HIDE DEF next
  <2>7. Heard(next.out, {}, {}, {}) /\ ItemsMove(demanded, next, {}, {}, {})
    BY <2>2, <2>3, MoveOfConvergence
  <2>8. ItemsMove(core, next, {}, {}, {})
    BY <2>2, <2>7 DEF ItemsMove, Idles, SameItems, NoItemsLeft
  <2>9. EpochsMove(demanded, next, StoppedIn(Range(next.out)))
    BY <2>2, <2>3, EpochsOfConvergence
  <2>10. LatestDemand' = LatestDemand
    BY <1>000, <2>2, <2>5, <2>6 DEF LatestDemand
  <2> QED
    BY <2>2, <2>4, <2>5, <2>6, <2>7, <2>8, <2>9, <2>10, StepKeepsEpochs
<1>2. CASE IngressEnds
  <2>1. PICK o \in ControlOutcomes : Step(ConvergeDemand(core, o, Pending))
    BY <1>2 DEF IngressEnds
  <2> DEFINE next == ConvergeDemand(core, o, Pending)
  <2>2. Convergent(core, next)
    BY <1>0, ConvergeServes
  <2>3. Asleep(next, session)
    BY <1>0, <1>00, <2>2, ConvergenceSleeps
  <2>4. Whole(next) /\ next.demand = core.demand
    BY <2>2, QuietWhole
       DEF Convergent, Restarted, Forgotten, Quiet, Stays, Drops, Hushed, SameEpochs
  <2>5. Step(next) /\ UNCHANGED <<mailbox, ingress, session>>
    BY <1>2, <2>1 DEF IngressEnds
  <2> HIDE DEF next
  <2>6. Heard(next.out, {}, {}, {}) /\ ItemsMove(core, next, {}, {}, {})
    BY <1>0, <2>2, MoveOfConvergence
  <2>7. EpochsMove(core, next, StoppedIn(Range(next.out)))
    BY <1>0, <2>2, EpochsOfConvergence
  <2>8. LatestDemand' = LatestDemand
    BY <1>000, <2>4, <2>5 DEF LatestDemand
  <2> QED
    BY <1>00, <2>3, <2>4, <2>5, <2>6, <2>7, <2>8, StepKeepsEpochs
<1>3. CASE IngressControl
  <2>1. PICK o \in ControlOutcomes : Step(ServiceControl(core, o, Head(ingress)))
    BY <1>3 DEF IngressControl
  <2>2. /\ Head(ingress).type \in ControlTypes /\ ingress # <<>> /\ ingress' = Tail(ingress)
        /\ UNCHANGED <<mailbox, session>>
    BY <1>3, HeadControl DEF IngressControl
  <2>3. PICK d, succeeded :
            /\ Quiet(core, d)
            /\ ServiceControl(core, o, Head(ingress))
               = RequestCompleted(d, Head(ingress), succeeded)
    BY ZenonT(60), <1>0, <2>2, ServiceControlFlows
  <2> DEFINE next == RequestCompleted(d, Head(ingress), succeeded)
             answer == Event("RequestCompleted", Head(ingress).id, succeeded)
  <2>4. Heard(next.out, {}, {}, {}) /\ ItemsMove(core, next, {}, {}, {}) /\ Whole(next)
    BY <1>0, <2>3, MoveOfControl
  <2>5. Step(next)
    BY <2>1, <2>3
  <2>6. ingress \in Seq(PlanRecords \union Controls)
    BY DEF SessionTypes
  <2>7. \A i \in DOMAIN ingress' : \E j \in DOMAIN ingress : ingress'[i] = ingress[j]
    BY <2>2, <2>6, TailOf
  <2>8. answer.type = "RequestCompleted"
    BY DEF Event
  <2> HIDE DEF answer
  <2>9. /\ SameEpochs(core, next) /\ (Active(next) => Active(core))
        /\ next.out = Append(d.out, answer) /\ IsSequence(d.out) /\ Stops(d.out) = {}
    <3>1. Whole(d) /\ SameEpochs(core, d) /\ Stops(d.out) = {} /\ (Active(d) => Active(core))
      BY <1>0, <2>3
         DEF Quiet, Stays, Drops, Hushed, Hush, Untold, Tells, SameItems, NoItemsLeft, Active
    <3>2. /\ SameEpochs(d, Emit(d, answer)) /\ SameItems(d, Emit(d, answer))
          /\ Emit(d, answer).out = Append(d.out, answer)
      BY <3>1, EmitOut
    <3>3. next = Emit(d, answer)
      BY DEF RequestCompleted, answer
    <3> HIDE DEF next
    <3> QED
      BY <3>1, <3>2, <3>3 DEF SameEpochs, SameItems, Active, Whole
  <2>10. Asleep(next, session)
    <3>1. CASE core.epoch <= session.epochs
      BY <1>00, <2>9, <3>1, AwakeStays DEF SameEpochs
    <3>2. CASE core.epoch > session.epochs
      <4>1. session.operation = "None"
        BY <1>00, <3>2 DEF EpochsFit, Announced, EpochTypes
      <4>2. Head(ingress).type # "StartJog"
        <5>1. 1 \in DOMAIN ingress /\ Head(ingress) = ingress[1]
          BY <2>2, <2>6
        <5> QED
          BY <4>1, <5>1 DEF EpochsInv
      <4>3. Dozing(core) /\ core.demand.mode \in {"Idle", "Disabled"}
        BY <1>0, <1>00, <3>2 DEF Asleep, Dozing, Whole
      <4>4. Dozing(next)
        BY <2>2, <2>3, <4>2, <4>3, ControlDozes
      <4> QED
        BY <2>9, <4>3, <4>4 DEF Asleep, Dozing, SameEpochs
    <3> QED
      BY <1>00, <3>1, <3>2 DEF EpochTypes
  <2> HIDE DEF next
  <2>11. Stops(next.out) = {}
    BY <2>8, <2>9, ToldAppend
  <2>12. EpochsMove(core, next, StoppedIn(Range(next.out)))
    BY <2>9, <2>11, StopsKept DEF EpochsMove
  <2>13. LatestDemand' = LatestDemand
    BY <1>000, <2>2, <2>4, <2>5, <2>9 DEF LatestDemand, SameEpochs
  <2> QED
    BY <1>00, <2>2, <2>4, <2>5, <2>7, <2>10, <2>12, <2>13, StepKeepsEpochs
<1>4. ASSUME NEW next, Step(next), Whole(next), phase \in {"execute", "advance"},
             UNCHANGED <<mailbox, ingress, session>>,
             NEW A, NEW J, NEW R, Heard(next.out, A, J, R), ItemsMove(core, next, A, J, R),
             EpochsMove(core, next, StoppedIn(Range(next.out))),
             next.epoch = core.epoch, next.demand = core.demand
      PROVE  EpochsKept
  <2>1. core.epoch <= session.epochs
    BY <1>00, <1>4 DEF Ticking
  <2>2. Asleep(next, session)
    BY <1>00, <1>4, <2>1, AwakeStays
  <2>3. LatestDemand' = LatestDemand
    BY <1>000, <1>4 DEF LatestDemand
  <2> QED
    BY <1>00, <1>4, <2>2, <2>3, StepKeepsEpochs
<1>5. CASE ExecuteJog
  <2>1. PICK o \in JogOutcomes : Step(AdvanceJog(core, o))
    BY <1>5 DEF ExecuteJog, ExecuteJogStep
  <2> DEFINE next == AdvanceJog(core, o)
  <2>2. Quiet(core, next)
    BY <1>0, AdvanceJogQuiet
  <2> HIDE DEF next
  <2>3. Heard(next.out, {}, {}, {}) /\ ItemsMove(core, next, {}, {}, {}) /\ Whole(next)
    BY <1>0, <2>2, MoveOfQuiet, QuietWhole
  <2>4. Step(next) /\ UNCHANGED <<mailbox, ingress, session>> /\ phase = "execute"
    BY <1>5, <2>1 DEF ExecuteJog, ExecuteJogStep, next
  <2>5. EpochsMove(core, next, StoppedIn(Range(next.out)))
    BY <1>0, <2>2, EpochsOfQuiet
  <2>6. next.epoch = core.epoch /\ next.demand = core.demand
    BY <2>2 DEF Quiet, Stays, Drops, Hushed, SameEpochs
  <2> QED
    BY <1>4, <2>3, <2>4, <2>5, <2>6
<1>6. CASE ExecuteItem
  <2>1. UNCHANGED <<mailbox, ingress, session>> /\ phase = "execute"
    BY <1>6 DEF ExecuteItem
  <2>2. CASE UNCHANGED <<core, log>>
    BY <2>1, <2>2 DEF EpochsKept, EpochsInv, LatestDemand
  <2>3. ASSUME NEW o \in ActivationOutcomes, Step(ActivateNext(core, o)), ~Active(core),
               DemandAllowsActivation(core)
        PROVE  EpochsKept
    <3> DEFINE next == ActivateNext(core, o)
    <3>1. Quiet(core, next) \/ Rejected(core, next) \/ Accepted(core, next)
      BY <1>0, <2>3, ActivateNextFlows
    <3> HIDE DEF next
    <3>2. Whole(next) /\ \E A, J, R : Heard(next.out, A, J, R) /\ ItemsMove(core, next, A, J, R)
      BY <1>0, <3>1, MoveOfAdvanced, MoveOfAccepted, QuietWhole
         DEF Advanced, Rejected, Accepted
    <3>3. Step(next)
      BY <2>3 DEF next
    <3>4. EpochsMove(core, next, StoppedIn(Range(next.out)))
      <4>1. CASE Accepted(core, next)
        BY <2>3, <4>1, EpochsOfAccepted
      <4>2. CASE Quiet(core, next)
        BY <1>0, <4>2, EpochsOfQuiet
      <4>3. CASE Rejected(core, next)
        <5>1. SameEpochs(core, next) /\ Stops(next.out) = {} /\ (Active(next) => Active(core))
          BY <4>3 DEF Rejected, Tells, NoItemsLeft, Active
        <5> QED
          BY <5>1, StopsKept DEF EpochsMove
      <4> QED
        BY <3>1, <4>1, <4>2, <4>3
    <3>5. next.epoch = core.epoch /\ next.demand = core.demand
      BY <3>1 DEF Quiet, Stays, Drops, Hushed, SameEpochs, Rejected, Accepted
    <3> QED
      BY <1>4, <2>1, <3>2, <3>3, <3>4, <3>5
  <2> QED
    BY <1>6, <2>2, <2>3 DEF ExecuteItem
<1>7. CASE Advance
  <2>1. PICK o \in AdvanceOutcomes : AdvanceStep(o)
    BY <1>7 DEF Advance
  <2> DEFINE next == AdvanceActive(core, o)
  <2>2. Ready(core)
    BY <1>0, <1>7 DEF Ready, Advance, Ticking
  <2>3. InLine(core)
    BY <2>2, ItemsInLine DEF Ready
  <2>4. Advanced(core, next)
    BY <1>0, <2>2, <2>3, AdvanceActiveFlows
  <2> HIDE DEF next
  <2>5. Whole(next) /\ \E A, J, R : Heard(next.out, A, J, R) /\ ItemsMove(core, next, A, J, R)
    BY <1>0, <2>4, MoveOfAdvanced, QuietWhole
       DEF Advanced, Rejected, Continued, Retired, Abandoned
  <2>6. Step(next) /\ UNCHANGED <<mailbox, ingress, session>> /\ phase = "advance"
    BY <1>7, <2>1 DEF Advance, AdvanceStep, next
  <2>7. EpochsMove(core, next, StoppedIn(Range(next.out)))
    BY <1>0, <1>00, <2>2, <2>4, EpochsOfAdvanced DEF Ready
  <2>8. next.epoch = core.epoch /\ next.demand = core.demand
    BY <2>4 DEF Advanced, Quiet, Stays, Drops, Hushed, SameEpochs, Rejected, Continued,
                Retired, Abandoned
  <2> QED
    BY <1>4, <2>5, <2>6, <2>7, <2>8
<1>8. CASE NotReady
  BY <1>8 DEF NotReady, EpochsKept, EpochsInv, LatestDemand
<1>9. CASE IngressPlan
  <2>1. /\ core'.epoch = core.epoch /\ core'.stoppedEpoch = core.stoppedEpoch
        /\ core'.demand = core.demand /\ core'.active = core.active /\ core'.state = core.state
        /\ ingress # <<>> /\ ingress' = Tail(ingress) /\ UNCHANGED <<mailbox, session, log>>
    BY <1>0, <1>9 DEF IngressPlan, Whole, CoreFields
  <2>2. \A i \in DOMAIN ingress' : \E j \in DOMAIN ingress : ingress'[i] = ingress[j]
    BY <2>1, TailOf DEF SessionTypes
  <2> QED
    BY <2>1, <2>2 DEF EpochsKept, EpochsInv, LatestDemand, EpochsFit, Asleep, StopsStand,
                      Gone, Active, Executing
<1> QED
  BY <1>1, <1>2, <1>3, <1>5, <1>6, <1>7, <1>8, <1>9 DEF ServoThread

LEMMA LatchDozes == ASSUME NEW c, NEW o, Whole(c) PROVE Dozing(LatchEmergencyStop(c, o))
<1> DEFINE abandoned == AbandonJog(DiscardExecution(c), o, "Aborted")
           standing == [abandoned EXCEPT !.moving = FALSE]
<1>1. Drops(c, abandoned)
  BY DiscardDrops, AbandonJogQuiet, DropsTrans, QuietWhole
<1> HIDE DEF abandoned
<1>2. CoreFields \subseteq DOMAIN standing
  BY <1>1 DEF Drops, Hushed, Whole
<1> HIDE DEF standing
<1> QED
  BY <1>2, FaultDozes DEF LatchEmergencyStop, standing, abandoned

LEMMA HostKeepsEpochs ==
  ASSUME SessionTypes, Ticking, ItemsInv, EpochsInv, Host PROVE EpochsKept
<1>0. Whole(core) /\ Untold(core.out)
  BY AtStart
<1>1. /\ EpochTypes(core, session) /\ EpochsFit(core, session)
      /\ Asleep(core, session) /\ StopsStand(core, session, log.stoppedEpochs)
      /\ DemandsFit(session)
  BY AtStartEpochs DEF EpochsInv
<1>2. ASSUME NEW next, Step(next), Stays(core, next), Asleep(next, session),
             UNCHANGED <<mailbox, ingress, session>>
      PROVE  EpochsKept
  <2>1. Quiet(core, next)
    BY <1>2 DEF Quiet
  <2>2. Heard(next.out, {}, {}, {}) /\ ItemsMove(core, next, {}, {}, {}) /\ Whole(next)
    BY <1>0, <2>1, MoveOfQuiet, QuietWhole
  <2>3. EpochsMove(core, next, StoppedIn(Range(next.out)))
    BY <1>0, <2>1, EpochsOfQuiet
  <2>4. LatestDemand' = LatestDemand
    BY <1>2, <2>2 DEF LatestDemand, Step, Whole, CoreFields, Stays, Hushed, SameEpochs
  <2> QED
    BY <1>1, <1>2, <2>2, <2>3, <2>4, StepKeepsEpochs
<1>3. CASE EmergencyStopResets
  <2> DEFINE next == ResetEmergencyStop(core)
  <2>1. Stays(core, next)
    BY <1>0, EnableStays
  <2>2. ~Executing(next) \/ next = core
    BY <1>0 DEF ResetEmergencyStop, Executing, Whole, CoreFields
  <2> HIDE DEF next
  <2>3. Asleep(next, session)
    BY <1>1, <2>1, <2>2 DEF Asleep, Stays, Hushed, SameEpochs
  <2>4. Step(next) /\ UNCHANGED <<mailbox, ingress, session>>
    BY <1>3 DEF EmergencyStopResets, next
  <2> QED
    BY <1>2, <2>1, <2>3, <2>4
<1>4. CASE IoFaults \/ DeadlineMissed
  <2>1. PICK code : Step(Fault(core, code))
    BY <1>4, HostFault
  <2> DEFINE next == Fault(core, code)
  <2>2. Stays(core, next) /\ ~Executing(next)
    BY <1>0, FaultStays, FaultDozes DEF Dozing, Whole
  <2> HIDE DEF next
  <2>3. Asleep(next, session)
    BY <1>1, <2>2 DEF Asleep, Stays, Hushed, SameEpochs
  <2>4. Step(next) /\ UNCHANGED <<mailbox, ingress, session>>
    BY <1>4, <2>1 DEF IoFaults, DeadlineMissed, next
  <2> QED
    BY <1>2, <2>2, <2>3, <2>4
<1>5. CASE EmergencyStopLatches
  <2> DEFINE next == LatchEmergencyStop(core, [trouble |-> "None"])
             l == LogAfter(next.out)
  <2>1. /\ core' = [next EXCEPT !.out = <<>>]
        /\ \E D : log' = [l EXCEPT !.doomed = D]
        /\ ingress' = <<>> /\ UNCHANGED <<mailbox, session>>
    BY <1>5 DEF EmergencyStopLatches
  <2>2. Drops(core, next)
    BY <1>0, LatchDrops
  <2>3. ~Executing(next)
    BY <1>0, LatchDozes DEF Dozing
  <2> HIDE DEF next
  <2>4. /\ Heard(next.out, {}, {}, {}) /\ Whole(next)
        /\ NoItemsLeft(next) /\ SameEpochs(core, next)
    BY <1>0, <2>2, MoveOfQuiet, QuietWhole DEF Drops, Hushed, Quiet
  <2>5. StoppedIn(Range(next.out)) = {}
    BY <1>0, <2>2, StopsKept DEF Drops, Hushed, Hush, Untold, Tells
  <2>6. ItemIdsAreInts(next.out) /\ IsSequence(next.out)
    BY <2>4 DEF ItemIdsAreInts, Heard, ItemLists, Kept
  <2>7. LogTyped(l) /\ l.stoppedEpochs = log.stoppedEpochs
    BY ZenonT(60), <2>5, <2>6, LogKeeps DEF ItemsInv
  <2> HIDE DEF l
  <2>8. log'.stoppedEpochs = log.stoppedEpochs
    BY <2>1, <2>7 DEF LogTyped, LogFields
  <2>9. /\ core'.active = NoItem /\ core'.epoch = core.epoch /\ core'.demand = core.demand
        /\ core'.stoppedEpoch = core.stoppedEpoch /\ ~Executing(core')
    BY <2>1, <2>3, <2>4 DEF Whole, CoreFields, NoItemsLeft, SameEpochs, Executing
  <2>10. EpochsFit(core', session) /\ Asleep(core', session)
         /\ StopsStand(core', session, log'.stoppedEpochs)
    BY <1>1, <2>8, <2>9 DEF EpochsFit, Asleep, StopsStand, Gone, Active
  <2> QED
    BY <2>1, <2>8, <2>9, <2>10 DEF EpochsKept, EpochsInv, LatestDemand
<1> QED
  BY <1>3, <1>4, <1>5 DEF Host

LEMMA SessionKeepsEpochs ==
  ASSUME SessionTypes, Ticking, ItemsInv, EpochsInv, Session PROVE EpochsKept
<1>0. UNCHANGED <<core, log>>
  BY DEF Session, ReserveItem, EnqueueItem, SubmitControl, ContinueOperation,
         BeginOperation, SwitchPower, PublishDemand
<1>1. /\ EpochTypes(core, session) /\ EpochsFit(core, session)
      /\ Asleep(core, session) /\ StopsStand(core, session, log.stoppedEpochs)
      /\ DemandsFit(session)
      /\ LatestDemand.mode = session.mode /\ LatestDemand.epoch = session.epoch
      /\ session.operation = "None" => \A i \in DOMAIN ingress : ingress[i].type # "StartJog"
  BY AtStartEpochs DEF EpochsInv
<1>2. ingress \in Seq(Records)
  BY DEF SessionTypes, Records
\* A step that publishes nothing leaves the operation and its epoch alone.
<1>3. ASSUME UNCHANGED mailbox,
             CounterFields \union {"operation", "mode"} \subseteq DOMAIN session',
             session'.operation = session.operation, session'.mode = session.mode,
             session'.epoch = session.epoch, session'.epochs = session.epochs,
             session.operation = "None" =>
                \A i \in DOMAIN ingress' : ingress'[i].type # "StartJog"
      PROVE  EpochsKept
  <2>1. EpochsFit(core, session') /\ Asleep(core, session') /\ DemandsFit(session')
    BY <1>1, <1>3 DEF EpochsFit, Asleep, DemandsFit, Announced
  <2>2. StopsStand(core, session', log.stoppedEpochs)
    BY <1>1, <1>3 DEF StopsStand, Gone
  <2> QED
    BY <1>0, <1>1, <1>3, <2>1, <2>2 DEF EpochsKept, EpochsInv, LatestDemand
<1>4. CASE ReserveItem
  <2>1. session' = [session EXCEPT !.item = @ + 1, !.itemEpoch = session.epoch]
        /\ UNCHANGED <<mailbox, ingress>>
    BY <1>4 DEF ReserveItem
  <2>2. /\ CounterFields \union {"operation", "mode"} \subseteq DOMAIN session'
        /\ session'.operation = session.operation /\ session'.mode = session.mode
        /\ session'.epoch = session.epoch /\ session'.epochs = session.epochs
    BY <1>1, <2>1 DEF DemandsFit, CounterFields
  <2> QED
    BY <1>1, <1>3, <2>1, <2>2
<1>5. CASE EnqueueItem
  <2>1. ingress' = Append(ingress, [type |-> "Plan", item |-> reserved])
        /\ UNCHANGED <<mailbox, session>>
    BY <1>5 DEF EnqueueItem
  <2>2. ASSUME session.operation = "None", NEW i \in DOMAIN ingress'
        PROVE  ingress'[i].type # "StartJog"
    <3>1. \/ i \in DOMAIN ingress /\ ingress'[i] = ingress[i]
          \/ ingress'[i] = [type |-> "Plan", item |-> reserved]
      BY <1>2, <2>1, <2>2
    <3> QED
      BY <1>1, <2>2, <3>1
  <2> QED
    BY <1>1, <1>3, <2>1, <2>2 DEF DemandsFit
<1>6. CASE SubmitControl
  <2>1. PICK request \in Requests :
          /\ ingress' = Append(ingress, request)
          /\ session' = [session EXCEPT
                !.request = request.id,
                !.setup = IF request.type = "SetJointPosition"
                          THEN request.id ELSE @,
                !.jogged = @ \/ request.type = "StartJog"]
    BY <1>6 DEF SubmitControl
  <2>2. session.operation # "None" /\ UNCHANGED mailbox
    BY <1>6, <2>1 DEF Requests, SubmitControl
  <2>3. /\ CounterFields \union {"operation", "mode"} \subseteq DOMAIN session'
        /\ session'.operation = session.operation /\ session'.mode = session.mode
        /\ session'.epoch = session.epoch /\ session'.epochs = session.epochs
    BY <1>1, <2>1 DEF DemandsFit, CounterFields
  <2> QED
    BY <1>3, <2>2, <2>3
<1>7. CASE ContinueOperation
  <2>1. PICK mode \in {"Run", "FeedHold", "Stop"} :
          /\ PublishDemand(mode, session.epoch)
          /\ session' = [session EXCEPT !.generation = @ + 1, !.mode = mode]
          /\ session.operation # "None"
    BY <1>7 DEF ContinueOperation, Successors
  <2>2. /\ CounterFields \union {"operation", "mode"} \subseteq DOMAIN session'
        /\ session'.operation = session.operation /\ session'.mode = mode
        /\ session'.epoch = session.epoch /\ session'.epochs = session.epochs
    BY <1>1, <2>1 DEF DemandsFit, CounterFields
  <2>3. /\ mailbox' # NoDemand /\ mailbox'.mode = mode /\ mailbox'.epoch = session.epoch
        /\ UNCHANGED ingress
    BY <2>1, SessionAssumption DEF PublishDemand, NoDemand, SessionTypes, Counting
  <2>4. EpochsFit(core, session') /\ Asleep(core, session') /\ DemandsFit(session')
    BY <1>1, <2>1, <2>2 DEF EpochsFit, Asleep, DemandsFit, Announced
  <2>5. StopsStand(core, session', log.stoppedEpochs)
    BY <1>1, <2>1, <2>2 DEF StopsStand, Gone, DemandsFit
  <2> QED
    BY <1>0, <2>1, <2>2, <2>3, <2>4, <2>5 DEF EpochsKept, EpochsInv, LatestDemand
<1>8. CASE BeginOperation
  <2>1. PICK operation \in Operations :
          /\ PublishDemand(FirstMode(operation), session.epochs + 1)
          /\ session' = [session EXCEPT
                !.generation = @ + 1, !.mode = FirstMode(operation),
                !.operation = operation,
                !.epoch = session.epochs + 1, !.epochs = @ + 1,
                !.setup = 0, !.jogged = FALSE]
    BY <1>8 DEF BeginOperation
  <2>2. operation # "None" /\ FirstMode(operation) # "Disabled"
    BY SessionAssumption DEF FirstMode
  <2>3. core.demand.mode # "Disabled"
    BY <1>1, <1>8 DEF BeginOperation, OperationOver, LatestDemand
  <2> DEFINE mode == FirstMode(operation)
  <2> HIDE DEF mode
  <2>4. /\ CounterFields \union {"operation", "mode"} \subseteq DOMAIN session'
        /\ session'.operation = operation /\ session'.mode = mode
        /\ session'.epoch = session.epochs + 1 /\ session'.epochs = session.epochs + 1
    BY <1>1, <2>1 DEF DemandsFit, CounterFields, mode
  <2>5. /\ mailbox' # NoDemand /\ mailbox'.mode = mode /\ mailbox'.epoch = session.epochs + 1
        /\ UNCHANGED ingress
    BY <2>1, SessionAssumption DEF PublishDemand, NoDemand, SessionTypes, Counting, mode
  <2>6. EpochsFit(core, session') /\ Asleep(core, session') /\ DemandsFit(session')
    BY <1>1, <2>2, <2>3, <2>4 DEF EpochsFit, Asleep, DemandsFit, Announced, EpochTypes, mode
  <2>7. StopsStand(core, session', log.stoppedEpochs)
    BY <1>1, <2>4 DEF StopsStand, Gone, EpochTypes
  <2> QED
    BY <1>0, <2>2, <2>4, <2>5, <2>6, <2>7 DEF EpochsKept, EpochsInv, LatestDemand
<1>9. CASE SwitchPower
  <2> DEFINE mode == IF session.mode = "Disabled" THEN "Idle" ELSE "Disabled"
             epoch == IF mode = "Disabled" THEN 0 ELSE session.epochs + 1
  <2>1. /\ PublishDemand(mode, epoch)
        /\ session' = [session EXCEPT !.generation = @ + 1, !.mode = mode,
                                      !.operation = "None", !.epoch = epoch]
    BY <1>9 DEF SwitchPower
  <2>2. \A i \in DOMAIN ingress : ingress[i].type # "StartJog"
    BY <1>9 DEF SwitchPower, OperationOver, Awaited
  <2>3. \/ mode = "Idle" /\ epoch = session.epochs + 1
        \/ mode = "Disabled" /\ epoch = 0
    OBVIOUS
  <2> HIDE DEF mode, epoch
  <2>4. /\ CounterFields \union {"operation", "mode"} \subseteq DOMAIN session'
        /\ session'.operation = "None" /\ session'.mode = mode
        /\ session'.epoch = epoch /\ session'.epochs = session.epochs
    BY <1>1, <2>1 DEF DemandsFit, CounterFields
  <2>5. /\ mailbox' # NoDemand /\ mailbox'.mode = mode /\ mailbox'.epoch = epoch
        /\ UNCHANGED ingress
    BY <2>1, SessionAssumption DEF PublishDemand, NoDemand, SessionTypes, Counting
  <2>6. EpochsFit(core, session') /\ Asleep(core, session') /\ DemandsFit(session')
    BY <1>1, <2>3, <2>4 DEF EpochsFit, Asleep, DemandsFit, Announced, EpochTypes
  <2>7. StopsStand(core, session', log.stoppedEpochs)
    BY <1>1, <2>3, <2>4 DEF StopsStand, Gone, EpochTypes
  <2> QED
    BY <1>0, <2>2, <2>4, <2>5, <2>6, <2>7 DEF EpochsKept, EpochsInv, LatestDemand
<1> QED
  BY <1>4, <1>5, <1>6, <1>7, <1>8, <1>9 DEF Session

LEMMA InitEpochs == ASSUME Init PROVE EpochsInv
<1>1. /\ core.state = "Disabled" /\ core.epoch = 0 /\ core.stoppedEpoch = 0
      /\ core.demand.mode = "Disabled" /\ core.demand.epoch = 0 /\ core.active = NoItem
  BY DEF Init, InitialCore, NoDemand
<1>2. /\ mailbox # NoDemand /\ mailbox.mode = "Idle" /\ mailbox.epoch = 1
      /\ log.stoppedEpochs = {} /\ DOMAIN ingress = {}
  BY DEF Init, NoDemand, EmptyLog
<1>3. /\ CounterFields \union {"operation", "mode"} \subseteq DOMAIN session
      /\ session.mode = "Idle" /\ session.epoch = 1 /\ session.epochs = 0
      /\ session.operation = "None"
  BY DEF Init, CounterFields
<1> QED
  BY <1>1, <1>2, <1>3
     DEF EpochsInv, LatestDemand, DemandsFit, EpochsFit, Announced, Asleep, StopsStand,
         Executing, Active

LEMMA NextEpochs ==
  ASSUME SessionTypes, Ticking, ItemsInv, EpochsInv, [Next]_vars PROVE EpochsKept
<1>1. CASE UNCHANGED vars
  BY <1>1 DEF vars, EpochsKept, EpochsInv, LatestDemand
<1> QED
  BY <1>1, ServoKeepsEpochs, HostKeepsEpochs, SessionKeepsEpochs DEF Next

LEMMA EpochsHold == Spec => [](SessionTypes /\ Ticking /\ ItemsInv /\ EpochsInv)
<1>1. SessionTypes /\ Ticking /\ ItemsInv /\ EpochsInv /\ [Next]_vars => ItemsInv' /\ EpochsInv'
  BY NextItems, NextEpochs DEF ItemsKept, EpochsKept
<1> QED
  BY <1>1, InitItems, InitEpochs, InitInv, NextSessionTypes, NextTicking, PTL DEF Spec

\* No item is accepted in an epoch whose stop was reported: it is remembered in
\* m_stoppedEpoch until a later epoch is adopted, and where a power-off has left it
\* unremembered no demand names that epoch again (demandAllowsActivation,
\* completePlanStop, disable).
THEOREM StoppedEpochsStayStopped == Spec => StoppedEpochStaysStopped
<1>1. ASSUME SessionTypes, Ticking, ItemsInv, EpochsInv, [Next]_vars
      PROVE  core'.active = NoItem \/ core'.active.epoch \notin log.stoppedEpochs
  <2> SUFFICES ASSUME core'.active # NoItem
               PROVE  core'.active.epoch \notin log.stoppedEpochs
    OBVIOUS
  <2>1. ItemsInv' /\ EpochsInv' /\ log.stoppedEpochs \subseteq log'.stoppedEpochs
    BY <1>1, NextItems, NextEpochs DEF ItemsKept, EpochsKept
  <2>2. core'.active.epoch = core'.epoch
    BY <2>1 DEF ItemsInv, History
  <2>3. core'.epoch \notin log'.stoppedEpochs
    BY <2>1 DEF EpochsInv, StopsStand, Active
  <2> QED
    BY <2>1, <2>2, <2>3
<1> QED
  BY <1>1, EpochsHold, PTL DEF Spec, StoppedEpochStaysStopped

-----------------------------------------------------------------------------
(* At rest: what moves, in every state of the executor.                    *)

Fields(c) == CoreFields \subseteq DOMAIN c
ReleaseChecks(c) == c.active.kind = "Joint" /\ c.active.policy = "ReleaseCheck"

\* Only a jog or an active item moves, only a chunk that is Holding is being stopped, and
\* no joint moves while its switch is checked; what is Held or Disabled stands.
Still(c) ==
    /\ Fields(c)
    /\ c.state \in {"Held", "Disabled"} =>
          ~c.moving /\ ~Jogging(c) /\ c.planStop = "None" /\ (Active(c) => c.feed = "Held")
    /\ Jogging(c) => ~Active(c) /\ c.state \in {"Running", "Faulted"}
    /\ ~Active(c) => /\ c.planStop = "None"
                     /\ Jogging(c) \/ c.state = "Faulted" \/ ~c.moving
    /\ c.planStop # "None" => c.active.kind = "Chunk" /\ c.state \in {"Holding", "Faulted"}
    /\ c.state # "Faulted" /\ (c.planStop = "Stationary" \/ (Active(c) /\ ReleaseChecks(c)))
       => ~c.moving

\* Ways to be so: a chunk or a triggered move is under way; a fault has ended
\* everything; nothing is left to do.
Going(c) == /\ Fields(c) /\ Executing(c) /\ Active(c) /\ ~Jogging(c)
            /\ c.planStop = "None" /\ c.active.kind # "Joint"
Broke(c) == Fields(c) /\ c.state = "Faulted" /\ ~Jogging(c) /\ c.planStop = "None"
Rested(c) == /\ Fields(c) /\ c.state \in {"Held", "Disabled"} /\ ~c.moving
             /\ ~Jogging(c) /\ ~Active(c) /\ c.planStop = "None"

\* The three, and the joints under way, without a jog.
Calm(c) == Still(c) /\ ~Jogging(c)

LEMMA WaysToBeStill == \A c : Going(c) \/ Broke(c) \/ Rested(c) => Calm(c)
  BY DEF Going, Broke, Rested, Calm, Still, Executing, ReleaseChecks

\* Only the fields named here matter.
Alike(c, d) == /\ DOMAIN d = DOMAIN c
               /\ d.state = c.state /\ d.moving = c.moving /\ d.jog = c.jog
               /\ d.active = c.active /\ d.planStop = c.planStop /\ d.feed = c.feed

LEMMA AlikeStill == \A c, d : Alike(c, d) =>
    /\ Still(c) => Still(d) /\ (Calm(c) => Calm(d))
    /\ Going(c) => Going(d)
    /\ Broke(c) => Broke(d)
    /\ Rested(c) => Rested(d)
  BY DEF Alike, Still, Calm, Going, Broke, Rested, Fields, Active, Jogging, Executing,
         ReleaseChecks

LEMMA EmitAlike == \A c, e : Alike(c, Emit(c, e))
  BY DEF Alike, Emit

LEMMA AlikeOn == \A c, d, e : Alike(c, d) /\ Alike(d, e) => Alike(c, e)
  BY DEF Alike

LEMMA FaultBreaks == \A c, code : Fields(c) =>
    LET d == Fault(c, code)
    IN  /\ Fields(d) /\ d.state = "Faulted"
        /\ d.moving = c.moving /\ d.jog = c.jog /\ d.active = c.active
        /\ d.planStop = c.planStop /\ d.feed = c.feed
  BY DEF Fields, CoreFields, Fault, Emit

LEMMA FaultStill == \A c, code :
    /\ Still(c) => Still(Fault(c, code)) /\ (Calm(c) => Calm(Fault(c, code)))
    /\ Fields(c) /\ ~Jogging(c) /\ c.planStop = "None" => Broke(Fault(c, code))
  BY FaultBreaks DEF Still, Calm, Broke, Active, Jogging, ReleaseChecks

LEMMA DiscardStill == \A c : Fields(c) =>
    LET d == DiscardExecution(c)
    IN  /\ Fields(d) /\ d.state = c.state /\ d.moving = c.moving /\ d.jog = c.jog
        /\ ~Active(d) /\ d.planStop = "None"
  BY DEF Fields, CoreFields, DiscardExecution, ResetFeedRetiming, FreshRuntimes, Active

-----------------------------------------------------------------------------
(* Committing, and jogging.                                                *)

\* No operator starts a jog but the one that services the request for it.
Keeps(c, d) == Still(d) /\ (Jogging(d) => Jogging(c))

LEMMA CalmKeeps == \A c, d : Calm(d) => Keeps(c, d)
  BY DEF Calm, Keeps

LEMMA StillKeeps == \A c : Still(c) => Keeps(c, c)
  BY DEF Keeps

LEMMA AlikeKeeps == \A b, c, d : Keeps(b, c) /\ Alike(c, d) => Keeps(b, d)
  BY AlikeStill DEF Keeps, Alike, Jogging

LEMMA SoftLimitBreaks == ASSUME NEW c, Fields(c) PROVE Broke(FaultSoftLimit(c))
<1> DEFINE stopped == IF Jogging(c) THEN JogFaulted(c) ELSE c
<1>1. Fields(stopped) /\ ~Jogging(stopped)
  BY DEF Fields, CoreFields, Jogging, JogFaulted, JogStopped, Emit
<1> HIDE DEF stopped
<1>2. Broke(Fault(DiscardExecution(stopped), "SoftLimit"))
  BY <1>1, DiscardStill, FaultStill DEF Jogging
<1> QED
  BY <1>2 DEF FaultSoftLimit, stopped

LEMMA CommitCases == \A c, o, m : Fields(c) =>
    LET d == Commit(c, o, m)
    IN  /\ o.trouble = "Limit" => Broke(d) /\ ~Active(d)
        /\ o.trouble # "Limit" =>
              /\ Fields(d) /\ d.state = c.state /\ d.moving = m /\ d.jog = c.jog
              /\ d.active = c.active /\ d.planStop = c.planStop /\ d.feed = c.feed
<1> SUFFICES ASSUME NEW c, NEW o, NEW m, Fields(c), o.trouble = "Limit"
             PROVE  ~Active(FaultSoftLimit(c))
  BY SoftLimitBreaks DEF Commit, Fields, CoreFields
<1> DEFINE stopped == IF Jogging(c) THEN JogFaulted(c) ELSE c
<1>1. Fields(stopped)
  BY DEF Fields, CoreFields, Jogging, JogFaulted, JogStopped, Emit
<1> HIDE DEF stopped
<1>2. ~Active(DiscardExecution(stopped)) /\ Fields(DiscardExecution(stopped))
  BY <1>1, DiscardStill
<1> QED
  BY <1>2, FaultBreaks DEF FaultSoftLimit, stopped, Active

LEMMA CompleteJogRests == \A c :
    Fields(c) /\ ~c.moving /\ ~Active(c) /\ c.planStop = "None" => Rested(CompleteJog(c))
  BY DEF Rested, Fields, CoreFields, CompleteJog, JogStopped, Emit, Jogging, Active

\* What a jog is told leaves it a jog.
LEMMA JogStaysJog == \A c, r : Fields(c) /\ Jogging(c) =>
    /\ Jogging([c EXCEPT !.jog.stopping = TRUE, !.jog.reason = r])
    /\ \A n : c.jog.kind # "Incremental" => Jogging([c EXCEPT !.jog.lease = n])
  BY DEF Fields, CoreFields, Jogging, NoJog

LEMMA BeginJogStopStill == ASSUME NEW c, NEW o, NEW r, Still(c)
    PROVE  Keeps(c, BeginJogStop(c, o, r))
<1>0. CASE ~Jogging(c) \/ c.jog.stopping
  BY <1>0, StillKeeps DEF BeginJogStop
<1> SUFFICES ASSUME Jogging(c), ~c.jog.stopping PROVE Still(BeginJogStop(c, o, r))
  BY <1>0 DEF Keeps
<1> DEFINE stopping == [c EXCEPT !.jog.stopping = TRUE, !.jog.reason = r]
           standing == Commit(stopping, o, FALSE)
<1>1. /\ c.state \in {"Running", "Faulted"} /\ ~Active(c) /\ c.planStop = "None" /\ Fields(c)
  BY DEF Still
<1>2. /\ Fields(stopping) /\ stopping.state = c.state /\ stopping.moving = c.moving
      /\ ~Active(stopping) /\ stopping.planStop = "None"
  BY <1>1 DEF Fields, CoreFields, Active
<1>3. Jogging(stopping)
  BY <1>1, JogStaysJog
<1> HIDE DEF stopping
<1>4. Still(stopping)
  BY <1>1, <1>2, <1>3 DEF Still
<1>5. Still(FaultJog(stopping))
  <2>1. /\ Fields(JogFaulted(stopping)) /\ ~Jogging(JogFaulted(stopping))
        /\ JogFaulted(stopping).planStop = "None"
    BY <1>2 DEF Fields, CoreFields, JogFaulted, JogStopped, Emit, Jogging
  <2> QED
    BY <2>1, FaultStill, WaysToBeStill DEF FaultJog, Calm
<1>6. \/ Broke(standing)
      \/ Fields(standing) /\ ~standing.moving /\ ~Active(standing) /\ standing.planStop = "None"
         /\ Jogging(standing)
  BY <1>2, <1>3, CommitCases DEF Active, Jogging
<1>7. Still(IF Jogging(standing) THEN CompleteJog(standing) ELSE standing)
  BY <1>6, CompleteJogRests, WaysToBeStill DEF Broke, Calm
<1> HIDE DEF standing
<1> QED
  BY <1>4, <1>5, <1>7 DEF BeginJogStop, stopping, standing

LEMMA AbandonJogStill == \A c, o, r : Still(c) =>
    LET d == AbandonJog(c, o, r)
    IN  Calm(d) /\ (~Jogging(c) => d = c)
<1> SUFFICES ASSUME NEW c, NEW o, NEW r, Still(c), Jogging(c)
             PROVE  Calm(AbandonJog(c, o, r))
  BY DEF AbandonJog, Calm
<1> DEFINE told == [c EXCEPT !.jog.reason = r]
           stopped == Commit(told, o, FALSE)
<1>1. Fields(told) /\ ~Active(told) /\ told.planStop = "None"
  BY DEF Still, Fields, CoreFields, Active
<1> HIDE DEF told
<1>2. \/ Broke(stopped)
      \/ Fields(stopped) /\ ~stopped.moving /\ ~Active(stopped) /\ stopped.planStop = "None"
         /\ stopped.state = told.state /\ stopped.jog = told.jog
  BY <1>1, CommitCases DEF Active
<1> DEFINE last == IF Jogging(stopped) THEN CompleteJog(stopped) ELSE stopped
<1>3. Calm(last)
  <2>1. CASE Jogging(stopped)
    BY <1>2, <2>1, CompleteJogRests, WaysToBeStill DEF Broke
  <2>2. CASE ~Jogging(stopped) /\ ~Broke(stopped)
    BY <1>2, <2>2 DEF Calm, Still, ReleaseChecks, Active
  <2> QED
    BY <2>1, <2>2, WaysToBeStill
<1> HIDE DEF stopped
<1> QED
  BY <1>3 DEF AbandonJog, last, stopped, told

LEMMA InitializeJogStill == \A c, o, request : Still(c) => Still(InitializeJog(c, o, request))
<1> SUFFICES ASSUME NEW c, NEW o, NEW request, Still(c), c.state = "Held", ~Active(c)
             PROVE  Still(InitializeJog(c, o, request))
  BY DEF InitializeJog
<1>1. \A jog : Still([c EXCEPT !.state = "Running", !.jog = jog])
  BY DEF Still, Fields, CoreFields, Jogging, Active, ReleaseChecks
<1> QED
  BY <1>1 DEF InitializeJog

LEMMA LeaseStill == ASSUME NEW c, NEW n, Still(c), Jogging(c), c.jog.kind # "Incremental"
    PROVE  Still([c EXCEPT !.jog.lease = n])
<1>1. Jogging([c EXCEPT !.jog.lease = n])
  BY JogStaysJog DEF Still
<1> QED
  BY <1>1 DEF Still, Fields, CoreFields, Active, ReleaseChecks

LEMMA LeaseCheckedStill == \A c, o : Still(c) /\ Jogging(c) => Keeps(c, LeaseChecked(c, o))
<1> SUFFICES ASSUME NEW c, NEW o, Still(c), Jogging(c), c.jog.kind # "Incremental"
             PROVE  Still(LeaseChecked(c, o))
  BY DEF LeaseChecked, Keeps
<1>1. Still([c EXCEPT !.jog.lease = @ - 1])
  BY LeaseStill
<1> QED
  BY <1>1, BeginJogStopStill DEF LeaseChecked, Keeps

LEMMA AdvanceJogStill == \A c, o : Still(c) /\ Jogging(c) => Keeps(c, AdvanceJog(c, o))
<1> SUFFICES ASSUME NEW c, NEW o, Still(c), Jogging(c) PROVE Still(AdvanceJog(c, o))
  BY DEF Keeps
<1> DEFINE leased == LeaseChecked(c, o)
           ends == o.done /\ (leased.jog.stopping \/ leased.jog.kind # "Continuous")
           moved == Commit(leased, o, ~ends)
           reason == IF moved.jog.stopping THEN moved.jog.reason
                     ELSE IF moved.jog.kind = "Bounded" THEN "LimitReached"
                     ELSE "TargetReached"
           told == [moved EXCEPT !.jog.reason = reason]
<1>1. Still(leased)
  BY LeaseCheckedStill DEF Keeps
<1> HIDE DEF leased, ends
<1>2. Jogging(leased) =>
        \/ Broke(moved)
        \/ /\ Fields(moved) /\ moved.state = leased.state /\ moved.moving = ~ends /\ Jogging(moved)
           /\ ~Active(moved) /\ moved.planStop = "None"
  BY <1>1, CommitCases DEF Still, Active, Jogging
<1> HIDE DEF moved
<1>3. Jogging(leased) => Still(moved)
  BY <1>1, <1>2, WaysToBeStill DEF Still, Calm
<1>4. Jogging(leased) /\ Jogging(moved) /\ ends => Still(CompleteJog(told))
  <2> SUFFICES ASSUME Jogging(leased), Jogging(moved), ends PROVE Still(CompleteJog(told))
    OBVIOUS
  <2>1. Fields(told) /\ ~told.moving /\ ~Active(told) /\ told.planStop = "None"
    BY <1>2 DEF Fields, CoreFields, Active, Broke
  <2> HIDE DEF told
  <2> QED
    BY <2>1, CompleteJogRests, WaysToBeStill DEF Calm
<1> HIDE DEF told
<1> QED
  BY <1>1, <1>3, <1>4 DEF AdvanceJog, leased, moved, told, ends

-----------------------------------------------------------------------------
(* Items: activation, spans and the branch of a chunk.                     *)

Under(c) == Going(c) \/ Broke(c)

LEMMA AlikeUnder == \A c, d : Alike(c, d) /\ Under(c) => Under(d)
  BY AlikeStill DEF Under

LEMMA FaultUnder == \A c, code : Going(c) => Broke(Fault(c, code))
  BY FaultStill DEF Going

LEMMA ApplyUnder == ASSUME NEW c, Going(c) PROVE Under(ApplyScheduledEventsForCurrentSpan(c))
<1> DEFINE commanded == [c EXCEPT !.spindle = "Commanded", !.event = @ + 1]
           told == Emit(commanded, Event("SpindleApplied", c.active.id, c.event))
<1>1. Alike(c, commanded)
  BY DEF Alike
<1>2. Alike(commanded, told)
  BY EmitAlike
<1> HIDE DEF commanded, told
<1>3. Under(told) /\ Under(c) /\ Under(Fault(c, "InvalidExecutionState"))
  BY <1>1, <1>2, AlikeOn, AlikeUnder, FaultUnder DEF Under
<1> QED
  BY <1>3 DEF ApplyScheduledEventsForCurrentSpan, told, commanded

LEMMA MarkersUnder == ASSUME NEW c, NEW reached, Going(c)
    PROVE  Under(EmitExecutionMarkersThrough(c, reached))
<1> DEFINE marked == [c EXCEPT !.marker = @ + 1]
           told == Emit(marked, Event("ExecutionMarkerReached", c.active.id, c.marker))
<1>1. Alike(c, marked)
  BY DEF Alike
<1>2. Alike(marked, told)
  BY EmitAlike
<1> HIDE DEF marked, told
<1>3. Under(told) /\ Under(c) /\ Under(Fault(c, "InvalidExecutionState"))
  BY <1>1, <1>2, AlikeOn, AlikeUnder, FaultUnder DEF Under
<1> QED
  BY <1>3 DEF EmitExecutionMarkersThrough, told, marked

LEMMA BeginSpanUnder == \A c, o : Going(c) => Under(BeginSpan(c, o))
  BY ApplyUnder, MarkersUnder DEF BeginSpan, Under, Broke

\* The item that is taken may be a joint move only if nothing moves.
LEMMA AcceptStill == ASSUME NEW c, NEW o, NEW item, Fields(c), Executing(c), ~Jogging(c),
                            c.planStop = "None", item # NoItem, item.kind \in ItemKinds,
                            item.kind = "Joint" => ~c.moving
    PROVE  /\ Calm(Accept(c, o, item))
           /\ item.kind # "Joint" => Under(Accept(c, o, item))
<1> DEFINE taken == [c EXCEPT !.active = item, !.stopping = FALSE,
                              !.span = 0, !.event = 0, !.marker = 0]
           accepted == Emit(taken, Event("ChunkAccepted", item.id, item.epoch))
           ready == [accepted EXCEPT !.touched = {}, !.aborted = FALSE,
                        !.joints = [j \in Joints |->
                            IF j \in o.ends THEN "Finished" ELSE "Approach"]]
           approach == [accepted EXCEPT !.triggered = "Approach"]
<1>1. /\ Fields(taken) /\ taken.state = c.state /\ taken.moving = c.moving
      /\ taken.jog = c.jog /\ taken.active = item /\ taken.planStop = "None"
  BY DEF Fields, CoreFields
<1>2. Alike(taken, accepted)
  BY EmitAlike
<1> HIDE DEF taken
<1>3. /\ Fields(accepted) /\ accepted.state = c.state /\ accepted.moving = c.moving
      /\ accepted.jog = c.jog /\ accepted.active = item /\ accepted.planStop = "None"
  BY <1>1, <1>2 DEF Alike, Fields
<1> HIDE DEF accepted
<1>4. Alike(accepted, ready) /\ Alike(accepted, approach)
  BY DEF Alike
<1> HIDE DEF ready, approach
<1>5. ASSUME item.kind # "Joint"
      PROVE  Under(BeginSpan(accepted, o)) /\ Under(InitializeTriggered(accepted, o))
  <2>1. Going(accepted)
    BY <1>3, <1>5 DEF Going, Executing, Jogging, Active
  <2> QED
    BY <1>4, <2>1, BeginSpanUnder, FaultUnder, AlikeUnder
       DEF InitializeTriggered, Under, approach
<1>6. ASSUME item.kind = "Joint" PROVE Calm(InitializeTriggeredJoints(accepted, o))
  <2>1. Calm(accepted)
    BY <1>3, <1>6 DEF Calm, Still, Executing, Jogging, Active
  <2> QED
    BY <1>4, <2>1, FaultStill, AlikeStill DEF InitializeTriggeredJoints, ready, Calm
<1>7. CASE item.kind = "Joint"
  <2>1. Accept(c, o, item) = InitializeTriggeredJoints(accepted, o)
    BY <1>7 DEF Accept, accepted, taken
  <2> QED
    BY <1>6, <1>7, <2>1
<1>8. CASE item.kind # "Joint"
  <2>1. \/ Accept(c, o, item) = BeginSpan(accepted, o)
        \/ Accept(c, o, item) = InitializeTriggered(accepted, o)
    BY <1>8 DEF Accept, accepted, taken, ItemKinds
  <2> QED
    BY <1>5, <1>8, <2>1, WaysToBeStill DEF Under
<1> QED
  BY <1>7, <1>8

\* The items that wait are items, and no joint move follows a chunk in its epoch.
Waiting(c) ==
    /\ c.plans \in Seq(Items)
    /\ \A x \in Range(c.plans) : x # NoItem
    /\ Active(c) /\ c.active.kind # "Joint" =>
          \A x \in Range(c.plans) : x.epoch = c.active.epoch => x.kind # "Joint"

LEMMA HeadWaits == \A c : Waiting(c) /\ c.plans # <<>> =>
    LET item == Head(c.plans)
    IN  /\ item \in Items /\ item # NoItem /\ item.kind \in ItemKinds
        /\ Active(c) /\ c.active.kind # "Joint" /\ item.epoch = c.active.epoch
           => item.kind # "Joint"
<1> SUFFICES ASSUME NEW c, Waiting(c), c.plans # <<>>
             PROVE  Head(c.plans) \in Range(c.plans) /\ Head(c.plans) \in Items
  BY DEF Waiting, Items
<1>1. Head(c.plans) = c.plans[1] /\ 1 \in DOMAIN c.plans /\ c.plans[1] \in Items
  BY DEF Waiting
<1> QED
  BY <1>1 DEF Range

LEMMA PoppedAlike == \A c : Fields(c) =>
    /\ Alike(c, [c EXCEPT !.plans = Tail(@)])
    /\ Alike(c, FreshRuntimes(c))
  BY DEF Fields, CoreFields, Alike, FreshRuntimes

LEMMA ActivateNextStill == \A c, o :
    Still(c) /\ Executing(c) /\ ~Jogging(c) /\ ~Active(c) /\ Waiting(c)
    => Calm(ActivateNext(c, o))
<1> SUFFICES ASSUME NEW c, NEW o, Still(c), Executing(c), ~Jogging(c), ~Active(c), Waiting(c),
                    c.plans # <<>>
             PROVE  Calm(ActivateNext(c, o))
  BY DEF ActivateNext, Calm
<1> DEFINE item == Head(c.plans)
           popped == [c EXCEPT !.plans = Tail(@)]
           rejected == Reject(popped, item)
           fresh == FreshRuntimes(popped)
<1>1. item # NoItem /\ item.kind \in ItemKinds
  BY HeadWaits
<1>2. Alike(c, popped) /\ Fields(popped)
  BY PoppedAlike DEF Still, Fields, Alike
<1> HIDE DEF item, popped
<1>3. Alike(popped, rejected) /\ Alike(popped, fresh)
  BY <1>2, EmitAlike, PoppedAlike DEF Reject
<1> HIDE DEF rejected, fresh
<1>4. Alike(c, rejected) /\ Alike(c, fresh)
  BY <1>2, <1>3, AlikeOn
<1>5. Calm(rejected) /\ Calm(Fault(rejected, "PlanStartDiscontinuity"))
  BY <1>4, AlikeStill, FaultStill DEF Calm
<1>6. /\ Fields(fresh) /\ Executing(fresh) /\ ~Jogging(fresh) /\ fresh.planStop = "None"
      /\ ~fresh.moving
  BY <1>4 DEF Alike, Still, Executing, Jogging, Fields
<1>7. Calm(Accept(fresh, o, item))
  BY <1>1, <1>6, AcceptStill
<1> QED
  BY <1>5, <1>7 DEF ActivateNext, item, popped, rejected, fresh

LEMMA FinishFeedHoldCalm == \A c : Fields(c) /\ ~Jogging(c) /\ c.planStop = "None" =>
    Calm(FinishFeedHold(c))
  BY DEF Fields, CoreFields, FinishFeedHold, BackendHeld, Emit, Calm, Still, Jogging, Active,
         ReleaseChecks

LEMMA SelectUnder == ASSUME NEW c, NEW o, Going(c), Waiting(c)
    PROVE  Under(SelectContinuationOrStop(c, o))
<1> DEFINE current == c.active
           next == Head(c.plans)
           popped == [c EXCEPT !.plans = Tail(@)]
           selected(choice) == Event("BranchSelected", current.id, choice)
           turned == Reject(popped, next)
           ending ==
            IF c.plans # <<>>
            THEN [turned EXCEPT !.tailFault = "Discontinuity"]
            ELSE IF current.policy = "ContinuationRequired"
            THEN [c EXCEPT !.tailFault = "Underrun"] ELSE c
           branched == Emit(popped, selected("Continue"))
           continued == Retire(branched, current)
           told == Emit(ending, selected("Stop"))
           stopped == [told EXCEPT !.stopping = TRUE, !.span = 0]
<1>1. Alike(c, popped)
  BY PoppedAlike DEF Going
<1> HIDE DEF next, popped
<1>2. Alike(popped, turned) /\ Alike(popped, branched) /\ Alike(branched, continued)
  BY EmitAlike DEF Reject, Retire
<1> HIDE DEF turned, branched, continued
<1>3. Alike(c, turned) /\ Alike(c, continued)
  BY <1>1, <1>2, AlikeOn
<1>4. Going(ending)
  <2>1. \A d, x : Going(d) => Going([d EXCEPT !.tailFault = x])
    BY DEF Going, Fields, CoreFields, Executing, Active, Jogging
  <2> QED
    BY <1>3, <2>1, AlikeStill
<1> HIDE DEF ending
<1>5. Going(told)
  BY <1>4, EmitAlike, AlikeStill
<1> HIDE DEF told
<1>6. Going(stopped)
  BY <1>5 DEF Going, Fields, CoreFields, Executing, Active, Jogging
<1> HIDE DEF stopped
<1>7. Broke(Fault(DiscardExecution(ending), "FeedRetimingStopBranch"))
  BY <1>4, DiscardStill, FaultStill DEF Going, Jogging
<1>8. c.plans # <<>> /\ next.epoch = current.epoch => Under(Accept(continued, o, next))
  <2> SUFFICES ASSUME c.plans # <<>>, next.epoch = current.epoch
               PROVE  Under(Accept(continued, o, next))
    OBVIOUS
  <2>1. next # NoItem /\ next.kind \in ItemKinds /\ next.kind # "Joint"
    BY HeadWaits DEF Going, next
  <2>2. /\ Fields(continued) /\ Executing(continued) /\ ~Jogging(continued)
        /\ continued.planStop = "None"
    BY <1>3, AlikeStill DEF Going
  <2> QED
    BY <2>1, <2>2, AcceptStill
<1> QED
  BY <1>6, <1>7, <1>8
     DEF SelectContinuationOrStop, Under, next, popped, turned, ending, branched, continued,
         told, stopped

LEMMA CompleteSpanRests == ASSUME NEW c, NEW o, Going(c), Waiting(c)
    PROVE  LET d == CompleteSpan(c, o) IN Under(d) \/ Rested(d)
<1> DEFINE next == [c EXCEPT !.span = @ + 1]
           retired == Retire(next, c.active)
           stopped == [retired EXCEPT !.moving = FALSE]
           held == BackendHeld(stopped, c.active.epoch, "StopBranch")
<1>1. Alike(c, next) /\ next.plans = c.plans
  BY DEF Alike, Going, Fields, CoreFields
<1>2. Going(next) /\ Waiting(next)
  BY <1>1, AlikeStill DEF Waiting, Alike, Active
<1>3. Alike(next, retired)
  BY EmitAlike DEF Retire
<1> HIDE DEF next, retired
<1>4. Going(retired)
  BY <1>2, <1>3, AlikeStill
<1>5. Going(stopped) /\ ~stopped.moving
  BY <1>4 DEF Going, Fields, CoreFields, Executing, Active, Jogging
<1>6. Alike(stopped, held)
  BY EmitAlike DEF BackendHeld
<1> HIDE DEF stopped, held
<1>7. Rested([held EXCEPT !.state = "Held", !.active = NoItem])
  BY <1>5, <1>6 DEF Alike, Going, Rested, Fields, CoreFields, Active, Jogging
<1>8. Broke(Fault(DiscardExecution(stopped), c.tailFault))
  BY <1>5, DiscardStill, FaultStill DEF Going, Jogging
<1>9. Under(BeginSpan(next, o)) /\ Under(SelectContinuationOrStop(next, o))
  BY <1>2, BeginSpanUnder, SelectUnder
<1> QED
  BY <1>7, <1>8, <1>9 DEF CompleteSpan, Under, next, retired, stopped, held

LEMMA AdvancePlanStill == ASSUME NEW c, NEW o, Going(c), Waiting(c)
    PROVE  Calm(AdvancePlan(c, o))
<1> DEFINE rated == IF c.feed = "Resuming" /\ o.settled
                    THEN [c EXCEPT !.feed = "None"] ELSE c
           moved == Commit(rated, o, o.moves)
           marked == EmitExecutionMarkersThrough(moved, o.reached \/ o.done)
           advanced == IF o.done THEN CompleteSpan(marked, o) ELSE marked
<1>1. Going(rated) /\ rated.plans = c.plans /\ rated.active = c.active
  BY DEF Going, Fields, CoreFields, Executing, Active, Jogging
<1> HIDE DEF rated
<1>2. /\ o.trouble = "Limit" => Broke(moved)
      /\ o.trouble # "Limit" => Going(moved) /\ moved.plans = c.plans /\ moved.active = c.active
  <2>1. o.trouble # "Limit" => moved = [rated EXCEPT !.moving = o.moves]
    BY DEF Commit
  <2>2. o.trouble # "Limit" => Going(moved) /\ moved.plans = c.plans /\ moved.active = c.active
    BY <1>1, <2>1 DEF Going, Fields, CoreFields, Executing, Active, Jogging
  <2> QED
    BY <1>1, <2>2, CommitCases DEF Going
<1> HIDE DEF moved
<1>3. o.trouble # "Limit" =>
        /\ Under(marked)
        /\ marked.state # "Faulted" => Going(marked) /\ Waiting(marked)
  <2> SUFFICES ASSUME o.trouble # "Limit"
               PROVE  /\ Under(marked)
                      /\ marked.state # "Faulted" => Going(marked) /\ Waiting(marked)
    OBVIOUS
  <2>1. Under(marked)
    BY <1>2, MarkersUnder
  <2>2. marked.plans = moved.plans /\ marked.active = moved.active
    BY <1>2 DEF EmitExecutionMarkersThrough, Fault, Emit, Going, Fields, CoreFields
  <2> QED
    BY <1>2, <2>1, <2>2 DEF Under, Broke, Waiting, Active
<1> HIDE DEF marked
<1>4. o.trouble # "Limit" /\ marked.state # "Faulted" => Under(advanced) \/ Rested(advanced)
  BY <1>3, CompleteSpanRests
<1> HIDE DEF advanced
<1>5. o.trouble # "Limit" /\ marked.state # "Faulted" =>
        /\ Calm(advanced)
        /\ Calm(FinishFeedHold(advanced))
  <2>1. Under(advanced) \/ Rested(advanced) =>
          Fields(advanced) /\ ~Jogging(advanced) /\ advanced.planStop = "None"
    BY DEF Under, Going, Broke, Rested
  <2> QED
    BY <1>4, <2>1, FinishFeedHoldCalm, WaysToBeStill DEF Under
<1>6. Calm(Fault(c, "FeedRetiming"))
  BY FaultUnder, WaysToBeStill
<1> QED
  BY <1>2, <1>3, <1>5, <1>6, WaysToBeStill DEF AdvancePlan, Under, rated, moved, marked, advanced

-----------------------------------------------------------------------------
(* The controlled stop of a chunk, and triggered moves.                    *)

LEMMA CompletePlanStopRests == ASSUME NEW c, Fields(c), ~c.moving, ~Jogging(c)
    PROVE  Rested(CompletePlanStop(c))
<1> DEFINE stopped(retirements) ==
               [StopEpoch(c) EXCEPT !.active = NoItem, !.plans = <<>>,
                                    !.planStop = "None", !.stopping = FALSE,
                                    !.span = 0, !.event = 0, !.marker = 0,
                                    !.state = "Held", !.out = @ \o retirements]
<1>1. ASSUME NEW r PROVE Rested(stopped(r))
  BY DEF StopEpoch, Rested, Fields, CoreFields, Active, Jogging
<1>2. \E r : CompletePlanStop(c) = BackendHeld(stopped(r), c.active.epoch, "ControlledStop")
  BY DEF CompletePlanStop
<1> HIDE DEF stopped
<1> QED
  BY <1>1, <1>2, EmitAlike, AlikeStill DEF BackendHeld

LEMMA AdvancePlanStopStill ==
    ASSUME NEW c, NEW o, Still(c), Active(c), Executing(c), c.planStop # "None"
    PROVE  Calm(AdvancePlanStop(c, o))
<1> DEFINE finished == o.done \/ c.planStop = "Stationary"
           moved == Commit(c, o, ~finished)
<1> HIDE DEF finished
<1>1. \/ Broke(moved) /\ ~Active(moved)
      \/ /\ Fields(moved) /\ moved.state = c.state /\ moved.moving = ~finished
         /\ moved.jog = c.jog /\ moved.active = c.active /\ moved.planStop = c.planStop
  BY CommitCases DEF Still
<1> HIDE DEF moved
<1>2. ~Jogging(c) /\ c.active.kind = "Chunk" /\ (c.planStop = "Stationary" => finished)
  BY DEF Still, finished
<1>3. Calm(moved)
  BY <1>1, <1>2, WaysToBeStill DEF Calm, Still, Executing, Active, Jogging, ReleaseChecks
<1>4. Active(moved) /\ finished => Rested(CompletePlanStop(moved))
  BY <1>1, <1>2, CompletePlanStopRests DEF Jogging
<1> QED
  BY <1>3, <1>4, WaysToBeStill DEF AdvancePlanStop, moved, finished

LEMMA CompleteTriggeredRests ==
    ASSUME NEW c, NEW status, Fields(c), ~c.moving, ~Jogging(c), c.planStop = "None"
    PROVE  Rested(CompleteTriggered(c, status))
<1> DEFINE told == Retire(Emit(Emit(c, Event("TriggeredMoveCompleted", c.active.id, status)),
                               Event("BranchSelected", c.active.id, "Stop")), c.active)
           reason == IF status = "Aborted" THEN "ControlledStop" ELSE "StopBranch"
           held == BackendHeld(told, c.active.epoch, reason)
           reset == ResetFeedRetiming(held)
<1>1. Alike(c, held)
  BY EmitAlike, AlikeOn DEF Retire, BackendHeld
<1> HIDE DEF held
<1>2. /\ Fields(reset) /\ ~reset.moving /\ ~Jogging(reset) /\ reset.planStop = "None"
  BY <1>1 DEF Alike, Fields, CoreFields, ResetFeedRetiming, Jogging
<1> HIDE DEF reset
<1>3. Rested([reset EXCEPT !.state = "Held", !.active = NoItem])
  BY <1>2 DEF Rested, Fields, CoreFields, Active, Jogging
<1> QED
  BY <1>3 DEF CompleteTriggered, reset, held, told, reason

LEMMA AdvanceTriggeredStill == ASSUME NEW c, NEW o, Going(c), c.triggered \in TriggeredModes
    PROVE  Calm(AdvanceTriggered(c, o))
<1> DEFINE triggers == o.hits # {} /\ c.triggered \in {"Approach", "HoldStop"}
           armed == IF triggers THEN BeginTriggeredStop(c, "TriggerStop") ELSE c
           stopping == armed.triggered # "Approach"
           finished == o.done \/ (stopping /\ ~c.moving)
           moved == Commit(armed, o, ~finished)
           completed == CASE armed.triggered = "Approach" ->
                               CompleteTriggered(moved, "ReachedTarget")
                          [] armed.triggered = "HoldStop" -> FinishTriggeredFeedHold(moved)
                          [] armed.triggered = "TriggerStop" ->
                               CompleteTriggered(moved, "Triggered")
                          [] armed.triggered = "AbortStop" ->
                               CompleteTriggered(moved, "Aborted")
<1>1. Alike(c, armed) /\ armed.triggered \in TriggeredModes
  BY DEF Alike, BeginTriggeredStop, Going, Fields, CoreFields, TriggeredModes
<1> HIDE DEF armed
<1>2. Going(armed) /\ Broke(Fault(armed, "InvalidExecutionState"))
  BY <1>1, AlikeStill, FaultUnder
<1> HIDE DEF stopping, finished
<1>3. \/ o.trouble = "Limit" /\ Broke(moved)
      \/ /\ o.trouble # "Limit"
         /\ Fields(moved) /\ moved.state = armed.state /\ moved.moving = ~finished
         /\ moved.jog = armed.jog /\ moved.active = armed.active
         /\ moved.planStop = armed.planStop
  BY <1>2, CommitCases DEF Going
<1> HIDE DEF moved
<1>4. Calm(moved)
  BY <1>2, <1>3, WaysToBeStill DEF Going, Executing, Active, Jogging
<1>5. ASSUME o.trouble # "Limit", finished PROVE Calm(completed)
  <2>1. Fields(moved) /\ ~moved.moving /\ ~Jogging(moved) /\ moved.planStop = "None"
    BY <1>2, <1>3, <1>5 DEF Going, Jogging
  <2>2. \A status : Calm(CompleteTriggered(moved, status))
    BY <2>1, CompleteTriggeredRests, WaysToBeStill
  <2>3. Calm(FinishTriggeredFeedHold(moved))
    <3> DEFINE approach == [moved EXCEPT !.triggered = "Approach"]
    <3>1. Fields(approach) /\ ~Jogging(approach) /\ approach.planStop = "None"
      BY <2>1 DEF Fields, CoreFields, Jogging
    <3> HIDE DEF approach
    <3> QED
      BY <3>1, FinishFeedHoldCalm DEF FinishTriggeredFeedHold, approach
  <2>4. armed.triggered \in {"Approach", "HoldStop", "TriggerStop", "AbortStop"}
    BY <1>1 DEF TriggeredModes
  <2> QED
    BY <2>2, <2>3, <2>4
<1> HIDE DEF completed
<1> QED
  BY <1>2, <1>4, <1>5, WaysToBeStill
     DEF AdvanceTriggered, armed, triggers, stopping, finished, moved, completed

LEMMA CompleteJointsStill ==
    ASSUME NEW c, Fields(c), ~c.moving, ~Jogging(c), c.planStop = "None"
    PROVE  Calm(CompleteTriggeredJoints(c))
<1>1. Broke(Fault(DiscardExecution(c), "TriggerNotReached"))
  BY DiscardStill, FaultStill DEF Jogging
<1>2. \A status, reason :
        Rested([BackendHeld(Retire(Emit(Emit(c, Event("TriggeredMoveCompleted", c.active.id,
                                                      status)),
                                        Event("BranchSelected", c.active.id, "Stop")),
                                   c.active), c.active.epoch, reason)
                EXCEPT !.state = "Held", !.active = NoItem])
  <2> TAKE status, reason
  <2> DEFINE held == BackendHeld(Retire(Emit(Emit(c,
                         Event("TriggeredMoveCompleted", c.active.id, status)),
                         Event("BranchSelected", c.active.id, "Stop")),
                         c.active), c.active.epoch, reason)
  <2>1. Alike(c, held)
    BY EmitAlike, AlikeOn DEF Retire, BackendHeld
  <2> HIDE DEF held
  <2>2. Rested([held EXCEPT !.state = "Held", !.active = NoItem])
    BY <2>1 DEF Alike, Rested, Fields, CoreFields, Active, Jogging
  <2> QED
    BY <2>2 DEF held
<1> QED
  BY <1>1, <1>2, WaysToBeStill DEF CompleteTriggeredJoints

LEMMA AdvanceJointsStill ==
    ASSUME NEW c, NEW o, Still(c), Executing(c), Active(c), c.active.kind = "Joint"
    PROVE  Calm(AdvanceTriggeredJoints(c, o))
<1>1. Fields(c) /\ ~Jogging(c) /\ c.planStop = "None" /\ (ReleaseChecks(c) => ~c.moving)
  BY DEF Still, Executing
<1>2. Calm(Fault(c, "InvalidExecutionState"))
  BY <1>1, FaultStill, WaysToBeStill
<1>3. c.active.policy = "ReleaseCheck" => Calm(CheckTriggersAtStart(c, o))
  <2> DEFINE sampled == [c EXCEPT !.touched = @ \union o.hits]
  <2>1. /\ Fields(sampled) /\ sampled.moving = c.moving /\ ~Jogging(sampled)
        /\ sampled.planStop = "None"
    BY <1>1 DEF Fields, CoreFields, Jogging
  <2> HIDE DEF sampled
  <2>2. ~c.moving => Calm(CompleteTriggeredJoints(sampled))
    BY <2>1, CompleteJointsStill
  <2> QED
    BY <1>1, <1>2, <2>2 DEF CheckTriggersAtStart, ReleaseChecks, sampled
<1> DEFINE hit == {j \in TriggerJoints(c.active) \intersect o.hits : c.joints[j] = "Approach"}
           stopped(j) == IF c.joints[j] = "Finished" \/ j \in o.ends THEN "Finished"
                         ELSE IF j \in hit THEN "Stopping" ELSE c.joints[j]
           advanced == [c EXCEPT !.joints = [j \in Joints |-> stopped(j)],
                                 !.touched = @ \union hit]
           finished == \A j \in Joints : stopped(j) = "Finished"
           moved == Commit(advanced, o, ~finished)
<1>4. Alike(c, advanced)
  BY DEF Alike
<1> HIDE DEF advanced, finished
<1>5. \/ Broke(moved) /\ ~Active(moved)
      \/ /\ Fields(moved) /\ moved.state = c.state /\ moved.moving = ~finished
         /\ moved.jog = c.jog /\ moved.active = c.active /\ moved.planStop = c.planStop
  BY <1>1, <1>4, CommitCases DEF Alike, Fields
<1> HIDE DEF moved
<1>6. c.active.policy # "ReleaseCheck" => Calm(moved)
  BY <1>1, <1>5, WaysToBeStill DEF Calm, Still, Executing, Active, Jogging, ReleaseChecks
<1>7. Active(moved) /\ finished => Calm(CompleteTriggeredJoints(moved))
  BY <1>1, <1>5, CompleteJointsStill DEF Jogging
<1> QED
  BY <1>2, <1>3, <1>6, <1>7 DEF AdvanceTriggeredJoints, hit, stopped, advanced, finished, moved

LEMMA AdvanceActiveStill == ASSUME NEW c, NEW o, Still(c), Executing(c), Active(c), Waiting(c),
                                   c.active.kind \in ItemKinds, c.triggered \in TriggeredModes
    PROVE  Calm(AdvanceActive(c, o))
<1>1. CASE c.planStop # "None"
  <2>1. c.active.kind = "Chunk"
    BY <1>1 DEF Still
  <2>2. AdvanceActive(c, o) = AdvancePlanStop(c, o)
    BY <1>1, <2>1 DEF AdvanceActive
  <2> QED
    BY <1>1, <2>2, AdvancePlanStopStill
<1>2. CASE c.planStop = "None" /\ c.active.kind # "Joint"
  <2>1. Going(c)
    BY <1>2 DEF Still, Going
  <2>2. \/ AdvanceActive(c, o) = AdvancePlan(c, o)
        \/ AdvanceActive(c, o) = AdvanceTriggered(c, o)
    BY <1>2 DEF AdvanceActive, ItemKinds
  <2> QED
    BY <2>1, <2>2, AdvancePlanStill, AdvanceTriggeredStill
<1>3. CASE c.planStop = "None" /\ c.active.kind = "Joint"
  <2>1. AdvanceActive(c, o) = AdvanceTriggeredJoints(c, o)
    BY <1>3 DEF AdvanceActive
  <2> QED
    BY <1>3, <2>1, AdvanceJointsStill
<1> QED
  BY <1>1, <1>2, <1>3

-----------------------------------------------------------------------------
(* Controls, and the convergence to a demand.                              *)

\* What a control changes: the state, or less.
LEMMA RunsStill == \A c : Still(c) /\ ~Jogging(c) /\ c.state # "Faulted" /\ c.planStop = "None" =>
    \A feed : Calm([c EXCEPT !.state = "Running", !.safeOutputs = FALSE, !.feed = feed])
  BY DEF Calm, Still, Fields, CoreFields, Active, Jogging, ReleaseChecks

LEMMA EnableStill == \A c : Still(c) => Keeps(c, Enable(c))
  BY DEF Enable, Keeps, Still, Fields, CoreFields, Active, Jogging, ReleaseChecks

LEMMA DisableRests == ASSUME NEW c, NEW o, Still(c) PROVE Rested(Disable(c, o))
<1> DEFINE dropped == DiscardExecution(AbandonJog(c, o, "Disabled"))
<1>1. Fields(dropped) /\ ~Jogging(dropped) /\ ~Active(dropped) /\ dropped.planStop = "None"
  BY AbandonJogStill, DiscardStill DEF Calm, Still, Jogging
<1> HIDE DEF dropped
<1>2. Rested([dropped EXCEPT !.state = "Disabled", !.moving = FALSE,
                             !.safeOutputs = TRUE, !.spindle = "Safe"])
  BY <1>1 DEF Rested, Fields, CoreFields, Active, Jogging
<1> QED
  BY <1>2 DEF Disable, dropped

LEMMA ResetRests == ASSUME NEW c, NEW o, NEW epoch, Still(c), Stationary(c)
    PROVE  Rested(Reset(c, o, epoch))
<1> DEFINE dropped == DiscardExecution(AbandonJog(c, o, "Aborted"))
<1>1. /\ Fields(dropped) /\ ~Jogging(dropped) /\ ~Active(dropped) /\ dropped.planStop = "None"
      /\ ~dropped.moving
  BY AbandonJogStill, DiscardStill DEF Stationary, Still, Jogging
<1> HIDE DEF dropped
<1>2. \A state \in {"Held", "Disabled"} :
        Rested([dropped EXCEPT
            !.state = state, !.epoch = epoch, !.fault = "None", !.faultReported = FALSE,
            !.accepted = TRUE, !.stoppedEpoch = 0, !.safeOutputs = TRUE, !.spindle = "Safe"])
  BY <1>1 DEF Rested, Fields, CoreFields, Active, Jogging
<1> QED
  BY <1>2 DEF Reset, dropped

LEMMA StartStill == \A c, epoch : Still(c) => Keeps(c, Start(c, epoch))
<1> SUFFICES ASSUME NEW c, NEW epoch, Still(c), EpochMayRun(c, epoch), c.feed # "Held"
             PROVE  Keeps(c, Start(c, epoch))
  BY StillKeeps DEF Start
<1>1. /\ Still(c) /\ ~Jogging(c) /\ c.state = "Held" /\ c.planStop = "None"
  BY DEF Still, EpochMayRun
<1>2. Start(c, epoch) = [[c EXCEPT !.feed = "None"] EXCEPT !.state = "Running",
                                                           !.safeOutputs = FALSE]
  BY DEF Start, ResetFeedRetiming
<1>3. Calm(Start(c, epoch))
  BY <1>1, <1>2 DEF Calm, Still, Fields, CoreFields, Active, Jogging, ReleaseChecks
<1> QED
  BY <1>3, CalmKeeps

LEMMA ResumeStill == \A c, o, epoch, queued : Still(c) /\ c.active.kind \in ItemKinds =>
    Keeps(c, Resume(c, o, epoch, queued))
<1> SUFFICES ASSUME NEW c, NEW o, NEW epoch, NEW queued, Still(c), c.active.kind \in ItemKinds,
                    EpochMayRun(c, epoch)
             PROVE  Keeps(c, Resume(c, o, epoch, queued))
  BY StillKeeps DEF Resume
<1> DEFINE running == [c EXCEPT !.state = "Running", !.safeOutputs = FALSE]
           approach == [running EXCEPT !.triggered = "Approach"]
<1>1. Calm(running)
  BY DEF EpochMayRun, Calm, Still, Fields, CoreFields, Active, Jogging, ReleaseChecks
<1>2. Alike(running, approach)
  BY DEF Alike
<1>3. running.state = "Running"
  BY DEF Still, Fields, CoreFields
<1> HIDE DEF running, approach
<1>4. Calm(approach) /\ approach.state = "Running"
  BY <1>1, <1>2, <1>3, AlikeStill DEF Calm, Alike
<1>5. \A d, feed : Calm(d) /\ d.state = "Running" => Calm([d EXCEPT !.feed = feed])
  BY DEF Calm, Still, Fields, CoreFields, Active, Jogging, ReleaseChecks
<1>6. /\ Calm(ResetFeedRetiming(running)) /\ Calm(ResetFeedRetiming(approach))
      /\ Calm(ResumeChunk(running))
  BY <1>1, <1>3, <1>4, <1>5 DEF ResetFeedRetiming, ResumeChunk
<1>7. o.trouble # "Generation" => InitializeTriggered(running, o) = approach
  BY DEF InitializeTriggered, approach
<1>8. /\ Keeps(c, c) /\ Keeps(c, ResetFeedRetiming(running))
      /\ Keeps(c, ResetFeedRetiming(approach)) /\ Keeps(c, ResumeChunk(running))
  BY <1>6, StillKeeps, CalmKeeps
<1> QED
  BY <1>7, <1>8 DEF Resume, running, ItemKinds

LEMMA FeedHoldStill == \A c, o : Still(c) /\ c.active.kind \in ItemKinds => Keeps(c, FeedHold(c, o))
<1> SUFFICES ASSUME NEW c, NEW o, Still(c), c.active.kind \in ItemKinds,
                    ~Jogging(c), c.state = "Running", Active(c)
             PROVE  Keeps(c, FeedHold(c, o))
  BY StillKeeps DEF FeedHold
<1> DEFINE holding == [c EXCEPT !.feed = "Holding", !.state = "Holding"]
<1>1. Calm(c) /\ Calm(holding)
  BY DEF Calm, Still, Fields, CoreFields, Active, Jogging, ReleaseChecks
<1>2. /\ Alike(holding, BeginTriggeredStop(holding, "HoldStop"))
      /\ Alike(c, BeginTriggeredStop(c, "HoldStop"))
  BY DEF Alike, BeginTriggeredStop
<1> HIDE DEF holding
<1>3. /\ Keeps(c, c) /\ Keeps(c, holding)
      /\ Keeps(c, BeginTriggeredStop(holding, "HoldStop"))
      /\ Keeps(c, BeginTriggeredStop(c, "HoldStop"))
  <2>1. /\ Calm(BeginTriggeredStop(holding, "HoldStop"))
        /\ Calm(BeginTriggeredStop(c, "HoldStop"))
    BY <1>1, <1>2, AlikeStill DEF Calm
  <2> QED
    BY <1>1, <2>1, CalmKeeps
<1> QED
  BY <1>3 DEF FeedHold, holding, ItemKinds

LEMMA ControlledStopStill == \A c, o : Still(c) /\ c.active.kind \in ItemKinds =>
    Keeps(c, ControlledStop(c, o))
<1> SUFFICES ASSUME NEW c, NEW o, Still(c), c.active.kind \in ItemKinds, ~Jogging(c), Active(c),
                    c.state # "Faulted", c.state # "Disabled"
             PROVE  Calm(ControlledStop(c, o)) \/ ControlledStop(c, o) = c
  BY StillKeeps, CalmKeeps, BeginJogStopStill DEF ControlledStop, Executing
<1>0. Still(c) /\ Fields(c)
  BY DEF Still
<1>1. c.active.kind = "Chunk" => Calm(StopChunk(c, o)) \/ StopChunk(c, o) = c
  <2> SUFFICES ASSUME c.active.kind = "Chunk", BeginPlanStop(c, o).planStop # "None"
               PROVE  Calm([ResetFeedRetiming(BeginPlanStop(c, o)) EXCEPT !.state = "Holding"])
    BY DEF StopChunk
  <2> DEFINE braking == BeginPlanStop(c, o)
  <2>1. /\ Fields(braking) /\ braking.moving = c.moving /\ braking.jog = c.jog
        /\ braking.active = c.active /\ (braking.planStop = "Stationary" => ~c.moving)
    BY <1>0 DEF BeginPlanStop, Fields, CoreFields, Still
  <2> HIDE DEF braking
  <2>2. Calm([ResetFeedRetiming(braking) EXCEPT !.state = "Holding"])
    BY <2>1 DEF ResetFeedRetiming, Calm, Still, Fields, CoreFields, Active, Jogging, ReleaseChecks
  <2> QED
    BY <2>2 DEF braking
<1>2. c.active.kind = "Triggered" => Calm(StopTriggered(c, o)) \/ StopTriggered(c, o) = c
  <2> SUFFICES ASSUME c.active.kind = "Triggered", c.triggered = "Approach"
               PROVE  Calm(StopTriggered(c, o))
    BY DEF StopTriggered
  <2> DEFINE braking == BeginTriggeredStop(c, "AbortStop")
  <2>1. Alike(c, braking)
    BY DEF Alike, BeginTriggeredStop
  <2> HIDE DEF braking
  <2>2. Calm(Fault(braking, "InvalidExecutionState"))
    BY <1>0, <2>1, AlikeStill, FaultStill DEF Calm
  <2>3. Calm([ResetFeedRetiming(braking) EXCEPT !.state = "Holding"])
    BY <1>0, <2>1 DEF ResetFeedRetiming, Alike, Calm, Still, Fields, CoreFields, Active, Jogging,
                      ReleaseChecks
  <2> QED
    BY <2>2, <2>3 DEF StopTriggered, braking
<1>3. c.active.kind = "Joint" => Calm(StopTriggeredJoints(c, o))
  <2> DEFINE braking == [c EXCEPT !.aborted = TRUE,
                             !.joints = [j \in Joints |->
                                 IF c.joints[j] = "Approach"
                                 THEN "Stopping" ELSE c.joints[j]]]
  <2>1. Alike(c, braking)
    BY DEF Alike
  <2> HIDE DEF braking
  <2>2. Calm(Fault(braking, "InvalidExecutionState"))
    BY <1>0, <2>1, AlikeStill, FaultStill DEF Calm
  <2>3. c.active.kind = "Joint" => Calm([braking EXCEPT !.state = "Holding"])
    BY <1>0, <2>1 DEF Alike, Calm, Still, Fields, CoreFields, Active, Jogging, ReleaseChecks
  <2> QED
    BY <2>2, <2>3 DEF StopTriggeredJoints, braking
<1> QED
  BY <1>1, <1>2, <1>3 DEF ControlledStop, ItemKinds

LEMMA BeginDemandStopStill == \A c, o :
    Still(c) /\ c.active.kind \in ItemKinds /\ c.state # "Faulted" => Keeps(c, BeginDemandStop(c, o))
<1> SUFFICES ASSUME NEW c, NEW o, Still(c), c.state # "Faulted", ~Jogging(c), ~Active(c)
             PROVE  Keeps(c, BeginDemandStop(c, o))
  BY BeginJogStopStill, ControlledStopStill DEF BeginDemandStop
<1> DEFINE dropped == DiscardExecution(c)
           stopped == [dropped EXCEPT !.stoppedEpoch = c.demand.epoch, !.state = "Held",
                         !.safeOutputs = TRUE, !.spindle = "Safe"]
<1>1. /\ Fields(dropped) /\ ~dropped.moving /\ ~Jogging(dropped) /\ ~Active(dropped)
      /\ dropped.planStop = "None"
  BY DiscardStill DEF Still, Jogging
<1> HIDE DEF dropped
<1>2. Rested(stopped)
  BY <1>1 DEF Rested, Fields, CoreFields, Active, Jogging
<1> HIDE DEF stopped
<1>3. Rested(BackendHeld(stopped, c.epoch, "ControlledStop"))
  BY <1>2, EmitAlike, AlikeStill DEF BackendHeld
<1> QED
  BY <1>3, WaysToBeStill, CalmKeeps DEF BeginDemandStop, stopped, dropped

LEMMA PrepareStill == ASSUME NEW c, NEW o, Still(c) PROVE Keeps(c, Prepare(c, o))
<1> DEFINE established == IF c.epoch # c.demand.epoch /\ Stationary(c)
                          THEN Reset(c, o, c.demand.epoch) ELSE c
<1>1. Keeps(c, established)
  BY StillKeeps, ResetRests, WaysToBeStill, CalmKeeps
<1> HIDE DEF established
<1>2. Keeps(c, Enable(established))
  BY <1>1, EnableStill DEF Keeps
<1> QED
  BY <1>1, <1>2 DEF Prepare, established

LEMMA RejectDemandAlike == \A c : Alike(c, RejectDemand(c))
  BY DEF Alike, RejectDemand

LEMMA ConvergeRunStill == ASSUME NEW c, NEW o, NEW pending, Still(c), c.active.kind \in ItemKinds
    PROVE  Keeps(c, ConvergeRun(c, o, pending))
<1> DEFINE prepared == Prepare(c, o)
<1>1. Keeps(c, prepared)
  BY PrepareStill
<1>2. prepared.active.kind \in ItemKinds
  <2>1. Fields(c)
    BY DEF Still
  <2>2. \A epoch : c.active.kind \in ItemKinds /\ Stationary(c) =>
            Reset(c, o, epoch).active.kind \in ItemKinds
    <3>1. \A epoch : Stationary(c) => ~Active(Reset(c, o, epoch))
      BY ResetRests DEF Rested
    <3> QED
      BY <3>1 DEF Active, NoItem, ItemKinds
  <2>3. \A d : Fields(d) => Enable(d).active = d.active
    BY DEF Enable, Fields, CoreFields
  <2>4. \A epoch : Stationary(c) => Fields(Reset(c, o, epoch))
    BY ResetRests DEF Rested
  <2> QED
    BY <2>1, <2>2, <2>3, <2>4 DEF Prepare
<1> HIDE DEF prepared
<1>3. Keeps(c, RejectDemand(prepared))
  BY <1>1, RejectDemandAlike, AlikeKeeps
<1>4. /\ Keeps(c, Start(prepared, c.demand.epoch))
      /\ \A queued : Keeps(c, Resume(prepared, o, c.demand.epoch, queued))
  BY <1>1, <1>2, StartStill, ResumeStill DEF Keeps
<1> QED
  BY <1>1, <1>3, <1>4 DEF ConvergeRun, prepared

LEMMA ConvergeFeedHoldStill ==
    ASSUME NEW c, NEW o, Still(c), c.active.kind \in ItemKinds, ~Jogging(c)
    PROVE  Keeps(c, ConvergeFeedHold(c, o))
<1> DEFINE held == [c EXCEPT !.state = "Held"]
           reset == ResetFeedRetiming(held)
<1>1. c.state = "Running" /\ ~Active(c) => Rested(held)
  BY DEF Still, Rested, Fields, CoreFields, Jogging, Active
<1> HIDE DEF held
<1>2. c.state = "Running" /\ ~Active(c) => Rested(reset)
  BY <1>1 DEF ResetFeedRetiming, Rested, Fields, CoreFields, Jogging, Active
<1> HIDE DEF reset
<1>3. c.state = "Running" /\ ~Active(c) => Keeps(c, BackendHeld(reset, c.epoch, "FeedHold"))
  BY <1>2, EmitAlike, AlikeStill, WaysToBeStill, CalmKeeps DEF BackendHeld
<1>4. /\ Keeps(c, RejectDemand(c)) /\ Keeps(c, c) /\ Keeps(c, FeedHold(c, o))
  BY StillKeeps, RejectDemandAlike, AlikeKeeps, FeedHoldStill
<1> QED
  BY <1>3, <1>4 DEF ConvergeFeedHold, held, reset

LEMMA ConvergeStopStill ==
    ASSUME NEW c, NEW o, NEW pending, Still(c), c.active.kind \in ItemKinds,
           c.state # "Faulted"
    PROVE  Keeps(c, ConvergeStop(c, o, pending)) /\ Keeps(c, ConvergeDisabled(c, o))
<1>1. /\ Keeps(c, RejectDemand(c)) /\ Keeps(c, c) /\ Keeps(c, BeginDemandStop(c, o))
      /\ Keeps(c, Disable(c, o))
  BY StillKeeps, RejectDemandAlike, AlikeKeeps, BeginDemandStopStill, DisableRests,
     WaysToBeStill, CalmKeeps
<1>2. ~Active(c) => Keeps(c, DiscardExecution(c))
  <2> SUFFICES ASSUME ~Active(c) PROVE Keeps(c, DiscardExecution(c))
    OBVIOUS
  <2> DEFINE d == DiscardExecution(c)
  <2>1. /\ Fields(d) /\ d.state = c.state /\ d.moving = c.moving /\ d.jog = c.jog
        /\ ~Active(d) /\ d.planStop = "None"
    BY DiscardStill DEF Still
  <2> HIDE DEF d
  <2>2. Keeps(c, d)
    BY <2>1 DEF Keeps, Still, Jogging
  <2> QED
    BY <2>2 DEF d
<1> QED
  BY <1>1, <1>2 DEF ConvergeStop, ConvergeDisabled

LEMMA ConvergeDemandStill == \A c, o, pending :
    /\ Still(c) /\ c.active.kind \in ItemKinds /\ c.demand.mode \in Modes
    /\ Jogging(c) /\ c.state # "Faulted" => c.demand.mode # "FeedHold"
    => Keeps(c, ConvergeDemand(c, o, pending))
<1> SUFFICES ASSUME NEW c, NEW o, NEW pending, Still(c), c.active.kind \in ItemKinds,
                    c.demand.mode \in Modes, Jogging(c) => c.demand.mode # "FeedHold",
                    c.state # "Faulted"
             PROVE  Keeps(c, ConvergeDemand(c, o, pending))
  BY StillKeeps DEF ConvergeDemand, IgnoresDemand
<1>1. /\ Keeps(c, c) /\ Keeps(c, ConvergeDisabled(c, o)) /\ Keeps(c, Prepare(c, o))
      /\ Keeps(c, ConvergeRun(c, o, pending)) /\ Keeps(c, ConvergeStop(c, o, pending))
      /\ c.demand.mode = "FeedHold" => Keeps(c, ConvergeFeedHold(c, o))
  BY StillKeeps, ConvergeStopStill, PrepareStill, ConvergeRunStill, ConvergeFeedHoldStill
<1> QED
  BY <1>1 DEF ConvergeDemand, Modes

\* Only the request for a jog starts one, from rest.
LEMMA ServiceControlStill ==
    ASSUME NEW c, NEW o, NEW request, Still(c), request.type \in ControlTypes
    PROVE  LET d == ServiceControl(c, o, request)
           IN  Still(d) /\ (Jogging(d) => Jogging(c) \/ request.type = "StartJog")
<1>1. \A d, b : Keeps(c, d) => Keeps(c, RequestCompleted(d, request, b))
  BY EmitAlike, AlikeKeeps DEF RequestCompleted
<1>2. c.state = "Held" => Keeps(c, SetJointPosition(c))
  BY DEF SetJointPosition, Keeps, Still, Fields, CoreFields, Active, Jogging, ReleaseChecks
<1>3. JogControllable(c, request.jog) =>
        Keeps(c, RenewJogLease(c)) /\ Keeps(c, SetContinuousJogVelocity(c, o))
  BY LeaseStill, StillKeeps
     DEF JogControllable, RenewJogLease, SetContinuousJogVelocity, Keeps
<1>4. Keeps(c, c) /\ Keeps(c, BeginJogStop(c, o, "RequestedStop"))
  BY StillKeeps, BeginJogStopStill
<1>5. \A b : Still(RequestCompleted(InitializeJog(c, o,
                [id |-> request.jog, kind |-> request.kind]), request, b))
  BY InitializeJogStill, EmitAlike, AlikeStill DEF RequestCompleted, Alike, Jogging
<1>6. CASE request.type = "StartJog"
  BY <1>5, <1>6 DEF ServiceControl, LifecycleControls
<1>7. CASE request.type # "StartJog"
  <2>1. \E d, b : ServiceControl(c, o, request) = RequestCompleted(d, request, b) /\ Keeps(c, d)
    BY <1>2, <1>3, <1>4, <1>7 DEF ServiceControl, ControlTypes, LifecycleControls
  <2> QED
    BY <1>1, <2>1 DEF Keeps
<1> QED
  BY <1>6, <1>7

LEMMA LatchRests == ASSUME NEW c, NEW o, Fields(c), o.trouble # "Limit"
    PROVE  LET d == LatchEmergencyStop(c, o)
           IN  Broke(d) /\ ~d.moving /\ ~Active(d)
<1> DEFINE dropped == DiscardExecution(c)
           told == [dropped EXCEPT !.jog.reason = "Aborted"]
           stopped == [told EXCEPT !.moving = FALSE]
           abandoned == AbandonJog(dropped, o, "Aborted")
           standing == [abandoned EXCEPT !.moving = FALSE]
<1>1. Fields(dropped) /\ ~Active(dropped) /\ dropped.planStop = "None"
  BY DiscardStill
<1> HIDE DEF dropped
<1>2. Fields(stopped) /\ ~Active(stopped) /\ stopped.planStop = "None" /\ ~stopped.moving
  BY <1>1 DEF Fields, CoreFields, Active
<1>3. Rested(CompleteJog(stopped))
  BY <1>2, CompleteJogRests
<1>4. \/ ~Jogging(dropped) /\ abandoned = dropped
      \/ abandoned = CompleteJog(stopped)
      \/ ~Jogging(stopped) /\ abandoned = stopped
  BY DEF AbandonJog, Commit
<1> HIDE DEF told, stopped
<1>5. Fields(abandoned) /\ ~Jogging(abandoned) /\ ~Active(abandoned) /\ abandoned.planStop = "None"
  BY <1>1, <1>2, <1>3, <1>4 DEF Rested
<1> HIDE DEF abandoned
<1>6. /\ Fields(standing) /\ ~Jogging(standing) /\ ~Active(standing)
      /\ standing.planStop = "None" /\ ~standing.moving
  BY <1>5 DEF Fields, CoreFields, Jogging, Active
<1> HIDE DEF standing
<1>7. LET d == Fault(standing, "EmergencyStop") IN Broke(d) /\ ~d.moving /\ ~Active(d)
  BY <1>6, FaultBreaks, FaultStill DEF Active
<1> QED
  BY <1>7 DEF LatchEmergencyStop, standing, abandoned, dropped

-----------------------------------------------------------------------------
(* At rest, among the callers.                                             *)

Starts(records) == \E i \in DOMAIN records : records[i].type = "StartJog"

\* Only a jogging session starts a jog, and only before it demands a stop; the executor has
\* consumed the demand by then, and cannot be asked to hold the feed of a jog.
JogsFit ==
    /\ session.operation = "Jogging" => session.mode \in {"Jog", "Stop"}
    /\ session.mode = "Jog" => session.operation = "Jogging"
    /\ Starts(ingress) => /\ session.operation = "Jogging" /\ session.mode = "Jog"
                          /\ phase # "idle" => mailbox = NoDemand
    /\ Jogging(core) /\ core.state # "Faulted" =>
          session.operation = "Jogging" /\ core.demand.mode \in {"Jog", "Stop"}

\* The items that are not over, in the queues and out of them.
Arrivals(records) == {records[i].item : i \in {k \in DOMAIN records : IsPlan(records[k])}}
InFlight(c, records, item) ==
    ({c.active, item} \union Range(c.plans) \union Arrivals(records)) \ {NoItem}

Homes(x) == x.kind = "Joint"

\* An epoch belongs to one operation: its items are all homing moves, or none is.
KindsFit(items, s) ==
    /\ \A x, y \in items : x.epoch = y.epoch => (Homes(x) <=> Homes(y))
    /\ \A x \in items : /\ x.epoch <= s.epochs
                        /\ x.epoch = s.epochs /\ s.operation # "None" =>
                              (Homes(x) <=> s.operation = "Homing")

RestInv ==
    /\ Still(core)
    /\ latched => phase = "idle" /\ Broke(core) /\ ~core.moving /\ ~Active(core)
    /\ JogsFit
    /\ KindsFit(InFlight(core, ingress, reserved), session)

\* Items only leave.
Draws(c, d) == d.active \in {c.active, NoItem} \union Range(c.plans)
               /\ Range(d.plans) \subseteq Range(c.plans)

LEMMA MovesDraw == ASSUME NEW c, NEW d, c.plans \in Seq(Items),
                          NEW A, NEW J, NEW R, ItemsMove(c, d, A, J, R)
                   PROVE  Draws(c, d)
<1>1. c.plans # <<>> => Head(c.plans) \in Range(c.plans)
                        /\ Range(Tail(c.plans)) \subseteq Range(c.plans)
  <2> SUFFICES ASSUME c.plans # <<>>
               PROVE  Head(c.plans) \in Range(c.plans)
                      /\ Range(Tail(c.plans)) \subseteq Range(c.plans)
    OBVIOUS
  <2>1. Head(c.plans) = c.plans[1] /\ 1 \in DOMAIN c.plans
    OBVIOUS
  <2>2. \A i \in DOMAIN Tail(c.plans) : \E j \in DOMAIN c.plans : Tail(c.plans)[i] = c.plans[j]
    BY TailOf
  <2>3. \A y \in Range(Tail(c.plans)) : y \in Range(c.plans)
    BY <2>2 DEF Range
  <2>4. Head(c.plans) \in Range(c.plans)
    BY <2>1 DEF Range
  <2> QED
    BY <2>3, <2>4
<1>2. Range(<<>>) = {}
  <2>1. DOMAIN <<>> = {}
    OBVIOUS
  <2> QED
    BY <2>1, InRange
<1> QED
  BY <1>1, <1>2
     DEF Draws, ItemsMove, Idles, AcceptsHead, RejectsHead, ContinuesToHead, RetiresActive,
         AbandonsAll, SameItems, NoItemsLeft, TakesHead

LEMMA FewerItems == ASSUME NEW S, NEW T, T \subseteq S, NEW s, KindsFit(S, s)
                    PROVE  KindsFit(T, s)
  BY DEF KindsFit

LEMMA FewerArrivals == ASSUME NEW q, NEW t,
                              \A i \in DOMAIN t : \E j \in DOMAIN q : t[i] = q[j]
                       PROVE  Arrivals(t) \subseteq Arrivals(q) /\ (Starts(t) => Starts(q))
  BY DEF Arrivals, Starts

\* What the executor may rely on when it runs.
LEMMA AtRest == ASSUME SessionTypes, Ticking, ItemsInv, RestInv
                PROVE  /\ Still(core) /\ Waiting(core)
                       /\ phase # "idle" => ~latched
<1>1. /\ core.plans \in Seq(Items) /\ core.active \in Items /\ Still(core)
      /\ KindsFit(InFlight(core, ingress, reserved), session)
  BY AtStart DEF RestInv
<1>2. ASSUME NEW x \in Range(core.plans) PROVE x # NoItem
  <2>1. x.id \in 1..session.item
    BY DEF ItemsInv, LineUp, Waits, PlanIds
  <2> QED
    BY <2>1 DEF NoItem
<1>3. Waiting(core)
  BY <1>1, <1>2 DEF Waiting, InFlight, KindsFit, Active, Homes
<1> QED
  BY <1>1, <1>3 DEF RestInv

LEMMA TakenAlike == \A c : Fields(c) => Alike(c, [c EXCEPT !.out = <<>>])
  BY DEF Fields, CoreFields, Alike

\* A step of the executor.
LEMMA StepKeepsRest ==
    ASSUME SessionTypes, Ticking, ItemsInv, RestInv, NEW next, Step(next), Whole(next),
           Still(next), UNCHANGED <<reserved, session, latched>>,
           Jogging(next) /\ next.state # "Faulted" =>
              session.operation = "Jogging" /\ next.demand.mode \in {"Jog", "Stop"},
           latched => phase' = "idle" /\ Broke(next) /\ ~next.moving /\ ~Active(next),
           mailbox' = NoDemand \/ (mailbox' = mailbox /\ (phase = "idle" => phase' = "idle")),
           \A i \in DOMAIN ingress' : \E j \in DOMAIN ingress : ingress'[i] = ingress[j],
           NEW A, NEW J, NEW R, ItemsMove(core, next, A, J, R)
    PROVE  RestInv'
<1>1. /\ core' = [next EXCEPT !.out = <<>>] /\ Fields(next) /\ Alike(next, core')
      /\ core'.plans = next.plans /\ core'.demand = next.demand
  BY TakenAlike DEF Step, Still, Fields, CoreFields
<1>2. /\ Still(core') /\ (Broke(next) => Broke(core')) /\ (Jogging(core') => Jogging(next))
      /\ core'.active = next.active /\ core'.state = next.state /\ core'.moving = next.moving
  BY <1>1, AlikeStill DEF Alike, Jogging
<1>3. Draws(core, next) /\ Arrivals(ingress') \subseteq Arrivals(ingress)
      /\ (Starts(ingress') => Starts(ingress))
  BY MovesDraw, FewerArrivals, AtStart
<1>4. InFlight(core', ingress', reserved') \subseteq InFlight(core, ingress, reserved)
  BY <1>1, <1>2, <1>3 DEF InFlight, Draws
<1>5. KindsFit(InFlight(core', ingress', reserved'), session')
  BY <1>4, FewerItems DEF RestInv
<1>6. JogsFit'
  BY <1>1, <1>2, <1>3 DEF RestInv, JogsFit
<1> QED
  BY <1>2, <1>5, <1>6 DEF RestInv, Active

LEMMA ServoKeepsRest ==
  ASSUME SessionTypes, Ticking, ItemsInv, EpochsInv, RestInv, ServoThread PROVE RestInv'
<1>0. /\ Whole(core) /\ Untold(core.out)
      /\ core.active \in Items /\ core.plans \in Seq(Items)
      /\ core.active.kind \in ItemKinds /\ core.demand.mode \in Modes
      /\ core.triggered \in TriggeredModes
  BY AtStart
<1>00. /\ Still(core) /\ Waiting(core)
       /\ phase # "idle" => ~latched
       /\ JogsFit
  BY AtRest DEF RestInv
<1>000. \A i \in DOMAIN ingress : \E j \in DOMAIN ingress : ingress[i] = ingress[j]
  OBVIOUS
<1>1. CASE TickBegins
  <2> DEFINE demanded == IF mailbox = NoDemand THEN core ELSE ServiceDemand(core, mailbox)
  <2>1. PICK o \in ControlOutcomes : Step(ConvergeDemand(demanded, o, Pending))
    BY <1>1 DEF TickBegins
  <2>2. /\ Whole(demanded) /\ Untold(demanded.out) /\ SameItems(core, demanded)
        /\ demanded.demand = LatestDemand /\ demanded.epoch = core.epoch
        /\ demanded.demand.mode \in Modes
    BY DemandConsumed
  <2>3. Alike(core, demanded)
    BY DEF Alike, ServiceDemand
  <2>4. Step(ConvergeDemand(demanded, o, Pending)) /\ mailbox' = NoDemand /\ ~latched
        /\ UNCHANGED <<ingress, reserved, session, latched>>
    BY <1>1, <2>1 DEF TickBegins
  <2> HIDE DEF demanded
  <2> DEFINE next == ConvergeDemand(demanded, o, Pending)
  <2>5. /\ Still(demanded) /\ demanded.active = core.active /\ demanded.demand.mode = session.mode
        /\ Jogging(demanded) /\ demanded.state # "Faulted" =>
              session.operation = "Jogging" /\ session.mode \in {"Jog", "Stop"}
    <3>1. Still(demanded) /\ demanded.active = core.active /\ demanded.state = core.state
          /\ (Jogging(demanded) => Jogging(core))
      BY <1>00, <2>3, AlikeStill DEF Alike, Jogging
    <3> QED
      BY <1>00, <2>2, <3>1 DEF EpochsInv, JogsFit
  <2>6. Keeps(demanded, next) /\ (demanded.state = "Faulted" => next = demanded)
    BY <1>0, <2>2, <2>5, ConvergeDemandStill, FaultedDemand
  <2>7. Convergent(demanded, next)
    BY <1>0, <2>2, ConvergeServes DEF SameItems
  <2> HIDE DEF next
  <2>8. Whole(next) /\ next.demand = demanded.demand
    BY <2>7, QuietWhole
       DEF Convergent, Restarted, Forgotten, Quiet, Stays, Drops, Hushed, SameEpochs
  <2>9. ItemsMove(core, next, {}, {}, {})
    <3>1. ItemsMove(demanded, next, {}, {}, {})
      BY <2>2, <2>7, MoveOfConvergence
    <3> QED
      BY <2>2, <3>1 DEF ItemsMove, Idles, SameItems, NoItemsLeft
  <2>10. Still(next) /\ (Jogging(next) /\ next.state # "Faulted" =>
            session.operation = "Jogging" /\ next.demand.mode \in {"Jog", "Stop"})
    BY <2>5, <2>6, <2>8 DEF Keeps
  <2>11. Step(next)
    BY <2>4 DEF next
  <2> QED
    BY <1>000, <2>4, <2>8, <2>9, <2>10, <2>11, StepKeepsRest
\* In the middle of a tick.
<1>2. ASSUME phase # "idle", NEW next, Step(next), Whole(next), Still(next),
             UNCHANGED <<mailbox, reserved, session, latched>>, next.demand = core.demand,
             Jogging(next) /\ next.state # "Faulted" =>
                \/ Jogging(core) /\ core.state # "Faulted"
                \/ session.operation = "Jogging" /\ core.demand.mode = "Jog",
             \A i \in DOMAIN ingress' : \E j \in DOMAIN ingress : ingress'[i] = ingress[j],
             NEW A, NEW J, NEW R, ItemsMove(core, next, A, J, R)
      PROVE  RestInv'
  <2>1. ~latched /\ Still(next)
    BY <1>00, <1>2
  <2>2. Jogging(next) /\ next.state # "Faulted" =>
            session.operation = "Jogging" /\ next.demand.mode \in {"Jog", "Stop"}
    BY <1>00, <1>2, <2>1 DEF JogsFit
  <2> QED
    BY <1>2, <2>1, <2>2, StepKeepsRest
<1>3. CASE IngressEnds
  <2>1. PICK o \in ControlOutcomes : Step(ConvergeDemand(core, o, Pending))
    BY <1>3 DEF IngressEnds
  <2> DEFINE next == ConvergeDemand(core, o, Pending)
  <2>2. Convergent(core, next)
    BY <1>0, ConvergeServes
  <2>3. phase # "idle" /\ (Jogging(core) /\ core.state # "Faulted" =>
                               core.demand.mode # "FeedHold")
    BY <1>00, <1>3 DEF IngressEnds, JogsFit
  <2>4. Keeps(core, next) /\ (core.state = "Faulted" => next = core)
    BY <1>0, <1>00, <2>3, ConvergeDemandStill, FaultedDemand
  <2>5. Step(next) /\ UNCHANGED <<mailbox, ingress, reserved, session, latched>>
    BY <1>3, <2>1 DEF IngressEnds
  <2> HIDE DEF next
  <2>6. Whole(next) /\ next.demand = core.demand
    BY <2>2, QuietWhole
       DEF Convergent, Restarted, Forgotten, Quiet, Stays, Drops, Hushed, SameEpochs
  <2>7. ItemsMove(core, next, {}, {}, {})
    BY <1>0, <2>2, MoveOfConvergence
  <2> QED
    BY <1>000, <1>2, <2>3, <2>4, <2>5, <2>6, <2>7 DEF Keeps
<1>4. CASE IngressControl
  <2>1. PICK o \in ControlOutcomes : Step(ServiceControl(core, o, Head(ingress)))
    BY <1>4 DEF IngressControl
  <2>2. /\ Head(ingress).type \in ControlTypes /\ ingress # <<>> /\ ingress' = Tail(ingress)
        /\ UNCHANGED <<mailbox, reserved, session, latched>> /\ phase = "ingress"
    BY <1>4, HeadControl DEF IngressControl
  <2>3. PICK d, succeeded :
            /\ Quiet(core, d)
            /\ ServiceControl(core, o, Head(ingress))
               = RequestCompleted(d, Head(ingress), succeeded)
    BY ZenonT(60), <1>0, <2>2, ServiceControlFlows
  <2> DEFINE next == ServiceControl(core, o, Head(ingress))
  <2>4. ItemsMove(core, next, {}, {}, {}) /\ Whole(next)
    BY <1>0, <2>3, MoveOfControl
  <2>5. next.demand = core.demand
    <3>1. Whole(d) /\ d.demand = core.demand
      BY <2>3, QuietWhole DEF Quiet, Stays, Drops, Hushed, SameEpochs
    <3> QED
      BY <2>3, <3>1 DEF RequestCompleted, Emit, Whole, CoreFields
  <2>6. Still(next) /\ (Jogging(next) /\ next.state # "Faulted" =>
            \/ Jogging(core) /\ core.state # "Faulted"
            \/ Head(ingress).type = "StartJog")
    BY <1>00, <2>2, ServiceControlStill, FaultedControl DEF FaultKept, Ticking
  <2> HIDE DEF next
  <2>7. Head(ingress).type = "StartJog" =>
            session.operation = "Jogging" /\ core.demand.mode = "Jog"
    <3>1. 1 \in DOMAIN ingress /\ Head(ingress) = ingress[1]
      BY <2>2 DEF SessionTypes
    <3> QED
      BY <1>00, <2>2, <3>1 DEF JogsFit, Starts, EpochsInv, LatestDemand
  <2>8. \A i \in DOMAIN ingress' : \E j \in DOMAIN ingress : ingress'[i] = ingress[j]
    BY <2>2, TailOf DEF SessionTypes
  <2>9. Step(next)
    BY <2>1 DEF next
  <2> QED
    BY <1>2, <2>2, <2>4, <2>5, <2>6, <2>7, <2>8, <2>9
<1>5. CASE ExecuteJog
  <2>1. PICK o \in JogOutcomes : Step(AdvanceJog(core, o))
    BY <1>5 DEF ExecuteJog, ExecuteJogStep
  <2> DEFINE next == AdvanceJog(core, o)
  <2>2. Quiet(core, next)
    BY <1>0, AdvanceJogQuiet
  <2>3. phase # "idle" /\ Jogging(core) /\ Executing(core)
        /\ UNCHANGED <<mailbox, ingress, reserved, session, latched>>
    BY <1>5 DEF ExecuteJog, ExecuteJogStep, Ticking
  <2>4. Keeps(core, next)
    BY <1>00, <2>3, AdvanceJogStill
  <2> HIDE DEF next
  <2>5. ItemsMove(core, next, {}, {}, {}) /\ Whole(next) /\ next.demand = core.demand
    BY <1>0, <2>2, MoveOfQuiet, QuietWhole DEF Quiet, Stays, Drops, Hushed, SameEpochs
  <2>6. Step(next)
    BY <2>1 DEF next
  <2> QED
    BY <1>000, <1>2, <2>3, <2>4, <2>5, <2>6 DEF Keeps, Executing
\* Where nothing happens to the executor.
<1>6. ASSUME UNCHANGED <<core, mailbox, ingress, reserved, session, latched>>, phase # "idle"
      PROVE  RestInv'
  <2>1. ~latched
    BY <1>00, <1>6
  <2> QED
    BY <1>6, <2>1 DEF RestInv, JogsFit
<1>7. CASE ExecuteItem
  <2>1. UNCHANGED <<mailbox, ingress, reserved, session, latched>> /\ phase = "execute"
        /\ ~Jogging(core) /\ Executing(core)
    BY <1>7 DEF ExecuteItem, Ticking
  <2>2. CASE UNCHANGED core
    BY <1>6, <2>1, <2>2
  <2>3. ASSUME NEW o \in ActivationOutcomes, Step(ActivateNext(core, o)), ~Active(core)
        PROVE  RestInv'
    <3> DEFINE next == ActivateNext(core, o)
    <3>1. Quiet(core, next) \/ Rejected(core, next) \/ Accepted(core, next)
      BY <1>0, <2>3, ActivateNextFlows
    <3>2. Calm(next)
      BY <1>00, <2>1, <2>3, ActivateNextStill
    <3> HIDE DEF next
    <3>3. Whole(next) /\ \E A, J, R : ItemsMove(core, next, A, J, R)
      BY <1>0, <3>1, MoveOfAdvanced, MoveOfAccepted, QuietWhole
         DEF Advanced, Rejected, Accepted
    <3>4. next.demand = core.demand
      BY <3>1 DEF Quiet, Stays, Drops, Hushed, SameEpochs, Rejected, Accepted
    <3>5. Step(next)
      BY <2>3 DEF next
    <3>6. Still(next) /\ ~Jogging(next)
      BY <3>2 DEF Calm
    <3> QED
      BY <1>000, <1>2, <2>1, <3>3, <3>4, <3>5, <3>6
  <2> QED
    BY <1>7, <2>2, <2>3 DEF ExecuteItem
<1>8. CASE Advance
  <2>1. PICK o \in AdvanceOutcomes : AdvanceStep(o)
    BY <1>8 DEF Advance
  <2> DEFINE next == AdvanceActive(core, o)
  <2>2. Ready(core) /\ Executing(core)
    BY <1>0, <1>8 DEF Ready, Advance, Ticking
  <2>3. InLine(core)
    BY <1>0, <2>2, ItemsInLine DEF Ready
  <2>4. Advanced(core, next)
    BY <1>0, <2>2, <2>3, AdvanceActiveFlows
  <2>5. Calm(next)
    BY <1>0, <1>00, <2>2, AdvanceActiveStill DEF Ready
  <2> HIDE DEF next
  <2>6. Whole(next) /\ \E A, J, R : ItemsMove(core, next, A, J, R)
    BY <1>0, <2>4, MoveOfAdvanced, QuietWhole
       DEF Advanced, Rejected, Continued, Retired, Abandoned
  <2>7. next.demand = core.demand
    BY <2>4 DEF Advanced, Quiet, Stays, Drops, Hushed, SameEpochs, Rejected, Continued,
                Retired, Abandoned
  <2>8. Step(next) /\ UNCHANGED <<mailbox, ingress, reserved, session, latched>>
        /\ phase = "advance"
    BY <1>8, <2>1 DEF Advance, AdvanceStep, next
  <2>9. Still(next) /\ ~Jogging(next)
    BY <2>5 DEF Calm
  <2> QED
    BY <1>000, <1>2, <2>6, <2>7, <2>8, <2>9
<1>9. CASE NotReady
  BY <1>6, <1>9 DEF NotReady
<1>10. CASE IngressPlan
  <2> DEFINE x == Head(ingress).item
  <2>1. /\ phase = "ingress" /\ ingress # <<>> /\ IsPlan(Head(ingress))
        /\ core' = [core EXCEPT !.plans = Append(@, x)] /\ ingress' = Tail(ingress)
        /\ UNCHANGED <<mailbox, reserved, phase, latched, session>> /\ x \in Items
    BY <1>10, HeadControl DEF IngressPlan
  <2>2. Alike(core, core') /\ core'.demand = core.demand /\ core'.plans = Append(core.plans, x)
    BY <1>0, <2>1 DEF Alike, Whole, CoreFields
  <2>3. x \in Arrivals(ingress)
    <3>1. 1 \in DOMAIN ingress /\ Head(ingress) = ingress[1]
      BY <2>1 DEF SessionTypes
    <3> QED
      BY <2>1, <3>1 DEF Arrivals
  <2> HIDE DEF x
  <2>4. Range(core'.plans) \subseteq Range(core.plans) \union {x}
    <3>1. \A i \in DOMAIN Append(core.plans, x) :
             Append(core.plans, x)[i] = x \/ \E j \in DOMAIN core.plans :
                                                Append(core.plans, x)[i] = core.plans[j]
      BY <1>0, <2>1
    <3> QED
      BY <2>2, <3>1 DEF Range
  <2>5. \A i \in DOMAIN ingress' : \E j \in DOMAIN ingress : ingress'[i] = ingress[j]
    BY <2>1, TailOf DEF SessionTypes
  <2>6. Arrivals(ingress') \subseteq Arrivals(ingress) /\ (Starts(ingress') => Starts(ingress))
    BY <2>5, FewerArrivals
  <2>7. InFlight(core', ingress', reserved') \subseteq InFlight(core, ingress, reserved)
    BY <2>1, <2>2, <2>3, <2>4, <2>6 DEF InFlight, Alike
  <2>8. KindsFit(InFlight(core', ingress', reserved'), session')
    BY <2>1, <2>7, FewerItems DEF RestInv
  <2>9. ~latched' /\ Still(core')
    BY <1>00, <2>1, <2>2, AlikeStill
  <2>10. JogsFit'
    BY <1>00, <2>1, <2>2, <2>6 DEF JogsFit, Alike, Jogging
  <2> QED
    BY <2>8, <2>9, <2>10 DEF RestInv
<1> QED
  BY <1>1, <1>3, <1>4, <1>5, <1>7, <1>8, <1>9, <1>10 DEF ServoThread

LEMMA HostKeepsRest ==
  ASSUME SessionTypes, Ticking, ItemsInv, RestInv, Host PROVE RestInv'
<1>0. Whole(core) /\ Untold(core.out) /\ core.plans \in Seq(Items)
  BY AtStart
<1>00. /\ Still(core) /\ Fields(core) /\ JogsFit
       /\ latched => phase = "idle" /\ Broke(core) /\ ~core.moving /\ ~Active(core)
  BY DEF RestInv, Still
<1>000. \A i \in DOMAIN ingress : \E j \in DOMAIN ingress : ingress[i] = ingress[j]
  OBVIOUS
<1>1. CASE EmergencyStopResets
  <2> DEFINE next == ResetEmergencyStop(core)
  <2>1. Quiet(core, next)
    BY <1>0, EnableStays, QuietWhole
  <2>2. Broke(core) /\ ~core.moving /\ ~Active(core) /\ ~latched' /\ phase' = "idle"
        /\ UNCHANGED <<mailbox, ingress, reserved, session, phase>> /\ Step(next)
    BY <1>00, <1>1 DEF EmergencyStopResets
  <2>3. Rested(next)
    BY <2>2 DEF ResetEmergencyStop, Broke, Rested, Fields, CoreFields, Active, Jogging
  <2> HIDE DEF next
  <2>4. ItemsMove(core, next, {}, {}, {})
    BY <1>0, <2>1, MoveOfQuiet
  <2>5. /\ core' = [next EXCEPT !.out = <<>>] /\ Alike(next, core') /\ core'.plans = next.plans
    BY <2>2, <2>3, TakenAlike DEF Step, Rested, Fields, CoreFields
  <2>6. Still(core') /\ ~Jogging(core')
    BY <2>3, <2>5, AlikeStill, WaysToBeStill DEF Calm
  <2>7. Draws(core, next)
    BY <1>0, <2>4, MovesDraw
  <2>8. InFlight(core', ingress', reserved') \subseteq InFlight(core, ingress, reserved)
    BY <2>2, <2>5, <2>7 DEF InFlight, Draws, Alike
  <2>9. KindsFit(InFlight(core', ingress', reserved'), session')
    BY <2>2, <2>8, FewerItems DEF RestInv
  <2>10. JogsFit'
    BY <1>00, <2>2, <2>6 DEF JogsFit
  <2> QED
    BY <2>2, <2>6, <2>9, <2>10 DEF RestInv
<1>2. CASE IoFaults \/ DeadlineMissed
  <2>1. PICK code : Step(Fault(core, code))
    BY <1>2, HostFault
  <2> DEFINE next == Fault(core, code)
  <2>2. Stays(core, next)
    BY <1>0, FaultStays
  <2>3. /\ Still(next) /\ next.state = "Faulted"
        /\ latched => phase = "idle" /\ Broke(next) /\ ~next.moving /\ ~Active(next)
    BY <1>00, FaultStill, FaultBreaks DEF Broke, Active
  <2> HIDE DEF next
  <2>4. ItemsMove(core, next, {}, {}, {}) /\ Whole(next)
    BY <1>0, <2>2, MoveOfQuiet, QuietWhole DEF Quiet
  <2>5. Step(next) /\ UNCHANGED <<mailbox, ingress, reserved, session, phase, latched>>
    BY <1>2, <2>1 DEF IoFaults, DeadlineMissed, next
  <2> QED
    BY <1>000, <2>3, <2>4, <2>5, StepKeepsRest
<1>3. CASE EmergencyStopLatches
  <2> DEFINE next == LatchEmergencyStop(core, [trouble |-> "None"])
  <2>1. /\ core' = [next EXCEPT !.out = <<>>] /\ phase = "idle"
        /\ ingress' = <<>> /\ UNCHANGED <<mailbox, reserved, phase, session>>
    BY <1>3 DEF EmergencyStopLatches
  <2>2. Broke(next) /\ ~next.moving /\ ~Active(next)
    BY <1>00, LatchRests
  <2>3. NoItemsLeft(next)
    BY <1>0, LatchDrops DEF Drops
  <2> HIDE DEF next
  <2>4. Alike(next, core') /\ core'.plans = next.plans
    BY <2>1, <2>2, TakenAlike DEF Broke, Fields, CoreFields
  <2>5. Broke(core') /\ ~core'.moving /\ ~Active(core') /\ Still(core') /\ ~Jogging(core')
    BY <2>2, <2>4, AlikeStill, WaysToBeStill DEF Alike, Calm, Active
  <2>6. DOMAIN ingress' = {} /\ Range(<<>>) = {}
    <3>1. DOMAIN <<>> = {}
      OBVIOUS
    <3> QED
      BY <2>1, <3>1, InRange
  <2>7. InFlight(core', ingress', reserved') \subseteq InFlight(core, ingress, reserved)
    BY <2>1, <2>3, <2>4, <2>6 DEF InFlight, Arrivals, NoItemsLeft, Alike
  <2>8. KindsFit(InFlight(core', ingress', reserved'), session')
    BY <2>1, <2>7, FewerItems DEF RestInv
  <2>9. JogsFit'
    BY <1>00, <2>1, <2>5, <2>6 DEF JogsFit, Starts
  <2> QED
    BY <2>1, <2>5, <2>8, <2>9 DEF RestInv
<1> QED
  BY <1>1, <1>2, <1>3 DEF Host

LEMMA SessionKeepsRest ==
  ASSUME SessionTypes, Ticking, ItemsInv, EpochsInv, RestInv, Session PROVE RestInv'
<1>0. UNCHANGED <<core, phase, latched>>
  BY DEF Session, ReserveItem, EnqueueItem, SubmitControl, ContinueOperation,
         BeginOperation, SwitchPower, PublishDemand
<1>1. /\ Still(core) /\ JogsFit /\ DemandsFit(session)
      /\ KindsFit(InFlight(core, ingress, reserved), session)
      /\ ingress \in Seq(Records)
  BY DEF RestInv, EpochsInv, SessionTypes, Records
<1>2. ASSUME JogsFit', KindsFit(InFlight(core, ingress', reserved'), session') PROVE RestInv'
  BY <1>0, <1>2 DEF RestInv
\* A step that publishes nothing leaves the operation and its epochs alone.
<1>3. ASSUME UNCHANGED mailbox, session'.operation = session.operation,
             session'.mode = session.mode, session'.epochs = session.epochs
      PROVE  /\ \A S : KindsFit(S, session) => KindsFit(S, session')
             /\ (Starts(ingress') => Starts(ingress)) => JogsFit'
  BY <1>0, <1>1, <1>3 DEF KindsFit, JogsFit
<1>4. CASE ReserveItem
  <2>1. /\ reserved' \in Items
        /\ Homes(reserved') <=> session.operation = "Homing"
        /\ reserved'.epoch = session.epoch
        /\ session' = [session EXCEPT !.item = @ + 1, !.itemEpoch = session.epoch]
        /\ UNCHANGED <<mailbox, ingress>> /\ session.operation # "None"
    <3>1. reserved' \in Items
      BY NextSessionTypes, <1>4 DEF Next, Session, SessionTypes
    <3> QED
      BY <1>4, <3>1 DEF ReserveItem, MayPublish, Homes
  <2>2. /\ session'.operation = session.operation /\ session'.mode = session.mode
        /\ session'.epochs = session.epochs /\ session.epoch = session.epochs
        /\ session.epochs \in Nat
    BY <1>1, <2>1 DEF DemandsFit, CounterFields, SessionTypes, Counting
  <2> DEFINE S == InFlight(core, ingress, reserved)
             T == InFlight(core, ingress', reserved')
  <2>3. T \subseteq S \union {reserved'}
    BY <2>1 DEF InFlight
  <2> HIDE DEF S, T
  <2>4. KindsFit(S, session)
    BY <1>1 DEF S
  <2>5. KindsFit(S \union {reserved'}, session)
    BY <2>1, <2>2, <2>4 DEF KindsFit
  <2>6. KindsFit(T, session') /\ JogsFit'
    BY <1>3, <2>1, <2>2, <2>3, <2>5, FewerItems
  <2> QED
    BY <1>2, <2>6 DEF T
<1>5. CASE EnqueueItem
  <2> DEFINE r == [type |-> "Plan", item |-> reserved]
             T == InFlight(core, ingress', reserved')
  <2>1. ingress' = Append(ingress, r) /\ reserved' = NoItem /\ UNCHANGED <<mailbox, session>>
    BY <1>5 DEF EnqueueItem
  <2>2. \A i \in DOMAIN ingress' : \/ ingress'[i] = r
                                  \/ \E j \in DOMAIN ingress : ingress'[i] = ingress[j]
    <3> HIDE DEF r
    <3> QED
      BY <1>1, <2>1
  <2>3. Arrivals(ingress') \subseteq Arrivals(ingress) \union {reserved}
    BY <2>2 DEF Arrivals
  <2>4. Starts(ingress') => Starts(ingress)
    BY <2>2 DEF Starts
  <2>5. T \subseteq InFlight(core, ingress, reserved)
    BY <2>1, <2>3 DEF InFlight
  <2> HIDE DEF T
  <2>6. KindsFit(T, session') /\ JogsFit'
    BY <1>1, <1>3, <2>1, <2>4, <2>5, FewerItems
  <2> QED
    BY <1>2, <2>6 DEF T
<1>6. CASE SubmitControl
  <2>1. PICK request \in Requests :
          /\ ingress' = Append(ingress, request)
          /\ session' = [session EXCEPT
                !.request = request.id,
                !.setup = IF request.type = "SetJointPosition"
                          THEN request.id ELSE @,
                !.jogged = @ \/ request.type = "StartJog"]
    BY <1>6 DEF SubmitControl
  <2>2. /\ session'.operation = session.operation /\ session'.mode = session.mode
        /\ session'.epochs = session.epochs /\ UNCHANGED <<mailbox, reserved>>
        /\ phase # "idle" => mailbox = NoDemand
    BY <1>1, <1>6, <2>1 DEF DemandsFit, CounterFields, SubmitControl, TickAwaited
  <2>3. ~IsPlan(request) /\ (request.type = "StartJog" => session.mode = "Jog")
    BY <2>1, RequestsAreControls DEF Requests
  <2>4. \A i \in DOMAIN ingress' : \/ ingress'[i] = request
                                  \/ \E j \in DOMAIN ingress : ingress'[i] = ingress[j]
    BY <1>1, <2>1
  <2>5. Arrivals(ingress') \subseteq Arrivals(ingress)
    BY <2>3, <2>4 DEF Arrivals
  <2>6. Starts(ingress') => Starts(ingress) \/ session.mode = "Jog"
    BY <2>3, <2>4 DEF Starts
  <2>7. JogsFit'
    BY <1>0, <1>1, <2>2, <2>6 DEF JogsFit
  <2>8. KindsFit(InFlight(core, ingress', reserved'), session')
    <3> DEFINE T == InFlight(core, ingress', reserved')
    <3>1. T \subseteq InFlight(core, ingress, reserved)
      BY <2>2, <2>5 DEF InFlight
    <3> HIDE DEF T
    <3>2. KindsFit(T, session')
      BY <1>1, <1>3, <2>2, <3>1, FewerItems
    <3> QED
      BY <3>2 DEF T
  <2> QED
    BY <1>2, <2>7, <2>8
<1>7. CASE ContinueOperation
  <2>1. PICK mode \in Successors :
          session' = [session EXCEPT !.generation = @ + 1, !.mode = mode]
    BY <1>7 DEF ContinueOperation
  <2>2. UNCHANGED <<ingress, reserved>>
    BY <1>7 DEF ContinueOperation, PublishDemand
  <2>3. /\ session'.operation = session.operation /\ session'.mode = mode
        /\ session'.epochs = session.epochs
    BY <1>1, <2>1 DEF DemandsFit, CounterFields
  <2>4. /\ mode # "Jog" /\ (session.operation = "Jogging" => mode = "Stop")
        /\ Starts(ingress) => session.operation # "Jogging"
    BY <2>1 DEF Successors, Starts, Awaited
  <2>5. JogsFit'
    BY <1>0, <1>1, <2>2, <2>3, <2>4 DEF JogsFit
  <2>6. KindsFit(InFlight(core, ingress, reserved), session')
    BY <1>1, <2>3 DEF KindsFit
  <2> QED
    BY <1>2, <2>2, <2>5, <2>6
\* A new operation, or power on or off: no jog is under way or about to start.
<1>8. ASSUME OperationOver, UNCHANGED <<ingress, reserved>>,
             session'.operation = "Jogging" <=> session'.mode = "Jog",
             session'.operation # "None" => session'.epochs = session.epochs + 1,
             session'.operation = "None" => session'.epochs = session.epochs
      PROVE  RestInv'
  <2>1. ~Starts(ingress)
    BY <1>8 DEF OperationOver, Awaited, Starts
  <2>2. Jogging(core) => core.state = "Faulted"
    BY <1>1, <1>8 DEF OperationOver, Still
  <2>3. JogsFit'
    BY <1>0, <1>8, <2>1, <2>2 DEF JogsFit
  <2> DEFINE S == InFlight(core, ingress, reserved)
  <2>4. KindsFit(S, session) /\ session.epochs \in Nat
    BY <1>1 DEF SessionTypes, Counting
  <2>5. \A x \in S : x.epoch \in Nat
    <3>1. \A x \in Items : x.epoch \in Nat
      BY SessionAssumption DEF Items
    <3>2. core.active \in Items /\ reserved \in Items /\ core.plans \in Seq(Items)
      BY AtStart DEF SessionTypes
    <3>3. Range(core.plans) \subseteq Items
      BY <3>2, InRange
    <3>4. Arrivals(ingress) \subseteq Items
      <4>1. ASSUME NEW i \in DOMAIN ingress, IsPlan(ingress[i]) PROVE ingress[i].item \in Items
        <5>1. ingress[i] \in Records
          BY <1>1
        <5> QED
          BY <4>1, <5>1
             DEF Records, PlanRecords, Controls, ControlTypes, LifecycleControls, IsPlan
      <4> QED
        BY <4>1 DEF Arrivals
    <3> QED
      BY <3>1, <3>2, <3>3, <3>4 DEF InFlight
  <2> HIDE DEF S
  <2>6. KindsFit(S, session')
    BY <1>8, <2>4, <2>5 DEF KindsFit
  <2> QED
    BY <1>2, <1>8, <2>3, <2>6 DEF S
<1>9. CASE BeginOperation
  <2>1. PICK operation \in Operations :
          /\ PublishDemand(FirstMode(operation), session.epochs + 1)
          /\ session' = [session EXCEPT
                !.generation = @ + 1, !.mode = FirstMode(operation),
                !.operation = operation,
                !.epoch = session.epochs + 1, !.epochs = @ + 1,
                !.setup = 0, !.jogged = FALSE]
    BY <1>9 DEF BeginOperation
  <2>2. operation \in {"Homing", "Program", "Jogging"}
    BY SessionAssumption
  <2>3. /\ session'.operation = operation /\ session'.mode = FirstMode(operation)
        /\ session'.epochs = session.epochs + 1
    BY <1>1, <2>1 DEF DemandsFit, CounterFields
  <2> QED
    BY <1>8, <1>9, <2>1, <2>2, <2>3 DEF BeginOperation, FirstMode, PublishDemand
<1>10. CASE SwitchPower
  <2> DEFINE mode == IF session.mode = "Disabled" THEN "Idle" ELSE "Disabled"
  <2>1. \E epoch : /\ PublishDemand(mode, epoch)
                   /\ session' = [session EXCEPT !.generation = @ + 1, !.mode = mode,
                                                 !.operation = "None", !.epoch = epoch]
    BY <1>10 DEF SwitchPower
  <2>2. mode # "Jog"
    OBVIOUS
  <2> HIDE DEF mode
  <2>3. /\ session'.operation = "None" /\ session'.mode = mode
        /\ session'.epochs = session.epochs
    BY <1>1, <2>1 DEF DemandsFit, CounterFields
  <2> QED
    BY <1>8, <1>10, <2>1, <2>2, <2>3 DEF SwitchPower, PublishDemand
<1> QED
  BY <1>4, <1>5, <1>6, <1>7, <1>9, <1>10 DEF Session

LEMMA InitRest == ASSUME Init PROVE RestInv
<1>1. DOMAIN <<>> = {} /\ Range(<<>>) = {}
  <2>1. DOMAIN <<>> = {}
    OBVIOUS
  <2> QED
    BY <2>1, InRange
<1>2. Rested(core)
  BY DEF Init, InitialCore, Rested, Fields, CoreFields, Active, Jogging
<1>3. InFlight(core, ingress, reserved) = {}
  BY <1>1 DEF Init, InitialCore, InFlight, Arrivals
<1>4. JogsFit
  BY <1>1, <1>2 DEF Init, JogsFit, Starts, Rested
<1> QED
  BY <1>2, <1>3, <1>4, WaysToBeStill DEF Init, RestInv, KindsFit, Calm

LEMMA NextRest ==
  ASSUME SessionTypes, Ticking, ItemsInv, EpochsInv, RestInv, [Next]_vars PROVE RestInv'
<1>1. CASE UNCHANGED vars
  BY <1>1 DEF vars, RestInv, JogsFit
<1> QED
  BY <1>1, ServoKeepsRest, HostKeepsRest, SessionKeepsRest DEF Next

\* Held and Disabled are said only at rest: no jog, no braking, and no item but one whose
\* feed hold is complete; what sets the state has ended all motion first, or knows that
\* nothing moves (ProductionExecutorCore.cpp, completePlanStop, completeJog, finishFeedHold,
\* disable, reset, resetEmergencyStop; JoggingController and HomingController rely on it).
THEOREM HeldStandsStill == Spec => []HeldMeansStationary
<1>1. RestInv => HeldMeansStationary
  BY DEF RestInv, Still, HeldMeansStationary
<1>2. SessionTypes /\ Ticking /\ ItemsInv /\ EpochsInv /\ RestInv /\ [Next]_vars
      => ItemsInv' /\ EpochsInv' /\ RestInv'
  BY NextItems, NextEpochs, NextRest DEF ItemsKept, EpochsKept
<1> QED
  BY <1>1, <1>2, InitItems, InitEpochs, InitRest, InitInv, NextSessionTypes, NextTicking, PTL
     DEF Spec

-----------------------------------------------------------------------------
(* The markers and the spindle events: how often an item has fired them.   *)

Count(reports, id) == Cardinality({i \in DOMAIN reports : reports[i][1] = id})

\* One more report, in its place.
LEMMA CountAppend == ASSUME NEW q, IsSequence(q), NEW id, NEW n
    PROVE  LET t == Append(q, <<id, n>>)
           IN  /\ IsSequence(t)
               /\ \A x : Count(q, x) \in Nat
               /\ \A x : Count(t, x) = Count(q, x) + (IF x = id THEN 1 ELSE 0)
               /\ InSequence(q) /\ n = Count(q, id) => InSequence(t)
<1> DEFINE a == <<id, n>>
           t == Append(q, a)
           k == Len(q)
           At(r, m, x) == {i \in 1..m : r[i][1] = x}
<1>1. /\ k \in Nat /\ DOMAIN q = 1..k /\ DOMAIN t = 1..(k + 1) /\ IsSequence(t)
      /\ \A i \in 1..k : t[i] = q[i]
      /\ t[k + 1] = a
  BY AppendEvent, SequenceFacts
<1>2. a[1] = id /\ a[2] = n
  OBVIOUS
<1> HIDE DEF t, k, a
<1>3. \A x : IsFiniteSet(At(q, k, x)) /\ Cardinality(At(q, k, x)) \in Nat
  <2> SUFFICES ASSUME NEW x PROVE IsFiniteSet(At(q, k, x)) /\ Cardinality(At(q, k, x)) \in Nat
    OBVIOUS
  <2>1. IsFiniteSet(1..k) /\ At(q, k, x) \in SUBSET (1..k)
    BY <1>1, FS_Interval
  <2> QED
    BY <2>1, FS_Subset, FS_CardinalityType
<1>4. \A x : /\ Count(q, x) = Cardinality(At(q, k, x))
             /\ Count(t, x) = Cardinality(At(t, k + 1, x))
  BY <1>1 DEF Count
<1>5. \A x : At(t, k + 1, x) = At(q, k, x) \union (IF x = id THEN {k + 1} ELSE {})
  <2>1. 1..(k + 1) = (1..k) \union {k + 1}
    BY <1>1
  <2> QED
    BY <1>1, <1>2, <2>1
<1>6. \A x : k + 1 \notin At(q, k, x)
  BY <1>1
<1>7. \A x : Count(t, x) = Count(q, x) + (IF x = id THEN 1 ELSE 0)
  <2> SUFFICES ASSUME NEW x PROVE Count(t, x) = Count(q, x) + (IF x = id THEN 1 ELSE 0)
    OBVIOUS
  <2> HIDE DEF At
  <2>1. CASE x = id
    <3>1. Cardinality(At(q, k, x) \union {k + 1}) = Cardinality(At(q, k, x)) + 1
      BY <1>3, <1>6, FS_AddElement
    <3> QED
      BY <1>4, <1>5, <2>1, <3>1
  <2>2. CASE x # id
    <3>1. At(t, k + 1, x) = At(q, k, x)
      BY <1>5, <2>2
    <3> QED
      BY <1>3, <1>4, <2>2, <3>1
  <2> QED
    BY <2>1, <2>2
<1>8. ASSUME InSequence(q), n = Count(q, id) PROVE InSequence(t)
  <2> SUFFICES ASSUME NEW i \in 1..(k + 1)
               PROVE  t[i][2] = Cardinality({j \in 1..(i - 1) : t[j][1] = t[i][1]})
    BY <1>1 DEF InSequence
  <2>1. \A j \in 1..(i - 1) : j \in 1..k /\ t[j] = q[j]
    BY <1>1
  <2>2. CASE i \in 1..k
    <3>1. t[i] = q[i] /\ q[i][2] = Cardinality({j \in 1..(i - 1) : q[j][1] = q[i][1]})
      BY <1>1, <1>8, <2>2 DEF InSequence
    <3>2. {j \in 1..(i - 1) : t[j][1] = t[i][1]} = {j \in 1..(i - 1) : q[j][1] = q[i][1]}
      BY <2>1, <3>1
    <3> QED
      BY <3>1, <3>2
  <2>3. CASE i = k + 1
    <3>1. i - 1 = k /\ t[i] = a
      BY <1>1, <2>3
    <3>2. {j \in 1..(i - 1) : t[j][1] = t[i][1]} = At(q, k, id)
      BY <1>1, <1>2, <2>1, <3>1
    <3> QED
      BY <1>2, <1>4, <1>8, <3>1, <3>2
  <2> QED
    BY <1>1, <2>2, <2>3
<1>9. Append(q, <<id, n>>) = t
  BY DEF t, a
<1> HIDE DEF At
<1>10. \A x : Count(q, x) \in Nat
  BY <1>3, <1>4
<1> QED
  BY <1>1, <1>7, <1>8, <1>9, <1>10

-----------------------------------------------------------------------------
(* What the log keeps of one more event.                                   *)

MarkFields(l, m) == /\ LogFields \subseteq DOMAIN m <=> LogFields \subseteq DOMAIN l
                    /\ l.markers = m.markers /\ l.applied = m.applied
                    /\ l.branched = m.branched /\ l.accepted = m.accepted

\* m is l after the event e.
Noticed(l, e, m) ==
    /\ LogFields \subseteq DOMAIN m
    /\ m.markers = IF e.type = "ExecutionMarkerReached"
                   THEN Append(l.markers, <<e.id, e.info>>) ELSE l.markers
    /\ m.applied = IF e.type = "SpindleApplied"
                   THEN Append(l.applied, <<e.id, e.info>>) ELSE l.applied
    /\ m.branched = IF e.type = "BranchSelected" THEN l.branched \union {e.id} ELSE l.branched
    /\ m.accepted = IF e.type = "ChunkAccepted" THEN Append(l.accepted, e.id) ELSE l.accepted

LEMMA ObservedMarks == ASSUME NEW l, NEW e, LogFields \subseteq DOMAIN l
                       PROVE  Noticed(l, e, Observed(l, e))
<1>1. CASE e.type \in {"ChunkAccepted", "ChunkRetired", "ChunkRejected", "RequestCompleted"}
  BY <1>1 DEF Observed, LogFields, Noticed
<1>2. CASE e.type = "ExecutionMarkerReached"
  BY <1>2 DEF Observed, LogFields, Noticed
<1>3. CASE e.type = "SpindleApplied"
  BY <1>3 DEF Observed, LogFields, Noticed
<1>4. CASE e.type = "BranchSelected"
  BY <1>4 DEF Observed, LogFields, Noticed
<1>5. CASE e.type \notin {"ChunkAccepted", "ChunkRetired", "ChunkRejected", "RequestCompleted",
                          "ExecutionMarkerReached", "SpindleApplied", "BranchSelected"}
  BY <1>5 DEF Observed, LogFields, Noticed
<1> QED
  BY <1>1, <1>2, <1>3, <1>4, <1>5

Extends(t, s) == /\ IsSequence(s) /\ IsSequence(t) /\ Len(s) <= Len(t)
                 /\ \A i \in 1..Len(s) : t[i] = s[i]

\* f[n] is the log after the first n events of s, but for the stopped epochs.
Follows(f, s) ==
    /\ \A n \in 1..Len(s) : f[n] = Observed(f[n - 1], s[n])
    /\ f[0] = log /\ MarkFields(LogAfter(s), f[Len(s)])

LEMMA LogFollows == ASSUME NEW s, IsSequence(s) PROVE \E f : Follows(f, s)
<1>1. Len(s) \in Nat
  BY SequenceFacts
<1>2. CASE s = <<>>
  <2>1. PICK f : Sees(f, s, 0)
    BY SeenExists
  <2>2. f[0] = log /\ \A i \in 1..0 : f[i] = Observed(f[i - 1], s[i])
    BY <2>1, SeesOne
  <2>3. LogAfter(s) = log /\ Len(s) = 0
    BY <1>2, NoEvents DEF LogAfter
  <2> QED
    BY <2>2, <2>3 DEF Follows, MarkFields
<1>3. CASE s # <<>>
  <2>1. PICK f : /\ Sees(f, s, Len(s))
                 /\ LogAfter(s) = [f[Len(s)] EXCEPT
                                     !.stoppedEpochs = @ \union StoppedIn(Range(s))]
    BY <1>1, <1>3, LogSees
  <2>2. f[0] = log /\ \A i \in 1..Len(s) : f[i] = Observed(f[i - 1], s[i])
    BY ZenonT(60), <1>1, <2>1, SeesOne
  <2>3. MarkFields(LogAfter(s), f[Len(s)])
    BY <2>1 DEF MarkFields
  <2> QED
    BY <2>2, <2>3 DEF Follows
<1> QED
  BY <1>2, <1>3

\* More events leave what was seen before them as it was.
LEMMA FollowsAlike == ASSUME NEW s, NEW t, Extends(t, s), NEW f, NEW g,
                             Follows(f, s), Follows(g, t)
                      PROVE  f[Len(s)] = g[Len(s)]
<1>1. Len(s) \in Nat /\ Len(t) \in Nat /\ Len(s) <= Len(t)
  BY SequenceFacts DEF Extends
<1> DEFINE Agree == {n \in Nat : n <= Len(s) => f[n] = g[n]}
<1>2. 0 \in Agree
  BY DEF Follows
<1>3. ASSUME NEW n \in Agree PROVE n + 1 \in Agree
  <2> SUFFICES ASSUME n + 1 <= Len(s) PROVE f[n + 1] = g[n + 1]
    OBVIOUS
  <2>1. n + 1 \in 1..Len(s) /\ n + 1 \in 1..Len(t) /\ (n + 1) - 1 = n /\ f[n] = g[n]
    BY <1>1
  <2>2. t[n + 1] = s[n + 1]
    BY <2>1 DEF Extends
  <2>3. f[n + 1] = Observed(f[n], s[n + 1]) /\ g[n + 1] = Observed(g[n], t[n + 1])
    BY <2>1 DEF Follows
  <2> QED
    BY <2>1, <2>2, <2>3
<1>4. Agree \in SUBSET Nat
  OBVIOUS
<1> HIDE DEF Agree
<1>5. Agree = Nat
  BY <1>2, <1>3, <1>4, SetInduction
<1> QED
  BY <1>1, <1>5 DEF Agree

LEMMA NoticedAlike == ASSUME NEW l, NEW m, NEW p, NEW q, NEW e,
                             MarkFields(l, m), Noticed(m, e, p), MarkFields(q, p)
                      PROVE  Noticed(l, e, q)
  BY DEF MarkFields, Noticed

LEMMA LogEmit == ASSUME NEW s, NEW e, IsSequence(s),
                        LogFields \subseteq DOMAIN LogAfter(s)
                 PROVE  Noticed(LogAfter(s), e, LogAfter(Append(s, e)))
<1> DEFINE t == Append(s, e)
           n == Len(s)
<1>1. /\ n \in Nat /\ IsSequence(t) /\ Len(t) = n + 1 /\ t[n + 1] = e
      /\ \A i \in 1..n : t[i] = s[i]
  BY AppendEvent, SequenceFacts
<1> HIDE DEF t
<1>2. Extends(t, s)
  BY <1>1 DEF Extends
<1>3. PICK f : Follows(f, s)
  BY LogFollows
<1>4. PICK g : Follows(g, t)
  BY <1>1, LogFollows
<1>5. f[n] = g[n]
  BY <1>2, <1>3, <1>4, FollowsAlike
<1>6. n + 1 \in 1..(n + 1) /\ (n + 1) - 1 = n
  BY <1>1
<1>7. g[n + 1] = Observed(f[n], e)
  BY <1>1, <1>4, <1>5, <1>6 DEF Follows
<1>8. MarkFields(LogAfter(s), f[n]) /\ MarkFields(LogAfter(t), g[n + 1])
  BY <1>1, <1>3, <1>4 DEF Follows
<1>9. LogFields \subseteq DOMAIN f[n]
  BY <1>8 DEF MarkFields
<1>10. Noticed(f[n], e, Observed(f[n], e))
  BY <1>9, ObservedMarks
<1> QED
  BY <1>7, <1>8, <1>10, NoticedAlike DEF t

-----------------------------------------------------------------------------
(* The record of the executor and the log it leaves.                       *)

\* Markers and spindle events are in sequence, fired only by items that were accepted; and
\* what branched has fired as many of the one as of the other.
Marked(l) ==
    /\ LogFields \subseteq DOMAIN l
    /\ IsSequence(l.markers) /\ IsSequence(l.applied) /\ l.accepted \in Seq(Int)
    /\ InSequence(l.markers) /\ InSequence(l.applied)
    /\ \A x : x \notin Range(l.accepted) =>
          Count(l.markers, x) = 0 /\ Count(l.applied, x) = 0 /\ x \notin l.branched
    /\ \A x \in l.branched : Count(l.markers, x) = Count(l.applied, x)

\* What waits has fired nothing yet.
Unheard(q, l) == /\ q \in Seq(Items) /\ PlansInOrder(q)
                 /\ \A x \in PlanIds(q) : x # 0 /\ x \notin Range(l.accepted)

\* The cursors of the active item are what it has fired.
Fired(c, l) ==
    /\ c.active \in Items
    /\ c.active.id \in Range(l.accepted)
    /\ Count(l.markers, c.active.id) = c.marker /\ Count(l.applied, c.active.id) = c.event
    /\ c.active.id \in l.branched => c.stopping

\* A span of a chunk begins with its spindle event, and its marker is fired before it ends.
Abreast(c) ==
    /\ c.active.kind = "Chunk" /\ ~c.stopping =>
          c.span \in Nat /\ c.event = c.span + 1 /\ c.marker \in {c.span, c.span + 1}
    /\ c.active.kind # "Chunk" \/ c.stopping => c.event = c.marker

Recorded(c) == Whole(c) /\ "stopping" \in DOMAIN c
Orderly(c) == Marked(LogAfter(c.out)) /\ Unheard(c.plans, LogAfter(c.out))
\* Between the members' calls; and while completeSpan moves the span on.
Telling(c) == Recorded(c) /\ Orderly(c) /\ (Active(c) => Fired(c, LogAfter(c.out)))
Tallied(c) == Telling(c) /\ (Active(c) => Abreast(c))

\* What the cursors stand for is not touched, or is dropped.
Spares(c, d) ==
    /\ DOMAIN d = DOMAIN c /\ d.out = c.out
    /\ d.plans = c.plans \/ d.plans = <<>>
    /\ \/ ~Active(d)
       \/ /\ d.active = c.active /\ d.stopping = c.stopping
          /\ d.span = c.span /\ d.event = c.event /\ d.marker = c.marker

LEMMA NothingUnheard == \A l : Unheard(<<>>, l)
<1>1. <<>> \in Seq(Items) /\ DOMAIN <<>> = {}
  OBVIOUS
<1> QED
  BY <1>1 DEF Unheard, PlansInOrder, PlanIds, Range

LEMMA SparesTally == \A c, d : Spares(c, d) =>
    (Telling(c) => Telling(d)) /\ (Tallied(c) => Tallied(d))
  BY NothingUnheard
     DEF Spares, Telling, Tallied, Recorded, Whole, Orderly, Fired, Abreast, Active

\* Events that say nothing of markers, spindle and branches.
Beside(e) == e.type \notin {"ChunkAccepted", "ExecutionMarkerReached", "SpindleApplied",
                            "BranchSelected"}

LEMMA NoticedBeside == \A l, e, m : Marked(l) /\ Beside(e) /\ Noticed(l, e, m) =>
    /\ m.accepted = l.accepted /\ m.markers = l.markers
    /\ m.applied = l.applied /\ m.branched = l.branched /\ Marked(m)
  BY DEF Noticed, Beside, Marked

LEMMA EmitFields == ASSUME NEW c, NEW e, Recorded(c)
    PROVE  LET d == Emit(c, e)
           IN  /\ Recorded(d) /\ d.out = Append(c.out, e) /\ DOMAIN d = DOMAIN c
               /\ d.active = c.active /\ d.plans = c.plans /\ d.stopping = c.stopping
               /\ d.span = c.span /\ d.event = c.event /\ d.marker = c.marker
               /\ d.state = c.state /\ d.feed = c.feed
<1>1. IsSequence(Append(c.out, e))
  BY AppendEvent DEF Recorded, Whole
<1> QED
  BY <1>1 DEF Emit, Recorded, Whole, CoreFields

LEMMA EmitLog == ASSUME NEW c, NEW e, Recorded(c), Marked(LogAfter(c.out))
    PROVE  Noticed(LogAfter(c.out), e, LogAfter(Emit(c, e).out))
<1>1. IsSequence(c.out) /\ LogFields \subseteq DOMAIN LogAfter(c.out)
  BY DEF Recorded, Whole, Marked
<1>2. Noticed(LogAfter(c.out), e, LogAfter(Append(c.out, e)))
  BY <1>1, LogEmit
<1> QED
  BY <1>2, EmitFields

LEMMA EmitBeside == \A c, e : Beside(e) =>
    /\ Recorded(c) /\ Orderly(c) => Recorded(Emit(c, e)) /\ Orderly(Emit(c, e))
    /\ Telling(c) => Telling(Emit(c, e))
    /\ Tallied(c) => Tallied(Emit(c, e))
<1> SUFFICES ASSUME NEW c, NEW e, Beside(e), Recorded(c), Orderly(c)
             PROVE  /\ Recorded(Emit(c, e)) /\ Orderly(Emit(c, e))
                    /\ Telling(c) => Telling(Emit(c, e))
                    /\ Tallied(c) => Tallied(Emit(c, e))
  BY DEF Telling, Tallied
<1> DEFINE d == Emit(c, e)
           l == LogAfter(c.out)
           m == LogAfter(d.out)
<1>1. /\ m.accepted = l.accepted /\ m.markers = l.markers
      /\ m.applied = l.applied /\ m.branched = l.branched /\ Marked(m)
  BY EmitLog, NoticedBeside DEF Orderly
<1>2. /\ Recorded(d) /\ d.active = c.active /\ d.plans = c.plans /\ d.stopping = c.stopping
      /\ d.span = c.span /\ d.event = c.event /\ d.marker = c.marker
  BY EmitFields
<1> HIDE DEF d
<1> QED
  BY <1>1, <1>2 DEF Orderly, Unheard, Telling, Tallied, Fired, Abreast, Active, d

\* Setting fields that say nothing of items, cursors or events.
LEMMA SparesUpdates == \A c, x, y : Recorded(c) =>
    /\ Spares(c, c) /\ Spares(c, [c EXCEPT !.moving = x]) /\ Spares(c, [c EXCEPT !.jog = x])
    /\ Spares(c, [c EXCEPT !.state = x]) /\ Spares(c, [c EXCEPT !.feed = x])
    /\ Spares(c, [c EXCEPT !.triggered = x]) /\ Spares(c, [c EXCEPT !.planStop = x])
    /\ Spares(c, [c EXCEPT !.accepted = x]) /\ Spares(c, [c EXCEPT !.touched = x])
    /\ Spares(c, [c EXCEPT !.tailFault = x]) /\ Spares(c, [c EXCEPT !.jog.lease = x])
    /\ Spares(c, [c EXCEPT !.jog.reason = x])
    /\ Spares(c, [c EXCEPT !.jog.stopping = x, !.jog.reason = y])
    /\ Spares(c, [c EXCEPT !.state = x, !.jog = y])
    /\ Spares(c, [c EXCEPT !.state = x, !.safeOutputs = y])
    /\ Spares(c, [c EXCEPT !.feed = x, !.state = y])
    /\ Spares(c, [c EXCEPT !.joints = x, !.touched = y])
    /\ Spares(c, [c EXCEPT !.aborted = x, !.joints = y])
    /\ Spares(c, [c EXCEPT !.touched = x, !.aborted = y,
                            !.joints = [j \in Joints |-> "Approach"]])
  BY DEF Spares, Recorded, Whole, CoreFields

LEMMA Dropped == \A c, d :
    /\ Recorded(c) /\ Orderly(c) /\ DOMAIN d = DOMAIN c /\ d.out = c.out /\ ~Active(d)
    /\ d.plans = c.plans \/ d.plans = <<>>
    => Tallied(d)
  BY NothingUnheard DEF Recorded, Whole, Orderly, Telling, Tallied

LEMMA DiscardTallied == ASSUME NEW c, Recorded(c), Orderly(c) PROVE Tallied(DiscardExecution(c))
<1> DEFINE d == DiscardExecution(c)
<1>1. DOMAIN d = DOMAIN c /\ d.out = c.out /\ ~Active(d) /\ d.plans = <<>>
  BY DEF DiscardExecution, ResetFeedRetiming, FreshRuntimes, Recorded, Whole, CoreFields, Active
<1> HIDE DEF d
<1> QED
  BY <1>1, Dropped DEF d

LEMMA TalliedIs == \A c : /\ Tallied(c) => Telling(c) /\ Recorded(c) /\ Orderly(c)
                          /\ Telling(c) => Recorded(c) /\ Orderly(c)
                          /\ Telling(c) /\ ~Active(c) => Tallied(c)
  BY DEF Tallied, Telling

LEMMA BesideEvents == \A type, id, info :
    type \in {"BackendHeld", "BackendFault", "JogStopped", "ChunkRetired", "ChunkRejected",
              "TriggeredMoveCompleted", "RequestCompleted"}
    => Beside(Event(type, id, info))
  BY DEF Beside, Event

LEMMA FaultTallied == \A c, code : /\ Telling(c) => Telling(Fault(c, code))
                                   /\ Tallied(c) => Tallied(Fault(c, code))
<1> SUFFICES ASSUME NEW c, NEW code, Telling(c)
             PROVE  Telling(Fault(c, code)) /\ (Tallied(c) => Tallied(Fault(c, code)))
  BY TalliedIs
<1> DEFINE d == [c EXCEPT !.state = "Faulted", !.fault = code, !.safeOutputs = TRUE,
                          !.spindle = "Safe", !.faultReported = TRUE]
<1>1. Spares(c, d)
  BY DEF Telling, Spares, Recorded, Whole, CoreFields
<1>2. Telling(d) /\ (Tallied(c) => Tallied(d))
  BY <1>1, SparesTally
<1> HIDE DEF d
<1>3. Beside(Event("BackendFault", 0, code))
  BY BesideEvents
<1>4. Telling(Emit(d, Event("BackendFault", 0, code)))
      /\ (Tallied(c) => Tallied(Emit(d, Event("BackendFault", 0, code))))
  BY <1>2, <1>3, EmitBeside
<1> QED
  BY <1>2, <1>4 DEF Fault, d

LEMMA JogStoppedTallied == \A c, reason : Tallied(c) => Tallied(JogStopped(c, reason))
  BY BesideEvents, EmitBeside DEF JogStopped

LEMMA JogEndsTallied == ASSUME NEW c, Tallied(c)
    PROVE  Tallied(JogFaulted(c)) /\ Tallied(CompleteJog(c))
<1>1. \A reason : Tallied(JogStopped(c, reason)) /\ Recorded(JogStopped(c, reason))
  BY JogStoppedTallied, TalliedIs
<1>2. Spares(JogStopped(c, "Fault"), JogFaulted(c))
  BY <1>1, SparesUpdates DEF JogFaulted
<1>3. Spares(JogStopped(c, c.jog.reason), CompleteJog(c))
  BY <1>1, SparesUpdates DEF CompleteJog
<1> QED
  BY <1>1, <1>2, <1>3, SparesTally

LEMMA SoftLimitTallied == ASSUME NEW c, Tallied(c) PROVE Tallied(FaultSoftLimit(c))
<1> DEFINE stopped == IF Jogging(c) THEN JogFaulted(c) ELSE c
<1>1. Tallied(stopped)
  BY JogEndsTallied
<1> HIDE DEF stopped
<1>2. Tallied(Fault(DiscardExecution(stopped), "SoftLimit"))
  BY <1>1, DiscardTallied, TalliedIs, FaultTallied
<1> QED
  BY <1>2 DEF FaultSoftLimit, stopped

LEMMA CommitTallied == \A c, o, m : Tallied(c) => Tallied(Commit(c, o, m))
  BY SoftLimitTallied, SparesUpdates, SparesTally, TalliedIs DEF Commit

LEMMA AbandonJogTallied == ASSUME NEW c, NEW o, NEW r, Tallied(c)
    PROVE  Tallied(AbandonJog(c, o, r))
<1> DEFINE stopped == Commit([c EXCEPT !.jog.reason = r], o, FALSE)
<1>1. Tallied([c EXCEPT !.jog.reason = r])
  BY SparesUpdates, SparesTally, TalliedIs
<1>2. Tallied(stopped)
  BY <1>1, CommitTallied
<1> HIDE DEF stopped
<1>3. Tallied(CompleteJog(stopped))
  BY <1>2, JogEndsTallied
<1> QED
  BY <1>2, <1>3 DEF AbandonJog, stopped

LEMMA BeginJogStopTallied == ASSUME NEW c, NEW o, NEW r, Tallied(c)
    PROVE  Tallied(BeginJogStop(c, o, r))
<1> DEFINE stopping == [c EXCEPT !.jog.stopping = TRUE, !.jog.reason = r]
           standing == Commit(stopping, o, FALSE)
<1>1. Tallied(stopping)
  BY SparesUpdates, SparesTally, TalliedIs
<1> HIDE DEF stopping
<1>2. Tallied(standing)
  BY <1>1, CommitTallied
<1> HIDE DEF standing
<1>3. Tallied(CompleteJog(standing)) /\ Tallied(FaultJog(stopping))
  BY <1>1, <1>2, JogEndsTallied, FaultTallied DEF FaultJog
<1> QED
  BY <1>1, <1>2, <1>3 DEF BeginJogStop, standing, stopping

LEMMA AdvanceJogTallied == ASSUME NEW c, NEW o, Tallied(c) PROVE Tallied(AdvanceJog(c, o))
<1> DEFINE leased == LeaseChecked(c, o)
           ends == o.done /\ (leased.jog.stopping \/ leased.jog.kind # "Continuous")
           moved == Commit(leased, o, ~ends)
           reason == IF moved.jog.stopping THEN moved.jog.reason
                     ELSE IF moved.jog.kind = "Bounded" THEN "LimitReached"
                     ELSE "TargetReached"
<1> DEFINE ticked == [c EXCEPT !.jog.lease = @ - 1]
<1>1. Tallied(ticked)
  <2>1. \A x : Tallied([c EXCEPT !.jog.lease = x])
    BY SparesUpdates, SparesTally, TalliedIs
  <2> QED
    BY <2>1
<1>2. Tallied(leased)
  <2> HIDE DEF ticked
  <2>1. Tallied(BeginJogStop(ticked, o, "LeaseExpired"))
    BY <1>1, BeginJogStopTallied
  <2> QED
    BY <1>1, <2>1 DEF LeaseChecked, ticked
<1> HIDE DEF leased
<1>3. Tallied(moved)
  BY <1>2, CommitTallied
<1> HIDE DEF moved, reason
<1>4. Tallied(CompleteJog([moved EXCEPT !.jog.reason = reason]))
  BY <1>3, SparesUpdates, SparesTally, TalliedIs, JogEndsTallied
<1> QED
  BY <1>2, <1>3, <1>4 DEF AdvanceJog, leased, moved, reason

-----------------------------------------------------------------------------
(* Markers and spindle events are fired.                                   *)

LEMMA MarkerNoticed == ASSUME NEW l, NEW e, NEW m, Marked(l), Noticed(l, e, m),
                              e.id \in Range(l.accepted), e.id \notin l.branched,
                              e.type = "ExecutionMarkerReached", e.info = Count(l.markers, e.id)
    PROVE  /\ Marked(m) /\ m.accepted = l.accepted /\ m.branched = l.branched
           /\ Count(m.markers, e.id) = Count(l.markers, e.id) + 1
           /\ Count(m.applied, e.id) = Count(l.applied, e.id)
<1>1. /\ m.markers = Append(l.markers, <<e.id, e.info>>)
      /\ m.applied = l.applied /\ m.branched = l.branched /\ m.accepted = l.accepted
      /\ LogFields \subseteq DOMAIN m
  BY DEF Noticed
<1>2. /\ IsSequence(m.markers) /\ InSequence(m.markers)
      /\ \A x : Count(l.markers, x) \in Nat
      /\ \A x : Count(m.markers, x) = Count(l.markers, x) + (IF x = e.id THEN 1 ELSE 0)
  <2> DEFINE q == l.markers
             t == Append(q, <<e.id, e.info>>)
  <2>1. IsSequence(q) /\ InSequence(q) /\ e.info = Count(q, e.id)
    BY DEF Marked
  <2> HIDE DEF q
  <2>2. /\ IsSequence(t) /\ InSequence(t) /\ \A x : Count(q, x) \in Nat
        /\ \A x : Count(t, x) = Count(q, x) + (IF x = e.id THEN 1 ELSE 0)
    BY <2>1, CountAppend
  <2> HIDE DEF t
  <2>3. m.markers = t
    BY <1>1 DEF t, q
  <2> QED
    BY <2>2, <2>3 DEF q
<1>3. \A x : x # e.id => Count(m.markers, x) = Count(l.markers, x)
  BY <1>2
<1> QED
  BY <1>1, <1>2, <1>3 DEF Marked

LEMMA SpindleNoticed == ASSUME NEW l, NEW e, NEW m, Marked(l), Noticed(l, e, m),
                               e.id \in Range(l.accepted), e.id \notin l.branched,
                               e.type = "SpindleApplied", e.info = Count(l.applied, e.id)
    PROVE  /\ Marked(m) /\ m.accepted = l.accepted /\ m.branched = l.branched
           /\ Count(m.applied, e.id) = Count(l.applied, e.id) + 1
           /\ Count(m.markers, e.id) = Count(l.markers, e.id)
<1>1. /\ m.applied = Append(l.applied, <<e.id, e.info>>)
      /\ m.markers = l.markers /\ m.branched = l.branched /\ m.accepted = l.accepted
      /\ LogFields \subseteq DOMAIN m
  BY DEF Noticed
<1>2. /\ IsSequence(m.applied) /\ InSequence(m.applied)
      /\ \A x : Count(l.applied, x) \in Nat
      /\ \A x : Count(m.applied, x) = Count(l.applied, x) + (IF x = e.id THEN 1 ELSE 0)
  <2> DEFINE q == l.applied
             t == Append(q, <<e.id, e.info>>)
  <2>1. IsSequence(q) /\ InSequence(q) /\ e.info = Count(q, e.id)
    BY DEF Marked
  <2> HIDE DEF q
  <2>2. /\ IsSequence(t) /\ InSequence(t) /\ \A x : Count(q, x) \in Nat
        /\ \A x : Count(t, x) = Count(q, x) + (IF x = e.id THEN 1 ELSE 0)
    BY <2>1, CountAppend
  <2> HIDE DEF t
  <2>3. m.applied = t
    BY <1>1 DEF t, q
  <2> QED
    BY <2>2, <2>3 DEF q
<1>3. \A x : x # e.id => Count(m.applied, x) = Count(l.applied, x)
  BY <1>2
<1> QED
  BY <1>1, <1>2, <1>3 DEF Marked

\* A chunk fires its next marker, or its next spindle event.
Firing(c) == Telling(c) /\ Active(c) /\ ~c.stopping
MarkerFired(c) == Emit([c EXCEPT !.marker = @ + 1],
                       Event("ExecutionMarkerReached", c.active.id, c.marker))
SpindleFired(c) == Emit([c EXCEPT !.spindle = "Commanded", !.event = @ + 1],
                        Event("SpindleApplied", c.active.id, c.event))

LEMMA MarkerTold == ASSUME NEW c, Firing(c)
    PROVE  LET d == MarkerFired(c)
           IN  /\ Firing(d) /\ d.active = c.active /\ d.span = c.span /\ d.event = c.event
               /\ d.marker = c.marker + 1 /\ d.plans = c.plans /\ d.state = c.state
               /\ d.feed = c.feed
<1> DEFINE d == MarkerFired(c)
           b == [c EXCEPT !.marker = @ + 1]
           e == Event("ExecutionMarkerReached", c.active.id, c.marker)
           l == LogAfter(c.out)
           m == LogAfter(d.out)
<1>1. /\ Recorded(b) /\ b.out = c.out /\ b.marker = c.marker + 1
      /\ b.active = c.active /\ b.plans = c.plans /\ b.stopping = c.stopping
      /\ b.span = c.span /\ b.event = c.event /\ b.state = c.state /\ b.feed = c.feed
  BY DEF Firing, Telling, Recorded, Whole, CoreFields
<1>2. d = Emit(b, e)
  BY DEF MarkerFired
<1>3. /\ e.type = "ExecutionMarkerReached" /\ e.id = c.active.id /\ e.info = c.marker
  BY DEF Event
<1> HIDE DEF b, d, e
<1>4. /\ Recorded(d) /\ d.active = c.active /\ d.plans = c.plans /\ d.stopping = c.stopping
      /\ d.span = c.span /\ d.event = c.event /\ d.marker = c.marker + 1 /\ d.state = c.state
      /\ d.feed = c.feed
  BY <1>1, <1>2, EmitFields
<1>5. Noticed(l, e, m) /\ Marked(l) /\ Fired(c, l) /\ Unheard(c.plans, l)
  BY <1>1, <1>2, EmitLog DEF Firing, Telling, Orderly
<1> HIDE DEF l, m
<1>6. /\ Marked(m) /\ m.accepted = l.accepted /\ m.branched = l.branched
      /\ Count(m.markers, e.id) = Count(l.markers, e.id) + 1
      /\ Count(m.applied, e.id) = Count(l.applied, e.id)
  BY <1>3, <1>5, MarkerNoticed DEF Fired, Firing
<1> QED
  BY <1>3, <1>4, <1>5, <1>6 DEF Firing, Telling, Orderly, Unheard, Fired, Active, d, l, m

LEMMA SpindleTold == ASSUME NEW c, Firing(c)
    PROVE  LET d == SpindleFired(c)
           IN  /\ Firing(d) /\ d.active = c.active /\ d.span = c.span
               /\ d.event = c.event + 1 /\ d.marker = c.marker /\ d.plans = c.plans
<1> DEFINE d == SpindleFired(c)
           b == [c EXCEPT !.spindle = "Commanded", !.event = @ + 1]
           e == Event("SpindleApplied", c.active.id, c.event)
           l == LogAfter(c.out)
           m == LogAfter(d.out)
<1>1. /\ Recorded(b) /\ b.out = c.out /\ b.marker = c.marker
      /\ b.active = c.active /\ b.plans = c.plans /\ b.stopping = c.stopping
      /\ b.span = c.span /\ b.event = c.event + 1
  BY DEF Firing, Telling, Recorded, Whole, CoreFields
<1>2. d = Emit(b, e)
  BY DEF SpindleFired
<1>3. /\ e.type = "SpindleApplied" /\ e.id = c.active.id /\ e.info = c.event
  BY DEF Event
<1> HIDE DEF b, d, e
<1>4. /\ Recorded(d) /\ d.active = c.active /\ d.plans = c.plans /\ d.stopping = c.stopping
      /\ d.span = c.span /\ d.event = c.event + 1 /\ d.marker = c.marker
  BY <1>1, <1>2, EmitFields
<1>5. Noticed(l, e, m) /\ Marked(l) /\ Fired(c, l) /\ Unheard(c.plans, l)
  BY <1>1, <1>2, EmitLog DEF Firing, Telling, Orderly
<1> HIDE DEF l, m
<1>6. /\ Marked(m) /\ m.accepted = l.accepted /\ m.branched = l.branched
      /\ Count(m.applied, e.id) = Count(l.applied, e.id) + 1
      /\ Count(m.markers, e.id) = Count(l.markers, e.id)
  BY <1>3, <1>5, SpindleNoticed DEF Fired, Firing
<1> QED
  BY <1>3, <1>4, <1>5, <1>6 DEF Firing, Telling, Orderly, Unheard, Fired, Active, d, l, m

\* A span begins: neither its spindle event nor its marker is fired.
Beginning(c) == /\ Firing(c) /\ c.active.kind = "Chunk"
                /\ c.span \in Nat /\ c.event = c.span /\ c.marker = c.span

\* What the emission of markers leaves of a chunk, and that no marker of a span is skipped.
LEMMA MarkersTallied ==
    ASSUME NEW c, NEW reached, Tallied(c), Active(c), c.active.kind = "Chunk"
    PROVE  LET d == EmitExecutionMarkersThrough(c, reached)
           IN  /\ Tallied(d) /\ d.active = c.active /\ d.stopping = c.stopping
               /\ d.span = c.span /\ d.state = c.state /\ d.feed = c.feed
               /\ (reached /\ ~c.stopping => d.event = d.marker)
<1> DEFINE d == EmitExecutionMarkersThrough(c, reached)
<1>1. ~c.stopping => c.span \in Nat /\ c.event = c.span + 1 /\ c.marker \in {c.span, c.span + 1}
  BY DEF Tallied, Abreast
<1>2. CASE c.stopping \/ c.marker > c.span \/ ~reached
  <2>1. d = c
    BY <1>1, <1>2 DEF EmitExecutionMarkersThrough
  <2> QED
    BY <1>1, <1>2, <2>1
<1>3. CASE ~c.stopping /\ ~(c.marker > c.span) /\ reached
  <2>1. c.marker = c.span /\ d = MarkerFired(c)
    BY <1>1, <1>3 DEF EmitExecutionMarkersThrough, MarkerFired
  <2>2. Firing(c)
    BY <1>3 DEF Firing, Tallied
  <2> HIDE DEF d
  <2>3. /\ Firing(d) /\ d.active = c.active /\ d.span = c.span /\ d.event = c.event
        /\ d.marker = c.marker + 1 /\ d.state = c.state /\ d.feed = c.feed
    BY <2>1, <2>2, MarkerTold
  <2>4. Tallied(d) /\ d.event = d.marker
    BY <1>1, <1>3, <2>1, <2>3 DEF Firing, Tallied, Abreast
  <2>5. d.stopping = c.stopping
    BY <2>1, <2>2 DEF MarkerFired, Emit, Firing, Telling, Recorded, Whole, CoreFields
  <2> QED
    BY <2>3, <2>4, <2>5 DEF d
<1> QED
  BY <1>2, <1>3

LEMMA BeginSpanTallied == ASSUME NEW c, NEW o, Beginning(c) PROVE Tallied(BeginSpan(c, o))
<1> DEFINE applied == ApplyScheduledEventsForCurrentSpan(c)
<1>1. applied = SpindleFired(c) /\ Firing(c)
  BY DEF Beginning, Firing, ApplyScheduledEventsForCurrentSpan, SpindleFired
<1> HIDE DEF applied
<1>2. /\ Firing(applied) /\ applied.active = c.active /\ applied.span = c.span
      /\ applied.event = c.event + 1 /\ applied.marker = c.marker
  BY <1>1, SpindleTold
<1>3. Tallied(applied) /\ Active(applied) /\ applied.active.kind = "Chunk"
  BY <1>2 DEF Firing, Tallied, Abreast, Beginning
<1> QED
  BY <1>3, MarkersTallied DEF BeginSpan, applied

-----------------------------------------------------------------------------
(* Items are accepted, and branch.                                         *)

\* An item that was not accepted, and does not wait any more.
Unused(item, c) == /\ item \in Items /\ item.id # 0 /\ item.id \notin PlanIds(c.plans)
                   /\ item.id \notin Range(LogAfter(c.out).accepted)

LEMMA UnusedOn == \A c, d, item : d.plans = c.plans /\ d.out = c.out /\ Unused(item, c)
                                  => Unused(item, d)
  BY DEF Unused

LEMMA EmitUnused == ASSUME NEW c, NEW e, NEW item, Recorded(c), Marked(LogAfter(c.out)),
                           e.type # "ChunkAccepted", Unused(item, c)
    PROVE  Unused(item, Emit(c, e))
<1>1. LogAfter(Emit(c, e).out).accepted = LogAfter(c.out).accepted
  BY EmitLog DEF Noticed
<1>2. Emit(c, e).plans = c.plans
  BY EmitFields
<1> QED
  BY <1>1, <1>2 DEF Unused

\* The head of the queue is taken.
LEMMA PoppedTells == ASSUME NEW c, Recorded(c), Orderly(c), c.plans # <<>>
    PROVE  LET d == [c EXCEPT !.plans = Tail(@)]
           IN  /\ Recorded(d) /\ Orderly(d) /\ Unused(Head(c.plans), d)
               /\ Head(c.plans).kind \in ItemKinds
               /\ d.active = c.active /\ d.stopping = c.stopping /\ d.feed = c.feed
               /\ d.event = c.event /\ d.marker = c.marker /\ d.out = c.out
               /\ Telling(c) => Telling(d)
<1> DEFINE d == [c EXCEPT !.plans = Tail(@)]
           l == LogAfter(c.out)
<1>1. /\ Recorded(d) /\ d.plans = Tail(c.plans) /\ d.out = c.out
      /\ d.active = c.active /\ d.stopping = c.stopping /\ d.feed = c.feed
      /\ d.event = c.event /\ d.marker = c.marker
  BY DEF Recorded, Whole, CoreFields
<1> HIDE DEF d
<1>2. c.plans \in Seq(Items) /\ PlansInOrder(c.plans) /\ Marked(l)
      /\ \A x \in PlanIds(c.plans) : x # 0 /\ x \notin Range(l.accepted)
  BY DEF Orderly, Unheard
<1>3. /\ Head(c.plans) \in Items /\ Tail(c.plans) \in Seq(Items)
      /\ PlanIds(c.plans) = {Head(c.plans).id} \union PlanIds(Tail(c.plans))
      /\ PlansInOrder(Tail(c.plans)) /\ Before({Head(c.plans).id}, PlanIds(Tail(c.plans)))
  BY <1>2, TakeHead
<1>4. Head(c.plans).id \notin PlanIds(Tail(c.plans))
  <2>1. Head(c.plans).id \in Int
    BY <1>3 DEF Items
  <2> QED
    BY <1>3, <2>1 DEF Before
<1>5. Orderly(d) /\ Unused(Head(c.plans), d)
  BY <1>1, <1>2, <1>3, <1>4 DEF Orderly, Unheard, Unused
<1>6. Head(c.plans).kind \in ItemKinds
  BY <1>3 DEF Items
<1>7. Telling(c) => Telling(d)
  BY <1>1, <1>5 DEF Telling, Fired, Active
<1> QED
  BY <1>1, <1>5, <1>6, <1>7 DEF d

LEMMA AcceptNoticed == ASSUME NEW l, NEW e, NEW m, Marked(l), Noticed(l, e, m),
                              e.type = "ChunkAccepted", e.id \in Int,
                              e.id \notin Range(l.accepted)
    PROVE  /\ Marked(m) /\ Range(m.accepted) = Range(l.accepted) \union {e.id}
           /\ Count(m.markers, e.id) = 0 /\ Count(m.applied, e.id) = 0
           /\ e.id \notin m.branched
<1>1. /\ m.markers = l.markers /\ m.applied = l.applied /\ m.branched = l.branched
      /\ m.accepted = Append(l.accepted, e.id) /\ LogFields \subseteq DOMAIN m
  BY DEF Noticed
<1>2. m.accepted \in Seq(Int) /\ Range(m.accepted) = Range(l.accepted) \union {e.id}
  BY <1>1, AppendId DEF Marked
<1> QED
  BY <1>1, <1>2 DEF Marked

LEMMA TriggeredTallied == ASSUME NEW c, NEW o, Tallied(c)
    PROVE  Tallied(InitializeTriggered(c, o)) /\ Tallied(InitializeTriggeredJoints(c, o))
<1>1. Tallied(Fault(c, "InvalidExecutionState"))
  BY FaultTallied
<1>2. Recorded(c)
  BY TalliedIs
<1>3. \A x : Spares(c, [c EXCEPT !.triggered = x])
  BY <1>2, SparesUpdates
<1>4. \A x : Spares(c, [c EXCEPT !.touched = {}, !.aborted = FALSE, !.joints = x])
  BY <1>2 DEF Spares, Recorded, Whole, CoreFields
<1>5. Tallied(InitializeTriggered(c, o))
  BY <1>1, <1>3, SparesTally DEF InitializeTriggered
<1>6. Tallied(InitializeTriggeredJoints(c, o))
  BY <1>1, <1>4, SparesTally DEF InitializeTriggeredJoints
<1> QED
  BY <1>5, <1>6

LEMMA AcceptTallied == ASSUME NEW c, NEW o, NEW item, Recorded(c), Orderly(c), Unused(item, c)
                       PROVE  Tallied(Accept(c, o, item))
<1> DEFINE b == [c EXCEPT !.active = item, !.stopping = FALSE, !.span = 0, !.event = 0,
                          !.marker = 0]
           e == Event("ChunkAccepted", item.id, item.epoch)
           d == Emit(b, e)
           l == LogAfter(c.out)
           m == LogAfter(d.out)
<1>1. /\ Recorded(b) /\ b.out = c.out /\ b.plans = c.plans /\ b.active = item
      /\ b.stopping = FALSE /\ b.span = 0 /\ b.event = 0 /\ b.marker = 0
  BY DEF Recorded, Whole, CoreFields
<1>2. e.type = "ChunkAccepted" /\ e.id = item.id
  BY DEF Event
<1> HIDE DEF b, e
<1>3. /\ Recorded(d) /\ d.plans = c.plans /\ d.active = item
      /\ d.stopping = FALSE /\ d.span = 0 /\ d.event = 0 /\ d.marker = 0
  BY <1>1, EmitFields
<1>4. Noticed(l, e, m) /\ Marked(l) /\ Unheard(c.plans, l)
  BY <1>1, EmitLog DEF Orderly
<1> HIDE DEF d
<1>5. item.id \notin Range(l.accepted) /\ item \in Items /\ item.id # 0
      /\ item.id \notin PlanIds(c.plans) /\ item.id \in Int
  BY DEF Unused, Items
<1> HIDE DEF l, m
<1>6. /\ Marked(m) /\ Range(m.accepted) = Range(l.accepted) \union {item.id}
      /\ Count(m.markers, item.id) = 0 /\ Count(m.applied, item.id) = 0
      /\ item.id \notin m.branched
  BY <1>2, <1>4, <1>5, AcceptNoticed
<1>7. Unheard(d.plans, m)
  BY <1>3, <1>4, <1>5, <1>6 DEF Unheard
<1>8. Firing(d)
  <2>1. Active(d)
    BY <1>3, <1>5 DEF Active, NoItem
  <2> QED
    BY <1>3, <1>5, <1>6, <1>7, <2>1 DEF Firing, Telling, Orderly, Fired, m
<1>9. item.kind \in ItemKinds
  BY <1>5 DEF Items
<1>10. CASE item.kind = "Chunk"
  <2>1. Beginning(d)
    BY <1>3, <1>8, <1>10 DEF Beginning
  <2>2. Accept(c, o, item) = BeginSpan(d, o)
    BY <1>10 DEF Accept, d, b, e
  <2> QED
    BY <2>1, <2>2, BeginSpanTallied
<1>11. CASE item.kind # "Chunk"
  <2>1. Tallied(d)
    BY <1>3, <1>8, <1>11 DEF Firing, Tallied, Abreast
  <2>2. \/ Accept(c, o, item) = InitializeTriggered(d, o)
        \/ Accept(c, o, item) = InitializeTriggeredJoints(d, o)
    BY <1>9, <1>11 DEF Accept, ItemKinds, d, b, e
  <2> QED
    BY <2>1, <2>2, TriggeredTallied
<1> QED
  BY <1>10, <1>11

LEMMA ActivateNextTallied == \A c, o : Tallied(c) => Tallied(ActivateNext(c, o))
<1> SUFFICES ASSUME NEW c, NEW o, Tallied(c), c.plans # <<>>
             PROVE  Tallied(ActivateNext(c, o))
  BY DEF ActivateNext
<1> DEFINE item == Head(c.plans)
           popped == [c EXCEPT !.plans = Tail(@)]
           fresh == FreshRuntimes(popped)
<1>1. Recorded(popped) /\ Orderly(popped) /\ Unused(item, popped) /\ Telling(popped)
      /\ popped.active = c.active /\ popped.stopping = c.stopping
      /\ popped.event = c.event /\ popped.marker = c.marker /\ popped.span = c.span
  BY PoppedTells, TalliedIs DEF Recorded, Whole, CoreFields
<1>2. Tallied(popped)
  BY <1>1 DEF Tallied, Abreast, Active
<1> HIDE DEF popped, item
<1>3. Tallied(Reject(popped, item))
  BY <1>2, BesideEvents, EmitBeside DEF Reject
<1>4. Tallied(Fault(Reject(popped, item), "PlanStartDiscontinuity"))
  BY <1>3, FaultTallied
<1>5. Recorded(fresh) /\ fresh.out = popped.out /\ fresh.plans = popped.plans
  BY <1>1 DEF FreshRuntimes, Recorded, Whole, CoreFields
<1> HIDE DEF fresh
<1>6. Orderly(fresh) /\ Unused(item, fresh)
  BY <1>1, <1>5, UnusedOn DEF Orderly
<1>7. Tallied(Accept(fresh, o, item))
  BY <1>5, <1>6, AcceptTallied
<1> QED
  BY <1>3, <1>4, <1>7 DEF ActivateNext, popped, item, fresh

\* The active item branches, having fired as many markers as spindle events.
LEMMA BranchNoticed == ASSUME NEW l, NEW e, NEW m, Marked(l), Noticed(l, e, m),
                              e.type = "BranchSelected", e.id \in Range(l.accepted),
                              Count(l.markers, e.id) = Count(l.applied, e.id)
    PROVE  /\ Marked(m) /\ m.accepted = l.accepted
           /\ m.markers = l.markers /\ m.applied = l.applied
  BY DEF Marked, Noticed

LEMMA BranchTold == ASSUME NEW c, Telling(c), Active(c), c.event = c.marker, NEW choice
    PROVE  LET d == Emit(c, Event("BranchSelected", c.active.id, choice))
           IN  /\ Recorded(d) /\ Orderly(d) /\ DOMAIN d = DOMAIN c
               /\ d.active = c.active /\ d.plans = c.plans
               /\ \A x : Unused(x, c) => Unused(x, d)
               /\ Tallied([d EXCEPT !.stopping = TRUE, !.span = 0])
<1> DEFINE e == Event("BranchSelected", c.active.id, choice)
           d == Emit(c, e)
           l == LogAfter(c.out)
           m == LogAfter(d.out)
           s == [d EXCEPT !.stopping = TRUE, !.span = 0]
<1>1. e.type = "BranchSelected" /\ e.id = c.active.id
  BY DEF Event
<1>2. Recorded(c) /\ Marked(l) /\ Unheard(c.plans, l) /\ Fired(c, l)
  BY DEF Telling, Orderly
<1> HIDE DEF e
<1>3. /\ Recorded(d) /\ d.active = c.active /\ d.plans = c.plans /\ DOMAIN d = DOMAIN c
      /\ d.event = c.event /\ d.marker = c.marker
  BY <1>2, EmitFields
<1>4. Noticed(l, e, m)
  BY <1>2, EmitLog
<1>5. \A x : Unused(x, c) => Unused(x, d)
  BY <1>1, <1>2, EmitUnused
<1> HIDE DEF d
<1>6. /\ Recorded(s) /\ s.out = d.out /\ s.active = d.active /\ s.plans = d.plans
      /\ s.stopping = TRUE /\ s.event = d.event /\ s.marker = d.marker
  BY <1>3 DEF Recorded, Whole, CoreFields
<1> HIDE DEF l, m, s
<1>7. Marked(m) /\ m.accepted = l.accepted /\ m.markers = l.markers /\ m.applied = l.applied
  BY <1>1, <1>2, <1>4, BranchNoticed DEF Fired
<1>8. Orderly(d)
  BY <1>2, <1>3, <1>7 DEF Orderly, Unheard, m
<1>9. Tallied(s)
  <2>1. Orderly(s)
    BY <1>6, <1>8 DEF Orderly
  <2>2. Fired(s, m) /\ LogAfter(s.out) = m
    BY <1>2, <1>3, <1>6, <1>7 DEF Fired, m
  <2> QED
    BY <1>3, <1>6, <2>1, <2>2 DEF Tallied, Telling, Abreast
<1> QED
  BY <1>3, <1>5, <1>8, <1>9 DEF d, e, s

LEMMA FinishFeedHoldTallied == ASSUME NEW c, Tallied(c) PROVE Tallied(FinishFeedHold(c))
<1> DEFINE d == [c EXCEPT !.feed = "Held", !.state = "Held", !.moving = FALSE]
<1>1. Spares(c, d)
  BY TalliedIs DEF Spares, Recorded, Whole, CoreFields
<1>2. Tallied(d)
  BY <1>1, SparesTally
<1> HIDE DEF d
<1> QED
  BY <1>2, BesideEvents, EmitBeside DEF FinishFeedHold, BackendHeld, d

\* A span has ended, and no other follows: the cursors are abreast of each other.
Branching(c) == Telling(c) /\ Active(c) /\ ~c.stopping /\ c.event = c.marker

LEMMA SelectTallied == ASSUME NEW c, NEW o, Branching(c)
    PROVE  Tallied(SelectContinuationOrStop(c, o))
<1> DEFINE current == c.active
           next == Head(c.plans)
           popped == [c EXCEPT !.plans = Tail(@)]
           continues == /\ next.epoch = current.epoch
                        /\ next.predecessor = current.id
                        /\ ~(next.kind = "Chunk" /\ o.trouble = "Join")
           selected(choice) == Event("BranchSelected", current.id, choice)
           ending ==
               IF c.plans # <<>>
               THEN [Reject(popped, next) EXCEPT !.tailFault = "Discontinuity"]
               ELSE IF current.policy = "ContinuationRequired"
               THEN [c EXCEPT !.tailFault = "Underrun"] ELSE c
<1>1. Recorded(c) /\ Orderly(c) /\ Telling(c) /\ Active(c)
  BY TalliedIs DEF Branching
<1>2. ASSUME c.plans # <<>>
      PROVE  /\ Branching(popped) /\ popped.active = current /\ Unused(next, popped)
             /\ Recorded(Reject(popped, next)) /\ Branching(Reject(popped, next))
             /\ Reject(popped, next).active = current
  <2>1. /\ Recorded(popped) /\ Unused(next, popped) /\ Telling(popped)
        /\ popped.active = c.active /\ popped.stopping = c.stopping
        /\ popped.event = c.event /\ popped.marker = c.marker
    BY <1>1, <1>2, PoppedTells
  <2> HIDE DEF popped, next
  <2>2. Branching(popped)
    BY <1>1, <2>1 DEF Branching, Active
  <2>3. Telling(Reject(popped, next))
    BY <2>1, BesideEvents, EmitBeside DEF Reject
  <2>4. /\ Recorded(Reject(popped, next)) /\ Reject(popped, next).active = popped.active
        /\ Reject(popped, next).stopping = popped.stopping
        /\ Reject(popped, next).event = popped.event
        /\ Reject(popped, next).marker = popped.marker
    BY <2>1, EmitFields DEF Reject
  <2>5. Branching(Reject(popped, next))
    BY <2>2, <2>3, <2>4 DEF Branching, Active
  <2> QED
    BY <2>1, <2>2, <2>4, <2>5
<1> HIDE DEF popped, next
<1>3. CASE c.plans # <<>> /\ continues
  <2> DEFINE told == Emit(popped, selected("Continue"))
             retired == Retire(told, current)
  <2>1. Recorded(told) /\ Orderly(told) /\ Unused(next, told)
    BY <1>2, <1>3, BranchTold DEF Branching
  <2> HIDE DEF told
  <2>2. Beside(Event("ChunkRetired", current.id, current.epoch))
    BY BesideEvents
  <2>3. Recorded(retired) /\ Orderly(retired)
    BY <2>1, <2>2, EmitBeside DEF Retire
  <2>4. Unused(next, retired)
    BY <2>1, <2>2, EmitUnused DEF Retire, Orderly, Beside
  <2> HIDE DEF retired
  <2>5. Tallied(Accept(retired, o, next))
    BY <2>3, <2>4, AcceptTallied
  <2> QED
    BY <1>3, <2>5 DEF SelectContinuationOrStop, retired, told, popped, next
<1>4. CASE ~(c.plans # <<>> /\ continues)
  <2>1. Branching(ending) /\ ending.active = current
    <3>1. ASSUME NEW b, NEW x, Branching(b)
          PROVE  /\ Branching([b EXCEPT !.tailFault = x])
                 /\ [b EXCEPT !.tailFault = x].active = b.active
      <4>1. Recorded(b)
        BY <3>1, TalliedIs DEF Branching
      <4>2. Spares(b, [b EXCEPT !.tailFault = x])
        BY <4>1, SparesUpdates
      <4>3. Telling([b EXCEPT !.tailFault = x])
        BY <3>1, <4>2, SparesTally DEF Branching
      <4> QED
        BY <3>1, <4>1, <4>3 DEF Branching, Active, Recorded, Whole, CoreFields
    <3> QED
      BY <1>2, <3>1 DEF Branching
  <2> HIDE DEF ending
  <2>2. Tallied(Fault(DiscardExecution(ending), "FeedRetimingStopBranch"))
    BY <2>1, TalliedIs, DiscardTallied, FaultTallied DEF Branching
  <2>3. Tallied([Emit(ending, selected("Stop")) EXCEPT !.stopping = TRUE, !.span = 0])
    BY <2>1, BranchTold DEF Branching
  <2>4. \/ SelectContinuationOrStop(c, o)
           = Fault(DiscardExecution(ending), "FeedRetimingStopBranch")
        \/ SelectContinuationOrStop(c, o)
           = [Emit(ending, selected("Stop")) EXCEPT !.stopping = TRUE, !.span = 0]
    BY <1>4 DEF SelectContinuationOrStop, ending, popped, next
  <2> QED
    BY <2>2, <2>3, <2>4
<1> QED
  BY <1>3, <1>4

LEMMA HeldDropped == ASSUME NEW c, Recorded(c), Orderly(c), NEW epoch, NEW reason
    PROVE  /\ Tallied([BackendHeld(c, epoch, reason)
                         EXCEPT !.state = "Held", !.active = NoItem])
           /\ Tallied([ResetFeedRetiming(BackendHeld(c, epoch, reason))
                         EXCEPT !.state = "Held", !.active = NoItem])
<1> DEFINE held == BackendHeld(c, epoch, reason)
           d == [held EXCEPT !.state = "Held", !.active = NoItem]
           r == [ResetFeedRetiming(held) EXCEPT !.state = "Held", !.active = NoItem]
<1>1. Recorded(held) /\ Orderly(held)
  BY BesideEvents, EmitBeside DEF BackendHeld
<1> HIDE DEF held
<1>2. /\ DOMAIN d = DOMAIN held /\ d.out = held.out /\ ~Active(d) /\ d.plans = held.plans
      /\ DOMAIN r = DOMAIN held /\ r.out = held.out /\ ~Active(r) /\ r.plans = held.plans
  BY <1>1 DEF Recorded, Whole, CoreFields, Active, ResetFeedRetiming
<1> HIDE DEF d, r
<1>3. Tallied(d) /\ Tallied(r)
  BY <1>1, <1>2, Dropped
<1> QED
  BY <1>3 DEF d, r, held

LEMMA CompleteSpanTallied ==
    ASSUME NEW c, NEW o, Tallied(c), Active(c), c.active.kind = "Chunk",
           ~c.stopping => c.event = c.marker
    PROVE  Tallied(CompleteSpan(c, o))
<1> DEFINE next == [c EXCEPT !.span = @ + 1]
           retired == Retire(next, c.active)
           stopped == [retired EXCEPT !.moving = FALSE]
<1>1. /\ Recorded(next) /\ next.out = c.out /\ next.plans = c.plans /\ next.active = c.active
      /\ next.stopping = c.stopping /\ next.event = c.event /\ next.marker = c.marker
      /\ next.span = c.span + 1
  BY TalliedIs DEF Recorded, Whole, CoreFields
<1> HIDE DEF next
<1>2. Telling(next)
  BY <1>1 DEF Tallied, Telling, Orderly, Fired, Active
<1>3. CASE ~c.stopping
  <2>1. c.span \in Nat /\ c.event = c.span + 1
    BY <1>3 DEF Tallied, Abreast
  <2>2. Beginning(next) /\ Branching(next)
    BY <1>1, <1>2, <1>3, <2>1 DEF Beginning, Branching, Firing, Active
  <2> QED
    BY <1>3, <2>2, BeginSpanTallied, SelectTallied DEF CompleteSpan, next
<1>4. CASE c.stopping
  <2>1. Tallied(next)
    BY <1>1, <1>2, <1>4 DEF Tallied, Abreast, Active
  <2>2. Tallied(retired)
    BY <2>1, BesideEvents, EmitBeside DEF Retire
  <2> HIDE DEF retired
  <2>3. Tallied(stopped)
    BY <2>2, SparesUpdates, SparesTally, TalliedIs
  <2> HIDE DEF stopped
  <2>4. Tallied(Fault(DiscardExecution(stopped), c.tailFault))
    BY <2>3, TalliedIs, DiscardTallied, FaultTallied
  <2>5. Tallied([BackendHeld(stopped, c.active.epoch, "StopBranch")
                   EXCEPT !.state = "Held", !.active = NoItem])
    BY <2>3, TalliedIs, HeldDropped
  <2> QED
    BY <1>4, <2>4, <2>5 DEF CompleteSpan, stopped, retired, next
<1> QED
  BY <1>3, <1>4

LEMMA AdvancePlanTallied == ASSUME NEW c, NEW o, Tallied(c), Active(c), c.active.kind = "Chunk"
    PROVE  Tallied(AdvancePlan(c, o))
<1> DEFINE rated == IF c.feed = "Resuming" /\ o.settled THEN [c EXCEPT !.feed = "None"] ELSE c
           moved == Commit(rated, o, o.moves)
           marked == EmitExecutionMarkersThrough(moved, o.reached \/ o.done)
           advanced == IF o.done THEN CompleteSpan(marked, o) ELSE marked
<1>1. Tallied(rated) /\ rated.active = c.active
  <2>1. Tallied([c EXCEPT !.feed = "None"]) /\ [c EXCEPT !.feed = "None"].active = c.active
    BY SparesUpdates, SparesTally, TalliedIs DEF Recorded, Whole, CoreFields
  <2> QED
    BY <2>1
<1> HIDE DEF rated
<1>2. Tallied(moved)
  BY <1>1, CommitTallied
<1>3. Tallied(Fault(c, "FeedRetiming"))
  BY FaultTallied
<1>4. CASE o.trouble = "Limit"
  BY <1>2, <1>3, <1>4 DEF AdvancePlan, moved, rated
<1>5. CASE o.trouble # "Limit"
  <2>1. moved.active = c.active
    BY <1>1, <1>5, TalliedIs DEF Commit, Recorded, Whole, CoreFields
  <2> HIDE DEF moved
  <2>2. /\ Tallied(marked) /\ marked.active = c.active
        /\ o.done /\ ~marked.stopping => marked.event = marked.marker
    <3>1. Active(moved) /\ moved.active.kind = "Chunk"
      BY <2>1 DEF Active
    <3> QED
      BY ZenonT(60), <1>2, <2>1, <3>1, MarkersTallied
  <2> HIDE DEF marked
  <2>3. Tallied(advanced)
    BY <2>2, CompleteSpanTallied DEF Active
  <2> HIDE DEF advanced
  <2>4. Tallied(FinishFeedHold(advanced))
    BY <2>3, FinishFeedHoldTallied
  <2> QED
    BY <1>3, <1>5, <2>2, <2>3, <2>4 DEF AdvancePlan, advanced, marked, moved, rated
<1> QED
  BY <1>4, <1>5

-----------------------------------------------------------------------------
(* Stops, and moves with a trigger: they fire nothing.                     *)

\* Reports of retirements, however many, say nothing of markers.
LEMMA LogRetirements == ASSUME NEW s, IsSequence(s), LogFields \subseteq DOMAIN LogAfter(s),
                               NEW items \in Seq(Items)
    PROVE  LET r == [i \in 1..Len(items) |->
                        Event("ChunkRetired", items[i].id, items[i].epoch)]
           IN  IsSequence(s \o r) /\ MarkFields(LogAfter(s \o r), LogAfter(s))
<1> DEFINE r == [i \in 1..Len(items) |-> Event("ChunkRetired", items[i].id, items[i].epoch)]
           t == s \o r
           n == Len(s)
           k == Len(items)
<1>1. /\ n \in Nat /\ k \in Nat /\ IsSequence(t) /\ Len(t) = n + k
      /\ \A i \in 1..n : t[i] = s[i]
      /\ \A i \in (n + 1)..(n + k) : t[i].type = "ChunkRetired"
  BY AppendRetirements
<1> HIDE DEF t, r
<1>2. Extends(t, s)
  BY <1>1 DEF Extends
<1>3. PICK f : Follows(f, s)
  BY LogFollows
<1>4. PICK g : Follows(g, t)
  BY <1>1, LogFollows
<1>5. f[n] = g[n]
  BY <1>2, <1>3, <1>4, FollowsAlike
<1>6. MarkFields(LogAfter(s), g[n]) /\ MarkFields(LogAfter(t), g[n + k])
  BY <1>1, <1>3, <1>4, <1>5 DEF Follows
<1> DEFINE Agree == {i \in Nat : i <= k => MarkFields(g[n + i], g[n])}
<1>7. 0 \in Agree
  BY <1>1 DEF MarkFields
<1>8. ASSUME NEW i \in Agree PROVE i + 1 \in Agree
  <2> SUFFICES ASSUME i + 1 <= k PROVE MarkFields(g[n + (i + 1)], g[n])
    OBVIOUS
  <2> DEFINE j == n + (i + 1)
  <2>1. /\ j \in (n + 1)..(n + k) /\ j \in 1..(n + k) /\ j - 1 = n + i
        /\ MarkFields(g[n + i], g[n])
    BY <1>1
  <2> HIDE DEF j
  <2>2. g[j] = Observed(g[n + i], t[j]) /\ t[j].type = "ChunkRetired"
    BY <1>1, <1>4, <2>1 DEF Follows
  <2>3. LogFields \subseteq DOMAIN g[n + i]
    BY <1>6, <2>1 DEF MarkFields
  <2>4. Noticed(g[n + i], t[j], g[j])
    BY <2>2, <2>3, ObservedMarks
  <2>5. MarkFields(g[j], g[n])
    BY <2>1, <2>2, <2>3, <2>4 DEF MarkFields, Noticed
  <2> QED
    BY <2>5 DEF j
<1>9. Agree \in SUBSET Nat
  OBVIOUS
<1> HIDE DEF Agree
<1>10. Agree = Nat
  BY <1>7, <1>8, <1>9, SetInduction
<1>11. MarkFields(g[n + k], g[n])
  BY <1>1, <1>10 DEF Agree
<1> QED
  BY <1>1, <1>6, <1>11 DEF MarkFields, t, r

LEMMA PlanStopTallied == \A c, o : Tallied(c) => /\ Tallied(BeginPlanStop(c, o))
                                                 /\ Tallied(CompletePlanStop(c))
                                                 /\ Tallied(AdvancePlanStop(c, o))
<1>1. ASSUME NEW c, NEW o, Tallied(c) PROVE Tallied(BeginPlanStop(c, o))
  BY <1>1, SparesUpdates, SparesTally, TalliedIs DEF BeginPlanStop
<1>2. ASSUME NEW c, Tallied(c) PROVE Tallied(CompletePlanStop(c))
  <2> DEFINE items == AbandonedItems(c)
             r == [i \in 1..Len(items) |-> Event("ChunkRetired", items[i].id, items[i].epoch)]
             d == [StopEpoch(c) EXCEPT !.active = NoItem, !.plans = <<>>,
                                       !.planStop = "None", !.stopping = FALSE,
                                       !.span = 0, !.event = 0, !.marker = 0,
                                       !.state = "Held", !.out = @ \o r]
  <2>1. Recorded(c) /\ Orderly(c) /\ c.plans \in Seq(Items)
    BY <1>2, TalliedIs DEF Orderly, Unheard
  <2>2. items \in Seq(Items)
    BY <1>2, <2>1, NoItemIsItem DEF AbandonedItems, Tallied, Telling, Fired, Active
  <2> HIDE DEF items
  <2>3. IsSequence(c.out \o r) /\ MarkFields(LogAfter(c.out \o r), LogAfter(c.out))
    BY <2>1, <2>2, LogRetirements DEF Recorded, Whole, Orderly, Marked
  <2> HIDE DEF r
  <2>4. Recorded(d) /\ ~Active(d) /\ d.plans = <<>> /\ d.out = c.out \o r
    BY <2>1, <2>3 DEF Recorded, Whole, CoreFields, StopEpoch, Active
  <2> HIDE DEF d
  <2>5. Tallied(d)
    BY <2>1, <2>3, <2>4, NothingUnheard DEF Tallied, Telling, Orderly, MarkFields, Marked
  <2>6. CompletePlanStop(c) = BackendHeld(d, c.active.epoch, "ControlledStop")
    BY DEF CompletePlanStop, d, r, items
  <2> QED
    BY <2>5, <2>6, BesideEvents, EmitBeside DEF BackendHeld
<1>3. ASSUME NEW c, NEW o, Tallied(c) PROVE Tallied(AdvancePlanStop(c, o))
  BY <1>2, <1>3, CommitTallied DEF AdvancePlanStop
<1> QED
  BY <1>1, <1>2, <1>3

\* A move that is not a chunk has fired neither markers nor spindle events.
LEMMA MoveEndsTallied == ASSUME NEW c, Tallied(c), Active(c), c.active.kind # "Chunk",
                                NEW status, NEW epoch, NEW reason
    PROVE  LET told == Retire(Emit(Emit(c, Event("TriggeredMoveCompleted", c.active.id, status)),
                                   Event("BranchSelected", c.active.id, "Stop")), c.active)
               held == BackendHeld(told, epoch, reason)
           IN  /\ Tallied([held EXCEPT !.state = "Held", !.active = NoItem])
               /\ Tallied([ResetFeedRetiming(held) EXCEPT !.state = "Held", !.active = NoItem])
<1> DEFINE moved == Emit(c, Event("TriggeredMoveCompleted", c.active.id, status))
           branched == Emit(moved, Event("BranchSelected", c.active.id, "Stop"))
           told == Retire(branched, c.active)
<1>1. Tallied(moved)
  BY BesideEvents, EmitBeside
<1>2. moved.active = c.active /\ moved.event = c.event /\ moved.marker = c.marker
  BY TalliedIs, EmitFields
<1> HIDE DEF moved
<1>3. Telling(moved) /\ Active(moved) /\ moved.event = moved.marker
  BY <1>1, <1>2 DEF Tallied, Abreast, Active
<1>4. Recorded(branched) /\ Orderly(branched)
  BY <1>2, <1>3, BranchTold
<1> HIDE DEF branched
<1>5. Recorded(told) /\ Orderly(told)
  BY <1>4, BesideEvents, EmitBeside DEF Retire
<1> HIDE DEF told
<1> QED
  BY <1>5, HeldDropped DEF told, branched, moved

LEMMA CompleteTriggeredTallied == \A c, status :
    Tallied(c) /\ Active(c) /\ c.active.kind # "Chunk" => Tallied(CompleteTriggered(c, status))
  BY MoveEndsTallied DEF CompleteTriggered

LEMMA CommitActive == \A c, o, m :
    Recorded(c) /\ (o.trouble # "Limit" \/ Active(Commit(c, o, m)))
    => Commit(c, o, m).active = c.active
  BY SoftLimitDrops DEF Commit, Recorded, Whole, CoreFields, Drops, NoItemsLeft, Active

LEMMA AdvanceTriggeredTallied ==
    ASSUME NEW c, NEW o, Tallied(c), Active(c), c.active.kind = "Triggered",
           c.triggered \in TriggeredModes
    PROVE  Tallied(AdvanceTriggered(c, o))
<1> DEFINE triggers == o.hits # {} /\ c.triggered \in {"Approach", "HoldStop"}
           armed == IF triggers THEN BeginTriggeredStop(c, "TriggerStop") ELSE c
           stopping == armed.triggered # "Approach"
           finished == o.done \/ (stopping /\ ~c.moving)
           moved == Commit(armed, o, ~finished)
<1>1. Tallied(armed) /\ armed.active = c.active /\ armed.triggered \in TriggeredModes
  <2>1. LET d == [c EXCEPT !.triggered = "TriggerStop"]
        IN  Tallied(d) /\ d.active = c.active /\ d.triggered \in TriggeredModes
    BY SparesUpdates, SparesTally, TalliedIs DEF Recorded, Whole, CoreFields, TriggeredModes
  <2> QED
    BY <2>1 DEF BeginTriggeredStop
<1> HIDE DEF armed, finished
<1>2. Tallied(moved) /\ Tallied(Fault(armed, "InvalidExecutionState"))
  BY <1>1, CommitTallied, FaultTallied
<1>3. o.trouble # "Limit" => moved.active = c.active
  BY <1>1, CommitActive, TalliedIs
<1> HIDE DEF moved
<1>4. ASSUME o.trouble # "Limit"
      PROVE  /\ \A status : Tallied(CompleteTriggered(moved, status))
             /\ Tallied(FinishTriggeredFeedHold(moved))
  <2>1. Active(moved) /\ moved.active.kind # "Chunk"
    BY <1>3, <1>4 DEF Active
  <2>2. Tallied([moved EXCEPT !.triggered = "Approach"])
    BY <1>2, SparesUpdates, SparesTally, TalliedIs
  <2> QED
    BY <1>2, <2>1, <2>2, CompleteTriggeredTallied, FinishFeedHoldTallied
       DEF FinishTriggeredFeedHold
<1> QED
  BY <1>1, <1>2, <1>4 DEF AdvanceTriggered, moved, finished, armed, TriggeredModes

LEMMA CompleteJointsTallied == ASSUME NEW c, Tallied(c), Active(c), c.active.kind # "Chunk"
    PROVE  Tallied(CompleteTriggeredJoints(c))
<1>1. Tallied(Fault(DiscardExecution(c), "TriggerNotReached"))
  BY TalliedIs, DiscardTallied, FaultTallied
<1> QED
  BY ZenonT(60), <1>1, MoveEndsTallied DEF CompleteTriggeredJoints

LEMMA AdvanceJointsTallied ==
    ASSUME NEW c, NEW o, Tallied(c), Active(c), c.active.kind = "Joint"
    PROVE  Tallied(AdvanceTriggeredJoints(c, o))
<1>0. Recorded(c)
  BY TalliedIs
<1>1. \A x : LET d == [c EXCEPT !.touched = x]
             IN  Tallied(d) /\ d.active = c.active
  BY <1>0, SparesUpdates, SparesTally DEF Recorded, Whole, CoreFields
<1>2. \A x, y : LET d == [c EXCEPT !.joints = x, !.touched = y]
                IN  Tallied(d) /\ d.active = c.active
  BY <1>0, SparesUpdates, SparesTally DEF Recorded, Whole, CoreFields
<1>3. Tallied(Fault(c, "InvalidExecutionState"))
  BY FaultTallied
<1>4. Tallied(CheckTriggersAtStart(c, o))
  <2> DEFINE checked == [c EXCEPT !.touched = @ \union o.hits]
  <2>1. Tallied(checked) /\ checked.active = c.active
    BY <1>1
  <2> HIDE DEF checked
  <2>2. Tallied(CompleteTriggeredJoints(checked))
    BY <2>1, CompleteJointsTallied DEF Active
  <2> QED
    BY <1>3, <2>2 DEF CheckTriggersAtStart, checked
<1> DEFINE hit == {j \in TriggerJoints(c.active) \intersect o.hits : c.joints[j] = "Approach"}
           stopped(j) == IF c.joints[j] = "Finished" \/ j \in o.ends THEN "Finished"
                         ELSE IF j \in hit THEN "Stopping" ELSE c.joints[j]
           advanced == [c EXCEPT !.joints = [j \in Joints |-> stopped(j)],
                                 !.touched = @ \union hit]
           finished == \A j \in Joints : stopped(j) = "Finished"
           moved == Commit(advanced, o, ~finished)
<1>5. Tallied(advanced) /\ advanced.active = c.active
  BY <1>2
<1> HIDE DEF hit, advanced, finished
<1>6. Tallied(moved)
  BY <1>5, CommitTallied
<1>7. Active(moved) => moved.active = c.active
  BY <1>5, CommitActive, TalliedIs
<1> HIDE DEF moved
<1>8. Active(moved) => Tallied(CompleteTriggeredJoints(moved))
  BY <1>6, <1>7, CompleteJointsTallied DEF Active
<1> QED
  BY <1>3, <1>4, <1>6, <1>8 DEF AdvanceTriggeredJoints, moved, finished, advanced, hit

LEMMA AdvanceActiveTallied ==
    ASSUME NEW c, NEW o, Tallied(c), Active(c), c.triggered \in TriggeredModes
    PROVE  Tallied(AdvanceActive(c, o))
<1>1. c.active.kind \in ItemKinds
  BY DEF Tallied, Telling, Fired, Items
<1> QED
  BY <1>1, PlanStopTallied, AdvancePlanTallied, AdvanceTriggeredTallied, AdvanceJointsTallied
     DEF AdvanceActive, ItemKinds

-----------------------------------------------------------------------------
(* Demands, controls and the hosting thread: they fire nothing.            *)

LEMMA ActiveKind == \A c : Tallied(c) /\ Active(c) => c.active.kind \in ItemKinds
  BY DEF Tallied, Telling, Fired, Items

LEMMA EnableTallied == ASSUME NEW c, NEW demand, NEW epoch, Tallied(c)
    PROVE  /\ Tallied(Enable(c)) /\ Tallied(ResetEmergencyStop(c))
           /\ Tallied(RejectDemand(c)) /\ Tallied(ServiceDemand(c, demand))
           /\ Tallied(Start(c, epoch))
<1>1. Recorded(c)
  BY TalliedIs
<1>2. Spares(c, Enable(c)) /\ Spares(c, ResetEmergencyStop(c))
  BY <1>1 DEF Enable, ResetEmergencyStop, Spares, Recorded, Whole, CoreFields
<1>3. Spares(c, RejectDemand(c)) /\ Spares(c, ServiceDemand(c, demand))
  BY <1>1 DEF RejectDemand, ServiceDemand, Spares, Recorded, Whole, CoreFields
<1>4. Spares(c, Start(c, epoch))
  BY <1>1 DEF Start, ResetFeedRetiming, Spares, Recorded, Whole, CoreFields
<1> QED
  BY <1>2, <1>3, <1>4, SparesTally

\* At the end of it all nothing is active.
LEMMA DisableTallied == ASSUME NEW c, NEW o, NEW epoch, Tallied(c)
    PROVE  /\ Tallied(Disable(c, o)) /\ Tallied(Reset(c, o, epoch))
           /\ Tallied(LatchEmergencyStop(c, o))
<1>1. \A r : Tallied(DiscardExecution(AbandonJog(c, o, r)))
  BY AbandonJogTallied, TalliedIs, DiscardTallied
<1>2. Tallied(Disable(c, o))
  <2> DEFINE b == DiscardExecution(AbandonJog(c, o, "Disabled"))
  <2>1. Tallied(b) /\ Recorded(b)
    BY <1>1, TalliedIs
  <2> HIDE DEF b
  <2>2. LET d == [b EXCEPT !.state = "Disabled", !.moving = FALSE,
                           !.safeOutputs = TRUE, !.spindle = "Safe"]
        IN  Spares(b, d)
    BY <2>1 DEF Spares, Recorded, Whole, CoreFields
  <2> QED
    BY <2>1, <2>2, SparesTally DEF Disable, b
<1>3. Tallied(Reset(c, o, epoch))
  <2> DEFINE b == DiscardExecution(AbandonJog(c, o, "Aborted"))
             d == [b EXCEPT !.state = IF c.state = "Disabled" THEN "Disabled" ELSE "Held",
                            !.epoch = epoch, !.fault = "None", !.faultReported = FALSE,
                            !.accepted = TRUE, !.stoppedEpoch = 0,
                            !.safeOutputs = TRUE, !.spindle = "Safe"]
  <2>1. Tallied(b) /\ Recorded(b)
    BY <1>1, TalliedIs
  <2> HIDE DEF b
  <2>2. Spares(b, d)
    BY <2>1 DEF Spares, Recorded, Whole, CoreFields
  <2> QED
    BY <2>1, <2>2, SparesTally DEF Reset, b
<1>4. Tallied(LatchEmergencyStop(c, o))
  <2> DEFINE b == AbandonJog(DiscardExecution(c), o, "Aborted")
  <2>1. Tallied(b) /\ Recorded(b)
    BY DiscardTallied, TalliedIs, AbandonJogTallied
  <2> HIDE DEF b
  <2>2. Tallied([b EXCEPT !.moving = FALSE])
    BY <2>1, SparesUpdates, SparesTally
  <2> QED
    BY <2>2, FaultTallied DEF LatchEmergencyStop, b
<1> QED
  BY <1>2, <1>3, <1>4

LEMMA ResumeTallied == ASSUME NEW c, NEW o, NEW epoch, NEW queued, Tallied(c)
    PROVE  Tallied(Resume(c, o, epoch, queued))
<1> DEFINE running == [c EXCEPT !.state = "Running", !.safeOutputs = FALSE]
           approach == InitializeTriggered(running, o)
<1>1. Tallied(running)
  BY SparesUpdates, SparesTally, TalliedIs
<1> HIDE DEF running
<1>2. Tallied(approach)
  BY <1>1, TriggeredTallied
<1> HIDE DEF approach
<1>3. \A b, x : Tallied(b) => Tallied([b EXCEPT !.feed = x])
  BY SparesUpdates, SparesTally, TalliedIs
<1>4. Tallied(ResetFeedRetiming(running)) /\ Tallied(ResetFeedRetiming(approach))
      /\ Tallied(ResumeChunk(running))
  BY <1>1, <1>2, <1>3 DEF ResetFeedRetiming, ResumeChunk
<1> QED
  BY <1>4, ActiveKind DEF Resume, ItemKinds, running, approach

LEMMA FeedHoldTallied == ASSUME NEW c, NEW o, Tallied(c) PROVE Tallied(FeedHold(c, o))
<1> DEFINE holding == [c EXCEPT !.feed = "Holding", !.state = "Holding"]
<1>1. Tallied(holding)
  BY SparesUpdates, SparesTally, TalliedIs
<1> HIDE DEF holding
<1>2. \A b : Tallied(b) => Tallied(BeginTriggeredStop(b, "HoldStop"))
  BY SparesUpdates, SparesTally, TalliedIs DEF BeginTriggeredStop
<1> QED
  BY <1>1, <1>2, ActiveKind DEF FeedHold, ItemKinds, holding

LEMMA ControlledStopTallied == ASSUME NEW c, NEW o, Tallied(c)
    PROVE  Tallied(ControlledStop(c, o))
<1>1. \A b, x : Tallied(b) =>
          Tallied([b EXCEPT !.state = x]) /\ Tallied([ResetFeedRetiming(b) EXCEPT !.state = x])
  <2> SUFFICES ASSUME NEW b, NEW x, Tallied(b)
               PROVE  Tallied([b EXCEPT !.state = x])
                      /\ Tallied([ResetFeedRetiming(b) EXCEPT !.state = x])
    OBVIOUS
  <2>1. Tallied(ResetFeedRetiming(b))
    BY SparesUpdates, SparesTally, TalliedIs DEF ResetFeedRetiming
  <2> QED
    BY <2>1, SparesUpdates, SparesTally, TalliedIs
<1>2. Tallied(StopChunk(c, o))
  BY <1>1, PlanStopTallied DEF StopChunk
<1>3. Tallied(StopTriggered(c, o))
  <2> DEFINE braking == BeginTriggeredStop(c, "AbortStop")
  <2>1. Tallied(braking)
    BY SparesUpdates, SparesTally, TalliedIs DEF BeginTriggeredStop
  <2> HIDE DEF braking
  <2> QED
    BY <1>1, <2>1, FaultTallied DEF StopTriggered, braking
<1>4. Tallied(StopTriggeredJoints(c, o))
  <2> DEFINE braking == [c EXCEPT !.aborted = TRUE,
                             !.joints = [j \in Joints |->
                                 IF c.joints[j] = "Approach"
                                 THEN "Stopping" ELSE c.joints[j]]]
  <2>1. \A x, y : Tallied([c EXCEPT !.aborted = x, !.joints = y])
    BY SparesUpdates, SparesTally, TalliedIs
  <2>2. Tallied(braking)
    BY <2>1
  <2> HIDE DEF braking
  <2> QED
    BY <1>1, <2>2, FaultTallied DEF StopTriggeredJoints, braking
<1>5. Tallied(BeginJogStop(c, o, "RequestedStop"))
  BY BeginJogStopTallied
<1> QED
  BY <1>2, <1>3, <1>4, <1>5, ActiveKind DEF ControlledStop, ItemKinds

LEMMA ConvergeTallied == ASSUME NEW c, NEW o, NEW pending, Tallied(c), c.demand.mode \in Modes
    PROVE  Tallied(ConvergeDemand(c, o, pending))
<1>1. Tallied(BeginDemandStop(c, o))
  <2> DEFINE b == DiscardExecution(c)
             d == [b EXCEPT !.stoppedEpoch = c.demand.epoch, !.state = "Held",
                            !.safeOutputs = TRUE, !.spindle = "Safe"]
  <2>1. Tallied(b) /\ Recorded(b)
    BY DiscardTallied, TalliedIs
  <2> HIDE DEF b
  <2>2. Spares(b, d)
    BY <2>1 DEF Spares, Recorded, Whole, CoreFields
  <2>3. Tallied(d)
    BY <2>1, <2>2, SparesTally
  <2> HIDE DEF d
  <2>4. Tallied(BackendHeld(d, c.epoch, "ControlledStop"))
    BY <2>3, BesideEvents, EmitBeside DEF BackendHeld
  <2> QED
    BY <2>4, BeginJogStopTallied, ControlledStopTallied DEF BeginDemandStop, d, b
<1>2. Tallied(Prepare(c, o))
  BY DisableTallied, EnableTallied DEF Prepare
<1>3. Tallied(ConvergeRun(c, o, pending))
  <2> DEFINE prepared == Prepare(c, o)
  <2> HIDE DEF prepared
  <2>1. /\ Tallied(prepared) /\ Tallied(RejectDemand(prepared))
        /\ Tallied(Resume(prepared, o, c.demand.epoch, Queued(prepared, pending)))
        /\ Tallied(Start(prepared, c.demand.epoch))
    BY <1>2, EnableTallied, ResumeTallied DEF prepared
  <2> QED
    BY <2>1 DEF ConvergeRun, prepared
<1>4. Tallied(RejectDemand(c))
  BY EnableTallied
<1>5. Tallied(ConvergeFeedHold(c, o))
  <2> DEFINE d == ResetFeedRetiming([c EXCEPT !.state = "Held"])
  <2>1. Spares(c, d)
    BY TalliedIs DEF ResetFeedRetiming, Spares, Recorded, Whole, CoreFields
  <2>2. Tallied(d)
    BY <2>1, SparesTally
  <2> HIDE DEF d
  <2>3. Tallied(BackendHeld(d, c.epoch, "FeedHold"))
    BY <2>2, BesideEvents, EmitBeside DEF BackendHeld
  <2> QED
    BY <1>4, <2>3, FeedHoldTallied DEF ConvergeFeedHold, d
<1>6. Tallied(ConvergeStop(c, o, pending))
  BY <1>1, <1>4, TalliedIs, DiscardTallied DEF ConvergeStop
<1>7. Tallied(ConvergeDisabled(c, o))
  BY <1>1, DisableTallied DEF ConvergeDisabled
<1> QED
  BY <1>2, <1>3, <1>5, <1>6, <1>7 DEF ConvergeDemand, Modes

LEMMA ServiceControlTallied ==
    ASSUME NEW c, NEW o, NEW request, Tallied(c), request.type \in ControlTypes
    PROVE  Tallied(ServiceControl(c, o, request))
<1>1. \A d, succeeded : Tallied(d) => Tallied(RequestCompleted(d, request, succeeded))
  BY BesideEvents, EmitBeside DEF RequestCompleted
<1>2. Tallied(SetJointPosition(c)) /\ Tallied(RenewJogLease(c))
      /\ Tallied(SetContinuousJogVelocity(c, o))
  BY SparesUpdates, SparesTally, TalliedIs
     DEF SetJointPosition, RenewJogLease, SetContinuousJogVelocity
<1>3. \A r : Tallied(InitializeJog(c, o, r))
  <2>1. \A x, y : Tallied([c EXCEPT !.state = x, !.jog = y])
    BY SparesUpdates, SparesTally, TalliedIs
  <2> QED
    BY <2>1 DEF InitializeJog
<1>4. Tallied(BeginJogStop(c, o, "RequestedStop"))
  BY BeginJogStopTallied
<1> QED
  BY ZenonT(60), <1>1, <1>2, <1>3, <1>4 DEF ServiceControl, ControlTypes

-----------------------------------------------------------------------------
(* What the cursors stand for, among the callers.                          *)

MarksInv ==
    /\ "stopping" \in DOMAIN core /\ Marked(log) /\ Unheard(core.plans, log)
    /\ Active(core) => Fired(core, log) /\ Abreast(core)

LEMMA AtTally == ASSUME Ticking, MarksInv PROVE Tallied(core)
<1>1. core.out = <<>> /\ Whole(core)
  BY AtStart DEF Ticking, Sound, Typed
<1>2. LogAfter(core.out) = log
  BY <1>1 DEF LogAfter
<1> QED
  BY <1>1, <1>2 DEF MarksInv, Tallied, Telling, Recorded, Orderly

\* A step of the executor.
LEMMA StepTallies == ASSUME NEW next, Tallied(next), core' = [next EXCEPT !.out = <<>>],
                            MarkFields(log', LogAfter(next.out))
                     PROVE  MarksInv'
<1> DEFINE l == LogAfter(next.out)
           m == log'
           d == core'
<1>1. /\ "stopping" \in DOMAIN d /\ d.plans = next.plans /\ d.active = next.active
      /\ d.stopping = next.stopping /\ d.span = next.span /\ d.event = next.event
      /\ d.marker = next.marker
  BY TalliedIs DEF Recorded, Whole, CoreFields
<1>2. /\ Marked(l) /\ Unheard(next.plans, l) /\ MarkFields(m, l)
      /\ Active(next) => Fired(next, l) /\ Abreast(next)
  BY DEF Tallied, Telling, Orderly
<1> HIDE DEF l, m, d
<1>3. /\ "stopping" \in DOMAIN d /\ Marked(m) /\ Unheard(d.plans, m)
      /\ Active(d) => Fired(d, m) /\ Abreast(d)
  BY <1>1, <1>2 DEF MarkFields, Marked, Unheard, Fired, Abreast, Active
<1> QED
  BY <1>3 DEF MarksInv, m, d

LEMMA StepKeepsTally == ASSUME NEW next, Tallied(next), Step(next) PROVE MarksInv'
<1>1. core' = [next EXCEPT !.out = <<>>] /\ MarkFields(log', LogAfter(next.out))
  BY DEF Step, MarkFields
<1> QED
  BY <1>1, StepTallies

LEMMA ServoKeepsTally ==
    ASSUME SessionTypes, Ticking, ItemsInv, EpochsInv, MarksInv, ItemsInv', ServoThread
    PROVE  MarksInv'
<1>0. /\ Tallied(core) /\ core.demand.mode \in Modes /\ core.triggered \in TriggeredModes
      /\ core.plans \in Seq(Items) /\ Whole(core)
  BY AtTally, AtStart
<1>1. CASE TickBegins
  <2> DEFINE demanded == IF mailbox = NoDemand THEN core ELSE ServiceDemand(core, mailbox)
  <2>1. PICK o \in ControlOutcomes : Step(ConvergeDemand(demanded, o, Pending))
    BY <1>1 DEF TickBegins
  <2>2. Tallied(demanded) /\ demanded.demand.mode \in Modes
    BY <1>0, EnableTallied, DemandConsumed
  <2> HIDE DEF demanded
  <2> QED
    BY <2>1, <2>2, ConvergeTallied, StepKeepsTally
<1>2. CASE IngressPlan
  <2> DEFINE x == Head(ingress).item
  <2>1. /\ core' = [core EXCEPT !.plans = Append(@, x)] /\ UNCHANGED log /\ x \in Items
    BY <1>2, HeadControl DEF IngressPlan
  <2> HIDE DEF x
  <2>2. /\ core'.plans = Append(core.plans, x) /\ DOMAIN core' = DOMAIN core
        /\ core'.active = core.active /\ core'.stopping = core.stopping
        /\ core'.span = core.span
        /\ core'.event = core.event /\ core'.marker = core.marker
    BY <1>0, <2>1 DEF MarksInv, Whole, CoreFields
  <2>3. core'.plans \in Seq(Items)
    BY <1>0, <2>1, <2>2
  <2>4. /\ PlansInOrder(core'.plans) /\ PlanIds(core'.plans) \subseteq 1..session'.item
        /\ Before(Range(log.accepted), PlanIds(core'.plans))
    BY <2>1 DEF ItemsInv, LineUp, Apart, Waits, Past, Before
  <2>5. \A y \in PlanIds(core'.plans) : y # 0 /\ y \notin Range(log.accepted)
    BY <2>4 DEF Before
  <2>6. Unheard(core'.plans, log')
    BY <2>1, <2>3, <2>4, <2>5 DEF Unheard
  <2> QED
    BY <2>1, <2>2, <2>6 DEF MarksInv, Fired, Abreast, Active
<1>3. CASE IngressControl
  <2>1. PICK o \in ControlOutcomes : Step(ServiceControl(core, o, Head(ingress)))
    BY <1>3 DEF IngressControl
  <2>2. Head(ingress).type \in ControlTypes
    BY <1>3, HeadControl DEF IngressControl
  <2> QED
    BY <1>0, <2>1, <2>2, ServiceControlTallied, StepKeepsTally
<1>4. CASE IngressEnds
  BY <1>0, <1>4, ConvergeTallied, StepKeepsTally DEF IngressEnds
<1>5. CASE ExecuteJog
  BY <1>0, <1>5, AdvanceJogTallied, StepKeepsTally DEF ExecuteJog, ExecuteJogStep
<1>6. ASSUME UNCHANGED <<core, log>> PROVE MarksInv'
  BY <1>6 DEF MarksInv
<1>7. CASE ExecuteItem
  BY <1>0, <1>6, <1>7, ActivateNextTallied, StepKeepsTally DEF ExecuteItem
<1>8. CASE Advance
  BY <1>0, <1>8, AdvanceActiveTallied, StepKeepsTally DEF Advance, AdvanceStep, Ticking
<1>9. CASE NotReady
  BY <1>6, <1>9 DEF NotReady
<1> QED
  BY <1>1, <1>2, <1>3, <1>4, <1>5, <1>7, <1>8, <1>9 DEF ServoThread

LEMMA HostKeepsTally == ASSUME Ticking, MarksInv, Host PROVE MarksInv'
<1>0. Tallied(core)
  BY AtTally
<1>1. CASE EmergencyStopLatches
  <2> DEFINE next == LatchEmergencyStop(core, [trouble |-> "None"])
             l == LogAfter(next.out)
             work == {i.id : i \in ItemsIn(core, ingress) \union {core.active}} \ {0}
  <2>1. Tallied(next)
    BY <1>0, DisableTallied
  <2>2. core' = [next EXCEPT !.out = <<>>] /\ log' = [l EXCEPT !.doomed = @ \union work]
    BY <1>1 DEF EmergencyStopLatches
  <2> HIDE DEF next, work
  <2>3. Marked(l)
    BY <2>1 DEF Tallied, Telling, Orderly
  <2> HIDE DEF l
  <2>4. MarkFields(log', l)
    BY <2>2, <2>3 DEF Marked, LogFields, MarkFields
  <2> QED
    BY <2>1, <2>2, <2>4, StepTallies DEF l
<1>2. CASE EmergencyStopResets
  BY <1>0, <1>2, EnableTallied, StepKeepsTally DEF EmergencyStopResets
<1>3. CASE IoFaults \/ DeadlineMissed
  BY <1>0, <1>3, HostFault, FaultTallied, StepKeepsTally
<1> QED
  BY <1>1, <1>2, <1>3 DEF Host

LEMMA NextTally == ASSUME SessionTypes, Ticking, ItemsInv, EpochsInv, MarksInv, ItemsInv',
                          [Next]_vars
                   PROVE  MarksInv'
<1>1. ASSUME UNCHANGED <<core, log>> PROVE MarksInv'
  BY <1>1 DEF MarksInv
<1>2. Session \/ UNCHANGED vars => UNCHANGED <<core, log>>
  BY DEF vars, Session, ReserveItem, EnqueueItem, SubmitControl, ContinueOperation,
         BeginOperation, SwitchPower, PublishDemand
<1> QED
  BY <1>1, <1>2, ServoKeepsTally, HostKeepsTally DEF Next

LEMMA InitTally == ASSUME Init PROVE MarksInv
<1>1. core.plans = <<>> /\ ~Active(core) /\ "stopping" \in DOMAIN core /\ log = EmptyLog
  BY DEF Init, InitialCore, Active
<1>2. DOMAIN <<>> = {} /\ IsSequence(<<>>) /\ <<>> \in Seq(Int)
  BY NoEvents
<1>3. \A x : Count(<<>>, x) = 0
  BY <1>2, FS_EmptySet DEF Count
<1>4. Marked(log)
  BY <1>1, <1>2, <1>3 DEF Marked, EmptyLog, LogFields, InSequence
<1> QED
  BY <1>1, <1>4, NothingUnheard DEF MarksInv

\* No marker and no spindle event is fired twice, late or out of order, whatever holds,
\* resumes, stops or faults lie between them: the cursors of the active item count what it
\* has fired (ProductionExecutorCore.cpp, emitExecutionMarkersThrough,
\* applyScheduledEventsForCurrentSpan, completeSpan, selectContinuationOrStop).
THEOREM MarkersKeepCount == Spec => []MarkersFireOnceInOrder
<1>1. MarksInv => MarkersFireOnceInOrder
  BY DEF MarksInv, Marked, MarkersFireOnceInOrder, Count
<1>2. SessionTypes /\ Ticking /\ ItemsInv /\ EpochsInv /\ MarksInv /\ [Next]_vars
      => ItemsInv' /\ EpochsInv' /\ MarksInv'
  BY NextItems, NextEpochs, NextTally DEF ItemsKept, EpochsKept
<1> QED
  BY <1>1, <1>2, InitItems, InitEpochs, InitTally, InitInv, NextSessionTypes, NextTicking, PTL
     DEF Spec
=============================================================================
