---------------------------- MODULE ExecutorPeer ----------------------------
(***************************************************************************)
(* The peer process that owns the executor of a real machine:              *)
(* src/IpcExecutorPeer.cpp (its life), src/IpcExecutorBridge.cpp (the      *)
(* bridge between the shared region and the executor, and the stop that    *)
(* ends an orderly life) and src/include/machine/IpcProtocol.h (the        *)
(* region).                                                                *)
(*                                                                         *)
(* The rings of the region are the sequences that SpscChannel implements,  *)
(* the demand mailbox is the LatestValue.  Of the executor only what the   *)
(* bridge and the stop depend on is kept: ProductionExecutorCore and       *)
(* PhysicalIo model the rest.  Events are only counted, and the snapshots  *)
(* of the region, which wait when the front end does not poll, are left    *)
(* out with it: what the host makes of both is in MachineSession.          *)
(* Controls, which take the way of the items, and timing records are left  *)
(* out too.                                                                *)
(***************************************************************************)
EXTENDS Integers, Sequences, FiniteSets, SequencesExt

CONSTANTS
    Items,              \* the items, in the order they are published: 1 .. n
    RingCapacity,       \* IPC_EXECUTION_CAPACITY and IPC_EVENT_CAPACITY
    QueueCapacity,      \* items the executor holds
    SnapshotCapacity    \* the executor's snapshots

ASSUME PeerAssumption ==
    /\ Items \subseteq Nat /\ IsFiniteSet(Items)
    /\ {RingCapacity, QueueCapacity, SnapshotCapacity} \subseteq Nat \ {0}

VARIABLES
    frontAlive,     \* the peer's parent is still region.frontendProcessId
    process,        \* the child process: "none", "running" or "gone"
    region,         \* the shared region
    peer,           \* the thread of runIpcExecutorPeer, its bridge and its stop
    exec,           \* the executor core, on the servo thread
    trouble         \* "none", "I/O" or "e-stop": what keeps the core from its ticks

peerVars == <<frontAlive, process, region, peer, exec, trouble>>

Connections == {"FrontendReady", "PeerReady", "Running", "StopRequested",
                "PeerStopped", "Rejected", "PeerLost"}
Modes == {"Idle", "Run", "Stop", "Disabled"}
States == {"Disabled", "Held", "Running", "Holding", "Faulted"}
Demands == [generation : Nat, mode : Modes]
NoDemand == [generation |-> 0, mode |-> "Disabled"]
Snapshots == [state : States, acknowledged : Nat]

PeerAt == {"none", "opening", "starting", "loss?", "ready", "spin", "bridge", "inputs",
           "first", "stop", "stop read", "stopping", "disable",
           "disable read", "disabling", "last tick", "halt", "exit"}

PeerTypeOK ==
    /\ frontAlive \in BOOLEAN
    /\ process \in {"none", "running", "gone"}
    /\ region.connection \in Connections /\ region.demand \in Demands
    /\ region.items \in BoundedSeq(Items, RingCapacity)
    /\ region.events \in 0 .. RingCapacity
    /\ peer.at \in PeerAt
    /\ peer.item \in BoundedSeq(Items, 1)
    /\ {peer.event, peer.ticked, peer.demanded} \subseteq BOOLEAN
    /\ peer.arrived \in Nat /\ peer.generation \in Nat /\ peer.seen \in Snapshots
    /\ exec.state \in States /\ exec.mode \in Modes /\ exec.mail \in Demands
    /\ {exec.published, exec.acknowledged} \subseteq Nat
    /\ exec.queue \in BoundedSeq(Items, QueueCapacity) /\ exec.events \in Nat
    /\ exec.snapshots \in Seq(Snapshots) /\ Len(exec.snapshots) <= SnapshotCapacity
    /\ trouble \in {"none", "I/O", "e-stop"}

\* initializeIpcSharedRegion
NewRegion ==
    [connection |-> "FrontendReady", demand |-> NoDemand,
     items |-> <<>>, events |-> 0]

\* item and event are the bridge's m_pendingItem and m_pendingEvent; arrived counts the items the
\* executor has taken or refused; generation and seen are stopExecutorSafely's;
\* demanded says that it has published a demand.
NewPeer ==
    [at |-> "opening", item |-> <<>>, event |-> FALSE, arrived |-> 0,
     generation |-> 0, seen |-> [state |-> "Disabled", acknowledged |-> 0],
     ticked |-> FALSE, demanded |-> FALSE]

NewExecutor ==
    [state |-> "Disabled", mode |-> "Disabled", mail |-> NoDemand, published |-> 0,
     acknowledged |-> 0, queue |-> <<>>, events |-> 0, snapshots |-> <<>>]

-----------------------------------------------------------------------------
(* The executor, run by the servo thread of the peer.                      *)

Enabled == exec.state \in {"Held", "Running", "Holding"}
Moving == exec.state \in {"Running", "Holding"}

\* publishDemand: only a demand newer than all before is accepted.
MayPublish(generation) == generation > exec.published
Publishes(generation, mode) ==
    [exec EXCEPT !.mail = [generation |-> generation, mode |-> mode],
                 !.published = generation]

\* serviceDemand: the demand of a tick, read at its beginning.
Demanded ==
    IF exec.mail = NoDemand THEN exec
    ELSE [exec EXCEPT !.mail = NoDemand, !.mode = exec.mail.mode,
                      !.acknowledged = exec.mail.generation]

\* convergeDemand and the motion of a tick: a run starts, goes on, retires its item,
\* ends with the queue or fails; a stop brakes and then drops what is queued.
Converged(core) ==
    CASE core.mode = "Idle" /\ core.state = "Disabled" ->
            {[core EXCEPT !.state = "Held"]}
      [] core.mode = "Run" /\ core.state \in {"Disabled", "Held"} ->
            {[core EXCEPT !.state = IF core.queue = <<>> THEN "Held" ELSE "Running"]}
      [] core.mode = "Run" /\ core.state = "Running" ->
            {core, [core EXCEPT !.state = "Faulted"],
             IF core.queue = <<>> THEN [core EXCEPT !.state = "Held"]
             ELSE [core EXCEPT !.queue = Tail(@), !.events = @ + 1]}
      [] core.mode \in {"Stop", "Disabled"} /\ core.state = "Running" ->
            {[core EXCEPT !.state = "Holding"], [core EXCEPT !.state = "Faulted"]}
      [] core.state = "Holding" ->
            {core, [core EXCEPT !.state = "Held", !.queue = <<>>]}
      [] core.mode = "Stop" /\ core.state = "Held" -> {[core EXCEPT !.queue = <<>>]}
      [] core.mode = "Disabled" /\ core.state = "Held" ->
            {[core EXCEPT !.state = "Disabled", !.queue = <<>>]}
      [] OTHER -> {core}

\* publishSnapshot: a full ring drops the newest.
WithSnapshot(core) ==
    IF Len(core.snapshots) = SnapshotCapacity THEN core
    ELSE [core EXCEPT !.snapshots =
              Append(@, [state |-> core.state, acknowledged |-> core.acknowledged])]

\* fault, latchEmergencyStop and resetEmergencyStop
Faulted == [exec EXCEPT !.state = "Faulted"]
Latched == [exec EXCEPT !.state = "Faulted", !.queue = <<>>]
Unlatched == [exec EXCEPT !.state = "Disabled"]

RuntimeRuns ==
    process = "running" /\ peer.at \notin {"none", "opening", "starting", "exit"}

\* HostedExecutorRuntime::tick and the count that ends it.
Ticks(core, cause) ==
    /\ RuntimeRuns
    /\ exec' = core /\ trouble' = cause
    /\ peer' = [peer EXCEPT !.ticked = TRUE]
    /\ UNCHANGED <<frontAlive, process, region>>

ServoTick ==
    /\ trouble = "none"
    /\ \E core \in Converged(Demanded) : Ticks(WithSnapshot(core), "none")

LatchTick == trouble = "none" /\ Ticks(WithSnapshot(Latched), "e-stop")
UnlatchTick == trouble = "e-stop" /\ Ticks(WithSnapshot(Unlatched), "none")
IoFaultTick == trouble = "none" /\ Ticks(WithSnapshot(Faulted), "I/O")

\* The ticks of a latched emergency stop leave the core alone; a fault of the I/O is
\* for good and is reported in every tick.
LatchedTick == trouble = "e-stop" /\ Ticks(exec, "e-stop")
FaultedTick == trouble = "I/O" /\ Ticks(WithSnapshot(Faulted), "I/O")

-----------------------------------------------------------------------------
(* The beginning of the peer's life.                                       *)

PeerIsAt(at) == process = "running" /\ peer.at = at

\* The region is opened and its identity validated, and the front end looked for.
Opens ==
    /\ PeerIsAt("opening")
    /\ \/ /\ region' = [region EXCEPT !.connection = "Rejected"]
          /\ peer' = [peer EXCEPT !.at = "exit"]
       \/ /\ ~frontAlive
          /\ region' = [region EXCEPT !.connection = "PeerLost"]
          /\ peer' = [peer EXCEPT !.at = "exit"]
       \/ /\ frontAlive
          /\ peer' = [peer EXCEPT !.at = "starting"]
          /\ UNCHANGED region
    /\ UNCHANGED <<frontAlive, process, exec, trouble>>

\* The runtime is made and, unless the front end is gone by then, started.
StartsRuntime ==
    /\ PeerIsAt("starting")
    /\ peer' = [peer EXCEPT !.at = IF frontAlive THEN "loss?" ELSE "exit"]
    /\ region' = IF frontAlive THEN region ELSE [region EXCEPT !.connection = "PeerLost"]
    /\ UNCHANGED <<frontAlive, process, exec, trouble>>

\* stopExecutorSafely begins; nobody looks into the rings or the bridge any more.
TurnsToStop(connection) ==
    /\ region' = [NewRegion EXCEPT !.connection = connection]
    /\ peer' = [NewPeer EXCEPT !.at = "first"]

\* stopAfterFrontendLoss: looked for before the handshake, while it is awaited and in
\* every round of the bridge.
SeesFrontendLoss ==
    /\ \/ PeerIsAt("loss?")
       \/ PeerIsAt("spin") /\ region.connection = "PeerReady"
       \/ PeerIsAt("bridge") /\ region.connection # "StopRequested"
    /\ ~frontAlive
    /\ TurnsToStop("PeerLost")
    /\ UNCHANGED <<frontAlive, process, exec, trouble>>

SeesFrontend ==
    /\ PeerIsAt("loss?") /\ frontAlive
    /\ peer' = [peer EXCEPT !.at = "ready"]
    /\ UNCHANGED <<frontAlive, process, region, exec, trouble>>

\* The store does not look at what the front end has written meanwhile.
TellsReady ==
    /\ PeerIsAt("ready")
    /\ region' = [region EXCEPT !.connection = "PeerReady"]
    /\ peer' = [peer EXCEPT !.at = "spin"]
    /\ UNCHANGED <<frontAlive, process, exec, trouble>>

EndsSpinning ==
    /\ PeerIsAt("spin") /\ region.connection # "PeerReady"
    /\ peer' = [peer EXCEPT !.at = IF region.connection = "Running" THEN "bridge"
                                   ELSE "halt"]
    /\ UNCHANGED <<frontAlive, process, region, exec, trouble>>

\* The loop of the bridge: a requested stop is looked for first, then the loss.
BeginsStop ==
    /\ PeerIsAt("bridge") /\ region.connection = "StopRequested"
    /\ TurnsToStop("StopRequested")
    /\ UNCHANGED <<frontAlive, process, exec, trouble>>

\* publishOutputs: an event waits while its ring is full, and a snapshot, whose ring is
\* full when the front end has not polled for a while.
PublishesOutputs ==
    /\ PeerIsAt("bridge") /\ region.connection # "StopRequested" /\ frontAlive
    /\ LET takes == ~peer.event /\ exec.events > 0
           pushes == (peer.event \/ takes) /\ region.events < RingCapacity
       IN  /\ peer' = [peer EXCEPT !.at = "inputs",
                                   !.event = (peer.event \/ takes) /\ ~pushes]
           /\ region' = [region EXCEPT !.events = IF pushes THEN @ + 1 ELSE @]
           /\ exec' \in {[exec EXCEPT !.events = IF takes THEN @ - 1 ELSE @,
                                      !.snapshots = left] :
                            left \in {exec.snapshots}
                                     \cup {Tail(s) : s \in {exec.snapshots} \ {<<>>}}}
    /\ UNCHANGED <<frontAlive, process, trouble>>

\* Mutant: an item for which the executor has no room is forgotten.
KeptForgotten(item) == <<>>

\* PublishResult::Full: the item waits for the next round.
Kept(item) == <<item>>

\* submitInputs: the demand first, one that is refused being dropped.
Submitted ==
    IF region.demand # NoDemand /\ MayPublish(region.demand.generation)
    THEN Publishes(region.demand.generation, region.demand.mode)
    ELSE exec

\* Then an item: published, kept, or refused with a rejection.
SubmitsItem ==
    /\ PeerIsAt("inputs")
    /\ peer.item # <<>> \/ region.items # <<>>
    /\ LET item == IF peer.item # <<>> THEN peer.item[1] ELSE Head(region.items)
           passed == [peer EXCEPT !.at = "bridge", !.item = <<>>, !.arrived = @ + 1]
           waits == [peer EXCEPT !.at = "bridge", !.item = Kept(item)]
       IN  /\ region' = [region EXCEPT
                  !.demand = NoDemand,
                  !.items = IF peer.item # <<>> THEN @ ELSE Tail(@)]
           /\ \/ /\ Len(exec.queue) < QueueCapacity
                 /\ exec' = [Submitted EXCEPT !.queue = Append(@, item)]
                 /\ peer' = passed
              \/ /\ Len(exec.queue) = QueueCapacity
                 /\ peer' = waits
                 /\ exec' = Submitted
              \/ /\ peer' = IF peer.event THEN waits ELSE [passed EXCEPT !.event = TRUE]
                 /\ exec' = Submitted
    /\ UNCHANGED <<frontAlive, process, trouble>>

SubmitsDemandOnly ==
    /\ PeerIsAt("inputs") /\ peer.item = <<>> /\ region.items = <<>>
    /\ peer' = [peer EXCEPT !.at = "bridge"]
    /\ exec' = Submitted
    /\ region' = [region EXCEPT !.demand = NoDemand]
    /\ UNCHANGED <<frontAlive, process, trouble>>

-----------------------------------------------------------------------------
(* stopExecutorSafely and what follows it.                                 *)

\* What follows a snapshot that ends a wait.
AfterFirst(state) ==
    CASE state \in {"Running", "Holding"} -> "stop"
      [] state = "Faulted" -> "halt"
      [] state = "Disabled" -> "last tick"
      [] OTHER -> "disable"

\* A wait: a tick, then all events and snapshots are taken and the last one is kept.
Waits == {"first", "stop read", "stopping", "disable read", "disabling"}

\* Mutant: the stop does not wait until the executor is at rest.
AfterWaitUnbraked(at, seen) ==
    CASE at = "first" -> AfterFirst(seen.state)
      [] at = "stop read" /\ seen.acknowledged >= peer.generation -> "last tick"
      [] at = "disable read" /\ seen.acknowledged >= peer.generation -> "disabling"
      [] at = "disabling" /\ seen.state = "Disabled" -> "last tick"
      [] OTHER -> at

AfterWait(at, seen) ==
    LET acknowledged == seen.acknowledged >= peer.generation
    IN  CASE at = "first" -> AfterFirst(seen.state)
          [] at = "stop read" /\ acknowledged -> "stopping"
          [] at = "stopping" /\ seen.state \notin {"Running", "Holding"} ->
                AfterFirst(seen.state)
          [] at = "disable read" /\ acknowledged -> "disabling"
          [] at = "disabling" /\ seen.state = "Disabled" -> "last tick"
          [] OTHER -> at

\* The first wait lasts until there is a snapshot, and takes the generation from it.
TakesSnapshots ==
    /\ process = "running" /\ peer.at \in Waits /\ peer.ticked
    /\ exec' = [exec EXCEPT !.events = 0, !.snapshots = <<>>]
    /\ LET seen == IF exec.snapshots = <<>> THEN peer.seen ELSE Last(exec.snapshots)
           waits == peer.at = "first" /\ exec.snapshots = <<>>
       IN  peer' = [peer EXCEPT
               !.ticked = FALSE, !.seen = seen,
               !.at = IF waits THEN @ ELSE AfterWait(@, seen),
               !.generation = IF peer.at = "first" THEN seen.acknowledged ELSE @]
    /\ UNCHANGED <<frontAlive, process, region, trouble>>

\* Mutant: the generation of the last snapshot is used again.
NextGenerationSame == peer.generation

NextGeneration == peer.generation + 1

\* demandAndWait: the demand is published again and again until it is accepted.
DemandsStop(at, mode) ==
    /\ PeerIsAt(at) /\ MayPublish(NextGeneration)
    /\ exec' = Publishes(NextGeneration, mode)
    /\ peer' = [peer EXCEPT !.generation = NextGeneration, !.ticked = FALSE,
                            !.demanded = TRUE,
                            !.at = IF at = "stop" THEN "stop read" ELSE "disable read"]
    /\ UNCHANGED <<frontAlive, process, region, trouble>>

\* The stop does not get on: the executor knows a demand newer than its last snapshot,
\* and refuses the next generation as it refuses all others that are not new.
Overtaken == peer.at \in {"stop", "disable"} /\ exec.published > peer.generation

LastTick ==
    /\ PeerIsAt("last tick") /\ peer.ticked
    /\ peer' = [peer EXCEPT !.at = "halt"]
    /\ UNCHANGED <<frontAlive, process, region, exec, trouble>>

\* HostedExecutorRuntime::stop, then PeerStopped unless the front end was lost.
Halts ==
    /\ PeerIsAt("halt")
    /\ peer' = [peer EXCEPT !.at = "exit"]
    /\ exec' = IF Enabled THEN Latched ELSE exec
    /\ region' = IF region.connection = "PeerLost" THEN region
                 ELSE [region EXCEPT !.connection = "PeerStopped"]
    /\ UNCHANGED <<frontAlive, process, trouble>>

\* Of a process that has ended only the region is left.
Ends ==
    /\ process' = "gone"
    /\ peer' = [NewPeer EXCEPT !.at = "none"]
    /\ exec' = NewExecutor /\ trouble' = "none"
    /\ UNCHANGED frontAlive

Exits == PeerIsAt("exit") /\ Ends /\ UNCHANGED region

PeerStep ==
    \/ Opens \/ StartsRuntime \/ SeesFrontendLoss \/ SeesFrontend \/ TellsReady
    \/ EndsSpinning \/ BeginsStop
    \/ PublishesOutputs \/ SubmitsItem \/ SubmitsDemandOnly
    \/ TakesSnapshots \/ DemandsStop("stop", "Stop") \/ DemandsStop("disable", "Disabled")
    \/ LastTick \/ Halts \/ Exits

\* A crash of the peer, or a signal that ends it.
PeerDies == process = "running" /\ Ends /\ UNCHANGED region
=============================================================================
