------------------------ MODULE ExternalExecutorProofs ------------------------
(***************************************************************************)
(* What holds between the host and its executor process for any items,     *)
(* capacities and bounds, whichever of the two dies and whenever: the      *)
(* bridge passes on every item once and in order, and the stop that ends   *)
(* an orderly life of the peer does not end it under a motion.             *)
(***************************************************************************)
EXTENDS ExternalExecutor, SequenceTheorems, TLAPS

-----------------------------------------------------------------------------
(* Types.  The records have all their fields, and no others.               *)

Regions ==
    [connection : Connections, demand : Demands, items : Seq(Items), events : Nat]

Peers ==
    [at : PeerAt, item : Seq(Items), event : BOOLEAN, arrived : Nat,
     generation : Nat, seen : Snapshots, ticked : BOOLEAN, demanded : BOOLEAN]

Cores ==
    [state : States, mode : Modes, mail : Demands, published : Nat,
     acknowledged : Nat, queue : Seq(Items), events : Nat, snapshots : Seq(Snapshots)]

Fronts ==
    [at : FrontAt, sent : Nat, generation : Nat, mode : Modes, lossPending : BOOLEAN]

RegionType ==
    /\ region \in Regions
    /\ Len(region.items) <= RingCapacity /\ region.events <= RingCapacity

PeerType == peer \in Peers /\ Len(peer.item) <= 1

CoreType ==
    /\ exec \in Cores
    /\ Len(exec.queue) <= QueueCapacity /\ Len(exec.snapshots) <= SnapshotCapacity

FrontType == front \in Fronts /\ front.generation <= MaxDemand

PlainType ==
    /\ frontAlive \in BOOLEAN
    /\ process \in {"none", "running", "gone"}
    /\ trouble \in {"none", "I/O", "e-stop"}
    /\ starts \in 0 .. MaxStarts /\ disasters \in 0 .. MaxDisasters

TypeInv == RegionType /\ PeerType /\ CoreType /\ FrontType /\ PlainType

-----------------------------------------------------------------------------
(* The items.                                                              *)

Talking == process = "running" /\ front.at \in {"handshake", "connected"}

\* While the two talk nobody has been asked to stop, and until the front end has
\* answered the handshake there is nothing in the ring or the bridge.
TalkInv ==
    /\ front.at # "closed" => frontAlive
    /\ Talking => region.connection # "StopRequested"
    /\ Talking /\ front.at = "handshake" =>
          /\ region.connection # "Running" /\ peer.at \notin {"bridge", "inputs"}
          /\ front.sent = 0 /\ peer.arrived = 0
          /\ peer.item = <<>> /\ region.items = <<>>

Numbered(sent, arrived) == [i \in 1 .. sent - arrived |-> arrived + i]
Underway == Numbered(front.sent, peer.arrived)

ItemInv ==
    process = "running" /\ front.at = "connected" =>
        /\ peer.arrived <= front.sent
        /\ peer.item \o region.items = Underway

-----------------------------------------------------------------------------
(* The stop.                                                               *)

MovingStates == {"Running", "Holding"}

\* What the peer and its servo thread know of the snapshots.
SnapshotsLeft == {peer.seen} \cup {exec.snapshots[i] : i \in DOMAIN exec.snapshots}

\* A demand is accepted once, and no snapshot is ahead of the core.
DemandInv ==
    /\ exec.mail = NoDemand => exec.acknowledged = exec.published
    /\ exec.mail # NoDemand =>
          exec.mail.generation = exec.published /\ exec.acknowledged < exec.published
    /\ \A s \in SnapshotsLeft : s.acknowledged <= exec.acknowledged

Demanding == {"stop read", "stopping", "disable read", "disabling"}
Ordered == IF peer.at \in {"stop read", "stopping"} THEN "Stop" ELSE "Disabled"
AfterDemand == {"disable", "last tick", "halt", "exit"}

\* While a demand of the stop is awaited it is the last one; the core obeys it from the
\* snapshot on that acknowledges it, and does not start to move any more.  After the
\* wait the core is at rest, and stays there.
StopInv ==
    /\ peer.demanded => peer.at \in Demanding \cup AfterDemand
    /\ peer.at \in Demanding =>
          /\ peer.generation = exec.published
          /\ exec.mail # NoDemand => exec.mail.mode = Ordered
          /\ exec.mail = NoDemand => exec.mode = Ordered
          /\ \A s \in SnapshotsLeft :
                s.acknowledged = peer.generation /\ s.state \notin MovingStates => ~Moving
    /\ peer.at \in {"stopping", "disabling"} =>
          \A s \in SnapshotsLeft : s.acknowledged = peer.generation
    /\ peer.demanded /\ peer.at \in AfterDemand \ {"exit"} =>
          ~Moving /\ exec.mail = NoDemand /\ exec.mode \in {"Stop", "Disabled"}

IInv == TypeInv /\ TalkInv /\ ItemInv /\ DemandInv /\ StopInv

-----------------------------------------------------------------------------
(* Sequences and records.                                                  *)

LEMMA BoundedSequence ==
  ASSUME NEW S, NEW n \in Nat, NEW s
  PROVE  s \in BoundedSeq(S, n) <=> s \in Seq(S) /\ Len(s) <= n
<1>1. ASSUME s \in BoundedSeq(S, n)
      PROVE  s \in Seq(S) /\ Len(s) <= n
  <2>1. PICK m \in 0 .. n : s \in [1 .. m -> S]
    BY <1>1 DEF BoundedSeq, SeqOf
  <2>2. m \in Nat /\ m <= n
    OBVIOUS
  <2>3. s \in Seq(S)
    BY <2>1, <2>2
  <2>4. Len(s) = m
    BY <2>1, <2>2, <2>3, LenProperties
  <2> QED
    BY <2>2, <2>3, <2>4
<1>2. ASSUME s \in Seq(S), Len(s) <= n
      PROVE  s \in BoundedSeq(S, n)
  <2>1. Len(s) \in 0 .. n /\ s \in [1 .. Len(s) -> S]
    BY <1>2, LenProperties
  <2> QED
    BY <2>1 DEF BoundedSeq, SeqOf
<1> QED
  BY <1>1, <1>2

LEMMA TypeInvType == TypeInv => TypeOK
<1> SUFFICES ASSUME TypeInv
             PROVE  TypeOK
  OBVIOUS
<1> USE DEF TypeInv
<1>1. RingCapacity \in Nat /\ QueueCapacity \in Nat /\ SnapshotCapacity \in Nat
  BY PeerAssumption
<1>2. region.connection \in Connections /\ region.demand \in Demands
      /\ region.items \in Seq(Items) /\ region.events \in Nat
  BY DEF RegionType, Regions
<1>3. region.items \in BoundedSeq(Items, RingCapacity) /\ region.events \in 0 .. RingCapacity
  BY <1>1, <1>2, BoundedSequence DEF RegionType
<1>4. /\ peer.at \in PeerAt /\ peer.item \in Seq(Items)
      /\ peer.event \in BOOLEAN /\ peer.ticked \in BOOLEAN /\ peer.demanded \in BOOLEAN
      /\ peer.arrived \in Nat /\ peer.generation \in Nat /\ peer.seen \in Snapshots
  BY DEF PeerType, Peers
<1>5. peer.item \in BoundedSeq(Items, 1)
  BY <1>4, BoundedSequence DEF PeerType
<1>6. /\ exec.state \in States /\ exec.mode \in Modes /\ exec.mail \in Demands
      /\ exec.published \in Nat /\ exec.acknowledged \in Nat
      /\ exec.queue \in Seq(Items) /\ exec.events \in Nat /\ exec.snapshots \in Seq(Snapshots)
  BY DEF CoreType, Cores
<1>7. exec.queue \in BoundedSeq(Items, QueueCapacity)
  BY <1>1, <1>6, BoundedSequence DEF CoreType
<1>8. PeerTypeOK
  BY <1>2, <1>3, <1>4, <1>5, <1>6, <1>7 DEF PeerTypeOK, PlainType, CoreType
<1>9. /\ front.at \in FrontAt /\ front.sent \in Nat /\ front.generation \in 0 .. MaxDemand
      /\ front.mode \in Modes /\ front.lossPending \in BOOLEAN
  BY FrontAssumption DEF FrontType, Fronts
<1> QED
  BY <1>8, <1>9 DEF TypeOK, FrontTypeOK, PlainType

\* The records a life begins with.
LEMMA NewRecords ==
  /\ NewRegion \in Regions /\ NewRegion.connection = "FrontendReady"
  /\ NewRegion.items = <<>> /\ NewRegion.events = 0 /\ NewRegion.demand = NoDemand
  /\ NewPeer \in Peers /\ NewPeer.at = "opening" /\ NewPeer.item = <<>>
  /\ NewPeer.arrived = 0 /\ NewPeer.seen.acknowledged = 0 /\ ~NewPeer.demanded
  /\ NewExecutor \in Cores /\ NewExecutor.mail = NoDemand /\ NewExecutor.published = 0
  /\ NewExecutor.acknowledged = 0 /\ NewExecutor.snapshots = <<>> /\ NewExecutor.queue = <<>>
<1>1. NoDemand \in Demands
  BY DEF NoDemand, Demands, Modes
<1>2. NewRegion \in Regions
  BY <1>1 DEF NewRegion, Regions, Connections
<1>3. [state |-> "Disabled", acknowledged |-> 0] \in Snapshots
  BY DEF Snapshots, States
<1>4. NewPeer \in Peers
  BY <1>3 DEF NewPeer, Peers, PeerAt
<1>5. NewExecutor \in Cores
  BY <1>1 DEF NewExecutor, Cores, States, Modes
<1> QED
  BY <1>2, <1>4, <1>5 DEF NewRegion, NewPeer, NewExecutor

LEMMA NewFrontRecord ==
  ASSUME NEW at \in FrontAt
  PROVE  /\ NewFront(at) \in Fronts /\ NewFront(at).at = at
         /\ NewFront(at).sent = 0 /\ NewFront(at).generation = 0
BY DEF NewFront, Fronts, Modes

\* A peer that has just begun, or just turned to its stop.
LEMMA NewPeerAt ==
  ASSUME NEW at \in PeerAt, NEW p, p = [NewPeer EXCEPT !.at = at]
  PROVE  /\ p \in Peers /\ p.at = at /\ p.item = <<>> /\ p.arrived = 0
         /\ p.seen.acknowledged = 0 /\ ~p.demanded
BY NewRecords DEF Peers

-----------------------------------------------------------------------------
(* The operators of the core.                                              *)

Same(core, before) ==
    /\ core.mode = before.mode /\ core.mail = before.mail
    /\ core.published = before.published /\ core.acknowledged = before.acknowledged
    /\ core.snapshots = before.snapshots

\* A tick's motion takes nothing from the demands, and never starts in a core that is
\* told to stop.
LEMMA ConvergedCore ==
  ASSUME NEW core \in Cores, NEW after \in Converged(core)
  PROVE  /\ after \in Cores /\ Same(after, core) /\ Len(after.queue) <= Len(core.queue)
         /\ core.mode \in {"Stop", "Disabled"} /\ core.state \notin MovingStates
            => after.state \notin MovingStates
<1>1. /\ core.state \in States /\ core.mode \in Modes
      /\ core.queue \in Seq(Items) /\ core.events \in Nat /\ Len(core.queue) \in Nat
      /\ <<>> \in Seq(Items) /\ Len(<<>>) = 0 /\ Len(<<>>) <= Len(core.queue)
  BY DEF Cores
<1>2. ASSUME NEW s \in States, after = [core EXCEPT !.state = s]
      PROVE  /\ after \in Cores /\ Same(after, core)
             /\ after.state = s /\ after.queue = core.queue
  BY <1>2 DEF Cores, Same
<1>3. ASSUME NEW s \in States, after = [core EXCEPT !.state = s, !.queue = <<>>]
      PROVE  /\ after \in Cores /\ Same(after, core) /\ after.state = s /\ after.queue = <<>>
  BY <1>1, <1>3 DEF Cores, Same
<1>4. ASSUME after = [core EXCEPT !.queue = <<>>]
      PROVE  /\ after \in Cores /\ Same(after, core)
             /\ after.state = core.state /\ after.queue = <<>>
  BY <1>1, <1>4 DEF Cores, Same
<1>5. ASSUME core.queue # <<>>,
             after = [core EXCEPT !.queue = Tail(@), !.events = @ + 1]
      PROVE  /\ after \in Cores /\ Same(after, core) /\ after.state = core.state
             /\ Len(after.queue) <= Len(core.queue)
  <2>1. /\ Tail(core.queue) \in Seq(Items) /\ Len(Tail(core.queue)) <= Len(core.queue)
        /\ core.events + 1 \in Nat
    BY <1>1, <1>5
  <2>2. after.queue = Tail(core.queue)
    BY <1>5 DEF Cores
  <2> QED
    BY <1>5, <2>1, <2>2 DEF Cores, Same
<1>6. Same(core, core)
  BY DEF Same
<1>7. CASE core.mode = "Idle" /\ core.state = "Disabled"
  <2>1. after = [core EXCEPT !.state = "Held"]
    BY <1>7 DEF Converged
  <2> QED
    BY <2>1, <1>7, <1>1, <1>2 DEF States
<1>8. CASE core.mode = "Run" /\ core.state \in {"Disabled", "Held"}
  <2>1. \/ after = [core EXCEPT !.state = "Held"]
        \/ after = [core EXCEPT !.state = "Running"]
    BY <1>8 DEF Converged
  <2> QED
    BY <2>1, <1>8, <1>1, <1>2 DEF States, MovingStates
<1>9. CASE core.mode = "Run" /\ core.state = "Running"
  <2>1. \/ after = core
        \/ after = [core EXCEPT !.state = "Faulted"]
        \/ after = [core EXCEPT !.state = "Held"]
        \/ core.queue # <<>> /\ after = [core EXCEPT !.queue = Tail(@), !.events = @ + 1]
    BY <1>9 DEF Converged
  <2> QED
    BY <2>1, <1>9, <1>1, <1>2, <1>5, <1>6 DEF States
<1>10. CASE core.mode \in {"Stop", "Disabled"} /\ core.state = "Running"
  <2>1. \/ after = [core EXCEPT !.state = "Holding"]
        \/ after = [core EXCEPT !.state = "Faulted"]
    BY <1>10 DEF Converged
  <2> QED
    BY <2>1, <1>10, <1>1, <1>2 DEF States, MovingStates
<1>11. CASE core.state = "Holding"
  <2>1. \/ after = core
        \/ after = [core EXCEPT !.state = "Held", !.queue = <<>>]
    BY <1>11 DEF Converged
  <2>2. CASE after = core
    BY <2>2, <1>11, <1>1, <1>6 DEF MovingStates
  <2>3. CASE after = [core EXCEPT !.state = "Held", !.queue = <<>>]
    <3>1. "Held" \in States
      BY DEF States
    <3>2. after \in Cores /\ Same(after, core) /\ after.state = "Held" /\ after.queue = <<>>
      BY <2>3, <3>1, <1>3
    <3> QED
      BY <3>2, <1>1 DEF MovingStates
  <2> QED
    BY <2>1, <2>2, <2>3
<1>12. CASE core.mode = "Stop" /\ core.state = "Held"
  <2>1. after = [core EXCEPT !.queue = <<>>]
    BY <1>12 DEF Converged
  <2>2. after \in Cores /\ Same(after, core) /\ after.state = "Held" /\ after.queue = <<>>
    BY <2>1, <1>12, <1>4
  <2> QED
    BY <2>2, <1>1 DEF MovingStates
<1>13. CASE core.mode = "Disabled" /\ core.state = "Held"
  <2>1. after = [core EXCEPT !.state = "Disabled", !.queue = <<>>]
    BY <1>13 DEF Converged
  <2>2. "Disabled" \in States
    BY DEF States
  <2>3. after \in Cores /\ Same(after, core) /\ after.state = "Disabled" /\ after.queue = <<>>
    BY <2>1, <2>2, <1>3
  <2> QED
    BY <2>3, <1>1 DEF MovingStates
<1>14. CASE ~ (\/ core.mode = "Idle" /\ core.state = "Disabled"
               \/ core.mode = "Run" /\ core.state \in {"Disabled", "Held", "Running"}
               \/ core.mode \in {"Stop", "Disabled"} /\ core.state \in {"Running", "Held"}
               \/ core.state = "Holding")
  <2>1. after = core
    BY <1>14 DEF Converged
  <2> QED
    BY <2>1, <1>1, <1>6
<1> QED
  BY <1>7, <1>8, <1>9, <1>10, <1>11, <1>12, <1>13, <1>14

LEMMA DemandedCore ==
  ASSUME CoreType
  PROVE  /\ Demanded \in Cores /\ Demanded.state = exec.state
         /\ Demanded.queue = exec.queue /\ Demanded.snapshots = exec.snapshots
         /\ Demanded.published = exec.published
         /\ exec.mail = NoDemand => Demanded = exec
         /\ exec.mail # NoDemand =>
               /\ Demanded.mail = NoDemand /\ Demanded.mode = exec.mail.mode
               /\ Demanded.acknowledged = exec.mail.generation
<1>1. exec \in Cores /\ NoDemand \in Demands
  BY DEF CoreType, NoDemand, Demands, Modes
<1>2. exec.mail.mode \in Modes /\ exec.mail.generation \in Nat
  BY <1>1 DEF Cores, Demands
<1>3. CASE exec.mail = NoDemand
  BY <1>1, <1>3 DEF Demanded
<1>4. CASE exec.mail # NoDemand
  <2>1. Demanded = [exec EXCEPT !.mail = NoDemand, !.mode = exec.mail.mode,
                                !.acknowledged = exec.mail.generation]
    BY <1>4 DEF Demanded
  <2> QED
    BY <2>1, <1>1, <1>2, <1>4 DEF Cores
<1> QED
  BY <1>3, <1>4

LEMMA WithSnapshotCore ==
  ASSUME NEW core \in Cores, Len(core.snapshots) <= SnapshotCapacity,
         NEW shown, shown = WithSnapshot(core)
  PROVE  /\ shown \in Cores /\ shown.state = core.state /\ shown.mode = core.mode
         /\ shown.mail = core.mail /\ shown.queue = core.queue
         /\ shown.published = core.published /\ shown.acknowledged = core.acknowledged
         /\ Len(shown.snapshots) <= SnapshotCapacity
         /\ \A i \in DOMAIN shown.snapshots :
               \/ i \in DOMAIN core.snapshots /\ shown.snapshots[i] = core.snapshots[i]
               \/ /\ shown.snapshots[i].state = core.state
                  /\ shown.snapshots[i].acknowledged = core.acknowledged
<1>1. /\ SnapshotCapacity \in Nat /\ Len(core.snapshots) \in Nat
      /\ core.snapshots \in Seq(Snapshots)
  BY PeerAssumption DEF Cores
<1>2. CASE Len(core.snapshots) = SnapshotCapacity
  BY <1>1, <1>2 DEF WithSnapshot
<1>3. CASE Len(core.snapshots) # SnapshotCapacity
  <2> DEFINE new == [state |-> core.state, acknowledged |-> core.acknowledged]
             longer == Append(core.snapshots, new)
  <2>1. new \in Snapshots /\ new.state = core.state /\ new.acknowledged = core.acknowledged
    BY DEF Cores, Snapshots
  <2>2. shown = [core EXCEPT !.snapshots = longer]
    BY <1>3 DEF WithSnapshot
  <2> HIDE DEF new
  <2>3. /\ longer \in Seq(Snapshots) /\ Len(longer) = Len(core.snapshots) + 1
        /\ \A i \in DOMAIN longer :
              \/ i \in DOMAIN core.snapshots /\ longer[i] = core.snapshots[i]
              \/ longer[i] = new
    BY <1>1, <2>1
  <2> HIDE DEF longer
  <2>4. /\ shown \in Cores /\ shown.snapshots = longer
        /\ shown.state = core.state /\ shown.mode = core.mode /\ shown.mail = core.mail
        /\ shown.queue = core.queue
        /\ shown.published = core.published /\ shown.acknowledged = core.acknowledged
    BY <2>2, <2>3 DEF Cores
  <2> QED
    BY <2>1, <2>3, <2>4, <1>1, <1>3
<1> QED
  BY <1>2, <1>3

LEMMA SubmittedCore ==
  ASSUME RegionType, CoreType
  PROVE  /\ Submitted \in Cores /\ Submitted.state = exec.state
         /\ Submitted.queue = exec.queue /\ Submitted.snapshots = exec.snapshots
         /\ Submitted.acknowledged = exec.acknowledged
         /\ \/ Submitted = exec
            \/ /\ Submitted.mail.generation = Submitted.published
               /\ Submitted.published > exec.published
<1>1. region.demand.generation \in Nat /\ region.demand.mode \in Modes
  BY DEF RegionType, Regions, Demands
<1>2. CASE ~(region.demand # NoDemand /\ MayPublish(region.demand.generation))
  BY <1>2 DEF Submitted, CoreType
<1>3. CASE region.demand # NoDemand /\ MayPublish(region.demand.generation)
  <2> DEFINE mail == [generation |-> region.demand.generation, mode |-> region.demand.mode]
  <2>1. mail \in Demands /\ mail.generation = region.demand.generation
    BY <1>1 DEF Demands
  <2>2. Submitted = [exec EXCEPT !.mail = mail, !.published = region.demand.generation]
    BY <1>3 DEF Submitted, Publishes
  <2> HIDE DEF mail
  <2> QED
    BY <2>1, <2>2, <1>1, <1>3 DEF MayPublish, CoreType, Cores
<1> QED
  BY <1>2, <1>3

-----------------------------------------------------------------------------
(* The initial states.                                                     *)

LEMMA InitIInv == Init => IInv
<1> SUFFICES ASSUME Init
             PROVE  IInv
  OBVIOUS
<1>1. "none" \in PeerAt /\ "closed" \in FrontAt
  BY DEF PeerAt, FrontAt
<1>2. /\ peer \in Peers /\ peer.at = "none" /\ peer.item = <<>> /\ ~peer.demanded
      /\ peer.seen.acknowledged = 0
  BY <1>1, NewPeerAt DEF Init
<1>3. /\ front \in Fronts /\ front.at = "closed" /\ front.generation = 0
  BY <1>1, NewFrontRecord DEF Init
<1>4. RingCapacity \in Nat /\ QueueCapacity \in Nat /\ SnapshotCapacity \in Nat
      /\ MaxDemand \in Nat /\ MaxStarts \in Nat /\ MaxDisasters \in Nat
  BY PeerAssumption, FrontAssumption
<1>5. TypeInv
  BY <1>2, <1>3, <1>4, NewRecords
     DEF Init, TypeInv, RegionType, PeerType, CoreType, FrontType, PlainType
<1>6. TalkInv /\ ItemInv
  BY <1>3 DEF Init, TalkInv, ItemInv, Talking
<1>7. DemandInv
  BY <1>2, NewRecords DEF Init, DemandInv, SnapshotsLeft
<1>8. StopInv
  BY <1>2 DEF StopInv, Demanding, AfterDemand
<1> QED
  BY <1>5, <1>6, <1>7, <1>8 DEF IInv

-----------------------------------------------------------------------------
(* The ticks.                                                              *)

\* A tick: the core answers the demand it finds, if it looks for one, and does not start
\* to move when it is told to stop.
TickOf(core) ==
    /\ core \in Cores /\ Len(core.queue) <= QueueCapacity
    /\ core.snapshots = exec.snapshots /\ core.published = exec.published
    /\ \/ /\ core.mail = exec.mail /\ core.mode = exec.mode
          /\ core.acknowledged = exec.acknowledged
       \/ /\ exec.mail # NoDemand
          /\ core.mail = NoDemand /\ core.mode = exec.mail.mode
          /\ core.acknowledged = exec.mail.generation
    /\ core.mode \in {"Stop", "Disabled"} /\ ~Moving => core.state \notin MovingStates

LEMMA TickKeeps ==
  ASSUME IInv, NEW core, TickOf(core),
         NEW cause \in {"none", "I/O", "e-stop"},
         Ticks(WithSnapshot(core), cause),
         UNCHANGED <<front, starts>>, disasters' \in 0 .. MaxDisasters
  PROVE  IInv'
<1> USE DEF IInv, TypeInv
<1>1. /\ exec \in Cores /\ Len(exec.snapshots) <= SnapshotCapacity
      /\ core \in Cores /\ Len(core.queue) <= QueueCapacity
      /\ core.snapshots = exec.snapshots /\ core.published = exec.published
  BY DEF CoreType, TickOf
<1>2. exec' = WithSnapshot(core) /\ trouble' = cause
      /\ peer' = [peer EXCEPT !.ticked = TRUE]
      /\ UNCHANGED <<frontAlive, process, region>>
      /\ UNCHANGED <<front, starts>> /\ disasters' \in 0 .. MaxDisasters
  BY DEF Ticks
<1>3. /\ exec' \in Cores /\ exec'.state = core.state /\ exec'.mode = core.mode
      /\ exec'.mail = core.mail /\ exec'.queue = core.queue
      /\ exec'.published = core.published /\ exec'.acknowledged = core.acknowledged
      /\ Len(exec'.snapshots) <= SnapshotCapacity
      /\ \A i \in DOMAIN exec'.snapshots :
            \/ i \in DOMAIN exec.snapshots /\ exec'.snapshots[i] = exec.snapshots[i]
            \/ /\ exec'.snapshots[i].state = core.state
               /\ exec'.snapshots[i].acknowledged = core.acknowledged
  BY <1>1, <1>2, WithSnapshotCore
<1>4. /\ peer' \in Peers /\ peer'.at = peer.at /\ peer'.item = peer.item
      /\ peer'.arrived = peer.arrived /\ peer'.generation = peer.generation
      /\ peer'.seen = peer.seen /\ peer'.demanded = peer.demanded
  BY <1>2 DEF PeerType, Peers
<1>5. TypeInv'
  BY <1>1, <1>2, <1>3, <1>4 DEF RegionType, PeerType, CoreType, FrontType, PlainType
<1>6. TalkInv'
  BY <1>2, <1>4 DEF TalkInv, Talking
<1>7. ItemInv'
  BY <1>2, <1>4 DEF ItemInv, Underway
<1>8. \A s \in SnapshotsLeft' :
         \/ s \in SnapshotsLeft
         \/ s.state = core.state /\ s.acknowledged = core.acknowledged
  BY <1>3, <1>4 DEF SnapshotsLeft
<1>9. /\ exec.acknowledged \in Nat /\ exec.published \in Nat
      /\ exec.mail # NoDemand => exec.mail.generation \in Nat
  BY <1>1 DEF Cores, Demands
<1>10. \A s \in SnapshotsLeft : s.acknowledged \in Nat
  <2>1. peer.seen \in Snapshots /\ exec.snapshots \in Seq(Snapshots)
    BY <1>1 DEF PeerType, Peers, Cores
  <2>2. SnapshotsLeft \subseteq Snapshots
    BY <2>1 DEF SnapshotsLeft
  <2> QED
    BY <2>2 DEF Snapshots
<1>11. exec.acknowledged <= core.acknowledged /\ core.acknowledged \in Nat
  BY <1>9 DEF TickOf, DemandInv
<1>12. DemandInv'
  <2>1. exec'.mail = NoDemand => exec'.acknowledged = exec'.published
    BY <1>3, <1>1 DEF TickOf, DemandInv
  <2>2. exec'.mail # NoDemand =>
           exec'.mail.generation = exec'.published /\ exec'.acknowledged < exec'.published
    BY <1>3, <1>1 DEF TickOf, DemandInv
  <2>3. ASSUME NEW s \in SnapshotsLeft'
        PROVE  s.acknowledged <= exec'.acknowledged
    BY <2>3, <1>8, <1>3, <1>9, <1>10, <1>11 DEF DemandInv
  <2> QED
    BY <2>1, <2>2, <2>3 DEF DemandInv
<1>13. StopInv'
  <2>1. peer.demanded' => peer'.at \in Demanding \cup AfterDemand
    BY <1>4 DEF StopInv
  <2>2. ASSUME peer'.at \in Demanding
        PROVE  /\ peer'.generation = exec'.published
               /\ exec'.mail # NoDemand => exec'.mail.mode = Ordered'
               /\ exec'.mail = NoDemand => exec'.mode = Ordered'
               /\ \A s \in SnapshotsLeft' :
                     s.acknowledged = peer'.generation /\ s.state \notin MovingStates
                         => ~Moving'
    <3>1. Ordered' = Ordered /\ Ordered \in {"Stop", "Disabled"}
      BY <1>4 DEF Ordered
    <3>2. peer'.generation = exec'.published
      BY <2>2, <1>1, <1>3, <1>4 DEF StopInv
    <3>3. /\ exec'.mail # NoDemand => exec'.mail.mode = Ordered
          /\ exec'.mail = NoDemand => exec'.mode = Ordered
      BY <2>2, <1>3, <1>4 DEF StopInv, TickOf
    <3>4. ASSUME NEW s \in SnapshotsLeft', s.acknowledged = peer'.generation,
                 s.state \notin MovingStates
          PROVE  ~Moving'
      <4>1. Moving' <=> core.state \in MovingStates
        BY <1>3 DEF Moving, MovingStates
      <4>2. CASE s.state = core.state
        BY <4>1, <4>2, <3>4
      <4>3. CASE s \in SnapshotsLeft
        <5>1. exec.acknowledged = exec.published
          BY <4>3, <3>4, <2>2, <1>4, <1>9, <1>10 DEF StopInv, DemandInv
        <5>2. exec.mail = NoDemand
          BY <5>1, <1>9 DEF DemandInv
        <5>3. exec.mode \in {"Stop", "Disabled"} /\ core.mode = exec.mode
          BY <5>2, <2>2, <1>4, <3>1 DEF StopInv, TickOf
        <5>4. ~Moving
          BY <4>3, <3>4, <2>2, <1>4 DEF StopInv
        <5> QED
          BY <5>3, <5>4, <4>1 DEF TickOf
      <4> QED
        BY <4>2, <4>3, <1>8
    <3> QED
      BY <3>1, <3>2, <3>3, <3>4
  <2>3. ASSUME peer'.at \in {"stopping", "disabling"}
        PROVE  \A s \in SnapshotsLeft' : s.acknowledged = peer'.generation
    <3>1. peer.seen \in SnapshotsLeft /\ peer.at \in Demanding
      BY <2>3, <1>4 DEF SnapshotsLeft, Demanding
    <3>2. /\ \A s \in SnapshotsLeft : s.acknowledged = peer.generation
          /\ peer.generation = exec.published
      BY <2>3, <3>1, <1>4 DEF StopInv
    <3>3. exec.acknowledged = exec.published /\ exec.mail = NoDemand
      BY <3>1, <3>2, <1>9 DEF DemandInv
    <3>4. core.acknowledged = peer.generation
      BY <3>2, <3>3 DEF TickOf
    <3> QED
      BY <3>2, <3>4, <1>4, <1>8
  <2>4. ASSUME peer'.demanded, peer'.at \in AfterDemand \ {"exit"}
        PROVE  ~Moving' /\ exec'.mail = NoDemand /\ exec'.mode \in {"Stop", "Disabled"}
    <3>1. ~Moving /\ exec.mail = NoDemand /\ exec.mode \in {"Stop", "Disabled"}
      BY <2>4, <1>4 DEF StopInv
    <3>2. core.mail = NoDemand /\ core.mode = exec.mode /\ core.state \notin MovingStates
      BY <3>1 DEF TickOf
    <3> QED
      BY <3>1, <3>2, <1>3 DEF Moving, MovingStates
  <2> QED
    BY <2>1, <2>2, <2>3, <2>4 DEF StopInv
<1> QED
  BY <1>5, <1>6, <1>7, <1>12, <1>13

LEMMA TicksKeep ==
  ASSUME IInv, UNCHANGED <<front, starts>>, disasters' \in 0 .. MaxDisasters,
         PlainTick \/ LatchTick \/ UnlatchTick \/ IoFaultTick
  PROVE  IInv'
<1> USE DEF IInv, TypeInv
<1>1. exec \in Cores /\ Len(exec.queue) <= QueueCapacity /\ QueueCapacity \in Nat
  BY PeerAssumption DEF CoreType
<1>2. /\ exec.queue \in Seq(Items) /\ Len(exec.queue) \in Nat
      /\ <<>> \in Seq(Items) /\ Len(<<>>) = 0
  BY <1>1 DEF Cores
<1>3. CASE ServoTick
  <2>1. PICK core \in Converged(Demanded) : Ticks(WithSnapshot(core), "none")
    BY <1>3 DEF ServoTick
  <2>2. /\ Demanded \in Cores /\ Demanded.state = exec.state
        /\ Demanded.queue = exec.queue /\ Demanded.snapshots = exec.snapshots
        /\ Demanded.published = exec.published
        /\ exec.mail = NoDemand => Demanded = exec
        /\ exec.mail # NoDemand =>
              /\ Demanded.mail = NoDemand /\ Demanded.mode = exec.mail.mode
              /\ Demanded.acknowledged = exec.mail.generation
    BY DemandedCore
  <2>3. /\ core \in Cores /\ Same(core, Demanded) /\ Len(core.queue) <= Len(exec.queue)
        /\ Demanded.mode \in {"Stop", "Disabled"} /\ exec.state \notin MovingStates
           => core.state \notin MovingStates
    BY <2>2, ConvergedCore
  <2>4. Len(core.queue) <= QueueCapacity
    <3>1. Len(core.queue) \in Nat
      BY <2>3 DEF Cores
    <3> QED
      BY <3>1, <2>3, <1>1, <1>2
  <2>5. ~Moving => exec.state \notin MovingStates
    BY DEF Moving, MovingStates
  <2>6. TickOf(core)
    BY <2>2, <2>3, <2>4, <2>5 DEF TickOf, Same
  <2> QED
    BY <2>1, <2>6, TickKeeps
<1>4. CASE LatchTick
  <2>1. /\ Latched \in Cores /\ Latched.queue = <<>>
        /\ Latched.state = "Faulted" /\ Same(Latched, exec)
    BY <1>1, <1>2 DEF Latched, Cores, Same, States
  <2>2. TickOf(Latched)
    BY <2>1, <1>1, <1>2 DEF TickOf, Same, MovingStates
  <2> QED
    BY <1>4, <2>2, TickKeeps DEF LatchTick
<1>5. CASE UnlatchTick
  <2>1. /\ Unlatched \in Cores /\ Unlatched.queue = exec.queue
        /\ Unlatched.state = "Disabled" /\ Same(Unlatched, exec)
    BY <1>1 DEF Unlatched, Cores, Same, States
  <2>2. TickOf(Unlatched)
    BY <2>1, <1>1 DEF TickOf, Same, MovingStates
  <2> QED
    BY <1>5, <2>2, TickKeeps DEF UnlatchTick
<1>6. Faulted \in Cores /\ Faulted.queue = exec.queue
      /\ Faulted.state = "Faulted" /\ Same(Faulted, exec)
  BY <1>1 DEF Faulted, Cores, Same, States
<1>7. TickOf(Faulted)
  BY <1>6, <1>1 DEF TickOf, Same, MovingStates
<1>8. CASE IoFaultTick
  BY <1>8, <1>7, TickKeeps DEF IoFaultTick
<1>9. CASE FaultedTick
  BY <1>9, <1>7, TickKeeps DEF FaultedTick
<1>10. CASE LatchedTick
  <2>1. exec' = exec /\ trouble' = "e-stop" /\ peer' = [peer EXCEPT !.ticked = TRUE]
        /\ UNCHANGED <<frontAlive, process, region, front, starts>>
        /\ disasters' \in 0 .. MaxDisasters
    BY <1>10 DEF LatchedTick, Ticks
  <2>2. /\ peer' \in Peers /\ peer'.at = peer.at /\ peer'.item = peer.item
        /\ peer'.arrived = peer.arrived /\ peer'.generation = peer.generation
        /\ peer'.seen = peer.seen /\ peer'.demanded = peer.demanded
    BY <2>1 DEF PeerType, Peers
  <2>3. TypeInv'
    BY <2>1, <2>2 DEF RegionType, PeerType, CoreType, FrontType, PlainType
  <2>4. TalkInv' /\ ItemInv'
    BY <2>1, <2>2 DEF TalkInv, Talking, ItemInv, Underway
  <2>5. DemandInv'
    BY <2>1, <2>2 DEF DemandInv, SnapshotsLeft
  <2>6. StopInv'
    BY <2>1, <2>2, ZenonT(60) DEF StopInv, SnapshotsLeft, Ordered, Moving
  <2> QED
    BY <2>3, <2>4, <2>5, <2>6
<1> QED
  BY <1>3, <1>4, <1>5, <1>8, <1>9, <1>10 DEF PlainTick

-----------------------------------------------------------------------------
(* The steps of the peer's main thread.                                    *)

\* A step to another phase of the peer's life, which may say so in the region: it does
\* not begin to demand, and between talking partners it does not ask for a stop.
LEMMA PhaseKeeps ==
  ASSUME IInv, UNCHANGED <<frontAlive, process, exec, trouble>>, UNCHANGED frontVars,
         NEW at \in PeerAt \ Demanding, peer' = [peer EXCEPT !.at = at],
         NEW connection \in Connections,
         \/ region' = region /\ connection = region.connection
         \/ region' = [region EXCEPT !.connection = connection],
         Talking => connection # "StopRequested",
         Talking /\ front.at = "handshake" => at \notin {"bridge", "inputs"}
                                              /\ connection # "Running",
         peer.demanded => peer.at \in AfterDemand \ {"exit"} /\ at \in AfterDemand
  PROVE  IInv'
<1> USE DEF IInv, TypeInv
<1>1. UNCHANGED <<front, starts, disasters>>
  BY DEF frontVars
<1>2. /\ peer' \in Peers /\ peer'.at = at /\ peer'.item = peer.item
      /\ peer'.arrived = peer.arrived /\ peer'.generation = peer.generation
      /\ peer'.seen = peer.seen /\ peer'.demanded = peer.demanded
  BY DEF PeerType, Peers
<1>3. /\ region' \in Regions /\ region'.connection = connection
      /\ region'.items = region.items /\ region'.events = region.events
  BY DEF RegionType, Regions
<1>4. TypeInv'
  BY <1>1, <1>2, <1>3 DEF RegionType, PeerType, CoreType, FrontType, PlainType
<1>5. Talking' <=> Talking
  BY <1>1 DEF Talking
<1>6. TalkInv'
  BY <1>1, <1>2, <1>3, <1>5 DEF TalkInv
<1>7. ItemInv'
  BY <1>1, <1>2, <1>3 DEF ItemInv, Underway
<1>8. DemandInv'
  BY <1>2 DEF DemandInv, SnapshotsLeft
<1>9. StopInv'
  <2>1. peer'.at \notin Demanding /\ peer'.at \notin {"stopping", "disabling"}
    BY <1>2 DEF Demanding
  <2>2. peer'.demanded => peer'.at \in AfterDemand
    BY <1>2
  <2>3. peer'.demanded => ~Moving /\ exec.mail = NoDemand /\ exec.mode \in {"Stop", "Disabled"}
    BY <1>2 DEF StopInv
  <2> QED
    BY <2>1, <2>2, <2>3 DEF StopInv, Moving
<1> QED
  BY <1>4, <1>6, <1>7, <1>8, <1>9

\* In these phases the peer has not demanded anything.
LEMMA NotYetDemanded ==
  ASSUME IInv, peer.at \notin Demanding \cup AfterDemand
  PROVE  ~peer.demanded
BY DEF IInv, StopInv

LEMMA OpensKeeps ==
  ASSUME IInv, Opens, UNCHANGED frontVars
  PROVE  IInv'
<1>1. UNCHANGED <<frontAlive, process, exec, trouble>> /\ peer.at = "opening"
  BY DEF Opens, PeerIsAt
<1>2. ~peer.demanded
  BY <1>1, NotYetDemanded DEF Demanding, AfterDemand
<1>3. region.connection \in Connections
  BY DEF IInv, TypeInv, RegionType, Regions
<1>4. /\ Talking => region.connection # "StopRequested"
      /\ Talking /\ front.at = "handshake" => region.connection # "Running"
  BY DEF IInv, TalkInv
<1>5. \E at \in {"exit", "starting"},
         connection \in {"Rejected", "PeerLost", region.connection} :
         /\ peer' = [peer EXCEPT !.at = at]
         /\ \/ region' = region /\ connection = region.connection
            \/ region' = [region EXCEPT !.connection = connection]
  BY DEF Opens
<1>6. PICK at \in {"exit", "starting"},
         connection \in {"Rejected", "PeerLost", region.connection} :
         /\ peer' = [peer EXCEPT !.at = at]
         /\ \/ region' = region /\ connection = region.connection
            \/ region' = [region EXCEPT !.connection = connection]
  BY <1>5
<1>7. at \in PeerAt \ Demanding /\ at \notin {"bridge", "inputs"} /\ connection \in Connections
      /\ (Talking => connection # "StopRequested")
      /\ (Talking /\ front.at = "handshake" => connection # "Running")
  BY <1>3, <1>4 DEF PeerAt, Demanding, Connections
<1> QED
  BY <1>1, <1>2, <1>6, <1>7, PhaseKeeps

LEMMA StartsRuntimeKeeps ==
  ASSUME IInv, StartsRuntime, UNCHANGED frontVars
  PROVE  IInv'
<1>1. UNCHANGED <<frontAlive, process, exec, trouble>> /\ peer.at = "starting"
  BY DEF StartsRuntime, PeerIsAt
<1>2. ~peer.demanded
  BY <1>1, NotYetDemanded DEF Demanding, AfterDemand
<1>3. region.connection \in Connections
  BY DEF IInv, TypeInv, RegionType, Regions
<1>4. /\ Talking => region.connection # "StopRequested"
      /\ Talking /\ front.at = "handshake" => region.connection # "Running"
  BY DEF IInv, TalkInv
<1>5. CASE frontAlive
  <2>1. peer' = [peer EXCEPT !.at = "loss?"] /\ region' = region
    BY <1>5 DEF StartsRuntime
  <2>2. "loss?" \in PeerAt \ Demanding
    BY DEF PeerAt, Demanding
  <2> QED
    BY <1>1, <1>2, <1>3, <1>4, <2>1, <2>2, PhaseKeeps
<1>6. CASE ~frontAlive
  <2>1. /\ peer' = [peer EXCEPT !.at = "exit"]
        /\ region' = [region EXCEPT !.connection = "PeerLost"]
    BY <1>6 DEF StartsRuntime
  <2>2. "exit" \in PeerAt \ Demanding /\ "PeerLost" \in Connections
    BY DEF PeerAt, Demanding, Connections
  <2> QED
    BY <1>1, <1>2, <2>1, <2>2, PhaseKeeps
<1> QED
  BY <1>5, <1>6

LEMMA SeesFrontendKeeps ==
  ASSUME IInv, SeesFrontend, UNCHANGED frontVars
  PROVE  IInv'
<1>1. /\ UNCHANGED <<frontAlive, process, exec, trouble>> /\ peer.at = "loss?"
      /\ peer' = [peer EXCEPT !.at = "ready"] /\ region' = region
  BY DEF SeesFrontend, PeerIsAt
<1>2. ~peer.demanded
  BY <1>1, NotYetDemanded DEF Demanding, AfterDemand
<1>3. region.connection \in Connections
  BY DEF IInv, TypeInv, RegionType, Regions
<1>4. /\ Talking => region.connection # "StopRequested"
      /\ Talking /\ front.at = "handshake" => region.connection # "Running"
  BY DEF IInv, TalkInv
<1>5. "ready" \in PeerAt \ Demanding
  BY DEF PeerAt, Demanding
<1> QED
  BY <1>1, <1>2, <1>3, <1>4, <1>5, PhaseKeeps

LEMMA TellsReadyKeeps ==
  ASSUME IInv, TellsReady, UNCHANGED frontVars
  PROVE  IInv'
<1>1. /\ UNCHANGED <<frontAlive, process, exec, trouble>> /\ peer.at = "ready"
      /\ peer' = [peer EXCEPT !.at = "spin"]
      /\ region' = [region EXCEPT !.connection = "PeerReady"]
  BY DEF TellsReady, PeerIsAt
<1>2. ~peer.demanded
  BY <1>1, NotYetDemanded DEF Demanding, AfterDemand
<1>3. "spin" \in PeerAt \ Demanding /\ "PeerReady" \in Connections
  BY DEF PeerAt, Demanding, Connections
<1> QED
  BY <1>1, <1>2, <1>3, PhaseKeeps

LEMMA EndsSpinningKeeps ==
  ASSUME IInv, EndsSpinning, UNCHANGED frontVars
  PROVE  IInv'
<1>1. /\ UNCHANGED <<frontAlive, process, exec, trouble>> /\ peer.at = "spin"
      /\ region' = region
      /\ peer' = [peer EXCEPT !.at = IF region.connection = "Running" THEN "bridge" ELSE "halt"]
  BY DEF EndsSpinning, PeerIsAt
<1>2. ~peer.demanded
  BY <1>1, NotYetDemanded DEF Demanding, AfterDemand
<1>3. region.connection \in Connections
  BY DEF IInv, TypeInv, RegionType, Regions
<1>4. /\ Talking => region.connection # "StopRequested"
      /\ Talking /\ front.at = "handshake" => region.connection # "Running"
  BY DEF IInv, TalkInv
<1>5. {"bridge", "halt"} \subseteq PeerAt \ Demanding
  BY DEF PeerAt, Demanding
<1>6. PICK at \in {"bridge", "halt"} :
         /\ peer' = [peer EXCEPT !.at = at]
         /\ at = "bridge" <=> region.connection = "Running"
  BY <1>1
<1>7. ASSUME Talking, front.at = "handshake"
      PROVE  at \notin {"bridge", "inputs"}
  <2>1. at # "bridge"
    BY <1>4, <1>6, <1>7
  <2> QED
    BY <2>1, <1>6
<1> QED
  BY <1>1, <1>2, <1>3, <1>4, <1>5, <1>6, <1>7, PhaseKeeps

LEMMA LastTickKeeps ==
  ASSUME IInv, LastTick, UNCHANGED frontVars
  PROVE  IInv'
<1>1. /\ UNCHANGED <<frontAlive, process, exec, trouble>> /\ peer.at = "last tick"
      /\ peer' = [peer EXCEPT !.at = "halt"] /\ region' = region
  BY DEF LastTick, PeerIsAt
<1>2. region.connection \in Connections
  BY DEF IInv, TypeInv, RegionType, Regions
<1>3. /\ Talking => region.connection # "StopRequested"
      /\ Talking /\ front.at = "handshake" => region.connection # "Running"
  BY DEF IInv, TalkInv
<1>4. "halt" \in PeerAt \ Demanding /\ {"last tick", "halt"} \subseteq AfterDemand \ {"exit"}
  BY DEF PeerAt, Demanding, AfterDemand
<1> QED
  BY <1>1, <1>2, <1>3, <1>4, PhaseKeeps

\* The runtime ends: a core that is still enabled is latched.
LEMMA HaltsKeeps ==
  ASSUME IInv, Halts, UNCHANGED frontVars
  PROVE  IInv'
<1> USE DEF IInv, TypeInv
<1>1. /\ UNCHANGED <<frontAlive, process, trouble>> /\ UNCHANGED <<front, starts, disasters>>
      /\ peer.at = "halt" /\ peer' = [peer EXCEPT !.at = "exit"]
      /\ exec' = exec \/ exec' = Latched
      /\ region' = region \/ region' = [region EXCEPT !.connection = "PeerStopped"]
  BY DEF Halts, PeerIsAt, frontVars
<1>2. exec \in Cores /\ QueueCapacity \in Nat /\ <<>> \in Seq(Items) /\ Len(<<>>) = 0
  BY PeerAssumption DEF CoreType
<1>3. Latched \in Cores /\ Latched.queue = <<>> /\ Same(Latched, exec)
  BY <1>2 DEF Latched, Cores, Same, States
<1>4. /\ exec' \in Cores /\ Same(exec', exec) /\ Len(exec'.queue) <= QueueCapacity
  BY <1>1, <1>2, <1>3 DEF Same, CoreType
<1>5. /\ peer' \in Peers /\ peer'.at = "exit" /\ peer'.item = peer.item
      /\ peer'.arrived = peer.arrived /\ peer'.seen = peer.seen
  BY <1>1 DEF PeerType, Peers, PeerAt
<1>6. /\ region' \in Regions /\ region'.connection \in {region.connection, "PeerStopped"}
      /\ region'.items = region.items /\ region'.events = region.events
  BY <1>1 DEF RegionType, Regions, Connections
<1>7. TypeInv'
  BY <1>1, <1>4, <1>5, <1>6 DEF RegionType, PeerType, CoreType, FrontType, PlainType, Same
<1>8. Talking' <=> Talking
  BY <1>1 DEF Talking
<1>9. TalkInv'
  BY <1>1, <1>5, <1>6, <1>8 DEF TalkInv
<1>10. ItemInv'
  BY <1>1, <1>5, <1>6 DEF ItemInv, Underway
<1>11. SnapshotsLeft' = SnapshotsLeft
  BY <1>4, <1>5 DEF SnapshotsLeft, Same
<1>12. DemandInv'
  BY <1>4, <1>11 DEF DemandInv, Same
<1>13. StopInv'
  BY <1>5 DEF StopInv, Demanding, AfterDemand
<1> QED
  BY <1>7, <1>9, <1>10, <1>12, <1>13

\* The peer turns to its stop, or begins its life, or ends it: its record is new, and
\* whatever talk there was is over or has not begun.
LEMMA TurnsToStopKeeps ==
  ASSUME IInv, UNCHANGED <<frontAlive, process, exec, trouble>>, UNCHANGED frontVars,
         NEW connection \in Connections, TurnsToStop(connection), ~Talking
  PROVE  IInv'
<1> USE DEF IInv, TypeInv
<1>1. UNCHANGED <<front, starts, disasters>>
  BY DEF frontVars
<1>2. /\ peer' \in Peers /\ peer'.at = "first" /\ peer'.item = <<>> /\ ~peer'.demanded
      /\ peer'.seen.acknowledged = 0
  <2>1. "first" \in PeerAt
    BY DEF PeerAt
  <2> QED
    BY <2>1, NewPeerAt DEF TurnsToStop
<1>3. /\ region' \in Regions /\ region'.items = <<>> /\ region'.events = 0
  BY NewRecords DEF TurnsToStop, Regions
<1>4. RingCapacity \in Nat /\ Len(<<>>) = 0
  BY PeerAssumption
<1>5. TypeInv'
  BY <1>1, <1>2, <1>3, <1>4 DEF RegionType, PeerType, CoreType, FrontType, PlainType
<1>6. ~Talking'
  BY <1>1 DEF Talking
<1>7. TalkInv'
  BY <1>1, <1>6 DEF TalkInv
<1>8. ItemInv'
  BY <1>6 DEF ItemInv, Talking
<1>9. DemandInv'
  <2>1. exec.acknowledged \in Nat
    BY DEF CoreType, Cores
  <2> QED
    BY <1>2, <2>1 DEF DemandInv, SnapshotsLeft
<1>10. StopInv'
  BY <1>2 DEF StopInv, Demanding, AfterDemand
<1> QED
  BY <1>5, <1>7, <1>8, <1>9, <1>10

LEMMA SeesFrontendLossKeeps ==
  ASSUME IInv, SeesFrontendLoss, UNCHANGED frontVars
  PROVE  IInv'
<1>1. ~Talking
  BY DEF SeesFrontendLoss, IInv, TalkInv, Talking
<1>2. "PeerLost" \in Connections
  BY DEF Connections
<1> QED
  BY <1>1, <1>2, TurnsToStopKeeps DEF SeesFrontendLoss

LEMMA BeginsStopKeeps ==
  ASSUME IInv, BeginsStop, UNCHANGED frontVars
  PROVE  IInv'
<1>1. ~Talking
  BY DEF BeginsStop, IInv, TalkInv
<1>2. "StopRequested" \in Connections
  BY DEF Connections
<1> QED
  BY <1>1, <1>2, TurnsToStopKeeps DEF BeginsStop

\* publishOutputs takes events and a snapshot from the core, and nothing of the items.
LEMMA PublishesOutputsKeeps ==
  ASSUME IInv, PublishesOutputs, UNCHANGED frontVars
  PROVE  IInv'
<1> USE DEF IInv, TypeInv
<1> DEFINE takes == ~peer.event /\ exec.events > 0
           pushes == (peer.event \/ takes) /\ region.events < RingCapacity
           event == (peer.event \/ takes) /\ ~pushes
           events == IF takes THEN exec.events - 1 ELSE exec.events
<1>1. /\ peer.at = "bridge" /\ UNCHANGED <<frontAlive, process, trouble>>
      /\ UNCHANGED <<front, starts, disasters>>
      /\ peer' = [peer EXCEPT !.at = "inputs", !.event = event]
      /\ region' = [region EXCEPT !.events = IF pushes THEN @ + 1 ELSE @]
  BY DEF PublishesOutputs, PeerIsAt, frontVars
<1>2. PICK left \in {exec.snapshots} \cup {Tail(s) : s \in {exec.snapshots} \ {<<>>}} :
         exec' = [exec EXCEPT !.events = events, !.snapshots = left]
  BY DEF PublishesOutputs
<1>3. /\ exec \in Cores /\ exec.snapshots \in Seq(Snapshots) /\ exec.events \in Nat
      /\ Len(exec.snapshots) <= SnapshotCapacity /\ SnapshotCapacity \in Nat
  BY PeerAssumption DEF CoreType, Cores
<1>4. /\ left \in Seq(Snapshots) /\ Len(left) <= SnapshotCapacity
      /\ \A i \in DOMAIN left : \E j \in DOMAIN exec.snapshots : left[i] = exec.snapshots[j]
  <2>1. CASE left = exec.snapshots
    BY <2>1, <1>3
  <2>2. CASE left = Tail(exec.snapshots) /\ exec.snapshots # <<>>
    <3>1. /\ left \in Seq(Snapshots) /\ Len(left) = Len(exec.snapshots) - 1
          /\ \A i \in 1 .. Len(left) : left[i] = exec.snapshots[i + 1]
      BY <2>2, <1>3, HeadTailProperties
    <3>2. Len(exec.snapshots) \in Nat /\ Len(left) \in Nat
      BY <1>3, <3>1
    <3>3. DOMAIN left = 1 .. Len(left) /\ DOMAIN exec.snapshots = 1 .. Len(exec.snapshots)
      BY <1>3, <3>1
    <3>4. \A i \in DOMAIN left : i + 1 \in DOMAIN exec.snapshots
      BY <3>1, <3>2, <3>3
    <3> QED
      BY <3>1, <3>2, <3>3, <3>4, <1>3
  <2> QED
    BY <2>1, <2>2
<1>5. events \in Nat /\ event \in BOOLEAN
  BY <1>3 DEF PeerType, Peers
<1> HIDE DEF event, events
<1>6. /\ exec' \in Cores /\ exec'.snapshots = left /\ exec'.state = exec.state
      /\ exec'.mode = exec.mode /\ exec'.mail = exec.mail /\ exec'.queue = exec.queue
      /\ exec'.published = exec.published /\ exec'.acknowledged = exec.acknowledged
  BY <1>2, <1>3, <1>4, <1>5 DEF Cores
<1>7. /\ peer' \in Peers /\ peer'.at = "inputs" /\ peer'.item = peer.item
      /\ peer'.arrived = peer.arrived /\ peer'.seen = peer.seen
      /\ peer'.demanded = peer.demanded
  BY <1>1, <1>5 DEF PeerType, Peers, PeerAt
<1>8. /\ region' \in Regions /\ region'.connection = region.connection
      /\ region'.items = region.items /\ region'.events <= RingCapacity
  <2>1. RingCapacity \in Nat /\ region.events \in Nat /\ region.events <= RingCapacity
    BY PeerAssumption DEF RegionType, Regions
  <2>2. /\ (IF pushes THEN region.events + 1 ELSE region.events) \in Nat
        /\ (IF pushes THEN region.events + 1 ELSE region.events) <= RingCapacity
    BY <2>1
  <2> HIDE DEF pushes
  <2> QED
    BY <1>1, <2>2 DEF RegionType, Regions
<1>9. TypeInv'
  BY <1>1, <1>3, <1>4, <1>6, <1>7, <1>8
     DEF RegionType, PeerType, CoreType, FrontType, PlainType
<1>10. Talking' <=> Talking
  BY <1>1 DEF Talking
<1>11. TalkInv'
  <2>1. ~(Talking /\ front.at = "handshake")
    BY <1>1 DEF TalkInv
  <2> QED
    BY <1>1, <1>8, <1>10, <2>1 DEF TalkInv
<1>12. ItemInv'
  BY <1>1, <1>7, <1>8 DEF ItemInv, Underway
<1>13. DemandInv'
  <2>1. SnapshotsLeft' \subseteq SnapshotsLeft
    BY <1>4, <1>6, <1>7 DEF SnapshotsLeft
  <2> QED
    BY <2>1, <1>6 DEF DemandInv
<1>14. StopInv'
  <2>1. ~peer.demanded
    BY <1>1, NotYetDemanded DEF Demanding, AfterDemand
  <2> QED
    BY <2>1, <1>7 DEF StopInv, Demanding, AfterDemand
<1> QED
  BY <1>9, <1>11, <1>12, <1>13, <1>14

LEMMA SameInterval ==
  ASSUME NEW m \in Nat, NEW n \in Nat, 1 .. m = 1 .. n
  PROVE  m = n
<1>1. CASE m < n
  <2>1. n \in 1 .. n /\ n \notin 1 .. m
    BY <1>1
  <2> QED
    BY <2>1
<1>2. CASE n < m
  <2>1. m \in 1 .. m /\ m \notin 1 .. n
    BY <1>2
  <2> QED
    BY <2>1
<1> QED
  BY <1>1, <1>2

\* What the bridge and the ring hold are the items from arrived + 1 up to sent.
HoldNext(sent, arrived, held, items) ==
    /\ Len(held) + Len(items) = sent - arrived
    /\ \A i \in 1 .. Len(held) : held[i] = arrived + i
    /\ \A i \in 1 .. Len(items) : items[i] = arrived + Len(held) + i

LEMMA ItemsSplit ==
  ASSUME NEW sent \in Nat, NEW arrived \in Nat, arrived <= sent,
         NEW held \in Seq(Items), NEW items \in Seq(Items),
         held \o items = Numbered(sent, arrived)
  PROVE  HoldNext(sent, arrived, held, items)
<1> DEFINE all == held \o items
           n == sent - arrived
<1>1. n \in Nat /\ Len(held) \in Nat /\ Len(items) \in Nat
  OBVIOUS
<1>2. /\ all \in Seq(Items) /\ Len(all) = Len(held) + Len(items)
      /\ \A i \in 1 .. Len(held) + Len(items) :
            all[i] = IF i <= Len(held) THEN held[i] ELSE items[i - Len(held)]
  BY ConcatProperties
<1>3. DOMAIN all = 1 .. n /\ \A i \in 1 .. n : all[i] = arrived + i
  BY DEF Numbered
<1> HIDE DEF all, n
<1>4. DOMAIN all = 1 .. Len(all) /\ Len(all) \in Nat
  BY <1>2
<1>5. Len(all) = n /\ Len(held) + Len(items) = n
  BY <1>1, <1>2, <1>3, <1>4, SameInterval
<1>6. ASSUME NEW i \in 1 .. Len(held)
      PROVE  held[i] = arrived + i
  <2>1. i \in 1 .. n /\ i <= Len(held)
    BY <1>1, <1>5
  <2> QED
    BY <2>1, <1>2, <1>3, <1>5
<1>7. ASSUME NEW i \in 1 .. Len(items)
      PROVE  items[i] = arrived + Len(held) + i
  <2>1. /\ Len(held) + i \in 1 .. n /\ ~(Len(held) + i <= Len(held))
        /\ (Len(held) + i) - Len(held) = i
    BY <1>1, <1>5
  <2>2. all[Len(held) + i] = items[i]
    BY <2>1, <1>2, <1>5
  <2>3. all[Len(held) + i] = arrived + (Len(held) + i)
    BY <2>1, <1>3
  <2> QED
    BY <2>2, <2>3, <1>1
<1> QED
  BY <1>5, <1>6, <1>7 DEF n, HoldNext

LEMMA ItemsMade ==
  ASSUME NEW sent \in Nat, NEW arrived \in Nat, arrived <= sent,
         NEW held \in Seq(Items), NEW items \in Seq(Items),
         HoldNext(sent, arrived, held, items)
  PROVE  held \o items = Numbered(sent, arrived)
<1> DEFINE all == held \o items
<1> USE DEF HoldNext
<1>1. /\ Len(held) \in Nat /\ Len(items) \in Nat /\ sent - arrived \in Nat
  OBVIOUS
<1>2. /\ all \in Seq(Items) /\ Len(all) = Len(held) + Len(items)
      /\ \A i \in 1 .. Len(held) + Len(items) :
            all[i] = IF i <= Len(held) THEN held[i] ELSE items[i - Len(held)]
  BY ConcatProperties
<1> HIDE DEF all
<1>3. DOMAIN all = 1 .. Len(all) /\ all \in [1 .. Len(all) -> Items]
  BY <1>2
<1>4. ASSUME NEW i \in 1 .. sent - arrived
      PROVE  all[i] = arrived + i
  <2>1. CASE i <= Len(held)
    <3>1. i \in 1 .. Len(held) /\ i \in 1 .. Len(held) + Len(items)
      BY <2>1, <1>1
    <3>2. all[i] = held[i]
      BY <2>1, <3>1, <1>2
    <3> QED
      BY <3>1, <3>2
  <2>2. CASE ~(i <= Len(held))
    <3>1. i - Len(held) \in 1 .. Len(items)
      BY <2>2, <1>1
    <3>2. all[i] = items[i - Len(held)]
      BY <2>2, <1>1, <1>2
    <3> QED
      BY <3>1, <3>2, <1>1
  <2> QED
    BY <2>1, <2>2
<1>5. DOMAIN all = 1 .. sent - arrived
  BY <1>1, <1>2, <1>3
<1>6. all = Numbered(sent, arrived)
  BY <1>3, <1>4, <1>5 DEF Numbered
<1> QED
  BY <1>6 DEF all

LEMMA ItemsLeft ==
  ASSUME IInv, process = "running", front.at = "connected"
  PROVE  /\ front.sent \in Nat /\ peer.arrived \in Nat /\ peer.arrived <= front.sent
         /\ peer.item \in Seq(Items) /\ region.items \in Seq(Items)
         /\ HoldNext(front.sent, peer.arrived, peer.item, region.items)
<1>1. /\ front.sent \in Nat /\ peer.arrived \in Nat
      /\ peer.item \in Seq(Items) /\ region.items \in Seq(Items)
  BY DEF IInv, TypeInv, FrontType, Fronts, PeerType, Peers, RegionType, Regions
<1>2. /\ peer.arrived <= front.sent
      /\ peer.item \o region.items = Numbered(front.sent, peer.arrived)
  BY DEF IInv, ItemInv, Underway
<1> QED
  BY <1>1, <1>2, ItemsSplit

\* submitInputs ends a round of the bridge.  What it does to the core cannot disturb a
\* stop, because none has been demanded; what it does to the items is left to its callers.
LEMMA SubmissionKeeps ==
  ASSUME IInv, UNCHANGED <<frontAlive, process, trouble>>, UNCHANGED frontVars,
         peer.at = "inputs",
         peer' \in Peers, peer'.at = "bridge", Len(peer'.item) <= 1,
         peer'.seen = peer.seen, peer'.demanded = peer.demanded,
         region' \in Regions, region'.connection = region.connection,
         region'.events = region.events, Len(region'.items) <= RingCapacity,
         exec' \in Cores, Len(exec'.queue) <= QueueCapacity,
         exec'.snapshots = exec.snapshots, exec'.acknowledged = exec.acknowledged,
         \/ exec'.mail = exec.mail /\ exec'.published = exec.published
         \/ exec'.mail.generation = exec'.published /\ exec'.published > exec.published,
         ItemInv'
  PROVE  IInv'
<1> USE DEF IInv, TypeInv
<1>1. UNCHANGED <<front, starts, disasters>>
  BY DEF frontVars
<1>2. TypeInv'
  BY <1>1 DEF RegionType, PeerType, CoreType, FrontType, PlainType
<1>3. Talking' <=> Talking
  BY <1>1 DEF Talking
<1>4. TalkInv'
  <2>1. ~(Talking /\ front.at = "handshake")
    BY DEF TalkInv
  <2> QED
    BY <1>1, <1>3, <2>1 DEF TalkInv
<1>5. SnapshotsLeft' = SnapshotsLeft
  BY DEF SnapshotsLeft
<1>6. DemandInv'
  <2>1. /\ exec.acknowledged \in Nat /\ exec.published \in Nat /\ exec'.published \in Nat
        /\ exec.acknowledged <= exec.published
    <3>1. exec.acknowledged \in Nat /\ exec.published \in Nat /\ exec'.published \in Nat
      BY DEF CoreType, Cores
    <3> QED
      BY <3>1 DEF DemandInv
  <2>2. CASE exec'.mail = exec.mail /\ exec'.published = exec.published
    BY <2>2, <1>5 DEF DemandInv
  <2>3. CASE exec'.mail.generation = exec'.published /\ exec'.published > exec.published
    <3>1. exec'.mail # NoDemand
      BY <2>1, <2>3 DEF NoDemand
    <3> QED
      BY <2>1, <2>3, <3>1, <1>5 DEF DemandInv
  <2> QED
    BY <2>2, <2>3
<1>7. StopInv'
  <2>1. ~peer.demanded
    BY NotYetDemanded DEF Demanding, AfterDemand
  <2> QED
    BY <2>1 DEF StopInv, Demanding, AfterDemand
<1> QED
  BY <1>2, <1>4, <1>6, <1>7

LEMMA SubmitsDemandOnlyKeeps ==
  ASSUME IInv, SubmitsDemandOnly, UNCHANGED frontVars
  PROVE  IInv'
<1> USE DEF IInv, TypeInv
<1>1. /\ peer.at = "inputs" /\ UNCHANGED <<frontAlive, process, trouble>>
      /\ UNCHANGED <<front, starts, disasters>>
      /\ peer' = [peer EXCEPT !.at = "bridge"] /\ exec' = Submitted
      /\ region' = [region EXCEPT !.demand = NoDemand]
  BY DEF SubmitsDemandOnly, PeerIsAt, frontVars
<1>2. /\ peer' \in Peers /\ peer'.at = "bridge" /\ peer'.item = peer.item
      /\ peer'.arrived = peer.arrived /\ peer'.seen = peer.seen
      /\ peer'.demanded = peer.demanded /\ Len(peer'.item) <= 1
  BY <1>1 DEF PeerType, Peers, PeerAt
<1>3. NoDemand \in Demands
  BY DEF NoDemand, Demands, Modes
<1>4. /\ region' \in Regions /\ region'.connection = region.connection
      /\ region'.events = region.events /\ region'.items = region.items
      /\ Len(region'.items) <= RingCapacity
  BY <1>1, <1>3 DEF RegionType, Regions
<1>5. ItemInv'
  BY <1>1, <1>2, <1>4 DEF ItemInv, Underway
<1>6. /\ exec' \in Cores /\ Len(exec'.queue) <= QueueCapacity
      /\ exec'.snapshots = exec.snapshots /\ exec'.acknowledged = exec.acknowledged
      /\ \/ exec'.mail = exec.mail /\ exec'.published = exec.published
         \/ exec'.mail.generation = exec'.published /\ exec'.published > exec.published
  BY <1>1, SubmittedCore DEF CoreType
<1> QED
  BY <1>1, <1>2, <1>4, <1>5, <1>6, SubmissionKeeps

LEMMA NatAtMostOne ==
  ASSUME NEW n \in Nat, n <= 1, n # 0
  PROVE  n = 1
OBVIOUS

\* The first item that the bridge and the ring hold is passed on or kept.
FirstOf(held, items) == IF held # <<>> THEN held[1] ELSE Head(items)
RestOf(held, items) == IF held # <<>> THEN items ELSE Tail(items)

LEMMA ItemPassed ==
  ASSUME NEW sent \in Nat, NEW arrived \in Nat, arrived <= sent,
         NEW held \in Seq(Items), NEW items \in Seq(Items), Len(held) <= 1,
         HoldNext(sent, arrived, held, items),
         held # <<>> \/ items # <<>>
  PROVE  /\ arrived + 1 <= sent
         /\ <<>> \o RestOf(held, items) = Numbered(sent, arrived + 1)
         /\ <<FirstOf(held, items)>> \o RestOf(held, items) = Numbered(sent, arrived)
<1> DEFINE item == FirstOf(held, items)
           left == RestOf(held, items)
<1> USE DEF HoldNext
<1>1. Len(held) \in Nat /\ Len(items) \in Nat
      /\ (held = <<>> <=> Len(held) = 0) /\ (items = <<>> <=> Len(items) = 0)
  BY EmptySeq
<1> USE DEF FirstOf, RestOf
<1>2. /\ item \in Items /\ item = arrived + 1
      /\ left \in Seq(Items) /\ Len(left) = sent - (arrived + 1)
      /\ Len(left) <= Len(items) /\ arrived + 1 <= sent
      /\ \A i \in 1 .. Len(left) : left[i] = arrived + 1 + i
  <2>1. CASE held # <<>>
    <3>1. Len(held) # 0
      BY <2>1, <1>1, Zenon
    <3>2. Len(held) = 1
      BY <3>1, <1>1, NatAtMostOne, Zenon
    <3>3. 1 \in 1 .. Len(held)
      BY <3>2
    <3>4. held[1] \in Items
      BY <3>3, ElementOfSeq
    <3>5. item = arrived + 1 /\ left = items
      BY <2>1, <3>3
    <3> HIDE DEF item, left
    <3>6. Len(items) = sent - (arrived + 1)
      BY <3>2, <1>1
    <3>7. \A i \in 1 .. Len(items) : items[i] = arrived + 1 + i
      BY <3>2
    <3> QED
      BY <2>1, <3>3, <3>4, <3>5, <3>6, <3>7, <1>1
  <2>2. CASE held = <<>>
    <3>1. Len(held) = 0 /\ items # <<>> /\ Len(items) > 0
      BY <2>2, <1>1
    <3>2. /\ left = Tail(items) /\ left \in Seq(Items) /\ Len(left) = Len(items) - 1
          /\ \A i \in 1 .. Len(left) : left[i] = items[i + 1]
          /\ item = items[1] /\ item \in Items
      BY <2>2, <3>1, HeadTailProperties
    <3> HIDE DEF item, left
    <3>3. item = arrived + 1 /\ Len(left) = sent - (arrived + 1)
          /\ Len(left) <= Len(items) /\ arrived + 1 <= sent
      BY <3>1, <3>2, <1>1
    <3>4. ASSUME NEW i \in 1 .. Len(left)
          PROVE  left[i] = arrived + 1 + i
      <4>1. i \in Nat /\ i + 1 \in 1 .. Len(items)
        BY <3>1, <3>2, <1>1
      <4>2. items[i + 1] = arrived + 0 + (i + 1)
        BY <4>1, <3>1
      <4> QED
        BY <4>1, <4>2, <3>2
    <3> QED
      BY <3>2, <3>3, <3>4
  <2> QED
    BY <2>1, <2>2
<1> HIDE DEF item, left, FirstOf, RestOf
<1>3. <<>> \o left = Numbered(sent, arrived + 1)
  <2>1. <<>> \in Seq(Items) /\ Len(<<>>) = 0 /\ Len(left) \in Nat
    BY <1>2
  <2>2. <<>> \o left = left
    BY <1>2, ConcatEmptySeq
  <2>3. left \in [1 .. sent - (arrived + 1) -> Items]
    <3>1. left \in [1 .. Len(left) -> Items]
      BY <1>2, LenProperties, Zenon
    <3> QED
      BY <1>2, <3>1, Zenon
  <2>4. \A i \in 1 .. sent - (arrived + 1) : left[i] = (arrived + 1) + i
    BY <1>2
  <2>5. left = Numbered(sent, arrived + 1)
    BY <2>3, <2>4 DEF Numbered
  <2> QED
    BY <2>2, <2>5
<1>4. <<item>> \o left = Numbered(sent, arrived)
  <2>1. /\ <<item>> \in Seq(Items) /\ Len(<<item>>) = 1 /\ <<item>>[1] = item
        /\ Len(left) \in Nat
    BY <1>2
  <2>2. \A i \in 1 .. Len(left) : left[i] = arrived + Len(<<item>>) + i
    BY <1>2, <2>1
  <2>3. Len(<<item>>) + Len(left) = sent - arrived
    BY <1>2, <2>1
  <2>4. \A i \in 1 .. Len(<<item>>) : <<item>>[i] = arrived + i
    BY <2>1, <1>2
  <2> QED
    BY <2>1, <2>2, <2>3, <2>4, <1>2, ItemsMade
<1> QED
  BY <1>2, <1>3, <1>4 DEF item, left

LEMMA ItemPassedType ==
  ASSUME NEW held \in Seq(Items), NEW items \in Seq(Items), held # <<>> \/ items # <<>>
  PROVE  /\ FirstOf(held, items) \in Items
         /\ RestOf(held, items) \in Seq(Items) /\ Len(RestOf(held, items)) <= Len(items)
<1> USE DEF FirstOf, RestOf
<1>1. CASE held # <<>>
  <2>1. Len(held) \in Nat \ {0}
    BY <1>1, EmptySeq
  <2>2. 1 \in 1 .. Len(held)
    BY <2>1
  <2>3. held[1] \in Items
    BY <2>2, ElementOfSeq
  <2>4. Len(items) <= Len(items)
    <3>1. Len(items) \in Nat
      BY LenProperties
    <3> QED
      BY <3>1
  <2> QED
    BY <1>1, <2>3, <2>4
<1>2. CASE held = <<>>
  <2>1. items # <<>>
    BY <1>2
  <2>2. /\ Head(items) \in Items /\ Tail(items) \in Seq(Items)
        /\ Len(Tail(items)) = Len(items) - 1 /\ Len(items) \in Nat
    BY <2>1, HeadTailProperties, LenProperties
  <2>3. Len(Tail(items)) <= Len(items)
    BY <2>2
  <2> QED
    BY <1>2, <2>2, <2>3
<1> QED
  BY <1>1, <1>2

LEMMA SubmitsItemKeeps ==
  ASSUME IInv, SubmitsItem, UNCHANGED frontVars
  PROVE  IInv'
<1> USE DEF IInv, TypeInv
<1> DEFINE item == FirstOf(peer.item, region.items)
           left == RestOf(peer.item, region.items)
           passed == [peer EXCEPT !.at = "bridge", !.item = <<>>, !.arrived = @ + 1]
           waits == [peer EXCEPT !.at = "bridge", !.item = <<item>>]
<1>1. /\ process = "running" /\ peer.at = "inputs" /\ UNCHANGED <<frontAlive, process, trouble>>
      /\ UNCHANGED <<front, starts, disasters>>
      /\ region' = [region EXCEPT !.demand = NoDemand,
                                  !.items = IF peer.item # <<>> THEN @ ELSE Tail(@)]
      /\ peer.item # <<>> \/ region.items # <<>>
  BY DEF SubmitsItem, PeerIsAt, frontVars
<1>2. \/ /\ Len(exec.queue) < QueueCapacity
         /\ exec' = [Submitted EXCEPT !.queue = Append(@, item)] /\ peer' = passed
      \/ peer' = waits /\ exec' = Submitted
      \/ peer' = [passed EXCEPT !.event = TRUE] /\ exec' = Submitted
  BY DEF SubmitsItem, Kept, FirstOf
<1>3. /\ peer.item \in Seq(Items) /\ region.items \in Seq(Items)
      /\ Len(region.items) <= RingCapacity /\ Len(peer.item) <= 1
      /\ peer.arrived \in Nat
  BY DEF PeerType, Peers, RegionType, Regions
<1>4. item \in Items /\ left \in Seq(Items) /\ Len(left) <= Len(region.items)
  BY <1>1, <1>3, ItemPassedType
<1>5. ASSUME front.at = "connected"
      PROVE  /\ peer.arrived + 1 <= front.sent
             /\ <<>> \o left = Numbered(front.sent, peer.arrived + 1)
             /\ <<item>> \o left = Numbered(front.sent, peer.arrived)
  <2>1. /\ front.sent \in Nat /\ peer.arrived \in Nat /\ peer.arrived <= front.sent
        /\ HoldNext(front.sent, peer.arrived, peer.item, region.items)
    BY <1>1, <1>5, ItemsLeft
  <2>2. Len(peer.item) <= 1 /\ (peer.item # <<>> \/ region.items # <<>>)
        /\ peer.item \in Seq(Items) /\ region.items \in Seq(Items)
    BY <1>1, <1>3
  <2> QED
    BY <2>1, <2>2, ItemPassed
<1>6. region'.items = left
  BY <1>1 DEF RestOf, RegionType, Regions
<1> HIDE DEF item, left
<1>7. <<>> \in Seq(Items) /\ Len(<<>>) = 0 /\ <<item>> \in Seq(Items) /\ Len(<<item>>) = 1
      /\ peer.arrived + 1 \in Nat
  BY <1>3, <1>4
<1>8. /\ passed \in Peers /\ passed.at = "bridge" /\ passed.item = <<>>
      /\ passed.arrived = peer.arrived + 1 /\ passed.seen = peer.seen
      /\ passed.demanded = peer.demanded
  BY <1>7 DEF PeerType, Peers, PeerAt
<1>9. /\ waits \in Peers /\ waits.at = "bridge" /\ waits.item = <<item>>
      /\ waits.arrived = peer.arrived /\ waits.seen = peer.seen
      /\ waits.demanded = peer.demanded
  BY <1>7 DEF PeerType, Peers, PeerAt
<1> HIDE DEF passed
<1> DEFINE told == [passed EXCEPT !.event = TRUE]
<1>10. /\ told \in Peers /\ told.at = "bridge" /\ told.item = <<>>
       /\ told.arrived = peer.arrived + 1 /\ told.seen = peer.seen
       /\ told.demanded = peer.demanded
  BY <1>8 DEF Peers
<1>11. peer' \in {passed, waits, told}
  BY <1>2
<1> HIDE DEF waits, told
<1>12. /\ peer' \in Peers /\ peer'.at = "bridge" /\ Len(peer'.item) <= 1
       /\ peer'.seen = peer.seen /\ peer'.demanded = peer.demanded
       /\ \/ peer'.item = <<>> /\ peer'.arrived = peer.arrived + 1
          \/ peer'.item = <<item>> /\ peer'.arrived = peer.arrived
  <2>1. CASE peer' = passed
    BY <2>1, <1>7, <1>8
  <2>2. CASE peer' = waits
    BY <2>2, <1>7, <1>9
  <2>3. CASE peer' = told
    BY <2>3, <1>7, <1>10
  <2> QED
    BY <2>1, <2>2, <2>3, <1>11
<1>13. NoDemand \in Demands
  BY DEF NoDemand, Demands, Modes
<1>14. /\ region' \in Regions /\ region'.connection = region.connection
       /\ region'.events = region.events
  <2>1. region' = [region EXCEPT !.demand = NoDemand, !.items = left]
    BY <1>1 DEF left, RestOf
  <2> QED
    BY <2>1, <1>4, <1>13 DEF RegionType, Regions
<1>15. Len(region'.items) <= RingCapacity
  <2>1. RingCapacity \in Nat /\ Len(left) \in Nat /\ Len(region.items) \in Nat
    BY <1>3, <1>4, PeerAssumption
  <2> QED
    BY <2>1, <1>3, <1>4, <1>6
<1>16. ItemInv'
  <2>1. front.at = "connected" => peer'.arrived <= front'.sent
    <3>1. front.sent \in Nat /\ peer.arrived \in Nat
      BY DEF FrontType, Fronts, PeerType, Peers
    <3>2. ASSUME front.at = "connected"
          PROVE  peer.arrived + 1 <= front.sent
      BY <3>2, <1>5
    <3>3. front'.sent = front.sent
      BY <1>1
    <3> QED
      BY <3>1, <3>2, <3>3, <1>12
  <2>2. front.at = "connected" =>
           peer'.item \o region'.items = Numbered(front'.sent, peer'.arrived)
    BY <1>1, <1>5, <1>6, <1>12
  <2> QED
    BY <2>1, <2>2, <1>1 DEF ItemInv, Underway
<1>17. /\ Submitted \in Cores /\ Submitted.queue = exec.queue
       /\ Submitted.snapshots = exec.snapshots
       /\ Submitted.acknowledged = exec.acknowledged
       /\ \/ Submitted = exec
          \/ /\ Submitted.mail.generation = Submitted.published
             /\ Submitted.published > exec.published
  BY SubmittedCore
<1>18. /\ exec' \in Cores /\ Len(exec'.queue) <= QueueCapacity
       /\ exec'.mail = Submitted.mail /\ exec'.published = Submitted.published
       /\ exec'.snapshots = exec.snapshots /\ exec'.acknowledged = exec.acknowledged
  <2>1. CASE exec' = Submitted
    BY <2>1, <1>17 DEF CoreType
  <2>2. CASE Len(exec.queue) < QueueCapacity
             /\ exec' = [Submitted EXCEPT !.queue = Append(@, item)]
    <3> DEFINE longer == Append(exec.queue, item)
    <3>1. longer \in Seq(Items) /\ Len(longer) = Len(exec.queue) + 1 /\ Len(exec.queue) \in Nat
      BY <1>4 DEF CoreType, Cores
    <3>2. QueueCapacity \in Nat
      BY PeerAssumption
    <3> HIDE DEF longer
    <3>3. exec' = [Submitted EXCEPT !.queue = longer]
      BY <2>2, <1>17 DEF longer
    <3>4. Len(longer) <= QueueCapacity
      BY <2>2, <3>1, <3>2
    <3> QED
      BY <3>1, <3>3, <3>4, <1>17 DEF Cores
  <2> QED
    BY <2>1, <2>2, <1>2
<1>19. \/ exec'.mail = exec.mail /\ exec'.published = exec.published
       \/ exec'.mail.generation = exec'.published /\ exec'.published > exec.published
  BY <1>17, <1>18
<1> QED
  BY <1>1, <1>12, <1>14, <1>15, <1>16, <1>18, <1>19, SubmissionKeeps

-----------------------------------------------------------------------------
(* The stop.                                                               *)

LEMMA TakesSnapshotsKeeps ==
  ASSUME IInv, TakesSnapshots, UNCHANGED frontVars
  PROVE  IInv'
<1> USE DEF IInv, TypeInv
<1> DEFINE seen == IF exec.snapshots = <<>> THEN peer.seen ELSE Last(exec.snapshots)
           waits == peer.at = "first" /\ exec.snapshots = <<>>
           at == IF waits THEN peer.at ELSE AfterWait(peer.at, seen)
           generation == IF peer.at = "first" THEN seen.acknowledged ELSE peer.generation
<1>1. /\ process = "running" /\ peer.at \in Waits
      /\ UNCHANGED <<frontAlive, process, region, trouble>>
      /\ UNCHANGED <<front, starts, disasters>>
      /\ exec' = [exec EXCEPT !.events = 0, !.snapshots = <<>>]
      /\ peer' = [peer EXCEPT !.ticked = FALSE, !.seen = seen, !.at = at,
                              !.generation = generation]
  BY DEF TakesSnapshots, frontVars
<1>2. seen \in SnapshotsLeft /\ seen \in Snapshots
  <2>1. exec.snapshots \in Seq(Snapshots) /\ peer.seen \in Snapshots
    BY DEF CoreType, Cores, PeerType, Peers
  <2>2. CASE exec.snapshots = <<>>
    BY <2>1, <2>2 DEF SnapshotsLeft
  <2>3. CASE exec.snapshots # <<>>
    <3>1. Len(exec.snapshots) \in Nat \ {0}
      BY <2>1, <2>3, EmptySeq
    <3>2. Len(exec.snapshots) \in 1 .. Len(exec.snapshots)
      BY <3>1
    <3>3. Last(exec.snapshots) \in Snapshots
          /\ DOMAIN exec.snapshots = 1 .. Len(exec.snapshots)
      BY <2>1, <3>2 DEF Last
    <3> QED
      BY <2>3, <3>2, <3>3 DEF SnapshotsLeft, Last
  <2> QED
    BY <2>2, <2>3
<1> HIDE DEF seen
<1>3. /\ seen.state \in States /\ seen.acknowledged \in Nat
      /\ seen.acknowledged <= exec.acknowledged
  BY <1>2 DEF Snapshots, DemandInv
<1>4. /\ peer.generation \in Nat /\ exec.acknowledged \in Nat /\ exec.published \in Nat
      /\ exec.acknowledged <= exec.published
  <2>1. peer.generation \in Nat /\ exec.acknowledged \in Nat /\ exec.published \in Nat
    BY DEF CoreType, Cores, PeerType, Peers
  <2> QED
    BY <2>1 DEF DemandInv
<1>5. /\ AfterFirst(seen.state) \in {"stop", "halt", "last tick", "disable"}
      /\ seen.state \notin MovingStates =>
            AfterFirst(seen.state) \in {"halt", "last tick", "disable"}
  BY <1>3 DEF AfterFirst, MovingStates
\* What the wait may lead to.
<1>6. \/ at = peer.at
      \/ /\ peer.at = "first" /\ at \in {"stop", "halt", "last tick", "disable"}
      \/ /\ peer.at = "stop read" /\ at = "stopping"
         /\ seen.acknowledged >= peer.generation
      \/ /\ peer.at = "stopping" /\ at \in {"halt", "last tick", "disable"}
         /\ seen.state \notin MovingStates
      \/ /\ peer.at = "disable read" /\ at = "disabling"
         /\ seen.acknowledged >= peer.generation
      \/ /\ peer.at = "disabling" /\ at = "last tick" /\ seen.state = "Disabled"
  BY <1>5 DEF AfterWait, MovingStates
<1> HIDE DEF at
<1>7. at \in PeerAt /\ generation \in Nat
  BY <1>1, <1>3, <1>4, <1>6 DEF Waits, PeerAt
<1>8. /\ peer' \in Peers /\ peer'.at = at /\ peer'.item = peer.item
      /\ peer'.arrived = peer.arrived /\ peer'.seen = seen
      /\ peer'.generation = generation /\ peer'.demanded = peer.demanded
  <2> HIDE DEF generation
  <2> QED
    BY <1>1, <1>2, <1>7 DEF PeerType, Peers
<1>9. <<>> \in Seq(Snapshots) /\ Len(<<>>) = 0 /\ SnapshotCapacity \in Nat
  BY PeerAssumption
<1>10. /\ exec' \in Cores /\ exec'.snapshots = <<>> /\ exec'.state = exec.state
       /\ exec'.mode = exec.mode /\ exec'.mail = exec.mail /\ exec'.queue = exec.queue
       /\ exec'.published = exec.published /\ exec'.acknowledged = exec.acknowledged
  BY <1>1, <1>9 DEF CoreType, Cores
<1>11. TypeInv'
  BY <1>1, <1>8, <1>9, <1>10 DEF RegionType, PeerType, CoreType, FrontType, PlainType
<1>12. Talking' <=> Talking
  BY <1>1 DEF Talking
<1>13. TalkInv'
  <2>1. Talking /\ front.at = "handshake" => peer'.at \notin {"bridge", "inputs"}
    BY <1>1, <1>6, <1>8 DEF Waits
  <2> QED
    BY <2>1, <1>1, <1>8, <1>12 DEF TalkInv
<1>14. ItemInv'
  BY <1>1, <1>8 DEF ItemInv, Underway
<1>15. SnapshotsLeft' = {seen}
  BY <1>8, <1>10 DEF SnapshotsLeft
<1>16. DemandInv'
  BY <1>3, <1>10, <1>15 DEF DemandInv
<1>17. StopInv'
  <2>1. peer'.demanded => peer'.at \in Demanding \cup AfterDemand
    <3>1. peer.demanded => peer.at \in Demanding
      BY <1>1 DEF StopInv, Waits, Demanding, AfterDemand
    <3> QED
      BY <3>1, <1>6, <1>8 DEF Demanding, AfterDemand
  <2>2. peer'.at \in Demanding => peer.at \in Demanding /\ Ordered' = Ordered
    BY <1>1, <1>6, <1>8 DEF Demanding, Waits, Ordered
  <2>3. peer.at \in Demanding => peer'.generation = peer.generation
    BY <1>8 DEF Demanding
  <2>4. ASSUME peer'.at \in Demanding
        PROVE  /\ peer'.generation = exec'.published
               /\ exec'.mail # NoDemand => exec'.mail.mode = Ordered'
               /\ exec'.mail = NoDemand => exec'.mode = Ordered'
               /\ \A s \in SnapshotsLeft' :
                     s.acknowledged = peer'.generation /\ s.state \notin MovingStates
                         => ~Moving'
    <3>1. Moving' <=> Moving
      BY <1>10 DEF Moving
    <3> QED
      BY <2>2, <2>3, <2>4, <3>1, <1>2, <1>10, <1>15 DEF StopInv
  <2>5. ASSUME peer'.at \in {"stopping", "disabling"}
        PROVE  \A s \in SnapshotsLeft' : s.acknowledged = peer'.generation
    <3>1. peer.at \in Demanding /\ peer.generation = exec.published
      BY <2>5, <1>6, <1>8 DEF StopInv, Demanding
    <3>2. seen.acknowledged >= peer.generation
      <4>1. CASE at = peer.at
        BY <2>5, <4>1, <1>2, <1>3, <1>4, <1>8 DEF StopInv
      <4>2. CASE at # peer.at
        BY <2>5, <4>2, <1>6, <1>8
      <4> QED
        BY <4>1, <4>2
    <3>3. seen.acknowledged = peer.generation
      BY <3>1, <3>2, <1>3, <1>4
    <3> QED
      BY <3>1, <3>3, <2>3, <1>15
  <2>6. ASSUME peer'.demanded, peer'.at \in AfterDemand \ {"exit"}
        PROVE  ~Moving' /\ exec'.mail = NoDemand /\ exec'.mode \in {"Stop", "Disabled"}
    <3>1. peer.at \in {"stopping", "disabling"} /\ seen.state \notin MovingStates
      <4>1. peer.at \in Demanding
        BY <2>6, <1>1, <1>8 DEF StopInv, Waits, Demanding, AfterDemand
      <4> QED
        BY <4>1, <2>6, <1>6, <1>8 DEF Demanding, AfterDemand, MovingStates
    <3>2. peer.at \in Demanding /\ Ordered \in {"Stop", "Disabled"}
      BY <3>1 DEF Demanding, Ordered
    <3>3. seen.acknowledged = peer.generation /\ peer.generation = exec.published
      BY <3>1, <3>2, <1>2 DEF StopInv
    <3>4. ~Moving
      BY <3>1, <3>2, <3>3, <1>2 DEF StopInv
    <3>5. exec.mail = NoDemand
      BY <3>3, <1>3, <1>4 DEF DemandInv
    <3>6. exec.mode \in {"Stop", "Disabled"}
      BY <3>2, <3>5 DEF StopInv
    <3> QED
      BY <3>4, <3>5, <3>6, <1>10 DEF Moving
  <2> QED
    BY <2>1, <2>4, <2>5, <2>6 DEF StopInv
<1> QED
  BY <1>11, <1>13, <1>14, <1>16, <1>17

\* The generation of a demand of the stop is new: no snapshot acknowledges it yet.
LEMMA DemandsStopKeeps ==
  ASSUME IInv, UNCHANGED frontVars, NEW from, NEW mode,
         \/ from = "stop" /\ mode = "Stop"
         \/ from = "disable" /\ mode = "Disabled",
         DemandsStop(from, mode)
  PROVE  IInv'
<1> USE DEF IInv, TypeInv
<1> DEFINE at == IF from = "stop" THEN "stop read" ELSE "disable read"
           mail == [generation |-> NextGeneration, mode |-> mode]
<1>1. /\ process = "running" /\ peer.at = from /\ NextGeneration > exec.published
      /\ UNCHANGED <<frontAlive, process, region, trouble>>
      /\ UNCHANGED <<front, starts, disasters>>
      /\ exec' = [exec EXCEPT !.mail = mail, !.published = NextGeneration]
      /\ peer' = [peer EXCEPT !.generation = NextGeneration, !.ticked = FALSE,
                              !.demanded = TRUE, !.at = at]
  BY DEF DemandsStop, PeerIsAt, MayPublish, Publishes, frontVars
<1>2. /\ exec.acknowledged \in Nat /\ exec.published \in Nat /\ NextGeneration \in Nat
      /\ exec.acknowledged <= exec.published
  <2>1. peer.generation \in Nat /\ exec.acknowledged \in Nat /\ exec.published \in Nat
    BY DEF CoreType, Cores, PeerType, Peers
  <2> QED
    BY <2>1 DEF DemandInv, NextGeneration
<1>3. mail \in Demands /\ mail.generation = NextGeneration /\ mail.mode = mode
  BY <1>2 DEF Demands, Modes
<1>4. mail # NoDemand
  BY <1>1, <1>2, <1>3 DEF NoDemand
<1>5. at \in {"stop read", "disable read"} /\ (mode = "Stop" <=> at = "stop read")
      /\ mode \in {"Stop", "Disabled"}
  OBVIOUS
<1> HIDE DEF mail, at, NextGeneration
<1>6. /\ exec' \in Cores /\ exec'.mail = mail /\ exec'.published = NextGeneration
      /\ exec'.state = exec.state /\ exec'.mode = exec.mode /\ exec'.queue = exec.queue
      /\ exec'.acknowledged = exec.acknowledged /\ exec'.snapshots = exec.snapshots
  BY <1>1, <1>2, <1>3 DEF CoreType, Cores
<1>7. /\ peer' \in Peers /\ peer'.at = at /\ peer'.item = peer.item
      /\ peer'.arrived = peer.arrived /\ peer'.seen = peer.seen
      /\ peer'.generation = NextGeneration
  BY <1>1, <1>2, <1>5 DEF PeerType, Peers, PeerAt
<1>8. TypeInv'
  BY <1>1, <1>6, <1>7 DEF RegionType, PeerType, CoreType, FrontType, PlainType
<1>9. Talking' <=> Talking
  BY <1>1 DEF Talking
<1>10. TalkInv'
  <2>1. peer'.at \notin {"bridge", "inputs"}
    BY <1>5, <1>7
  <2> QED
    BY <2>1, <1>1, <1>7, <1>9 DEF TalkInv
<1>11. ItemInv'
  BY <1>1, <1>7 DEF ItemInv, Underway
<1>12. SnapshotsLeft' = SnapshotsLeft
  BY <1>6, <1>7 DEF SnapshotsLeft
<1>13. DemandInv'
  BY <1>1, <1>2, <1>3, <1>4, <1>6, <1>12 DEF DemandInv
<1>14. StopInv'
  <2>1. peer'.at \in Demanding /\ peer'.at \notin {"stopping", "disabling"}
        /\ peer'.at \notin AfterDemand
    BY <1>5, <1>7 DEF Demanding, AfterDemand
  <2>2. Ordered' = mode
    BY <1>5, <1>7 DEF Ordered
  <2>3. exec'.mail # NoDemand /\ exec'.mail.mode = Ordered'
    BY <2>2, <1>3, <1>4, <1>6
  <2>4. ASSUME NEW s \in SnapshotsLeft'
        PROVE  s.acknowledged # peer'.generation
    <3>1. s.acknowledged <= exec.acknowledged /\ s.acknowledged \in Nat
      <4>1. peer.seen \in Snapshots /\ exec.snapshots \in Seq(Snapshots)
        BY DEF CoreType, Cores, PeerType, Peers
      <4>2. SnapshotsLeft \subseteq Snapshots
        BY <4>1 DEF SnapshotsLeft
      <4>3. s \in SnapshotsLeft
        BY <1>12
      <4> QED
        BY <4>2, <4>3 DEF DemandInv, Snapshots
    <3> QED
      BY <3>1, <1>1, <1>2, <1>7
  <2> QED
    BY <2>1, <2>3, <2>4, <1>6, <1>7 DEF StopInv
<1> QED
  BY <1>8, <1>10, <1>11, <1>13, <1>14

-----------------------------------------------------------------------------
(* The beginning and the end of a process.                                 *)

\* Whatever is left of an ended process, the front end may have closed the connection.
LEMMA EndsKeeps ==
  ASSUME IInv, Ends, UNCHANGED <<starts>>, disasters' \in 0 .. MaxDisasters,
         UNCHANGED region \/ region' = NewRegion,
         UNCHANGED front \/ front' = NewFront("closed")
  PROVE  IInv'
<1> USE DEF IInv, TypeInv
<1>1. "none" \in PeerAt /\ "closed" \in FrontAt
  BY DEF PeerAt, FrontAt
<1>2. /\ process' = "gone" /\ trouble' = "none" /\ UNCHANGED frontAlive
      /\ exec' = NewExecutor /\ peer' = [NewPeer EXCEPT !.at = "none"]
  BY DEF Ends
<1>3. /\ peer' \in Peers /\ peer'.at = "none" /\ peer'.item = <<>> /\ ~peer'.demanded
      /\ peer'.seen.acknowledged = 0
  BY <1>1, <1>2, NewPeerAt
<1>4. RingCapacity \in Nat /\ QueueCapacity \in Nat /\ SnapshotCapacity \in Nat
      /\ MaxDemand \in Nat /\ Len(<<>>) = 0
  BY PeerAssumption, FrontAssumption
<1>5. RegionType'
  <2>1. CASE UNCHANGED region
    BY <2>1 DEF RegionType
  <2>2. CASE region' = NewRegion
    BY <2>2, <1>4, NewRecords DEF RegionType
  <2> QED
    BY <2>1, <2>2
<1>6. FrontType' /\ (front'.at # "closed" => front.at # "closed")
  <2>1. CASE UNCHANGED front
    BY <2>1 DEF FrontType
  <2>2. CASE front' = NewFront("closed")
    BY <2>2, <1>1, <1>4, NewFrontRecord DEF FrontType
  <2> QED
    BY <2>1, <2>2
<1>7. PeerType' /\ CoreType' /\ PlainType'
  BY <1>2, <1>3, <1>4, NewRecords DEF PeerType, CoreType, PlainType
<1>8. TalkInv' /\ ItemInv'
  BY <1>2, <1>6 DEF TalkInv, ItemInv, Talking
<1>9. DemandInv'
  BY <1>2, <1>3, NewRecords DEF DemandInv, SnapshotsLeft
<1>10. StopInv'
  BY <1>3 DEF StopInv, Demanding, AfterDemand
<1> QED
  BY <1>5, <1>6, <1>7, <1>8, <1>9, <1>10

LEMMA StartsKeeps ==
  ASSUME IInv, Starts
  PROVE  IInv'
<1> USE DEF IInv, TypeInv
<1>1. "opening" \in PeerAt /\ "handshake" \in FrontAt
  BY DEF PeerAt, FrontAt
<1>2. /\ frontAlive /\ starts < MaxStarts /\ starts' = starts + 1 /\ process' = "running"
      /\ trouble' = "none" /\ region' = NewRegion /\ peer' = NewPeer /\ exec' = NewExecutor
      /\ front' = NewFront("handshake") /\ UNCHANGED <<frontAlive, disasters>>
  BY DEF Starts, FrontIsAt
<1>3. /\ front' \in Fronts /\ front'.at = "handshake" /\ front'.sent = 0
      /\ front'.generation = 0
  BY <1>1, <1>2, NewFrontRecord
<1>4. RingCapacity \in Nat /\ QueueCapacity \in Nat /\ SnapshotCapacity \in Nat
      /\ MaxDemand \in Nat /\ MaxStarts \in Nat /\ Len(<<>>) = 0
  BY PeerAssumption, FrontAssumption
<1>5. RegionType' /\ PeerType' /\ CoreType' /\ FrontType'
  BY <1>2, <1>3, <1>4, NewRecords DEF RegionType, PeerType, CoreType, FrontType
<1>6. PlainType'
  BY <1>2, <1>4 DEF PlainType
<1>7. TalkInv'
  BY <1>2, <1>3, NewRecords DEF TalkInv
<1>8. ItemInv'
  BY <1>3 DEF ItemInv
<1>9. DemandInv'
  BY <1>2, NewRecords DEF DemandInv, SnapshotsLeft
<1>10. StopInv'
  BY <1>2, NewRecords DEF StopInv, Demanding, AfterDemand
<1> QED
  BY <1>5, <1>6, <1>7, <1>8, <1>9, <1>10

-----------------------------------------------------------------------------
(* The steps of the front end.                                             *)

\* They leave the process and what is in it alone.
LEMMA FrontKeeps ==
  ASSUME IInv, UNCHANGED <<process, peer, exec, trouble, starts>>,
         frontAlive' \in BOOLEAN, disasters' \in 0 .. MaxDisasters,
         RegionType', FrontType', TalkInv', ItemInv'
  PROVE  IInv'
<1> USE DEF IInv, TypeInv
<1>1. TypeInv'
  BY DEF PeerType, CoreType, PlainType
<1>2. DemandInv'
  BY DEF DemandInv, SnapshotsLeft
<1>3. StopInv'
  BY DEF StopInv, SnapshotsLeft, Ordered, Moving
<1> QED
  BY <1>1, <1>2, <1>3

\* A front end that does not talk, or whose peer has ended.
LEMMA FrontSilentKeeps ==
  ASSUME IInv, UNCHANGED <<process, peer, exec, trouble, starts>>,
         frontAlive' \in BOOLEAN, disasters' \in 0 .. MaxDisasters,
         region' = NewRegion \/ UNCHANGED region
            \/ \E connection \in Connections :
                  region' = [region EXCEPT !.connection = connection],
         FrontType', front'.at # "closed" => frontAlive',
         process = "running" => front'.at \notin {"handshake", "connected"}
  PROVE  IInv'
<1>1. RegionType'
  <2> USE DEF IInv, TypeInv
  <2>1. CASE region' = NewRegion
    <3>1. RingCapacity \in Nat /\ Len(<<>>) = 0
      BY PeerAssumption
    <3> QED
      BY <2>1, <3>1, NewRecords DEF RegionType
  <2>2. CASE UNCHANGED region
    BY <2>2 DEF RegionType
  <2>3. CASE \E connection \in Connections :
                region' = [region EXCEPT !.connection = connection]
    BY <2>3 DEF RegionType, Regions
  <2> QED
    BY <2>1, <2>2, <2>3
<1>2. ~Talking'
  BY DEF Talking
<1>3. TalkInv' /\ ItemInv'
  BY <1>2 DEF TalkInv, ItemInv, Talking
<1> QED
  BY <1>1, <1>3, FrontKeeps

LEMMA HandshakeSucceedsKeeps ==
  ASSUME IInv, HandshakeSucceeds
  PROVE  IInv'
<1> USE DEF IInv, TypeInv
<1>1. /\ frontAlive /\ front.at = "handshake"
      /\ region' = [region EXCEPT !.connection = "Running"]
      /\ front' = [front EXCEPT !.at = "connected"]
      /\ UNCHANGED <<frontAlive, process, peer, exec, trouble, starts, disasters>>
  BY DEF HandshakeSucceeds, FrontIsAt
<1>2. /\ front' \in Fronts /\ front'.at = "connected" /\ front'.sent = front.sent
      /\ front'.generation = front.generation
  BY <1>1 DEF FrontType, Fronts, FrontAt
<1>3. /\ region' \in Regions /\ region'.connection = "Running"
      /\ region'.items = region.items /\ region'.events = region.events
  BY <1>1 DEF RegionType, Regions, Connections
<1>4. RegionType' /\ FrontType'
  BY <1>2, <1>3 DEF RegionType, FrontType
<1>5. TalkInv'
  BY <1>1, <1>2, <1>3 DEF TalkInv
<1>6. ItemInv'
  <2>1. ASSUME process' = "running"
        PROVE  peer'.arrived <= front'.sent /\ peer'.item \o region'.items = Underway'
    <3>1. /\ front'.sent = 0 /\ peer'.arrived = 0
          /\ peer'.item = <<>> /\ region'.items = <<>>
      BY <2>1, <1>1, <1>2, <1>3 DEF TalkInv, Talking
    <3>2. <<>> \o <<>> = Numbered(0, 0)
      <4>1. <<>> \in Seq(Items) /\ Len(<<>>) = 0 /\ Len(<<>>) + Len(<<>>) = 0 - 0
            /\ 0 \in Nat /\ 0 <= 0
        OBVIOUS
      <4>2. HoldNext(0, 0, <<>>, <<>>)
        BY <4>1 DEF HoldNext
      <4> QED
        BY <4>1, <4>2, ItemsMade, Zenon
    <3> QED
      BY <3>1, <3>2 DEF Underway
  <2> QED
    BY <2>1 DEF ItemInv
<1> QED
  BY <1>1, <1>4, <1>5, <1>6, FrontKeeps DEF PlainType

LEMMA HandshakeFailsKeeps ==
  ASSUME IInv, HandshakeFails
  PROVE  IInv'
<1> USE DEF IInv, TypeInv
<1>1. /\ frontAlive /\ UNCHANGED <<frontAlive, process, peer, exec, trouble, starts, disasters>>
      /\ MaxDemand \in Nat /\ "abandons" \in FrontAt /\ "closed" \in FrontAt
      /\ "StopRequested" \in Connections
  BY FrontAssumption DEF HandshakeFails, FrontIsAt, FrontAt, Connections
<1>2. CASE process = "running"
  <2>1. /\ region' = [region EXCEPT !.connection = "StopRequested"]
        /\ front' = NewFront("abandons")
    BY <1>2 DEF HandshakeFails
  <2>2. FrontType' /\ front'.at = "abandons"
    BY <2>1, <1>1, NewFrontRecord DEF FrontType
  <2> QED
    BY <2>1, <2>2, <1>1, FrontSilentKeeps DEF PlainType
<1>3. CASE process # "running"
  <2>1. region' = NewRegion /\ front' = NewFront("closed")
    BY <1>3 DEF HandshakeFails, Closes
  <2>2. FrontType' /\ front'.at = "closed"
    BY <2>1, <1>1, NewFrontRecord DEF FrontType
  <2> QED
    BY <2>1, <2>2, <1>1, FrontSilentKeeps DEF PlainType
<1> QED
  BY <1>2, <1>3

\* Abandons and AwaitsStop: the front end has given the connection up.
LEMMA GivesUpKeeps ==
  ASSUME IInv, Abandons \/ AwaitsStop
  PROVE  IInv'
<1> USE DEF IInv, TypeInv
<1>1. /\ frontAlive /\ UNCHANGED <<frontAlive, process, peer, exec, trouble, starts, disasters>>
      /\ MaxDemand \in Nat /\ "signals" \in FrontAt /\ "closed" \in FrontAt
  BY FrontAssumption DEF Abandons, AwaitsStop, FrontIsAt, FrontAt
<1>2. \/ region' = NewRegion /\ front' = NewFront("closed")
      \/ UNCHANGED region /\ front' = [front EXCEPT !.at = "signals"]
  BY DEF Abandons, AwaitsStop, Closes
<1>3. FrontType' /\ front'.at \in {"closed", "signals"}
  <2>1. CASE front' = NewFront("closed")
    BY <2>1, <1>1, NewFrontRecord DEF FrontType
  <2>2. CASE front' = [front EXCEPT !.at = "signals"]
    BY <2>2, <1>1 DEF FrontType, Fronts
  <2> QED
    BY <2>1, <2>2, <1>2
<1> QED
  BY <1>1, <1>2, <1>3, FrontSilentKeeps DEF PlainType

LEMMA RequestsStopKeeps ==
  ASSUME IInv, RequestsStop
  PROVE  IInv'
<1> USE DEF IInv, TypeInv
<1>1. /\ frontAlive /\ UNCHANGED <<frontAlive, process, peer, exec, trouble, starts, disasters>>
      /\ MaxDemand \in Nat /\ "stops" \in FrontAt /\ "closed" \in FrontAt
      /\ "StopRequested" \in Connections
  BY FrontAssumption DEF RequestsStop, FrontIsAt, FrontAt, Connections
<1>2. \/ /\ region' = NewRegion /\ front' = NewFront("closed")
      \/ /\ front' = NewFront("stops")
         /\ region' = region \/ region' = [region EXCEPT !.connection = "StopRequested"]
  BY DEF RequestsStop, Closes
<1>3. FrontType' /\ front'.at \in {"closed", "stops"}
  BY <1>1, <1>2, NewFrontRecord DEF FrontType
<1> QED
  BY <1>1, <1>2, <1>3, FrontSilentKeeps DEF PlainType

LEMMA FrontDiesKeeps ==
  ASSUME IInv, FrontDies, UNCHANGED starts, disasters' \in 0 .. MaxDisasters
  PROVE  IInv'
<1>1. /\ frontAlive' = FALSE /\ front' = NewFront("closed")
      /\ UNCHANGED <<process, region, peer, exec, trouble>>
      /\ MaxDemand \in Nat /\ "closed" \in FrontAt
  BY FrontAssumption DEF FrontDies, FrontAt
<1>2. FrontType' /\ front'.at = "closed"
  BY <1>1, NewFrontRecord DEF FrontType
<1> QED
  BY <1>1, <1>2, FrontSilentKeeps

LEMMA PublishesDemandKeeps ==
  ASSUME IInv, NEW mode \in Modes, PublishesDemand(mode)
  PROVE  IInv'
<1> USE DEF IInv, TypeInv
<1> DEFINE demand == [generation |-> front.generation + 1, mode |-> mode]
<1>1. /\ frontAlive /\ UNCHANGED <<frontAlive, process, peer, exec, trouble, starts, disasters>>
      /\ front.generation < MaxDemand
      /\ region' = [region EXCEPT !.demand = demand]
      /\ front' = [front EXCEPT !.generation = @ + 1, !.mode = mode]
  BY DEF PublishesDemand, Connected, FrontIsAt
<1>2. /\ front.generation \in Nat /\ MaxDemand \in Nat
      /\ front.generation + 1 \in Nat /\ front.generation + 1 <= MaxDemand
  BY <1>1, FrontAssumption DEF FrontType, Fronts
<1>3. demand \in Demands
  BY <1>2 DEF Demands
<1> HIDE DEF demand
<1>4. /\ front' \in Fronts /\ front'.at = front.at /\ front'.sent = front.sent
      /\ front'.generation <= MaxDemand
  BY <1>1, <1>2 DEF FrontType, Fronts
<1>5. /\ region' \in Regions /\ region'.connection = region.connection
      /\ region'.items = region.items /\ region'.events = region.events
  BY <1>1, <1>3 DEF RegionType, Regions
<1>6. RegionType' /\ FrontType'
  BY <1>4, <1>5 DEF RegionType, FrontType
<1>7. Talking' <=> Talking
  BY <1>1, <1>4 DEF Talking
<1>8. TalkInv'
  BY <1>1, <1>4, <1>5, <1>7 DEF TalkInv
<1>9. ItemInv'
  BY <1>1, <1>4, <1>5 DEF ItemInv, Underway
<1> QED
  BY <1>1, <1>6, <1>8, <1>9, FrontKeeps DEF PlainType

LEMMA TakesEventKeeps ==
  ASSUME IInv, TakesEvent
  PROVE  IInv'
<1> USE DEF IInv, TypeInv
<1>1. /\ frontAlive /\ front.at = "connected"
      /\ UNCHANGED <<frontAlive, process, peer, exec, trouble, starts, disasters>>
      /\ \/ region' = RefreshedRegion
         \/ region.events # 0 /\ region' = [RefreshedRegion EXCEPT !.events = @ - 1]
      /\ \/ front' = RefreshedFront
         \/ front' = [RefreshedFront EXCEPT !.lossPending = FALSE]
  BY DEF TakesEvent, FrontIsAt
<1>2. /\ RefreshedRegion \in Regions /\ RefreshedRegion.items = region.items
      /\ RefreshedRegion.events = region.events
      /\ process = "running" => RefreshedRegion.connection = region.connection
  BY DEF RefreshedRegion, Lost, RegionType, Regions, Connections
<1>3. /\ RefreshedFront \in Fronts /\ RefreshedFront.at = "connected"
      /\ RefreshedFront.sent = front.sent /\ RefreshedFront.generation = front.generation
  BY <1>1 DEF RefreshedFront, FrontType, Fronts
<1>4. /\ front' \in Fronts /\ front'.at = "connected" /\ front'.sent = front.sent
      /\ front'.generation = front.generation
  BY <1>1, <1>3 DEF Fronts
<1>5. /\ region' \in Regions /\ region'.items = region.items
      /\ region'.events <= RingCapacity
      /\ process = "running" => region'.connection = region.connection
  <2>1. region.events \in Nat /\ RingCapacity \in Nat /\ region.events <= RingCapacity
    BY PeerAssumption DEF RegionType, Regions
  <2>2. CASE region' = RefreshedRegion
    BY <2>1, <2>2, <1>2
  <2>3. CASE region.events # 0 /\ region' = [RefreshedRegion EXCEPT !.events = @ - 1]
    <3>1. region.events - 1 \in Nat /\ region.events - 1 <= RingCapacity
      BY <2>1, <2>3
    <3> QED
      BY <2>3, <3>1, <1>2 DEF Regions
  <2> QED
    BY <2>2, <2>3, <1>1
<1>6. RegionType' /\ FrontType'
  BY <1>4, <1>5 DEF RegionType, FrontType
<1>7. TalkInv'
  BY <1>1, <1>4, <1>5 DEF TalkInv, Talking
<1>8. ItemInv'
  BY <1>1, <1>4, <1>5 DEF ItemInv, Underway
<1> QED
  BY <1>1, <1>6, <1>7, <1>8, FrontKeeps DEF PlainType

\* The next item is put behind those that are held.
LEMMA ItemAdded ==
  ASSUME NEW sent \in Nat, NEW arrived \in Nat, arrived <= sent,
         NEW held \in Seq(Items), NEW items \in Seq(Items),
         HoldNext(sent, arrived, held, items), sent + 1 \in Items
  PROVE  held \o Append(items, sent + 1) = Numbered(sent + 1, arrived)
<1> DEFINE more == Append(items, sent + 1)
<1>1. /\ more \in Seq(Items) /\ Len(more) = Len(items) + 1
      /\ Len(held) \in Nat /\ Len(items) \in Nat
      /\ \A i \in 1 .. Len(items) : more[i] = items[i]
      /\ more[Len(items) + 1] = sent + 1
  BY AppendProperties, LenProperties
<1> HIDE DEF more
<1>2. Len(held) + Len(more) = (sent + 1) - arrived
  <2>1. Len(held) + Len(items) = sent - arrived
    BY DEF HoldNext
  <2>2. Len(more) = Len(items) + 1 /\ Len(held) \in Nat /\ Len(items) \in Nat
    BY <1>1, Zenon
  <2> QED
    BY <2>1, <2>2, SMTT(30)
<1>3. ASSUME NEW i \in 1 .. Len(more)
      PROVE  more[i] = arrived + Len(held) + i
  <2>1. CASE i \in 1 .. Len(items)
    BY <2>1, <1>1 DEF HoldNext
  <2>2. CASE i = Len(items) + 1
    <3>1. arrived + Len(held) + i = sent + 1
      BY <2>2, <1>1 DEF HoldNext
    <3> QED
      BY <3>1, <2>2, <1>1
  <2> QED
    BY <2>1, <2>2, <1>1
<1>4. HoldNext(sent + 1, arrived, held, more)
  BY <1>2, <1>3 DEF HoldNext
<1>5. sent + 1 \in Nat /\ arrived <= sent + 1
  OBVIOUS
<1>6. held \o more = Numbered(sent + 1, arrived)
  BY <1>1, <1>4, <1>5, ItemsMade
<1> QED
  BY <1>6 DEF more

LEMMA PublishesItemKeeps ==
  ASSUME IInv, PublishesItem
  PROVE  IInv'
<1> USE DEF IInv, TypeInv
<1> DEFINE items == Append(region.items, front.sent + 1)
<1>1. /\ frontAlive /\ front.at = "connected" /\ RefreshedRegion.connection = "Running"
      /\ front.sent + 1 \in Items /\ Len(region.items) < RingCapacity
      /\ region' = [region EXCEPT !.items = items]
      /\ front' = [front EXCEPT !.sent = @ + 1]
      /\ UNCHANGED <<frontAlive, process, peer, exec, trouble, starts, disasters>>
  BY DEF PublishesItem, Connected, FrontIsAt
<1>2. front.sent \in Nat /\ front.sent + 1 \in Nat
  BY DEF FrontType, Fronts
<1>3. /\ items \in Seq(Items) /\ Len(items) = Len(region.items) + 1
      /\ Len(region.items) \in Nat /\ RingCapacity \in Nat
  BY <1>1, PeerAssumption DEF RegionType, Regions
<1>4. ASSUME process = "running"
      PROVE  /\ peer.arrived <= front.sent + 1
             /\ peer.item \o items = Numbered(front.sent + 1, peer.arrived)
  <2>1. /\ peer.arrived \in Nat /\ peer.arrived <= front.sent
        /\ peer.item \in Seq(Items) /\ region.items \in Seq(Items)
        /\ HoldNext(front.sent, peer.arrived, peer.item, region.items)
    BY <1>4, <1>1, ItemsLeft
  <2>2. peer.item \o Append(region.items, front.sent + 1)
           = Numbered(front.sent + 1, peer.arrived)
    <3> HIDE DEF items, IInv, TypeInv
    <3>1. front.sent \in Nat /\ front.sent + 1 \in Items
      BY <1>1, <1>2, Zenon
    <3> QED
      BY <2>1, <3>1, ItemAdded, ZenonT(60)
  <2>3. peer.arrived <= front.sent + 1
    <3> HIDE DEF items, IInv, TypeInv
    <3>1. /\ front.sent \in Nat /\ peer.arrived \in Nat
          /\ peer.arrived <= front.sent
      BY <2>1, <1>2, Zenon
    <3> QED
      BY <3>1, SMTT(30)
  <2> QED
    BY <2>2, <2>3
<1> HIDE DEF items
<1>5. /\ front' \in Fronts /\ front'.at = "connected" /\ front'.sent = front.sent + 1
      /\ front'.generation = front.generation
  BY <1>1, <1>2 DEF FrontType, Fronts
<1>6. /\ region' \in Regions /\ region'.items = items
      /\ region'.events = region.events /\ region'.connection = region.connection
  BY <1>1, <1>3 DEF RegionType, Regions
<1>7. RegionType' /\ FrontType'
  <2>1. Len(items) <= RingCapacity
    BY <1>1, <1>3
  <2> QED
    BY <2>1, <1>5, <1>6 DEF RegionType, FrontType
<1>8. TalkInv'
  BY <1>1, <1>5, <1>6 DEF TalkInv, Talking
<1>9. ItemInv'
  BY <1>1, <1>4, <1>5, <1>6 DEF ItemInv, Underway
<1> QED
  BY <1>1, <1>7, <1>8, <1>9, FrontKeeps DEF PlainType

-----------------------------------------------------------------------------
(* The theorems.                                                           *)

LEMMA StutterKeeps ==
  ASSUME IInv, UNCHANGED vars
  PROVE  IInv'
<1>1. UNCHANGED <<frontAlive, process, region, peer, exec, trouble, front, starts, disasters>>
  BY DEF vars, peerVars, frontVars
<1>2. TypeInv'
  BY <1>1 DEF IInv, TypeInv, RegionType, PeerType, CoreType, FrontType, PlainType
<1>3. TalkInv' /\ ItemInv'
  BY <1>1 DEF IInv, TalkInv, Talking, ItemInv, Underway
<1>4. DemandInv' /\ StopInv'
  BY <1>1 DEF IInv, DemandInv, StopInv, SnapshotsLeft, Ordered, Moving
<1> QED
  BY <1>2, <1>3, <1>4 DEF IInv

LEMMA StepIInv ==
  ASSUME IInv, [Next]_vars
  PROVE  IInv'
<1>1. disasters \in 0 .. MaxDisasters /\ MaxDisasters \in Nat
  BY FrontAssumption DEF IInv, TypeInv, PlainType
<1>2. CASE FrontStep
  <2>1. CASE Starts
    BY <2>1, StartsKeeps
  <2>2. CASE HandshakeSucceeds
    BY <2>2, HandshakeSucceedsKeeps
  <2>3. CASE HandshakeFails
    BY <2>3, HandshakeFailsKeeps
  <2>4. CASE Abandons \/ AwaitsStop
    BY <2>4, GivesUpKeeps
  <2>5. CASE PublishesItem
    BY <2>5, PublishesItemKeeps
  <2>6. CASE \E mode \in Modes : PublishesDemand(mode)
    BY <2>6, PublishesDemandKeeps
  <2>7. CASE TakesEvent
    BY <2>7, TakesEventKeeps
  <2>8. CASE RequestsStop
    BY <2>8, RequestsStopKeeps
  <2>9. CASE Signals
    <3>1. UNCHANGED <<starts>> /\ disasters' \in 0 .. MaxDisasters
      BY <2>9, <1>1 DEF Signals
    <3> QED
      BY <2>9, <3>1, EndsKeeps DEF Signals, Closes
  <2> QED
    BY <1>2, <2>1, <2>2, <2>3, <2>4, <2>5, <2>6, <2>7, <2>8, <2>9 DEF FrontStep
<1>3. CASE PeerStep /\ UNCHANGED frontVars
  <2> USE <1>3
  <2>1. CASE Opens
    BY <2>1, OpensKeeps
  <2>2. CASE StartsRuntime
    BY <2>2, StartsRuntimeKeeps
  <2>3. CASE SeesFrontendLoss
    BY <2>3, SeesFrontendLossKeeps
  <2>4. CASE SeesFrontend
    BY <2>4, SeesFrontendKeeps
  <2>5. CASE TellsReady
    BY <2>5, TellsReadyKeeps
  <2>6. CASE EndsSpinning
    BY <2>6, EndsSpinningKeeps
  <2>7. CASE BeginsStop
    BY <2>7, BeginsStopKeeps
  <2>8. CASE PublishesOutputs
    BY <2>8, PublishesOutputsKeeps
  <2>9. CASE SubmitsItem
    BY <2>9, SubmitsItemKeeps
  <2>10. CASE SubmitsDemandOnly
    BY <2>10, SubmitsDemandOnlyKeeps
  <2>11. CASE TakesSnapshots
    BY <2>11, TakesSnapshotsKeeps
  <2>12. CASE DemandsStop("stop", "Stop") \/ DemandsStop("disable", "Disabled")
    BY <2>12, DemandsStopKeeps
  <2>13. CASE LastTick
    BY <2>13, LastTickKeeps
  <2>14. CASE Halts
    BY <2>14, HaltsKeeps
  <2>15. CASE Exits
    <3>1. Ends /\ UNCHANGED region /\ UNCHANGED front /\ UNCHANGED <<starts>>
          /\ disasters' \in 0 .. MaxDisasters
      BY <2>15, <1>1 DEF Exits, frontVars
    <3> QED
      BY <3>1, EndsKeeps
  <2> QED
    BY <1>3, <2>1, <2>2, <2>3, <2>4, <2>5, <2>6, <2>7, <2>8, <2>9, <2>10, <2>11, <2>12,
       <2>13, <2>14, <2>15 DEF PeerStep
<1>4. CASE (PlainTick \/ UnlatchTick) /\ UNCHANGED frontVars
  <2>1. UNCHANGED <<front, starts>> /\ disasters' \in 0 .. MaxDisasters
    BY <1>1, <1>4 DEF frontVars
  <2> QED
    BY <1>4, <2>1, TicksKeep
<1>5. CASE Disaster
  <2>1. UNCHANGED starts /\ disasters' \in 0 .. MaxDisasters
    BY <1>1, <1>5 DEF Disaster
  <2>2. CASE FrontDies
    BY <2>1, <2>2, FrontDiesKeeps
  <2>3. CASE PeerDies /\ UNCHANGED front
    <3>1. Ends /\ UNCHANGED region /\ UNCHANGED <<starts>>
      BY <2>1, <2>3 DEF PeerDies
    <3> QED
      BY <2>1, <2>3, <3>1, EndsKeeps
  <2>4. CASE (LatchTick \/ IoFaultTick) /\ UNCHANGED front
    BY <2>1, <2>4, TicksKeep
  <2> QED
    BY <1>5, <2>2, <2>3, <2>4 DEF Disaster
<1>6. CASE UNCHANGED vars
  BY <1>6, StutterKeeps
<1> QED
  BY <1>2, <1>3, <1>4, <1>5, <1>6 DEF Next

LEMMA SpecIInv == Spec => []IInv
<1>1. Init => IInv
  BY InitIInv
<1>2. IInv /\ [Next]_vars => IInv'
  BY StepIInv
<1> QED
  BY <1>1, <1>2, PTL DEF Spec

\* Every state has the types of the region, the bridge, the executor core and the host,
\* src/ExternalExecutorRuntime.cpp and src/IpcExecutorPeer.cpp: above all, no
\* ring, queue or mailbox ever holds more than its capacity.
THEOREM TypeCorrect == Spec => []TypeOK
<1>1. IInv => TypeOK
  BY TypeInvType DEF IInv
<1> QED
  BY <1>1, SpecIInv, PTL

\* The bridge, IpcExecutorBridge::service, passes every item of the shared ring on to
\* the executor once and in the order in which tryPublish put it there, whatever is full.
THEOREM ItemsReachTheExecutor == Spec => []BridgeLosesNoItem
<1>1. IInv => BridgeLosesNoItem
  BY DEF IInv, ItemInv, Underway, Numbered, BridgeLosesNoItem
<1> QED
  BY <1>1, SpecIInv, PTL

\* stopExecutorSafely (src/IpcExecutorBridge.cpp) has the machine at rest before the peer's
\* runtime is stopped with its servo thread, whatever the front end's last demand was.
THEOREM OrderlyStopBrakesFirst == Spec => []OrderlyExitCutsNoMotion
<1>1. IInv => OrderlyExitCutsNoMotion
  BY DEF IInv, StopInv, AfterDemand, OrderlyExitCutsNoMotion
<1> QED
  BY <1>1, SpecIInv, PTL
=============================================================================
