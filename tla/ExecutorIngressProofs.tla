------------------------ MODULE ExecutorIngressProofs ------------------------
(***************************************************************************)
(* The ring of the ingress keeps its types, has no data race and           *)
(* implements the bounded FIFO, for every Capacity and every set of        *)
(* values; its mailbox keeps one owner per slot, never hides the newest    *)
(* publication and implements the latest-value channel, whatever the       *)
(* number of publications.                                                 *)
(*                                                                         *)
(* The ingress uses the two as they are meant to be used: every step of it *)
(* is a step of theirs or none, so that what is proved of them alone holds *)
(* of the two together.  On top of that: a plan slot has one holder, the   *)
(* counters are exact, and a demand finds its items, for any number of     *)
(* slots, credits, items, controls and demands, whatever the capacity of   *)
(* the ring.                                                               *)
(***************************************************************************)
EXTENDS ExecutorIngress, SequenceTheorems, FiniteSetTheorems, TLAPS

-----------------------------------------------------------------------------
(* The ring.                                                               *)

\* The inductive invariant: between the check of tryPush and its store of m_head
\* the head slot is free, whatever the consumer does meanwhile, and between the
\* check of tryPop and its store of m_tail the tail slot is taken.
ChannelInvariant ==
    /\ TypeOK
    /\ producer.at # "idle" => /\ NextSlot(m_head) # m_tail
                               /\ producer.value \in Values
    /\ producer.at = "publish" => m_values[m_head] = producer.value
    /\ consumer.at # "idle" => m_tail # m_head
    /\ consumer.at = "release" => consumer.value = m_values[m_tail]

LEMMA NextSlotStays == \A k \in Slots : NextSlot(k) \in Slots
  BY CapacityAssumption DEF NextSlot, Slots, STORAGE_SIZE

\* Two slots never have the same successor: the index arithmetic loses no slot.
LEMMA NextSlotInjective ==
  \A j, k \in Slots : NextSlot(j) = NextSlot(k) => j = k
  BY CapacityAssumption DEF NextSlot, Slots, STORAGE_SIZE

LEMMA InitChannelInvariant == Init => ChannelInvariant
  BY CapacityAssumption DEF Init, ChannelInvariant, TypeOK, Slots, STORAGE_SIZE

\* Every step of either thread preserves the invariant, one step per action.
LEMMA NextChannelInvariant ==
  ChannelInvariant /\ [Next]_vars => ChannelInvariant'
<1> SUFFICES ASSUME ChannelInvariant, [Next]_vars
             PROVE  ChannelInvariant'
  OBVIOUS
<1> USE NoValueAssumption DEF ChannelInvariant, TypeOK
<1>1. CASE UNCHANGED vars
  BY <1>1 DEF vars
<1>2. CASE PushRefused
  BY <1>2 DEF PushRefused, vars
<1>3. ASSUME NEW v \in Values, PushChecksSpace(v)
      PROVE  ChannelInvariant'
  BY <1>3 DEF PushChecksSpace
<1>4. CASE PushWritesSlot
  BY <1>4 DEF PushWritesSlot
<1>5. CASE PushPublishes
  BY <1>5, NextSlotStays DEF PushPublishes
<1>6. CASE PopRefused
  BY <1>6 DEF PopRefused, vars
<1>7. CASE PopChecksData
  BY <1>7 DEF PopChecksData
<1>8. CASE PopReadsSlot
  BY <1>8 DEF PopReadsSlot
<1>9. CASE PopReleases
  BY <1>9, NextSlotStays, NextSlotInjective DEF PopReleases
<1> QED
  BY <1>1, <1>2, <1>3, <1>4, <1>5, <1>6, <1>7, <1>8, <1>9 DEF Next, Push, Pop

LEMMA ChannelInvariantHolds == Spec => []ChannelInvariant
  BY InitChannelInvariant, NextChannelInvariant, PTL DEF Spec

\* Both indices stay inside the storage and every variable keeps its type.
THEOREM ChannelTypeCorrect == Spec => []TypeOK
<1>1. ChannelInvariant => TypeOK
  BY DEF ChannelInvariant
<1> QED
  BY <1>1, ChannelInvariantHolds, PTL

\* tryPush never writes the slot tryPop is copying from.
THEOREM ChannelHasNoDataRace == Spec => []NoDataRace
<1>1. ChannelInvariant => NoDataRace
  BY DEF ChannelInvariant, NoDataRace
<1> QED
  BY <1>1, ChannelInvariantHolds, PTL

-----------------------------------------------------------------------------
(* The refinement.  The ring is m_head - m_tail slots modulo the storage;  *)
(* the lemmas say which slots they are and how the two stores move them.   *)

LEMMA UsedBounds ==
  ASSUME m_head \in Slots, m_tail \in Slots
  PROVE  /\ Used \in 0 .. Capacity
         /\ Used = 0 <=> m_head = m_tail
         /\ Used = Capacity <=> NextSlot(m_head) = m_tail
  BY CapacityAssumption DEF Used, Slots, STORAGE_SIZE, NextSlot

\* The slots in use are slots, none of them is the head, and the head follows.
LEMMA SlotsInUse ==
  ASSUME m_head \in Slots, m_tail \in Slots
  PROVE  /\ \A i \in 0 .. Used : SlotAt(i) \in Slots
         /\ \A i \in 0 .. Used - 1 : SlotAt(i) # m_head
         /\ SlotAt(Used) = m_head
         /\ SlotAt(0) = m_tail
  BY CapacityAssumption DEF Used, SlotAt, Slots, STORAGE_SIZE

LEMMA ContentsLength ==
  ASSUME m_head \in Slots, m_tail \in Slots,
         m_values \in [Slots -> Values \cup {NoValue}]
  PROVE  /\ Contents \in Seq(Values \cup {NoValue})
         /\ Len(Contents) = Used
  BY UsedBounds, SlotsInUse, CapacityAssumption DEF Contents

LEMMA TailShifts ==
  ASSUME NEW S, NEW s \in Seq(S), s # <<>>
  PROVE  Tail(s) = [i \in 1 .. Len(s) - 1 |-> s[i + 1]]
<1>1. /\ Tail(s) \in Seq(S) /\ Len(Tail(s)) = Len(s) - 1
      /\ \A i \in 1 .. Len(s) - 1 : Tail(s)[i] = s[i + 1]
  BY HeadTailProperties
<1>2. Tail(s) \in [1 .. Len(s) - 1 -> S]
  BY <1>1, LenProperties
<1> QED
  BY <1>1, <1>2

\* A push takes effect at the store of m_head ...
LEMMA PushPublishesPuts ==
  ASSUME ChannelInvariant, PushPublishes
  PROVE  producer.value \in Values /\ Fifo!Put(producer.value)
<1>1. /\ m_head \in Slots /\ m_tail \in Slots /\ NextSlot(m_head) # m_tail
      /\ m_values \in [Slots -> Values \cup {NoValue}]
      /\ producer.value \in Values /\ m_values[m_head] = producer.value
  BY DEF ChannelInvariant, TypeOK, PushPublishes
<1>2. /\ m_head' = NextSlot(m_head) /\ m_tail' = m_tail
      /\ m_values' = m_values /\ received' = received
  BY DEF PushPublishes
<1>3. Used \in Nat /\ Used < Capacity
  BY <1>1, UsedBounds, CapacityAssumption
<1>4. Used' = Used + 1
  BY <1>1, <1>2, CapacityAssumption DEF Used, Slots, STORAGE_SIZE, NextSlot
<1>5. \A i \in Int : SlotAt(i)' = SlotAt(i)
  BY <1>2 DEF SlotAt, STORAGE_SIZE
<1>6. Contents' = Append(Contents, producer.value)
  <2>1. Contents' = [i \in 1 .. Used + 1 |-> m_values[SlotAt(i - 1)]]
    BY <1>2, <1>3, <1>4, <1>5 DEF Contents
  <2>2. m_values[SlotAt(Used)] = producer.value
    BY <1>1, SlotsInUse
  <2>3. Contents \in Seq(Values \cup {NoValue}) /\ Len(Contents) = Used
    BY <1>1, ContentsLength
  <2>4. \A i \in 1 .. Used : Contents[i] = m_values[SlotAt(i - 1)]
    BY DEF Contents
  <2>5. Append(Contents, producer.value)
        = [i \in 1 .. Used + 1 |->
              IF i = Used + 1 THEN producer.value ELSE Contents[i]]
    BY <1>1, <1>3, <2>3
  <2> QED
    BY <1>3, <2>1, <2>2, <2>4, <2>5
<1>7. Len(Contents) < Capacity
  BY <1>1, <1>3, ContentsLength
<1> QED
  BY <1>1, <1>2, <1>6, <1>7 DEF Fifo!Put

\* ... and a pop at the store of m_tail.
LEMMA PopReleasesTakes ==
  ASSUME ChannelInvariant, PopReleases
  PROVE  Fifo!Take
<1>1. /\ m_head \in Slots /\ m_tail \in Slots /\ m_tail # m_head
      /\ m_values \in [Slots -> Values \cup {NoValue}]
      /\ consumer.value = m_values[m_tail]
  BY DEF ChannelInvariant, TypeOK, PopReleases
<1>2. /\ m_tail' = NextSlot(m_tail) /\ m_head' = m_head
      /\ m_values' = m_values /\ received' = m_values[m_tail]
  BY <1>1 DEF PopReleases
<1>3. Used \in Nat /\ Used > 0
  BY <1>1, UsedBounds
<1>4. Used' = Used - 1
  BY <1>1, <1>2, CapacityAssumption DEF Used, Slots, STORAGE_SIZE, NextSlot
<1>5. \A i \in 0 .. Used - 2 : SlotAt(i)' = SlotAt(i + 1)
  BY <1>1, <1>2, CapacityAssumption
     DEF Used, SlotAt, Slots, STORAGE_SIZE, NextSlot
<1>6. Contents \in Seq(Values \cup {NoValue}) /\ Len(Contents) = Used
  BY <1>1, ContentsLength
<1>7. \A i \in 1 .. Used : Contents[i] = m_values[SlotAt(i - 1)]
  BY DEF Contents
<1>8. Contents # <<>> /\ Head(Contents) = m_values[m_tail]
  BY <1>1, <1>3, <1>6, <1>7, SlotsInUse
<1>9. Contents' = Tail(Contents)
  <2>1. Contents' = [i \in 1 .. Used - 1 |-> m_values[SlotAt(i)]]
    <3>1. Contents' = [i \in 1 .. Used' |-> m_values'[SlotAt(i - 1)']]
      BY DEF Contents
    <3>2. \A i \in 1 .. Used - 1 : SlotAt(i - 1)' = SlotAt(i)
      <4> SUFFICES ASSUME NEW i \in 1 .. Used - 1
                   PROVE  SlotAt(i - 1)' = SlotAt(i)
        OBVIOUS
      <4>1. i - 1 \in 0 .. Used - 2 /\ (i - 1) + 1 = i
        BY <1>3
      <4> QED
        BY <1>5, <4>1
    <3> QED
      BY <1>2, <1>4, <3>1, <3>2
  <2>2. Tail(Contents) = [i \in 1 .. Used - 1 |-> Contents[i + 1]]
    BY <1>6, <1>8, TailShifts
  <2>3. \A i \in 1 .. Used - 1 : Contents[i + 1] = m_values[SlotAt(i)]
    BY <1>3, <1>7
  <2> QED
    BY <2>1, <2>2, <2>3
<1> QED
  BY <1>2, <1>8, <1>9 DEF Fifo!Take

\* The write of a slot happens outside the values in flight.
LEMMA PushWritesSlotUnseen ==
  ASSUME ChannelInvariant, PushWritesSlot
  PROVE  Contents' = Contents /\ received' = received
<1>1. /\ m_head \in Slots /\ m_tail \in Slots
      /\ m_values \in [Slots -> Values \cup {NoValue}]
  BY DEF ChannelInvariant, TypeOK
<1>2. /\ m_head' = m_head /\ m_tail' = m_tail /\ received' = received
      /\ m_values' = [m_values EXCEPT ![m_head] = producer.value]
  BY DEF PushWritesSlot
<1>3. Used' = Used /\ \A i \in Int : SlotAt(i)' = SlotAt(i)
  BY <1>2 DEF Used, SlotAt, STORAGE_SIZE
<1>4. Used \in Nat
  BY <1>1, UsedBounds
<1>5. \A i \in 1 .. Used : m_values'[SlotAt(i - 1)] = m_values[SlotAt(i - 1)]
  BY <1>1, <1>2, <1>4, SlotsInUse
<1> QED
  BY <1>2, <1>3, <1>4, <1>5 DEF Contents

\* Every step of the ring is a step of the bounded FIFO, or none.
LEMMA StepRefines ==
  ASSUME ChannelInvariant, [Next]_vars
  PROVE  [Fifo!FifoNext]_(Fifo!fifoVars)
<1> USE DEF Fifo!FifoNext, Fifo!fifoVars
<1>1. ASSUME UNCHANGED <<m_values, m_head, m_tail, received>>
      PROVE  [Fifo!FifoNext]_(Fifo!fifoVars)
  BY <1>1 DEF Contents, Used, SlotAt
<1>2. CASE UNCHANGED vars
  BY <1>1, <1>2 DEF vars
<1>3. CASE Push
  <2>1. CASE PushRefused
    BY <1>1, <2>1 DEF PushRefused, vars
  <2>2. CASE \E v \in Values : PushChecksSpace(v)
    BY <1>1, <2>2 DEF PushChecksSpace
  <2>3. CASE PushWritesSlot
    BY <2>3, PushWritesSlotUnseen
  <2>4. CASE PushPublishes
    BY <2>4, PushPublishesPuts
  <2> QED
    BY <1>3, <2>1, <2>2, <2>3, <2>4 DEF Push
<1>4. CASE Pop
  <2>1. CASE PopRefused
    BY <1>1, <2>1 DEF PopRefused, vars
  <2>2. CASE PopChecksData
    BY <1>1, <2>2 DEF PopChecksData
  <2>3. CASE PopReadsSlot
    BY <1>1, <2>3 DEF PopReadsSlot
  <2>4. CASE PopReleases
    BY <2>4, PopReleasesTakes
  <2> QED
    BY <1>4, <2>1, <2>2, <2>3, <2>4 DEF Pop
<1> QED
  BY <1>2, <1>3, <1>4 DEF Next

\* The ring implements the bounded FIFO, for every capacity and every interleaving
\* of the two threads.
THEOREM ChannelImplementsFifo == Spec => ImplementsFifo
<1>1. Init => Fifo!FifoInit
  <2> SUFFICES ASSUME Init PROVE Fifo!FifoInit
    OBVIOUS
  <2>1. Used = 0
    BY DEF Init, Used
  <2> QED
    BY <2>1 DEF Init, Fifo!FifoInit, Contents
<1>2. ChannelInvariant /\ [Next]_vars
      => [Fifo!FifoNext]_(Fifo!fifoVars)
  BY StepRefines
<1> QED
  BY <1>1, <1>2, ChannelInvariantHolds, PTL DEF Spec, ImplementsFifo, Fifo!FifoSpec

-----------------------------------------------------------------------------
(* The mailbox.                                                            *)

\* The inductive invariant adds to the properties what the two threads rely on
\* between their steps: the publisher's slot holds the next publication, only the
\* consumer takes the dirty bit away, and what the consumer holds while the bit
\* is set is older.
MailboxInvariant ==
    /\ MailboxTypeOK
    /\ SlotsHaveOneOwner
    /\ NothingNewerIsHidden
    /\ publisher = "exchange" => /\ published < MaxPublications
                                /\ m_slots[m_back] = published + 1
    /\ poller = "exchange" => m_middle.dirty
    /\ m_slots[m_front] <= published
    /\ m_middle.dirty => m_slots[m_front] < published

LEMMA InitMailboxInvariant == MailboxInit => MailboxInvariant
  BY MaxPublicationsAssumption
     DEF MailboxInit, MailboxInvariant, MailboxTypeOK, SlotsHaveOneOwner, NothingNewerIsHidden,
         MailboxSlots

\* Every step of either thread preserves the invariant, one step per action.
LEMMA NextMailboxInvariant ==
  MailboxInvariant /\ [MailboxNext]_mailboxVars => MailboxInvariant'
<1> SUFFICES ASSUME MailboxInvariant, [MailboxNext]_mailboxVars
             PROVE  MailboxInvariant'
  OBVIOUS
<1> USE MaxPublicationsAssumption
    DEF MailboxInvariant, MailboxTypeOK, SlotsHaveOneOwner, NothingNewerIsHidden, MailboxSlots
<1>1. CASE UNCHANGED mailboxVars
  BY <1>1 DEF mailboxVars
<1>2. CASE PublishWritesBack
  BY <1>2 DEF PublishWritesBack
<1>3. CASE PublishExchanges
  BY <1>3 DEF PublishExchanges
<1>4. CASE ConsumeFindsNothing
  BY <1>4 DEF ConsumeFindsNothing, mailboxVars
<1>5. CASE ConsumeFindsDirty
  BY <1>5 DEF ConsumeFindsDirty
<1>6. CASE ConsumeExchanges
  BY <1>6 DEF ConsumeExchanges
<1>7. CASE ConsumeCopies
  BY <1>7 DEF ConsumeCopies
<1> QED
  BY <1>1, <1>2, <1>3, <1>4, <1>5, <1>6, <1>7 DEF MailboxNext

LEMMA MailboxInvariantHolds == MailboxSpec => []MailboxInvariant
  BY InitMailboxInvariant, NextMailboxInvariant, PTL DEF MailboxSpec

\* The indices stay slots and every variable keeps its type.
THEOREM MailboxTypeCorrect == MailboxSpec => []MailboxTypeOK
<1>1. MailboxInvariant => MailboxTypeOK
  BY DEF MailboxInvariant
<1> QED
  BY <1>1, MailboxInvariantHolds, PTL

\* The producer, the consumer and the exchange word own three different slots.
THEOREM MailboxSlotsHaveOneOwner == MailboxSpec => []SlotsHaveOneOwner
<1>1. MailboxInvariant => SlotsHaveOneOwner
  BY DEF MailboxInvariant
<1> QED
  BY <1>1, MailboxInvariantHolds, PTL

\* consumeLatest never misses the newest publication.
THEOREM MailboxHidesNothingNewer == MailboxSpec => []NothingNewerIsHidden
<1>1. MailboxInvariant => NothingNewerIsHidden
  BY DEF MailboxInvariant
<1> QED
  BY <1>1, MailboxInvariantHolds, PTL

-----------------------------------------------------------------------------

\* Every step of the triple buffer publishes, consumes the newest publication, or
\* changes neither what is published nor what the consumer holds.
LEMMA MailboxStepRefines ==
  ASSUME MailboxInvariant, [MailboxNext]_mailboxVars
  PROVE  [Latest!Publish \/ Latest!Consume]_(Latest!latestVars)
<1> USE DEF MailboxInvariant, MailboxTypeOK, MailboxSlots, Latest!latestVars
<1>1. CASE UNCHANGED mailboxVars
  BY <1>1 DEF mailboxVars
<1>2. CASE PublishWritesBack
  BY <1>2 DEF PublishWritesBack, SlotsHaveOneOwner
<1>3. CASE PublishExchanges
  BY <1>3 DEF PublishExchanges, Latest!Publish
<1>4. CASE ConsumeFindsNothing
  BY <1>4 DEF ConsumeFindsNothing, mailboxVars
<1>5. CASE ConsumeFindsDirty
  BY <1>5 DEF ConsumeFindsDirty
<1>6. CASE ConsumeExchanges
  BY <1>6 DEF ConsumeExchanges, NothingNewerIsHidden, Latest!Consume
<1>7. CASE ConsumeCopies
  BY <1>7 DEF ConsumeCopies
<1> QED
  BY <1>1, <1>2, <1>3, <1>4, <1>5, <1>6, <1>7 DEF MailboxNext

\* The triple buffer implements the latest-value channel: a publication is taken
\* at most once, and only while it is the newest.
THEOREM MailboxImplementsLatestValue == MailboxSpec => ImplementsLatestValue
<1>1. MailboxInit => Latest!LatestInit
  BY DEF MailboxInit, Latest!LatestInit, MailboxSlots
<1>2. MailboxInvariant /\ [MailboxNext]_mailboxVars
      => [Latest!Publish \/ Latest!Consume]_(Latest!latestVars)
  BY MailboxStepRefines
<1> QED
  BY <1>1, <1>2, MailboxInvariantHolds, PTL
     DEF MailboxSpec, ImplementsLatestValue, Latest!LatestSpec

-----------------------------------------------------------------------------
(* The ingress.                                                            *)

\* Which call of the host thread is in which channel, and which part of the tick.
HostInStep ==
    /\ host.at = "pushPlan" => /\ producer.at # "idle"
                               /\ producer.value = PublishedPlan(host.slot)
    /\ host.at = "pushControl" => producer.at # "idle" /\ producer.value = Control
    /\ host.at \notin {"pushPlan", "pushControl"} => producer.at = "idle"
    /\ host.at = "demand" <=> publisher = "exchange"

ServoInStep ==
    /\ servo.at \notin {"ingress", "discard"} => consumer.at = "idle"
    /\ servo.at # "demand" => poller = "idle"
    /\ servo.at \in {"discard", "discardRecord", "discardAccount", "discardRelease"} =>
           m_plans = <<>> /\ m_active = {}

\* What they have in hand.
RecordsInStep ==
    /\ servo.at \in {"record", "discardRecord"} => received \in Values
    /\ host.at \in {"count", "push", "pushPlan", "full"} =>
           m_planSlots[host.slot].item = items + 1
    /\ Contents \in Seq(Values)

\* For every demand the items that precede it are known, and published.
DemandsInOrder ==
    /\ Len(preceding) = published
    /\ value <= published
    /\ \A k \in DOMAIN preceding : preceding[k] <= items

IngressInvariant ==
    /\ ChannelInvariant /\ MailboxInvariant /\ IngressTypeOK
    /\ HostInStep /\ ServoInStep /\ RecordsInStep
    /\ DemandsInOrder
    /\ SlotsHaveOneHolder
    /\ CountersAreExact
    /\ DemandsFindTheirItems

-----------------------------------------------------------------------------
(* The two channels.                                                       *)

\* The ring carries plans and controls, and nothing else.
LEMMA RecordsAreValues ==
  /\ \A slot \in PlanSlots : PublishedPlan(slot) \in Values
  /\ Control \in Values
  /\ \A v \in Values : v = Control \/ \E slot \in PlanSlots : v = PublishedPlan(slot)
  BY IngressAssumption DEF IngressRecords

\* Every step of the ingress is a step of the ring or leaves it alone, and a step of the
\* mailbox or leaves it alone.
LEMMA StepOfChannels ==
  ASSUME IngressTypeOK, [IngressNext]_ingressVars
  PROVE  [Next]_vars /\ [MailboxNext]_mailboxVars
<1>1. CASE UNCHANGED ingressVars
  BY <1>1 DEF ingressVars
<1>2. CASE TryPublish
  BY <1>2 DEF TryPublish, PublishBegins, PublishSkipsSlot, PublishTakesSlot, PublishFillsSlot,
              PublishCountsItem, PublishUncountsMotion, PublishUncountsItem, PublishFreesSlot
<1>3. CASE TrySubmit
  BY <1>3 DEF TrySubmit, SubmitTakesCredit, SubmitReturnsCredit
<1>4. CASE TryPush
  <2>1. CASE IngressChecksSpace
    <3>1. \E v \in Values : PushChecksSpace(v)
      BY <2>1, RecordsAreValues DEF IngressChecksSpace, IngressTypeOK
    <3> QED
      BY <2>1, <3>1 DEF IngressChecksSpace, Next, Push
  <2>2. CASE IngressRefuses
    BY <2>2 DEF IngressRefuses, Next, Push
  <2>3. CASE IngressWritesSlot
    BY <2>3 DEF IngressWritesSlot, Next, Push
  <2>4. CASE IngressPublishes
    BY <2>4 DEF IngressPublishes, Next, Push
  <2> QED
    BY <1>4, <2>1, <2>2, <2>3, <2>4 DEF TryPush
<1>5. CASE PublishDemand
  BY <1>5 DEF PublishDemand, DemandWritten, DemandPublished, MailboxNext
<1>6. CASE ServoTick
  <2>1. CASE DemandNotThere \/ DemandTaken
    BY <2>1 DEF DemandNotThere, DemandTaken, MailboxNext
  <2>2. CASE IngressEmpty \/ IngressPops
    BY <2>2 DEF IngressEmpty, IngressPops, Next, Pop
  <2>3. CASE RecordIsPlan \/ RecordIsControl \/ ItemDequeued \/ ItemAccounted \/ ItemBegins
             \/ ItemDropped \/ ItemEnds \/ SlotReleased \/ TickEnds
    BY <2>3 DEF RecordIsPlan, RecordIsControl, ItemDequeued, ItemAccounted, ItemBegins,
                ItemDropped, ItemEnds, SlotReleased, TickEnds
  <2> QED
    BY <1>6, <2>1, <2>2, <2>3 DEF ServoTick
<1>7. CASE LatchEmergencyStop
  <2>1. CASE DiscardEnds
    BY <2>1 DEF DiscardEnds, Next, Pop
  <2>2. CASE IngressDiscarded \/ RecordDiscarded \/ DiscardAccounted \/ DiscardReleased
    BY <2>2 DEF IngressDiscarded, RecordDiscarded, DiscardAccounted, DiscardReleased
  <2> QED
    BY <1>7, <2>1, <2>2 DEF LatchEmergencyStop
<1> QED
  BY <1>1, <1>2, <1>3, <1>4, <1>5, <1>6, <1>7 DEF IngressNext

\* What the channels do to the queue's ring end: a publication puts a record at its end, a
\* release takes the oldest one, everything else leaves it alone.
LEMMA RingIsQuiet ==
  ASSUME ChannelInvariant,
         UNCHANGED vars \/ PushRefused \/ PopRefused \/ PopChecksData \/ PopReadsSlot
            \/ PushWritesSlot \/ \E v \in Values : PushChecksSpace(v)
  PROVE  Contents' = Contents /\ received' = received
<1>1. ASSUME UNCHANGED <<m_values, m_head, m_tail, received>>
      PROVE  Contents' = Contents /\ received' = received
  BY <1>1 DEF Contents, Used, SlotAt
<1>2. CASE PushWritesSlot
  BY <1>2, PushWritesSlotUnseen
<1> QED
  BY <1>1, <1>2 DEF vars, PushRefused, PopRefused, PopChecksData, PopReadsSlot, PushChecksSpace

LEMMA RingGrows ==
  ASSUME ChannelInvariant, PushPublishes
  PROVE  /\ producer.value \in Values /\ received' = received
         /\ Contents' = Append(Contents, producer.value)
  BY PushPublishesPuts DEF Fifo!Put

LEMMA RingShrinks ==
  ASSUME ChannelInvariant, PopReleases
  PROVE  /\ Contents # <<>> /\ received' = Head(Contents)
         /\ Contents' = Tail(Contents)
  BY PopReleasesTakes DEF Fifo!Take

LEMMA RingIsEmpty ==
  ASSUME ChannelInvariant, PopRefused
  PROVE  Contents = <<>>
<1>1. Used = 0 /\ Contents \in Seq(Values \cup {NoValue}) /\ Len(Contents) = Used
  BY UsedBounds, ContentsLength DEF ChannelInvariant, TypeOK, PopRefused
<1> QED
  BY <1>1

-----------------------------------------------------------------------------
(* Types, and which thread is where.                                       *)

LEMMA InitIngressTypeOK == IngressInit => IngressTypeOK
  BY IngressAssumption DEF IngressInit, IngressTypeOK, PlanSlots, Idle

HostType == [at : {"idle", "scan", "fill", "count", "push", "pushPlan", "full", "uncount",
                   "free", "submit", "refused", "pushControl", "demand"},
             slot : PlanSlots]
ServoType == [at : {"demand", "ingress", "record", "execution", "account", "dequeued",
                    "release", "discard", "discardRecord", "discardAccount",
                    "discardRelease"},
              slot : PlanSlots]

LEMMA NextHostType ==
  ASSUME host \in HostType, [IngressNext]_ingressVars
  PROVE  host' \in HostType
<1> USE DEF HostType
<1>1. Idle \in HostType
  BY IngressAssumption DEF Idle, PlanSlots
<1>2. CASE host' = host
  BY <1>2
<1>3. CASE TryPublish
  <2>1. CASE PublishBegins \/ PublishTakesSlot \/ PublishFillsSlot \/ PublishCountsItem
             \/ PublishUncountsMotion \/ PublishUncountsItem
    BY <2>1 DEF PublishBegins, PublishTakesSlot, PublishFillsSlot, PublishCountsItem,
                PublishUncountsMotion, PublishUncountsItem, Calls
  <2>2. CASE PublishSkipsSlot \/ PublishFreesSlot
    BY <1>1, <2>2 DEF PublishSkipsSlot, PublishFreesSlot
  <2> QED
    BY <1>3, <2>1, <2>2 DEF TryPublish
<1>4. CASE TrySubmit \/ PublishDemand
  BY <1>4 DEF TrySubmit, SubmitTakesCredit, SubmitReturnsCredit, PublishDemand, DemandWritten,
              DemandPublished, Calls
<1>5. CASE TryPush
  BY <1>1, <1>5 DEF TryPush, IngressChecksSpace, IngressRefuses, IngressWritesSlot,
                    IngressPublishes
<1>6. CASE ServoTick \/ LatchEmergencyStop
  BY <1>2, <1>6
     DEF ServoTick, LatchEmergencyStop, DemandNotThere, DemandTaken, IngressEmpty,
         IngressPops, RecordIsPlan, RecordIsControl, ItemDequeued, ItemAccounted, ItemBegins,
         ItemDropped, ItemEnds, SlotReleased, TickEnds, IngressDiscarded, RecordDiscarded,
         DiscardAccounted, DiscardReleased, DiscardEnds
<1> QED
  BY <1>2, <1>3, <1>4, <1>5, <1>6 DEF IngressNext, ingressVars

\* What the servo thread takes from the ring are plan slots.
LEMMA RecordOfSlot ==
  ASSUME NEW v \in Values, v.kind = "PublishedPlan"
  PROVE  v.slot \in PlanSlots /\ v = PublishedPlan(v.slot)
  BY RecordsAreValues DEF Control, PublishedPlan

LEMMA NextServoType ==
  ASSUME IngressTypeOK, RecordsInStep, [IngressNext]_ingressVars
  PROVE  servo' \in ServoType
<1>1. servo \in ServoType /\ Executing \in ServoType
  BY IngressAssumption DEF IngressTypeOK, ServoType, Executing, PlanSlots
<1> USE <1>1 DEF ServoType, Ticks
<1>2. CASE servo' = servo
  BY <1>2
<1>3. CASE TryPublish \/ TrySubmit \/ TryPush \/ PublishDemand
  BY <1>2, <1>3
     DEF TryPublish, PublishBegins, PublishSkipsSlot, PublishTakesSlot, PublishFillsSlot,
         PublishCountsItem, PublishUncountsMotion, PublishUncountsItem, PublishFreesSlot,
         TrySubmit, SubmitTakesCredit, SubmitReturnsCredit, TryPush, IngressChecksSpace,
         IngressRefuses, IngressWritesSlot, IngressPublishes, PublishDemand, DemandWritten,
         DemandPublished
<1>4. CASE DemandNotThere \/ DemandTaken \/ IngressEmpty \/ IngressPops \/ TickEnds
  BY <1>4 DEF DemandNotThere, DemandTaken, IngressEmpty, IngressPops, TickEnds, PartAfter
<1>5. CASE RecordIsPlan \/ RecordIsControl \/ ItemAccounted \/ ItemDropped
  BY <1>5 DEF RecordIsPlan, RecordIsControl, ItemAccounted, ItemDropped
<1>6. CASE ItemDequeued
  <2>1. Head(m_plans) \in PlanSlots
    BY <1>6 DEF ItemDequeued, IngressTypeOK
  <2> QED
    BY <1>6, <2>1 DEF ItemDequeued
<1>7. CASE ItemBegins \/ ItemEnds
  <2> DEFINE active == CHOOSE slot \in m_active : TRUE
  <2>1. m_active # {} => active \in PlanSlots
    BY DEF IngressTypeOK
  <2>2. \/ servo' = Executing
        \/ m_active # {} /\ servo' = [at |-> "release", slot |-> active]
    BY <1>7 DEF ItemBegins, ItemEnds
  <2> HIDE DEF active
  <2> QED
    BY <2>1, <2>2
<1>8. CASE SlotReleased
  BY <1>8 DEF SlotReleased
<1>9. CASE RecordDiscarded
  <2>1. received.slot \in PlanSlots
    BY <1>9, RecordOfSlot DEF RecordDiscarded, RecordsInStep
  <2> QED
    BY <1>9, <2>1 DEF RecordDiscarded
<1>10. CASE IngressDiscarded \/ DiscardAccounted \/ DiscardReleased \/ DiscardEnds
  BY <1>10 DEF IngressDiscarded, DiscardAccounted, DiscardReleased, DiscardEnds
<1> QED
  BY <1>2, <1>3, <1>4, <1>5, <1>6, <1>7, <1>8, <1>9, <1>10
     DEF IngressNext, ServoTick, LatchEmergencyStop, ingressVars

LEMMA NextPlanSlotsType ==
  ASSUME IngressTypeOK, [IngressNext]_ingressVars
  PROVE  m_planSlots' \in [PlanSlots -> [occupied : BOOLEAN, item : Nat]]
<1> USE DEF IngressTypeOK
<1>1. CASE UNCHANGED m_planSlots
  BY <1>1
<1>2. \A slot \in PlanSlots, taken \in BOOLEAN :
          [m_planSlots EXCEPT ![slot].occupied = taken]
              \in [PlanSlots -> [occupied : BOOLEAN, item : Nat]]
  OBVIOUS
<1>3. \A slot \in PlanSlots, n \in Nat :
          [m_planSlots EXCEPT ![slot].item = n]
              \in [PlanSlots -> [occupied : BOOLEAN, item : Nat]]
  OBVIOUS
<1>4. host.slot \in PlanSlots /\ servo.slot \in PlanSlots /\ items + 1 \in Nat
  OBVIOUS
<1>5. CASE TryPublish
  <2>1. \/ UNCHANGED m_planSlots
        \/ m_planSlots' = [m_planSlots EXCEPT ![host.slot].occupied = TRUE]
        \/ m_planSlots' = [m_planSlots EXCEPT ![host.slot].occupied = FALSE]
        \/ m_planSlots' = [m_planSlots EXCEPT ![host.slot].item = items + 1]
    BY <1>5
       DEF TryPublish, PublishBegins, PublishSkipsSlot, PublishTakesSlot, PublishFillsSlot,
           PublishCountsItem, PublishUncountsMotion, PublishUncountsItem, PublishFreesSlot
  <2>2. CASE m_planSlots' = [m_planSlots EXCEPT ![host.slot].occupied = TRUE]
    BY <1>2, <1>4, <2>2
  <2>3. CASE m_planSlots' = [m_planSlots EXCEPT ![host.slot].occupied = FALSE]
    BY <1>2, <1>4, <2>3
  <2>4. CASE m_planSlots' = [m_planSlots EXCEPT ![host.slot].item = items + 1]
    BY <1>3, <1>4, <2>4
  <2> QED
    BY <1>1, <2>1, <2>2, <2>3, <2>4
<1>6. CASE TrySubmit \/ TryPush \/ PublishDemand
  BY <1>1, <1>6
     DEF TrySubmit, SubmitTakesCredit, SubmitReturnsCredit, TryPush, IngressChecksSpace,
         IngressRefuses, IngressWritesSlot, IngressPublishes, PublishDemand, DemandWritten,
         DemandPublished
<1>7. CASE SlotReleased \/ DiscardReleased
  <2>1. m_planSlots' = [m_planSlots EXCEPT ![servo.slot].occupied = FALSE]
    BY <1>7 DEF SlotReleased, DiscardReleased
  <2> QED
    BY <1>2, <1>4, <2>1
<1>8. CASE DemandNotThere \/ DemandTaken \/ IngressEmpty \/ IngressPops \/ RecordIsPlan
           \/ RecordIsControl \/ ItemDequeued \/ ItemAccounted \/ ItemBegins \/ ItemDropped
           \/ ItemEnds \/ TickEnds
  BY <1>1, <1>8
     DEF DemandNotThere, DemandTaken, IngressEmpty, IngressPops, RecordIsPlan,
         RecordIsControl, ItemDequeued, ItemAccounted, ItemBegins, ItemDropped, ItemEnds,
         TickEnds
<1>9. CASE IngressDiscarded \/ RecordDiscarded \/ DiscardAccounted \/ DiscardEnds
  BY <1>1, <1>9 DEF IngressDiscarded, RecordDiscarded, DiscardAccounted, DiscardEnds
<1> QED
  BY <1>1, <1>5, <1>6, <1>7, <1>8, <1>9
     DEF IngressNext, ServoTick, LatchEmergencyStop, ingressVars

LEMMA NextHistoryType ==
  ASSUME IngressTypeOK, [IngressNext]_ingressVars
  PROVE  items' \in Nat /\ controls' \in Nat /\ preceding' \in Seq(Nat)
<1> USE DEF IngressTypeOK
<1>1. CASE UNCHANGED history
  BY <1>1 DEF history
<1>2. CASE TryPublish
  BY <1>1, <1>2
     DEF TryPublish, PublishBegins, PublishSkipsSlot, PublishTakesSlot, PublishFillsSlot,
         PublishCountsItem, PublishUncountsMotion, PublishUncountsItem, PublishFreesSlot
<1>3. CASE TrySubmit
  BY <1>1, <1>3 DEF TrySubmit, SubmitTakesCredit, SubmitReturnsCredit
<1>4. CASE TryPush
  <2>1. CASE IngressPublishes
    BY <2>1 DEF IngressPublishes
  <2> QED
    BY <1>1, <1>4, <2>1 DEF TryPush, IngressChecksSpace, IngressRefuses, IngressWritesSlot
<1>5. CASE PublishDemand
  <2>1. CASE DemandPublished
    <3>1. UNCHANGED <<items, controls>> /\ preceding' = Append(preceding, items)
      BY <2>1 DEF DemandPublished
    <3>2. Append(preceding, items) \in Seq(Nat)
      OBVIOUS
    <3> QED
      BY <3>1, <3>2
  <2> QED
    BY <1>1, <1>5, <2>1 DEF PublishDemand, DemandWritten
<1>6. CASE ServoTick \/ LatchEmergencyStop
  BY <1>1, <1>6
     DEF ServoTick, DemandNotThere, DemandTaken, IngressEmpty, IngressPops, RecordIsPlan,
         RecordIsControl, ItemDequeued, ItemAccounted, ItemBegins, ItemDropped, ItemEnds,
         SlotReleased, TickEnds, LatchEmergencyStop, IngressDiscarded, RecordDiscarded,
         DiscardAccounted, DiscardReleased, DiscardEnds
<1> QED
  BY <1>1, <1>2, <1>3, <1>4, <1>5, <1>6 DEF IngressNext, ingressVars

LEMMA NextCoreType ==
  ASSUME IngressTypeOK, RecordsInStep, [IngressNext]_ingressVars
  PROVE  /\ m_plans' \in Seq(PlanSlots)
         /\ m_active' \in {{}} \cup {{slot} : slot \in PlanSlots}
<1> USE DEF IngressTypeOK, core
<1>1. CASE RecordIsPlan
  <2>1. received.slot \in PlanSlots
    BY <1>1, RecordOfSlot DEF RecordIsPlan, RecordsInStep, Ticks
  <2> QED
    BY <1>1, <2>1 DEF RecordIsPlan
<1>2. CASE ItemDequeued
  BY <1>2 DEF ItemDequeued
<1>3. CASE ItemBegins \/ ItemEnds
  BY <1>3 DEF ItemBegins, ItemEnds
<1>4. CASE UNCHANGED core
  BY <1>4
<1>5. CASE TryPublish \/ TrySubmit \/ TryPush \/ PublishDemand
  BY <1>4, <1>5
     DEF TryPublish, PublishBegins, PublishSkipsSlot, PublishTakesSlot, PublishFillsSlot,
         PublishCountsItem, PublishUncountsMotion, PublishUncountsItem, PublishFreesSlot,
         TrySubmit, SubmitTakesCredit, SubmitReturnsCredit, TryPush, IngressChecksSpace,
         IngressRefuses, IngressWritesSlot, IngressPublishes, PublishDemand, DemandWritten,
         DemandPublished
<1>6. CASE DemandNotThere \/ DemandTaken \/ IngressEmpty \/ IngressPops \/ RecordIsControl
           \/ ItemAccounted \/ ItemDropped \/ SlotReleased \/ TickEnds \/ LatchEmergencyStop
  BY <1>4, <1>6
     DEF DemandNotThere, DemandTaken, IngressEmpty, IngressPops, RecordIsControl,
         ItemAccounted, ItemDropped, SlotReleased, TickEnds, LatchEmergencyStop,
         IngressDiscarded, RecordDiscarded, DiscardAccounted, DiscardReleased, DiscardEnds
<1> QED
  BY <1>1, <1>2, <1>3, <1>4, <1>5, <1>6 DEF IngressNext, ServoTick, ingressVars

LEMMA NextCountersType ==
  ASSUME IngressTypeOK, RecordsInStep, [IngressNext]_ingressVars
  PROVE  /\ m_queuedExecutionItems' \in Int
         /\ m_queuedNormalMotionNanoseconds' \in Int
         /\ m_queuedControls' \in Int
<1> USE DEF IngressTypeOK, counters
<1>1. CASE UNCHANGED counters
  BY <1>1
<1>2. CASE TryPublish
  <2>1. m_planSlots[host.slot].item \in Int
    OBVIOUS
  <2> QED
    BY <1>2, <2>1
       DEF TryPublish, PublishBegins, PublishSkipsSlot, PublishTakesSlot, PublishFillsSlot,
           PublishCountsItem, PublishUncountsMotion, PublishUncountsItem, PublishFreesSlot
<1>3. CASE TrySubmit
  BY <1>3 DEF TrySubmit, SubmitTakesCredit, SubmitReturnsCredit
<1>4. CASE TryPush \/ PublishDemand
  BY <1>1, <1>4 DEF TryPush, IngressChecksSpace, IngressRefuses, IngressWritesSlot,
                    IngressPublishes, PublishDemand, DemandWritten, DemandPublished
<1>5. CASE ItemDequeued
  <2>1. m_planSlots[Head(m_plans)].item \in Int
    BY <1>5 DEF ItemDequeued
  <2> QED
    BY <1>5, <2>1 DEF ItemDequeued
<1>6. CASE RecordDiscarded
  <2>1. received.slot \in PlanSlots
    BY <1>6, RecordOfSlot DEF RecordDiscarded, RecordsInStep
  <2>2. m_planSlots[received.slot].item \in Int
    BY <2>1
  <2> QED
    BY <1>6, <2>2 DEF RecordDiscarded
<1>7. CASE RecordIsControl \/ ItemAccounted \/ DiscardAccounted
  BY <1>7 DEF RecordIsControl, ItemAccounted, DiscardAccounted
<1>8. CASE DemandNotThere \/ DemandTaken \/ IngressEmpty \/ IngressPops \/ RecordIsPlan
           \/ ItemBegins \/ ItemDropped \/ ItemEnds \/ SlotReleased \/ TickEnds
  BY <1>1, <1>8
     DEF DemandNotThere, DemandTaken, IngressEmpty, IngressPops, RecordIsPlan,
         ItemBegins, ItemDropped, ItemEnds, SlotReleased, TickEnds
<1>9. CASE IngressDiscarded \/ DiscardReleased \/ DiscardEnds
  BY <1>1, <1>9 DEF IngressDiscarded, DiscardReleased, DiscardEnds
<1> QED
  BY <1>1, <1>2, <1>3, <1>4, <1>5, <1>6, <1>7, <1>8, <1>9
     DEF IngressNext, ServoTick, LatchEmergencyStop, ingressVars

LEMMA NextIngressTypeOK ==
  ASSUME IngressTypeOK, RecordsInStep, [IngressNext]_ingressVars
  PROVE  IngressTypeOK'
<1>1. host \in HostType
  BY DEF IngressTypeOK, HostType
<1> QED
  BY <1>1, NextHostType, NextServoType, NextPlanSlotsType, NextHistoryType, NextCoreType,
     NextCountersType
     DEF IngressTypeOK, HostType, ServoType

-----------------------------------------------------------------------------
(* The queue.  It passes through three places; these lemmas are about any   *)
(* three sequences of records, and say what a step that moves a record from *)
(* one to the next does to the whole: nothing, or one record is added at    *)
(* the end, or one is taken out.                                            *)

\* A sequence without its n-th element.
Without(s, n) == [i \in 1 .. Len(s) - 1 |-> IF i < n THEN s[i] ELSE s[i + 1]]

LEMMA ThreeParts ==
  ASSUME NEW S, NEW s \in Seq(S), NEW h \in Seq(S), NEW c \in Seq(S)
  PROVE  /\ s \o h \o c \in Seq(S)
         /\ Len(s \o h \o c) = Len(s) + Len(h) + Len(c)
         /\ \A i \in 1 .. Len(s) + Len(h) + Len(c) :
                (s \o h \o c)[i] = IF i <= Len(s) THEN s[i]
                                   ELSE IF i <= Len(s) + Len(h) THEN h[i - Len(s)]
                                   ELSE c[i - Len(s) - Len(h)]
<1>1. /\ s \o h \in Seq(S) /\ Len(s \o h) = Len(s) + Len(h)
      /\ \A i \in 1 .. Len(s) + Len(h) :
             (s \o h)[i] = IF i <= Len(s) THEN s[i] ELSE h[i - Len(s)]
  BY ConcatProperties
<1>2. /\ (s \o h) \o c \in Seq(S) /\ Len((s \o h) \o c) = Len(s \o h) + Len(c)
      /\ \A i \in 1 .. Len(s \o h) + Len(c) :
             ((s \o h) \o c)[i] = IF i <= Len(s \o h) THEN (s \o h)[i]
                                  ELSE c[i - Len(s \o h)]
  BY <1>1, ConcatProperties
<1>3. Len(s) \in Nat /\ Len(h) \in Nat /\ Len(c) \in Nat
  BY LenProperties
<1> DEFINE q == (s \o h) \o c
<1>4. ASSUME NEW i \in 1 .. Len(s) + Len(h) + Len(c)
      PROVE  q[i] = IF i <= Len(s) THEN s[i]
                    ELSE IF i <= Len(s) + Len(h) THEN h[i - Len(s)]
                    ELSE c[i - Len(s) - Len(h)]
  <2>1. CASE i <= Len(s) + Len(h)
    BY <1>1, <1>2, <1>3, <2>1
  <2>2. CASE i > Len(s) + Len(h)
    BY <1>1, <1>2, <1>3, <2>2
  <2> QED
    BY <1>3, <2>1, <2>2
<1> QED
  BY <1>1, <1>2, <1>4

\* Two triples are one queue when they agree at every position.
LEMMA SameQueue ==
  ASSUME NEW S, NEW q \in Seq(S), NEW r \in Seq(S), Len(q) = Len(r),
         \A i \in 1 .. Len(q) : q[i] = r[i]
  PROVE  q = r
  BY SeqEqual

LEMMA QueueTakesRecord ==
  ASSUME NEW S, NEW s \in Seq(S), NEW h \in Seq(S), NEW c \in Seq(S), NEW v \in S
  PROVE  s \o h \o Append(c, v) = Append(s \o h \o c, v)
<1>1. s \o h \in Seq(S) /\ c \in Seq(S) /\ <<v>> \in Seq(S)
  BY ConcatProperties
<1>2. Append(c, v) = c \o <<v>> /\ (s \o h) \o c \in Seq(S)
  BY <1>1, AppendIsConcat, ConcatProperties
<1>3. Append((s \o h) \o c, v) = ((s \o h) \o c) \o <<v>>
  BY <1>2, AppendIsConcat
<1> QED
  BY SMTT(30), <1>1, <1>2, <1>3, ConcatAssociative

LEMMA QueueHandsOver ==
  ASSUME NEW S, NEW s \in Seq(S), NEW c \in Seq(S), c # <<>>
  PROVE  s \o <<Head(c)>> \o Tail(c) = s \o <<>> \o c
<1>1. Head(c) \in S /\ Tail(c) \in Seq(S) /\ <<Head(c)>> \in Seq(S)
  BY HeadTailProperties
<1>2. <<Head(c)>> \o Tail(c) = c
  BY <1>1, SubSeqFull, TailIsSubSeq, SubSeqRecursiveFirst
<1>3. s \o <<>> = s
  BY ConcatEmptySeq
<1> QED
  BY <1>1, <1>2, <1>3, ConcatAssociative

LEMMA QueueStoresPlan ==
  ASSUME NEW S, NEW s \in Seq(S), NEW c \in Seq(S), NEW v \in S
  PROVE  Append(s, v) \o <<>> \o c = s \o <<v>> \o c
<1>1. Append(s, v) \in Seq(S) /\ Append(s, v) = s \o <<v>>
  BY AppendProperties, AppendIsConcat
<1> QED
  BY <1>1, ConcatEmptySeq

LEMMA QueueDropsRecord ==
  ASSUME NEW S, NEW s \in Seq(S), NEW c \in Seq(S), NEW v \in S
  PROVE  s \o <<>> \o c = Without(s \o <<v>> \o c, Len(s) + 1)
<1> DEFINE q == s \o <<v>> \o c
           r == s \o <<>> \o c
           w == Without(q, Len(s) + 1)
<1>1. <<>> \in Seq(S) /\ <<v>> \in Seq(S) /\ Len(<<>>) = 0 /\ Len(<<v>>) = 1 /\ <<v>>[1] = v
  OBVIOUS
<1>2. /\ r \in Seq(S) /\ Len(r) = Len(s) + Len(c)
      /\ \A i \in 1 .. Len(s) + Len(c) :
             r[i] = IF i <= Len(s) THEN s[i] ELSE c[i - Len(s)]
  BY <1>1, ThreeParts
<1>3. /\ q \in Seq(S) /\ Len(q) = Len(s) + 1 + Len(c)
      /\ \A i \in 1 .. Len(s) + 1 + Len(c) :
             q[i] = IF i <= Len(s) THEN s[i]
                    ELSE IF i <= Len(s) + 1 THEN <<v>>[i - Len(s)]
                    ELSE c[i - Len(s) - 1]
  BY <1>1, ThreeParts
<1>4. Len(s) \in Nat /\ Len(c) \in Nat
  BY LenProperties
<1> HIDE DEF q, r
<1>5. \A i \in 1 .. Len(s) + Len(c) :
          (IF i < Len(s) + 1 THEN q[i] ELSE q[i + 1])
              = IF i <= Len(s) THEN s[i] ELSE c[i - Len(s)]
  BY <1>3, <1>4
<1>6. r = [i \in 1 .. Len(s) + Len(c) |-> r[i]]
  BY <1>2, LenProperties
<1>7. w = [i \in 1 .. Len(s) + Len(c) |-> r[i]]
  <2>1. Len(q) - 1 = Len(s) + Len(c)
    BY <1>3, <1>4
  <2>2. w = [i \in 1 .. Len(s) + Len(c) |->
                IF i < Len(s) + 1 THEN q[i] ELSE q[i + 1]]
    BY <2>1 DEF Without
  <2>3. \A i \in 1 .. Len(s) + Len(c) :
            (IF i < Len(s) + 1 THEN q[i] ELSE q[i + 1]) = r[i]
    BY <1>2, <1>5
  <2> HIDE DEF w
  <2> QED
    BY <2>2, <2>3
<1> QED
  BY <1>6, <1>7 DEF q, r

LEMMA QueueDequeues ==
  ASSUME NEW S, NEW s \in Seq(S), NEW c \in Seq(S), s # <<>>
  PROVE  Tail(s) \o <<>> \o c = Without(s \o <<>> \o c, 1)
<1>1. s \o <<>> = s /\ Tail(s) \in Seq(S) /\ Tail(s) \o <<>> = Tail(s)
  BY ConcatEmptySeq, HeadTailProperties
<1>2. s = <<>> \o <<Head(s)>> \o Tail(s)
  BY QueueHandsOver, ConcatEmptySeq, EmptySeq
<1>3. <<Head(s)>> \in Seq(S) /\ Head(s) \in S
  BY HeadTailProperties
<1>4. s = <<Head(s)>> \o Tail(s)
  BY <1>2, <1>3, ConcatEmptySeq
<1>5. s \o c = <<Head(s)>> \o (Tail(s) \o c) /\ Tail(s) \o c \in Seq(S)
  BY <1>1, <1>3, <1>4, ConcatAssociative, ConcatProperties
<1>6. <<>> \in Seq(S) /\ Len(<<>>) = 0
  OBVIOUS
<1>7. <<>> \o <<>> \o (Tail(s) \o c)
          = Without(<<>> \o <<Head(s)>> \o (Tail(s) \o c), Len(<<>>) + 1)
  BY <1>3, <1>5, <1>6, QueueDropsRecord
<1>8. <<>> \o (Tail(s) \o c) = Tail(s) \o c
      /\ <<>> \o <<Head(s)>> = <<Head(s)>> /\ <<>> \o <<>> = <<>>
  BY <1>3, <1>5, <1>6, ConcatEmptySeq
<1>9. Len(<<>>) + 1 = 1
  OBVIOUS
<1>10. Tail(s) \o c = Without(<<Head(s)>> \o (Tail(s) \o c), 1)
  BY <1>7, <1>8, <1>9, Zenon
<1> QED
  BY <1>1, <1>5, <1>10, Zenon

\* The elements of a sequence without one of them, and the plans and controls among them.
LEMMA WithoutElements ==
  ASSUME NEW S, NEW s \in Seq(S), NEW n \in 1 .. Len(s)
  PROVE  /\ Without(s, n) \in Seq(S) /\ Len(Without(s, n)) = Len(s) - 1
         /\ DOMAIN Without(s, n) = 1 .. Len(s) - 1
         /\ \A i \in 1 .. Len(s) - 1 :
                Without(s, n)[i] = IF i < n THEN s[i] ELSE s[i + 1]
<1>1. Len(s) \in Nat /\ \A i \in 1 .. Len(s) : s[i] \in S
  BY LenProperties
<1>2. /\ Len(s) - 1 \in Nat
      /\ \A i \in 1 .. Len(s) - 1 : (IF i < n THEN s[i] ELSE s[i + 1]) \in S
  BY <1>1
<1> QED
  BY <1>1, <1>2, IsASeq DEF Without

LEMMA RecordKinds ==
  ASSUME NEW v \in Values
  PROVE  /\ v.kind = "PublishedPlan" <=> v # Control
         /\ v.kind = "PublishedPlan" => v.slot \in PlanSlots /\ v = PublishedPlan(v.slot)
  BY RecordsAreValues DEF Control, PublishedPlan

LEMMA AppendedRecord ==
  ASSUME NEW q \in Seq(Values), NEW v \in Values
  PROVE  /\ PlansOf(Append(q, v)) = PlansOf(q) \cup (IF v = Control THEN {} ELSE {Len(q) + 1})
         /\ ControlsOf(Append(q, v))
                = ControlsOf(q) \cup (IF v = Control THEN {Len(q) + 1} ELSE {})
         /\ \A i \in PlansOf(q) : i \in 1 .. Len(q) /\ Append(q, v)[i] = q[i]
         /\ Append(q, v)[Len(q) + 1] = v
<1>1. /\ Len(q) \in Nat /\ DOMAIN q = 1 .. Len(q)
      /\ DOMAIN Append(q, v) = 1 .. Len(q) + 1
      /\ Append(q, v)[Len(q) + 1] = v
      /\ \A i \in 1 .. Len(q) : Append(q, v)[i] = q[i]
  BY AppendProperties, LenProperties
<1>2. \A i : i \in 1 .. Len(q) + 1 <=> i \in 1 .. Len(q) \/ i = Len(q) + 1
  BY <1>1
<1>3. Len(q) + 1 \notin 1 .. Len(q)
  BY <1>1
<1> HIDE DEF Control
<1> QED
  BY <1>1, <1>2, <1>3, RecordKinds DEF PlansOf, ControlsOf

LEMMA PlanEntersInOrder ==
  ASSUME NEW q \in Seq(Values), NEW item \in [PlanSlots -> Nat], NEW slot \in PlanSlots,
         NEW low \in Int, NEW high \in Int, low <= high + 1, InOrder(q, item, low, high),
         item[slot] = high + 1
  PROVE  InOrder(Append(q, PublishedPlan(slot)), item, low, high + 1)
<1> DEFINE v == PublishedPlan(slot)
           r == Append(q, v)
<1>1. v \in Values /\ v # Control /\ v.slot = slot
  BY RecordsAreValues DEF Control, PublishedPlan
<1> HIDE DEF v
<1>2. /\ PlansOf(r) = PlansOf(q) \cup {Len(q) + 1} /\ r[Len(q) + 1] = v
      /\ \A i \in PlansOf(q) : i \in 1 .. Len(q) /\ r[i] = q[i]
  BY <1>1, AppendedRecord
<1>3. Len(q) \in Nat
  BY LenProperties
<1> HIDE DEF r
<1>4. {item[r[i].slot] : i \in PlansOf(r)}
          = {item[q[i].slot] : i \in PlansOf(q)} \cup {item[slot]}
  BY <1>1, <1>2
<1>5. {item[r[i].slot] : i \in PlansOf(r)} = low .. high + 1
  BY <1>4 DEF InOrder
<1>6. \A i \in PlansOf(q) : item[q[i].slot] \in low .. high
  BY DEF InOrder
<1>7. ASSUME NEW i \in PlansOf(r), NEW j \in PlansOf(r), i < j
      PROVE  item[r[i].slot] < item[r[j].slot]
  <2>1. i \in PlansOf(q) /\ i \in 1 .. Len(q)
    BY <1>2, <1>3, <1>7
  <2>2. CASE j \in PlansOf(q)
    BY <1>2, <1>7, <2>1, <2>2 DEF InOrder
  <2>3. CASE j = Len(q) + 1
    BY <1>1, <1>2, <1>6, <2>1, <2>3
  <2> QED
    BY <1>2, <2>2, <2>3
<1> QED
  BY <1>5, <1>7 DEF InOrder, r, v

LEMMA ControlEntersInOrder ==
  ASSUME NEW q \in Seq(Values), NEW item, NEW low, NEW high, InOrder(q, item, low, high)
  PROVE  InOrder(Append(q, Control), item, low, high)
<1> DEFINE r == Append(q, Control)
<1> HIDE DEF Control
<1>1. Control \in Values
  BY RecordsAreValues
<1>2. PlansOf(r) = PlansOf(q) /\ \A i \in PlansOf(q) : r[i] = q[i]
  <2>1. /\ PlansOf(r)
               = PlansOf(q) \cup (IF Control = Control THEN {} ELSE {Len(q) + 1})
        /\ \A i \in PlansOf(q) : r[i] = q[i]
    BY <1>1, AppendedRecord
  <2> HIDE DEF r
  <2> QED
    BY <2>1
<1> HIDE DEF r
<1>3. {item[r[i].slot] : i \in PlansOf(r)} = {item[q[i].slot] : i \in PlansOf(q)}
  BY <1>2
<1>4. InOrder(r, item, low, high)
  BY <1>2, <1>3 DEF InOrder
<1> QED
  BY <1>4 DEF r

\* Taking one record out: the others keep their order.
LEMMA RemovedRecord ==
  ASSUME NEW q \in Seq(Values), NEW n \in 1 .. Len(q)
  PROVE  LET r == Without(q, n)
             From(i) == IF i < n THEN i ELSE i + 1
             To(i) == IF i < n THEN i ELSE i - 1
         IN  /\ \A i \in PlansOf(r) : From(i) \in PlansOf(q) \ {n} /\ r[i] = q[From(i)]
             /\ \A i \in PlansOf(q) \ {n} : To(i) \in PlansOf(r) /\ r[To(i)] = q[i]
             /\ \A i \in ControlsOf(r) : From(i) \in ControlsOf(q) \ {n}
             /\ \A i \in ControlsOf(q) \ {n} : To(i) \in ControlsOf(r)
<1> DEFINE r == Without(q, n)
           From(i) == IF i < n THEN i ELSE i + 1
           To(i) == IF i < n THEN i ELSE i - 1
<1>1. /\ Len(q) \in Nat /\ DOMAIN q = 1 .. Len(q) /\ DOMAIN r = 1 .. Len(q) - 1
      /\ \A i \in 1 .. Len(q) - 1 : r[i] = q[From(i)]
  BY LenProperties, WithoutElements
<1> HIDE DEF r
<1>2. \A i \in 1 .. Len(q) - 1 : From(i) \in 1 .. Len(q) /\ From(i) # n
  BY <1>1
<1>3. \A i \in 1 .. Len(q) : i # n => To(i) \in 1 .. Len(q) - 1 /\ From(To(i)) = i
  BY <1>1
<1> HIDE DEF From, To
<1>4. \A i \in 1 .. Len(q) : i # n => r[To(i)] = q[i]
  BY <1>1, <1>3
<1> HIDE DEF Control
<1>5. \A i \in PlansOf(r) : From(i) \in PlansOf(q) \ {n} /\ r[i] = q[From(i)]
  BY <1>1, <1>2 DEF PlansOf
<1>6. \A i \in PlansOf(q) \ {n} : To(i) \in PlansOf(r) /\ r[To(i)] = q[i]
  BY <1>1, <1>3, <1>4 DEF PlansOf
<1>7. \A i \in ControlsOf(r) : From(i) \in ControlsOf(q) \ {n}
  BY <1>1, <1>2 DEF ControlsOf
<1>8. \A i \in ControlsOf(q) \ {n} : To(i) \in ControlsOf(r)
  BY <1>1, <1>3, <1>4 DEF ControlsOf
<1> QED
  BY <1>5, <1>6, <1>7, <1>8 DEF r, From, To

LEMMA RemovedKeepsOrder ==
  ASSUME NEW q \in Seq(Values), NEW n \in 1 .. Len(q), NEW item,
         \A i, j \in PlansOf(q) : i < j => item[q[i].slot] < item[q[j].slot]
  PROVE  \A i, j \in PlansOf(Without(q, n)) :
             i < j => item[Without(q, n)[i].slot] < item[Without(q, n)[j].slot]
<1> DEFINE r == Without(q, n)
           From(i) == IF i < n THEN i ELSE i + 1
<1>1. \A i \in PlansOf(r) : From(i) \in PlansOf(q) /\ r[i] = q[From(i)]
  BY RemovedRecord
<1>2. PlansOf(r) \subseteq Int
  BY WithoutElements, LenProperties DEF PlansOf
<1>3. \A i, j \in Int : i < j => From(i) < From(j)
  OBVIOUS
<1> HIDE DEF r, From
<1>4. \A i, j \in PlansOf(r) : i < j => item[r[i].slot] < item[r[j].slot]
  BY <1>1, <1>2, <1>3
<1> QED
  BY <1>4 DEF r

LEMMA ControlLeavesInOrder ==
  ASSUME NEW q \in Seq(Values), NEW n \in 1 .. Len(q), NEW item, NEW low, NEW high,
         q[n] = Control, InOrder(q, item, low, high)
  PROVE  InOrder(Without(q, n), item, low, high)
<1> DEFINE r == Without(q, n)
           From(i) == IF i < n THEN i ELSE i + 1
           To(i) == IF i < n THEN i ELSE i - 1
<1>1. n \notin PlansOf(q)
  BY RecordKinds, RecordsAreValues DEF PlansOf
<1>2. /\ \A i \in PlansOf(r) : From(i) \in PlansOf(q) /\ r[i] = q[From(i)]
      /\ \A i \in PlansOf(q) : To(i) \in PlansOf(r) /\ r[To(i)] = q[i]
  BY <1>1, RemovedRecord
<1>3. \A i, j \in PlansOf(r) : i < j => item[r[i].slot] < item[r[j].slot]
  BY RemovedKeepsOrder DEF InOrder
<1> HIDE DEF r, From, To
<1>4. {item[r[i].slot] : i \in PlansOf(r)} = {item[q[i].slot] : i \in PlansOf(q)}
  BY <1>2
<1> QED
  BY <1>3, <1>4 DEF InOrder, r

\* The oldest record is the oldest item.
LEMMA PlanLeavesInOrder ==
  ASSUME NEW q \in Seq(Values), q # <<>>, NEW item \in [PlanSlots -> Nat],
         NEW low \in Int, NEW high \in Int,
         q[1] # Control, InOrder(q, item, low, high)
  PROVE  /\ item[q[1].slot] = low /\ low <= high
         /\ InOrder(Without(q, 1), item, low + 1, high)
<1> DEFINE r == Without(q, 1)
<1>1. Len(q) \in Nat \ {0} /\ DOMAIN q = 1 .. Len(q) /\ q[1] \in Values
  BY LenProperties, EmptySeq
<1>2. 1 \in PlansOf(q) /\ PlansOf(q) \subseteq 1 .. Len(q)
  BY <1>1, RecordKinds DEF PlansOf
<1>3. item[q[1].slot] \in low .. high
  BY <1>2 DEF InOrder
<1>4. \A i \in PlansOf(q) : i # 1 => item[q[1].slot] < item[q[i].slot]
  BY <1>1, <1>2 DEF InOrder
<1>5. item[q[1].slot] = low
  <2>1. low \in low .. high
    BY <1>3
  <2>2. PICK i \in PlansOf(q) : item[q[i].slot] = low
    BY <2>1 DEF InOrder
  <2> QED
    BY <1>3, <1>4, <2>2
<1>6. /\ \A i \in PlansOf(r) : i + 1 \in PlansOf(q) \ {1} /\ r[i] = q[i + 1]
      /\ \A i \in PlansOf(q) \ {1} : i - 1 \in PlansOf(r) /\ r[i - 1] = q[i]
  <2>1. PlansOf(r) \subseteq 1 .. Len(q) - 1
    BY <1>1, WithoutElements DEF PlansOf
  <2>2. 1 \in 1 .. Len(q)
    BY <1>1
  <2> HIDE DEF r
  <2> QED
    BY <1>1, <1>2, <2>1, <2>2, RemovedRecord DEF r
<1>7. \A i, j \in PlansOf(r) : i < j => item[r[i].slot] < item[r[j].slot]
  BY <1>1, RemovedKeepsOrder DEF InOrder
<1> HIDE DEF r
<1>8. {item[r[i].slot] : i \in PlansOf(r)}
          = {item[q[i].slot] : i \in PlansOf(q)} \ {low}
  <2>1. \A i \in PlansOf(q) : i # 1 => item[q[i].slot] # low
    BY <1>3, <1>4, <1>5 DEF InOrder
  <2> QED
    BY <1>5, <1>6, <2>1
<1>9. {item[r[i].slot] : i \in PlansOf(r)} = low + 1 .. high
  <2>1. {item[r[i].slot] : i \in PlansOf(r)} = (low .. high) \ {low}
    BY <1>8 DEF InOrder
  <2>2. (low .. high) \ {low} = low + 1 .. high
    OBVIOUS
  <2> QED
    BY <2>1, <2>2
<1> QED
  BY <1>3, <1>5, <1>7, <1>9 DEF InOrder, r

\* How many controls a queue has ...
LEMMA ControlsAreFinite ==
  ASSUME NEW q \in Seq(Values)
  PROVE  /\ IsFiniteSet(ControlsOf(q)) /\ Cardinality(ControlsOf(q)) \in Nat
         /\ ControlsOf(q) \subseteq 1 .. Len(q)
<1>1. ControlsOf(q) \subseteq 1 .. Len(q) /\ Len(q) \in Int
  BY LenProperties DEF ControlsOf
<1>2. IsFiniteSet(1 .. Len(q))
  BY <1>1, FS_Interval
<1>3. IsFiniteSet(ControlsOf(q))
  BY <1>1, <1>2, FS_Subset
<1> QED
  BY <1>1, <1>3, FS_CardinalityType

LEMMA AppendedControls ==
  ASSUME NEW q \in Seq(Values), NEW v \in Values
  PROVE  Cardinality(ControlsOf(Append(q, v)))
             = Cardinality(ControlsOf(q)) + (IF v = Control THEN 1 ELSE 0)
<1> HIDE DEF Control
<1>1. /\ IsFiniteSet(ControlsOf(q)) /\ ControlsOf(q) \subseteq 1 .. Len(q)
      /\ Cardinality(ControlsOf(q)) \in Nat /\ Len(q) \in Nat
  BY ControlsAreFinite, LenProperties
<1>2. Len(q) + 1 \notin ControlsOf(q)
  BY <1>1
<1>3. ControlsOf(Append(q, v))
          = ControlsOf(q) \cup (IF v = Control THEN {Len(q) + 1} ELSE {})
  BY AppendedRecord
<1>4. CASE v = Control
  <2>1. Cardinality(ControlsOf(q) \cup {Len(q) + 1}) = Cardinality(ControlsOf(q)) + 1
    BY <1>1, <1>2, FS_AddElement
  <2> QED
    BY <1>3, <1>4, <2>1
<1>5. CASE v # Control
  BY <1>1, <1>3, <1>5
<1> QED
  BY <1>4, <1>5

LEMMA RemovedControls ==
  ASSUME NEW q \in Seq(Values), NEW n \in 1 .. Len(q)
  PROVE  Cardinality(ControlsOf(Without(q, n)))
             = Cardinality(ControlsOf(q)) - (IF q[n] = Control THEN 1 ELSE 0)
<1> HIDE DEF Control
<1> DEFINE r == Without(q, n)
           From(i) == IF i < n THEN i ELSE i + 1
           To(i) == IF i < n THEN i ELSE i - 1
           rest == ControlsOf(q) \ {n}
           from == [i \in ControlsOf(r) |-> From(i)]
<1>1. /\ IsFiniteSet(ControlsOf(q)) /\ ControlsOf(q) \subseteq 1 .. Len(q)
      /\ Cardinality(ControlsOf(q)) \in Nat /\ Len(q) \in Nat
  BY ControlsAreFinite, LenProperties
<1>2. n \in ControlsOf(q) <=> q[n] = Control
  BY LenProperties DEF ControlsOf
<1>3. /\ IsFiniteSet(rest)
      /\ Cardinality(rest) = Cardinality(ControlsOf(q)) - (IF q[n] = Control THEN 1 ELSE 0)
  BY <1>1, <1>2, FS_RemoveElement
<1>4. /\ \A i \in ControlsOf(r) : From(i) \in rest
      /\ \A i \in rest : To(i) \in ControlsOf(r)
  BY RemovedRecord
<1>5. r \in Seq(Values)
  BY WithoutElements
<1>6. IsFiniteSet(ControlsOf(r)) /\ ControlsOf(r) \subseteq Int
  <2>1. IsFiniteSet(ControlsOf(r)) /\ ControlsOf(r) \subseteq 1 .. Len(r) /\ Len(r) \in Int
    BY <1>5, ControlsAreFinite, LenProperties
  <2> QED
    BY <2>1
<1> HIDE DEF r
<1>7. \A i \in rest : From(To(i)) = i
  BY <1>1
<1>8. \A i, j \in ControlsOf(r) : From(i) = From(j) => i = j
  BY <1>6
<1> HIDE DEF From, To, rest
<1>9. from \in Bijection(ControlsOf(r), rest)
  <2>1. from \in [ControlsOf(r) -> rest]
    BY <1>4
  <2>2. \A i \in rest : \E j \in ControlsOf(r) : from[j] = i
    BY <1>4, <1>7
  <2>3. \A i, j \in ControlsOf(r) : from[i] = from[j] => i = j
    BY <1>8
  <2> HIDE DEF from
  <2> QED
    BY <2>1, <2>2, <2>3 DEF Bijection, Injection, Surjection, IsInjective
<1>10. Cardinality(rest) = Cardinality(ControlsOf(r))
  <2>1. ExistsBijection(ControlsOf(r), rest)
    BY <1>9 DEF ExistsBijection
  <2> QED
    BY <1>6, <2>1, FS_Bijection
<1> QED
  BY <1>3, <1>10 DEF r

\* ... and which slots it holds.
LEMMA AppendedHolds ==
  ASSUME NEW q \in Seq(Values), NEW v \in Values
  PROVE  QueueHolds(Append(q, v))
             = QueueHolds(q) \cup (IF v = Control THEN {} ELSE {v.slot})
<1> HIDE DEF Control
<1> DEFINE r == Append(q, v)
<1>1. /\ PlansOf(r) = PlansOf(q) \cup (IF v = Control THEN {} ELSE {Len(q) + 1})
      /\ \A i \in PlansOf(q) : r[i] = q[i]
      /\ r[Len(q) + 1] = v
  BY AppendedRecord
<1> HIDE DEF r
<1>2. QueueHolds(r) = QueueHolds(q) \cup (IF v = Control THEN {} ELSE {v.slot})
  BY <1>1 DEF QueueHolds
<1> QED
  BY <1>2 DEF r

LEMMA ControlLeavesHolds ==
  ASSUME NEW q \in Seq(Values), NEW n \in 1 .. Len(q), q[n] = Control
  PROVE  QueueHolds(Without(q, n)) = QueueHolds(q)
<1> DEFINE r == Without(q, n)
           From(i) == IF i < n THEN i ELSE i + 1
           To(i) == IF i < n THEN i ELSE i - 1
<1>1. n \notin PlansOf(q)
  BY RecordKinds, RecordsAreValues DEF PlansOf
<1>2. /\ \A i \in PlansOf(r) : From(i) \in PlansOf(q) /\ r[i] = q[From(i)]
      /\ \A i \in PlansOf(q) : To(i) \in PlansOf(r) /\ r[To(i)] = q[i]
  BY <1>1, RemovedRecord
<1> HIDE DEF r, From, To
<1>3. QueueHolds(r) = QueueHolds(q)
  BY <1>2 DEF QueueHolds
<1> QED
  BY <1>3 DEF r

LEMMA PlanLeavesHolds ==
  ASSUME NEW q \in Seq(Values), q # <<>>, q[1] # Control,
         NEW item, NEW low, NEW high, low \in Int, high \in Int, InOrder(q, item, low, high)
  PROVE  /\ q[1].slot \in QueueHolds(q)
         /\ QueueHolds(Without(q, 1)) = QueueHolds(q) \ {q[1].slot}
<1> DEFINE r == Without(q, 1)
           From(i) == IF i < 1 THEN i ELSE i + 1
           To(i) == IF i < 1 THEN i ELSE i - 1
<1>1. Len(q) \in Nat \ {0} /\ DOMAIN q = 1 .. Len(q) /\ q[1] \in Values
  BY LenProperties, EmptySeq
<1>2. 1 \in PlansOf(q) /\ PlansOf(q) \subseteq 1 .. Len(q) /\ 1 \in 1 .. Len(q)
  BY <1>1, RecordKinds DEF PlansOf
<1>3. /\ \A i \in PlansOf(r) : From(i) \in PlansOf(q) \ {1} /\ r[i] = q[From(i)]
      /\ \A i \in PlansOf(q) \ {1} : To(i) \in PlansOf(r) /\ r[To(i)] = q[i]
  BY <1>2, RemovedRecord
<1>4. ASSUME NEW i \in PlansOf(q), i # 1
      PROVE  q[i].slot # q[1].slot
  <2>1. item[q[1].slot] < item[q[i].slot]
    BY <1>1, <1>2, <1>4 DEF InOrder
  <2>2. item[q[1].slot] \in Int
    BY <1>2 DEF InOrder
  <2> QED
    BY <2>1, <2>2
<1> HIDE DEF r, From, To
<1>5. QueueHolds(r) = QueueHolds(q) \ {q[1].slot}
  BY <1>2, <1>3, <1>4 DEF QueueHolds
<1> QED
  BY <1>2, <1>5 DEF r, QueueHolds

-----------------------------------------------------------------------------
(* Which thread is where.                                                  *)

\* The servo thread leaves the host's ends of the channels alone, and the host the servo's.
LEMMA ServoLeavesHost ==
  ASSUME ServoTick \/ LatchEmergencyStop
  PROVE  UNCHANGED <<host, producer, publisher, published, items, preceding>>
<1> USE DEF vars, mailboxVars, history
<1>1. CASE DemandNotThere \/ DemandTaken
  BY <1>1 DEF DemandNotThere, DemandTaken, ConsumeFindsNothing, ConsumeFindsDirty,
              ConsumeExchanges, ConsumeCopies
<1>2. CASE IngressEmpty \/ IngressPops \/ DiscardEnds
  BY <1>2 DEF IngressEmpty, IngressPops, DiscardEnds, PopRefused, PopChecksData,
              PopReadsSlot, PopReleases
<1>3. CASE RecordIsPlan \/ RecordIsControl \/ ItemDequeued \/ ItemAccounted \/ ItemBegins
           \/ ItemDropped \/ ItemEnds \/ SlotReleased \/ TickEnds
  BY <1>3 DEF RecordIsPlan, RecordIsControl, ItemDequeued, ItemAccounted, ItemBegins,
              ItemDropped, ItemEnds, SlotReleased, TickEnds
<1>4. CASE IngressDiscarded \/ RecordDiscarded \/ DiscardAccounted \/ DiscardReleased
  BY <1>4 DEF IngressDiscarded, RecordDiscarded, DiscardAccounted, DiscardReleased
<1> QED
  BY <1>1, <1>2, <1>3, <1>4 DEF ServoTick, LatchEmergencyStop

LEMMA HostLeavesServo ==
  ASSUME TryPublish \/ TrySubmit \/ TryPush \/ PublishDemand
  PROVE  UNCHANGED <<servo, consumer, received, poller, value, m_plans, m_active>>
<1> USE DEF vars, mailboxVars, core
<1>1. CASE TryPublish \/ TrySubmit
  BY <1>1 DEF TryPublish, PublishBegins, PublishSkipsSlot, PublishTakesSlot,
              PublishFillsSlot, PublishCountsItem, PublishUncountsMotion,
              PublishUncountsItem, PublishFreesSlot, TrySubmit, SubmitTakesCredit,
              SubmitReturnsCredit
<1>2. CASE TryPush
  BY <1>2 DEF TryPush, IngressChecksSpace, IngressRefuses, IngressWritesSlot,
              IngressPublishes, PushChecksSpace, PushRefused, PushWritesSlot, PushPublishes
<1>3. CASE PublishDemand
  BY <1>3 DEF PublishDemand, DemandWritten, DemandPublished, PublishWritesBack,
              PublishExchanges
<1> QED
  BY <1>1, <1>2, <1>3

LEMMA NextHostInStep ==
  ASSUME ChannelInvariant, MailboxInvariant, IngressTypeOK, HostInStep,
         [IngressNext]_ingressVars
  PROVE  HostInStep'
<1> USE DEF HostInStep, Calls, vars, mailboxVars
<1>1. host \in HostType /\ Idle.at = "idle"
  BY DEF IngressTypeOK, HostType, Idle
<1>2. CASE UNCHANGED <<host, producer, publisher>>
  BY <1>2 DEF PublishedPlan
<1>3. CASE TryPublish
  BY <1>1, <1>3 DEF HostType, TryPublish, PublishBegins, PublishSkipsSlot, PublishTakesSlot,
              PublishFillsSlot, PublishCountsItem, PublishUncountsMotion,
              PublishUncountsItem, PublishFreesSlot
<1>4. CASE TrySubmit
  BY <1>1, <1>4 DEF HostType, TrySubmit, SubmitTakesCredit, SubmitReturnsCredit
<1>5. CASE IngressChecksSpace
  <2>1. publisher' = publisher /\ host'.slot = host.slot /\ producer'.at = "write"
    BY <1>1, <1>5 DEF HostType, IngressChecksSpace, PushChecksSpace
  <2>2. CASE host.at = "push"
    BY <1>1, <1>5, <2>1, <2>2 DEF HostType, IngressChecksSpace, PushChecksSpace
  <2>3. CASE host.at = "submit"
    BY <1>1, <1>5, <2>1, <2>3 DEF HostType, IngressChecksSpace, PushChecksSpace
  <2> QED
    BY <1>5, <2>2, <2>3 DEF IngressChecksSpace
<1>6. CASE IngressRefuses
  BY <1>1, <1>6 DEF HostType, IngressRefuses, PushRefused
<1>7. CASE IngressWritesSlot
  <2>1. /\ host' = host /\ publisher' = publisher /\ producer.at = "write"
        /\ producer' = [producer EXCEPT !.at = "publish"]
    BY <1>7 DEF IngressWritesSlot, PushWritesSlot
  <2>2. producer'.at = "publish" /\ producer'.value = producer.value
    BY <2>1 DEF ChannelInvariant, TypeOK
  <2> QED
    BY <2>1, <2>2 DEF PublishedPlan
<1>8. CASE IngressPublishes
  <2>1. /\ host' = Idle /\ publisher' = publisher /\ producer.at = "publish"
        /\ producer' = [producer EXCEPT !.at = "idle"]
    BY <1>8 DEF IngressPublishes, PushPublishes
  <2>2. producer'.at = "idle"
    BY <2>1 DEF ChannelInvariant, TypeOK
  <2> QED
    BY <1>1, <2>1, <2>2
<1>9. CASE PublishDemand
  BY <1>1, <1>9 DEF HostType, PublishDemand, DemandWritten, DemandPublished, PublishWritesBack,
              PublishExchanges
<1>10. CASE ServoTick \/ LatchEmergencyStop
  BY <1>2, <1>10, ServoLeavesHost
<1> QED
  BY <1>2, <1>3, <1>4, <1>5, <1>6, <1>7, <1>8, <1>9, <1>10
     DEF IngressNext, TryPush, ingressVars

LEMMA NextServoInStep ==
  ASSUME ChannelInvariant, MailboxInvariant, IngressTypeOK, ServoInStep,
         [IngressNext]_ingressVars
  PROVE  ServoInStep'
<1> USE DEF ServoInStep, Ticks, vars, mailboxVars, core
<1>1. servo \in ServoType /\ Executing.at = "execution"
  BY DEF IngressTypeOK, ServoType, Executing
<1>2. CASE UNCHANGED <<servo, consumer, poller, m_plans, m_active>>
  BY <1>2
<1>3. CASE TryPublish \/ TrySubmit \/ TryPush \/ PublishDemand
  BY <1>2, <1>3, HostLeavesServo
<1>4. CASE DemandNotThere \/ DemandTaken
  BY <1>1, <1>4
     DEF ServoType, DemandNotThere, DemandTaken, ConsumeFindsNothing, ConsumeFindsDirty,
         ConsumeExchanges, ConsumeCopies, PartAfter
<1>5. CASE IngressEmpty \/ DiscardEnds
  BY <1>1, <1>5 DEF ServoType, IngressEmpty, DiscardEnds, PopRefused, PartAfter
<1>6. CASE IngressPops
  <2>1. UNCHANGED <<poller, m_plans, m_active>> /\ servo.at \in {"ingress", "discard"}
    BY <1>6 DEF IngressPops
  <2>2. CASE PopChecksData \/ PopReadsSlot
    BY <1>6, <2>1, <2>2 DEF IngressPops, PopChecksData, PopReadsSlot, PopReleases
  <2>3. CASE PopReleases
    <3>1. consumer'.at = "idle"
      BY <2>3 DEF PopReleases, ChannelInvariant, TypeOK
    <3>2. /\ servo.at = "ingress" => servo'.at \in {"ingress", "record"}
          /\ servo.at = "discard" => servo'.at \in {"discard", "discardRecord"}
      BY <1>1, <1>6 DEF ServoType, IngressPops
    <3> QED
      BY <2>1, <3>1, <3>2
  <2> QED
    BY <1>6, <2>2, <2>3 DEF IngressPops
<1>7. CASE RecordIsPlan \/ RecordIsControl \/ ItemAccounted \/ ItemDropped \/ TickEnds
  BY <1>1, <1>7 DEF ServoType, RecordIsPlan, RecordIsControl, ItemAccounted, ItemDropped,
                    TickEnds, PartAfter
<1>8. CASE ItemDequeued \/ ItemBegins \/ ItemEnds \/ SlotReleased
  BY <1>1, <1>8 DEF ServoType, ItemDequeued, ItemBegins, ItemEnds, SlotReleased
<1>9. CASE IngressDiscarded \/ RecordDiscarded \/ DiscardAccounted \/ DiscardReleased
  BY <1>1, <1>9
     DEF ServoType, IngressDiscarded, RecordDiscarded, DiscardAccounted, DiscardReleased
<1> QED
  BY <1>2, <1>3, <1>4, <1>5, <1>6, <1>7, <1>8, <1>9
     DEF IngressNext, ServoTick, LatchEmergencyStop, ingressVars

-----------------------------------------------------------------------------
(* What the steps do to the queue.                                         *)

Taken == [i \in DOMAIN m_plans |-> PublishedPlan(m_plans[i])]

LEMMA QueueIsOfRecords ==
  ASSUME IngressTypeOK, RecordsInStep
  PROVE  /\ Taken \in Seq(Values) /\ Len(Taken) = Len(m_plans)
         /\ InHand \in Seq(Values) /\ Contents \in Seq(Values)
         /\ Queue = Taken \o InHand \o Contents /\ Queue \in Seq(Values)
<1>1. Len(m_plans) \in Nat /\ DOMAIN m_plans = 1 .. Len(m_plans)
      /\ \A i \in 1 .. Len(m_plans) : m_plans[i] \in PlanSlots
  BY LenProperties DEF IngressTypeOK
<1>2. \A i \in 1 .. Len(m_plans) : PublishedPlan(m_plans[i]) \in Values
  BY <1>1, RecordsAreValues
<1>3. Taken \in Seq(Values) /\ Len(Taken) = Len(m_plans)
  BY <1>1, <1>2, IsASeq DEF Taken
<1>4. InHand \in Seq(Values) /\ Contents \in Seq(Values)
  BY DEF InHand, RecordsInStep
<1>5. Queue = Taken \o InHand \o Contents
  BY DEF Queue, Taken
<1> QED
  BY <1>3, <1>4, <1>5, ThreeParts

LEMMA QueueUnmoved ==
  ASSUME UNCHANGED <<m_plans, received>>, Contents' = Contents,
         servo'.at \in {"record", "discardRecord"} <=> servo.at \in {"record", "discardRecord"}
  PROVE  Queue' = Queue
  BY DEF Queue, InHand, PublishedPlan

\* The calls of the host thread leave the queue alone until the push publishes.
LEMMA HostLeavesQueue ==
  ASSUME ChannelInvariant, IngressTypeOK,
         TryPublish \/ TrySubmit \/ PublishDemand
            \/ IngressChecksSpace \/ IngressRefuses \/ IngressWritesSlot
  PROVE  Queue' = Queue
<1>1. UNCHANGED <<servo, m_plans>>
  BY HostLeavesServo DEF TryPush
<1>2. CASE TryPublish \/ TrySubmit \/ PublishDemand
  <2>1. UNCHANGED vars
    BY <1>2 DEF TryPublish, PublishBegins, PublishSkipsSlot, PublishTakesSlot,
                PublishFillsSlot, PublishCountsItem, PublishUncountsMotion,
                PublishUncountsItem, PublishFreesSlot, TrySubmit, SubmitTakesCredit,
                SubmitReturnsCredit, PublishDemand, DemandWritten, DemandPublished
  <2> QED
    BY <1>1, <2>1, RingIsQuiet, QueueUnmoved
<1>3. CASE IngressChecksSpace
  <2>1. \E v \in Values : PushChecksSpace(v)
    BY <1>3, RecordsAreValues DEF IngressChecksSpace, IngressTypeOK
  <2> QED
    BY <1>1, <2>1, RingIsQuiet, QueueUnmoved
<1>4. CASE IngressRefuses \/ IngressWritesSlot
  BY <1>1, <1>4, RingIsQuiet, QueueUnmoved DEF IngressRefuses, IngressWritesSlot
<1> QED
  BY <1>2, <1>3, <1>4

LEMMA PublicationEntersQueue ==
  ASSUME ChannelInvariant, IngressTypeOK, RecordsInStep, IngressPublishes
  PROVE  /\ producer.value \in Values
         /\ Queue' = Append(Queue, producer.value)
         /\ Contents' \in Seq(Values)
<1>1. UNCHANGED <<servo, m_plans, received>> /\ PushPublishes
  BY HostLeavesServo DEF TryPush, IngressPublishes
<1>2. producer.value \in Values /\ Contents' = Append(Contents, producer.value)
  BY <1>1, RingGrows
<1>3. /\ Taken \in Seq(Values) /\ InHand \in Seq(Values) /\ Contents \in Seq(Values)
      /\ Queue = Taken \o InHand \o Contents
  BY QueueIsOfRecords
<1>4. Queue' = Taken \o InHand \o Contents'
  BY <1>1 DEF Queue, Taken, InHand, PublishedPlan
<1>5. Taken \o InHand \o Append(Contents, producer.value)
          = Append(Taken \o InHand \o Contents, producer.value)
  BY <1>2, <1>3, QueueTakesRecord
<1>6. Append(Contents, producer.value) \in Seq(Values)
  BY <1>2, <1>3, AppendProperties
<1> QED
  BY <1>2, <1>3, <1>4, <1>5, <1>6

\* So do the steps of the servo thread that only look, or that pass a record on.
LEMMA PopLeavesQueue ==
  ASSUME ChannelInvariant, IngressTypeOK, RecordsInStep, IngressPops
  PROVE  /\ Queue' = Queue /\ Contents' \in Seq(Values)
         /\ servo'.at \in {"record", "discardRecord"} => received' \in Values
<1>1. /\ UNCHANGED m_plans /\ servo.at \in {"ingress", "discard"}
      /\ Contents \in Seq(Values)
  BY DEF IngressPops, core, RecordsInStep
<1>2. CASE (PopChecksData \/ PopReadsSlot) /\ UNCHANGED servo
  <2>1. Contents' = Contents /\ received' = received
    BY <1>2, RingIsQuiet
  <2> QED
    BY <1>1, <1>2, <2>1, QueueUnmoved
<1>3. CASE PopReleases /\ servo' = [servo EXCEPT !.at = IF servo.at = "ingress"
                                      THEN "record" ELSE "discardRecord"]
  <2>1. Contents # <<>> /\ received' = Head(Contents) /\ Contents' = Tail(Contents)
    BY <1>3, RingShrinks
  <2>2. Head(Contents) \in Values /\ Tail(Contents) \in Seq(Values)
    BY <1>1, <2>1, HeadTailProperties
  <2>3. servo'.at \in {"record", "discardRecord"}
    BY <1>3 DEF IngressTypeOK
  <2>4. Taken \in Seq(Values) /\ Queue = Taken \o <<>> \o Contents
    BY <1>1, QueueIsOfRecords DEF InHand
  <2>5. Queue' = Taken \o <<Head(Contents)>> \o Tail(Contents)
    BY <1>1, <2>1, <2>3 DEF Queue, Taken, InHand, PublishedPlan
  <2>6. Queue' = Queue
    BY <1>1, <2>1, <2>4, <2>5, QueueHandsOver
  <2> QED
    BY <2>1, <2>2, <2>6
<1> QED
  BY <1>2, <1>3 DEF IngressPops

LEMMA PlanLeavesQueue ==
  ASSUME ChannelInvariant, IngressTypeOK, RecordsInStep, RecordIsPlan
  PROVE  Queue' = Queue /\ Contents' = Contents
<1>1. /\ m_plans' = Append(m_plans, received.slot) /\ UNCHANGED vars
      /\ servo.at = "record" /\ servo'.at = "ingress" /\ received.kind = "PublishedPlan"
  BY DEF RecordIsPlan, Ticks, IngressTypeOK
<1>2. received \in Values
  BY <1>1 DEF RecordsInStep
<1>3. received.slot \in PlanSlots /\ received = PublishedPlan(received.slot)
  BY <1>1, <1>2, RecordOfSlot
<1>4. /\ Taken \in Seq(Values) /\ Contents \in Seq(Values)
      /\ Queue = Taken \o <<received>> \o Contents
  BY <1>1, QueueIsOfRecords DEF InHand
<1>5. Contents' = Contents
  BY <1>1, RingIsQuiet
<1>6. Taken' = Append(Taken, received)
  <2>1. /\ m_plans \in Seq(PlanSlots) /\ Len(m_plans) \in Nat
        /\ DOMAIN m_plans = 1 .. Len(m_plans)
    BY LenProperties DEF IngressTypeOK
  <2>2. /\ m_plans' \in Seq(PlanSlots) /\ DOMAIN m_plans' = 1 .. Len(m_plans) + 1
        /\ m_plans'[Len(m_plans) + 1] = received.slot
        /\ \A i \in 1 .. Len(m_plans) : m_plans'[i] = m_plans[i]
    BY <1>1, <1>3, <2>1, AppendProperties, LenProperties
  <2>3. Taken' = [i \in 1 .. Len(m_plans) + 1 |-> PublishedPlan(m_plans'[i])]
    BY <2>2 DEF Taken, PublishedPlan
  <2>4. Taken = [i \in 1 .. Len(m_plans) |-> PublishedPlan(m_plans[i])]
    BY <2>1 DEF Taken
  <2>5. /\ Append(Taken, received) \in Seq(Values)
        /\ Len(Append(Taken, received)) = Len(m_plans) + 1
        /\ \A i \in 1 .. Len(m_plans) : Append(Taken, received)[i] = Taken[i]
        /\ Append(Taken, received)[Len(m_plans) + 1] = received
    BY <1>2, <1>4, QueueIsOfRecords, AppendProperties
  <2>6. \A i \in 1 .. Len(m_plans) + 1 :
            Append(Taken, received)[i] = PublishedPlan(m_plans'[i])
    <3>1. ASSUME NEW i \in 1 .. Len(m_plans)
          PROVE  Append(Taken, received)[i] = PublishedPlan(m_plans'[i])
      BY <2>2, <2>4, <2>5
    <3>2. Append(Taken, received)[Len(m_plans) + 1] = PublishedPlan(m_plans'[Len(m_plans) + 1])
      BY <1>3, <2>2, <2>5
    <3>3. \A i \in 1 .. Len(m_plans) + 1 : i \in 1 .. Len(m_plans) \/ i = Len(m_plans) + 1
      BY <2>1
    <3> QED
      BY <3>1, <3>2, <3>3
  <2>7. Append(Taken, received)
            = [i \in 1 .. Len(m_plans) + 1 |-> Append(Taken, received)[i]]
    BY <2>5, LenProperties
  <2> QED
    BY <2>3, <2>6, <2>7
<1>7. Queue' = Taken' \o <<>> \o Contents'
  BY <1>1 DEF Queue, Taken, InHand
<1> QED
  BY <1>2, <1>4, <1>5, <1>6, <1>7, QueueStoresPlan

LEMMA ServoLeavesQueue ==
  ASSUME ChannelInvariant, IngressTypeOK, RecordsInStep,
         DemandNotThere \/ DemandTaken \/ IngressEmpty \/ ItemAccounted \/ ItemBegins
            \/ ItemDropped \/ ItemEnds \/ SlotReleased \/ TickEnds \/ IngressDiscarded
            \/ DiscardAccounted \/ DiscardReleased \/ DiscardEnds
  PROVE  Queue' = Queue /\ Contents' = Contents
<1>1. /\ servo \in ServoType /\ Executing.at = "execution"
      /\ m_active # {} => (CHOOSE slot \in m_active : TRUE) \in PlanSlots
  BY DEF IngressTypeOK, ServoType, Executing
<1>2. UNCHANGED vars \/ PopRefused
  BY DEF DemandNotThere, DemandTaken, IngressEmpty, ItemAccounted, ItemBegins, ItemDropped,
         ItemEnds, SlotReleased, TickEnds, IngressDiscarded, DiscardAccounted,
         DiscardReleased, DiscardEnds
<1>3. UNCHANGED m_plans
  BY DEF core, DemandNotThere, DemandTaken, IngressEmpty, ItemAccounted, ItemBegins,
         ItemDropped, ItemEnds, SlotReleased, TickEnds, IngressDiscarded, DiscardAccounted,
         DiscardReleased, DiscardEnds
<1>4. /\ servo.at \notin {"record", "discardRecord"}
      /\ servo'.at \notin {"record", "discardRecord"}
  <2> USE <1>1 DEF ServoType, Ticks, PartAfter
  <2>1. CASE DemandNotThere \/ DemandTaken \/ IngressEmpty \/ ItemAccounted \/ ItemDropped
             \/ SlotReleased \/ TickEnds
    BY <2>1 DEF DemandNotThere, DemandTaken, IngressEmpty, ItemAccounted, ItemDropped,
                SlotReleased, TickEnds
  <2>2. CASE ItemBegins \/ ItemEnds
    BY <2>2 DEF ItemBegins, ItemEnds
  <2>3. CASE IngressDiscarded \/ DiscardAccounted \/ DiscardReleased \/ DiscardEnds
    BY <2>3 DEF IngressDiscarded, DiscardAccounted, DiscardReleased, DiscardEnds
  <2> QED
    BY <2>1, <2>2, <2>3
<1>5. Contents' = Contents /\ received' = received
  BY <1>2, RingIsQuiet
<1> QED
  BY <1>3, <1>4, <1>5, QueueUnmoved

\* A record leaves the queue when it has been acted upon: a control at its place ...
LEMMA ControlLeavesQueue ==
  ASSUME ChannelInvariant, IngressTypeOK, RecordsInStep, RecordIsControl
  PROVE  \E n \in 1 .. Len(Queue) :
             Queue[n] = Control /\ Queue' = Without(Queue, n) /\ Contents' = Contents
<1> HIDE DEF Control
<1>1. /\ UNCHANGED vars /\ UNCHANGED m_plans /\ received = Control
      /\ servo.at \in {"record", "discardRecord"}
      /\ servo'.at \notin {"record", "discardRecord"}
  BY DEF RecordIsControl, Ticks, core, IngressTypeOK
<1>2. Control \in Values
  BY RecordsAreValues
<1>3. /\ Taken \in Seq(Values) /\ Contents \in Seq(Values)
      /\ Queue = Taken \o <<Control>> \o Contents
  BY <1>1, QueueIsOfRecords DEF InHand
<1>4. Contents' = Contents
  BY <1>1, RingIsQuiet
<1>5. Queue' = Taken \o <<>> \o Contents
  BY <1>1, <1>4 DEF Queue, Taken, InHand, PublishedPlan
<1>6. Queue' = Without(Queue, Len(Taken) + 1)
  BY <1>2, <1>3, <1>5, QueueDropsRecord
<1>7. Len(Taken) + 1 \in 1 .. Len(Queue) /\ Queue[Len(Taken) + 1] = Control
  <2>1. /\ <<Control>> \in Seq(Values) /\ Len(<<Control>>) = 1 /\ <<Control>>[1] = Control
    BY <1>2
  <2>2. Len(Taken) \in Nat /\ Len(Contents) \in Nat
    BY <1>3, LenProperties
  <2>3. /\ Len(Queue) = Len(Taken) + 1 + Len(Contents)
        /\ \A i \in 1 .. Len(Taken) + 1 + Len(Contents) :
               Queue[i] = IF i <= Len(Taken) THEN Taken[i]
                          ELSE IF i <= Len(Taken) + 1 THEN <<Control>>[i - Len(Taken)]
                          ELSE Contents[i - Len(Taken) - 1]
    BY <1>3, <2>1, ThreeParts
  <2>4. Queue[Len(Taken) + 1] = <<Control>>[Len(Taken) + 1 - Len(Taken)]
    BY <2>2, <2>3
  <2>5. Len(Taken) + 1 - Len(Taken) = 1
    BY <2>2
  <2> QED
    BY <2>1, <2>2, <2>3, <2>4, <2>5
<1> QED
  BY <1>4, <1>6, <1>7

\* ... and an item first of all.
LEMMA ItemLeavesQueue ==
  ASSUME ChannelInvariant, IngressTypeOK, ServoInStep, RecordsInStep,
         ItemDequeued \/ RecordDiscarded
  PROVE  /\ Queue # <<>> /\ Queue[1] \in Values /\ Queue[1] # Control
         /\ servo'.slot = Queue[1].slot
         /\ Queue' = Without(Queue, 1) /\ Contents' = Contents
<1>1. Contents \in Seq(Values) /\ Queue \in Seq(Values)
      /\ Queue = Taken \o InHand \o Contents /\ Taken \in Seq(Values)
      /\ Len(Taken) = Len(m_plans)
  BY QueueIsOfRecords
<1>2. UNCHANGED vars
  BY DEF ItemDequeued, RecordDiscarded
<1>3. Contents' = Contents
  BY <1>2, RingIsQuiet
<1>4. CASE ItemDequeued
  <2>1. /\ m_plans \in Seq(PlanSlots) /\ m_plans # <<>> /\ m_plans' = Tail(m_plans)
        /\ servo'.slot = Head(m_plans) /\ servo.at = "execution" /\ servo'.at = "account"
    BY <1>4 DEF ItemDequeued, IngressTypeOK
  <2>2. InHand = <<>> /\ InHand' = <<>>
    BY <2>1 DEF InHand
  <2>3. Len(m_plans) \in Nat \ {0} /\ DOMAIN m_plans = 1 .. Len(m_plans)
    BY <2>1, EmptySeq, LenProperties
  <2>4. Taken # <<>>
    BY <1>1, <2>3
  <2>5. Taken' = Tail(Taken)
    <3>1. /\ Tail(m_plans) \in Seq(PlanSlots) /\ Len(Tail(m_plans)) = Len(m_plans) - 1
          /\ \A i \in 1 .. Len(m_plans) - 1 : Tail(m_plans)[i] = m_plans[i + 1]
          /\ DOMAIN Tail(m_plans) = 1 .. Len(m_plans) - 1
      BY <2>1, HeadTailProperties, LenProperties
    <3>2. Taken' = [i \in 1 .. Len(m_plans) - 1 |-> PublishedPlan(m_plans[i + 1])]
      BY <2>1, <3>1 DEF Taken, PublishedPlan
    <3>3. Tail(Taken) = [i \in 1 .. Len(m_plans) - 1 |-> Taken[i + 1]]
      BY <1>1, <2>4, TailShifts
    <3>4. \A i \in 1 .. Len(m_plans) - 1 : Taken[i + 1] = PublishedPlan(m_plans[i + 1])
      BY <2>3 DEF Taken
    <3> QED
      BY <3>2, <3>3, <3>4
  <2>6. Queue' = Tail(Taken) \o <<>> \o Contents
    BY <1>3, <2>2, <2>5 DEF Queue, Taken
  <2>7. Queue' = Without(Queue, 1)
    BY <1>1, <2>2, <2>4, <2>6, QueueDequeues
  <2>8. Queue = Taken \o Contents
    BY <1>1, <2>2, ConcatEmptySeq
  <2>9. Queue # <<>> /\ Queue[1] = Taken[1]
    BY <1>1, <2>3, <2>8, ConcatProperties, LenProperties
  <2>10. Taken[1] = PublishedPlan(Head(m_plans)) /\ Head(m_plans) \in PlanSlots
    <3>1. Head(m_plans) = m_plans[1] /\ Head(m_plans) \in PlanSlots /\ 1 \in DOMAIN m_plans
      BY <2>1, <2>3
    <3> QED
      BY <3>1 DEF Taken
  <2>11. Queue[1] \in Values /\ Queue[1].kind = "PublishedPlan"
         /\ Queue[1].slot = Head(m_plans)
    BY <2>9, <2>10, RecordsAreValues DEF PublishedPlan
  <2> QED
    BY <1>3, <2>1, <2>7, <2>9, <2>11, RecordKinds
<1>5. CASE RecordDiscarded
  <2>1. /\ servo.at = "discardRecord" /\ servo'.at = "discardAccount"
        /\ servo'.slot = received.slot
        /\ received.kind = "PublishedPlan" /\ UNCHANGED m_plans
    BY <1>5 DEF RecordDiscarded, core
  <2>2. received \in Values /\ m_plans = <<>>
    BY <2>1 DEF RecordsInStep, ServoInStep
  <2>3. Taken = <<>> /\ Taken' = <<>> /\ Len(Taken) = 0
    BY <1>1, <2>1, <2>2 DEF Taken
  <2>4. Queue = <<>> \o <<received>> \o Contents /\ Queue' = <<>> \o <<>> \o Contents
    BY <1>1, <1>3, <2>1, <2>3 DEF Queue, Taken, InHand
  <2>5. <<>> \o <<>> \o Contents = Without(<<>> \o <<received>> \o Contents, Len(<<>>) + 1)
    BY <1>1, <2>2, EmptySeq, QueueDropsRecord
  <2>6. Queue' = Without(Queue, 1)
    BY <2>4, <2>5
  <2>7. Queue = <<received>> \o Contents
    BY <2>2, <2>4, ConcatEmptySeq
  <2>8. Queue # <<>> /\ Queue[1] = received
    BY <1>1, <2>2, <2>7, ConcatProperties, LenProperties
  <2> QED
    BY <1>3, <2>1, <2>2, <2>6, <2>8, RecordKinds
<1> QED
  BY <1>4, <1>5

\* The servo thread ends a tick's part with nothing in hand, except where it pops.
LEMMA NothingInHand ==
  ASSUME IngressTypeOK, ServoTick \/ LatchEmergencyStop, ~ IngressPops
  PROVE  servo'.at \notin {"record", "discardRecord"}
<1>1. /\ servo \in ServoType /\ Executing.at = "execution"
      /\ m_active # {} => (CHOOSE slot \in m_active : TRUE) \in PlanSlots
  BY DEF IngressTypeOK, ServoType, Executing
<1> USE <1>1 DEF ServoType, Ticks, PartAfter
<1>2. CASE DemandNotThere \/ IngressEmpty \/ RecordIsPlan \/ RecordIsControl
           \/ ItemAccounted \/ ItemDropped \/ SlotReleased \/ TickEnds
  BY <1>2 DEF DemandNotThere, IngressEmpty, RecordIsPlan, RecordIsControl, ItemAccounted,
              ItemDropped, SlotReleased, TickEnds
<1>3. CASE DemandTaken
  BY <1>3 DEF DemandTaken
<1>4. CASE ItemDequeued \/ ItemBegins \/ ItemEnds
  BY <1>4 DEF ItemDequeued, ItemBegins, ItemEnds
<1>5. CASE LatchEmergencyStop
  BY <1>5 DEF LatchEmergencyStop, IngressDiscarded, RecordDiscarded, DiscardAccounted,
              DiscardReleased, DiscardEnds
<1> QED
  BY <1>2, <1>3, <1>4, <1>5 DEF ServoTick

\* The item of a slot changes only where the publication fills it.
LEMMA ItemsStay ==
  ASSUME IngressTypeOK, [IngressNext]_ingressVars
  PROVE  \/ PublishFillsSlot /\ host.slot \in PlanSlots
            /\ ItemOf' = [ItemOf EXCEPT ![host.slot] = items + 1]
         \/ ~ PublishFillsSlot /\ ItemOf' = ItemOf
<1>1. \/ UNCHANGED m_planSlots
      \/ \E slot \in PlanSlots, taken \in BOOLEAN :
             m_planSlots' = [m_planSlots EXCEPT ![slot].occupied = taken]
      \/ PublishFillsSlot
  <2>1. host.slot \in PlanSlots /\ servo.slot \in PlanSlots
    BY DEF IngressTypeOK
  <2>2. CASE TryPublish \/ TrySubmit \/ TryPush \/ PublishDemand
    BY <2>1, <2>2
       DEF TryPublish, PublishBegins, PublishSkipsSlot, PublishTakesSlot, PublishFillsSlot,
           PublishCountsItem, PublishUncountsMotion, PublishUncountsItem, PublishFreesSlot,
           TrySubmit, SubmitTakesCredit, SubmitReturnsCredit, TryPush, IngressChecksSpace,
           IngressRefuses, IngressWritesSlot, IngressPublishes, PublishDemand,
           DemandWritten, DemandPublished
  <2>3. CASE SlotReleased \/ DiscardReleased
    BY <2>1, <2>3 DEF SlotReleased, DiscardReleased
  <2>4. CASE DemandNotThere \/ DemandTaken \/ IngressEmpty \/ IngressPops \/ RecordIsPlan
             \/ RecordIsControl \/ ItemDequeued \/ ItemAccounted \/ ItemBegins \/ ItemDropped
             \/ ItemEnds \/ TickEnds
    BY <2>4 DEF DemandNotThere, DemandTaken, IngressEmpty, IngressPops, RecordIsPlan,
                RecordIsControl, ItemDequeued, ItemAccounted, ItemBegins, ItemDropped,
                ItemEnds, TickEnds
  <2>5. CASE IngressDiscarded \/ RecordDiscarded \/ DiscardAccounted \/ DiscardEnds
    BY <2>5 DEF IngressDiscarded, RecordDiscarded, DiscardAccounted, DiscardEnds
  <2> QED
    BY <2>2, <2>3, <2>4, <2>5 DEF IngressNext, ServoTick, LatchEmergencyStop, ingressVars
<1>2. CASE PublishFillsSlot
  <2>1. /\ m_planSlots' = [m_planSlots EXCEPT ![host.slot].item = items + 1]
        /\ host.slot \in PlanSlots
        /\ m_planSlots \in [PlanSlots -> [occupied : BOOLEAN, item : Nat]]
    BY <1>2 DEF PublishFillsSlot, IngressTypeOK
  <2>2. \A slot \in PlanSlots :
            m_planSlots'[slot].item
                = IF slot = host.slot THEN items + 1 ELSE m_planSlots[slot].item
    BY <2>1
  <2> QED
    BY <1>2, <2>1, <2>2 DEF ItemOf
<1>3. CASE ~ PublishFillsSlot
  <2>1. ASSUME NEW slot \in PlanSlots, NEW taken \in BOOLEAN,
               m_planSlots' = [m_planSlots EXCEPT ![slot].occupied = taken]
        PROVE  \A k \in PlanSlots : m_planSlots'[k].item = m_planSlots[k].item
    BY <2>1 DEF IngressTypeOK
  <2>2. \A k \in PlanSlots : m_planSlots'[k].item = m_planSlots[k].item
    BY <1>1, <1>3, <2>1
  <2> QED
    BY <1>3, <2>2 DEF ItemOf
<1> QED
  BY <1>2, <1>3

LEMMA NextRecordsInStep ==
  ASSUME ChannelInvariant, IngressTypeOK, HostInStep, ServoInStep, RecordsInStep,
         [IngressNext]_ingressVars
  PROVE  RecordsInStep'
<1>1. Contents' \in Seq(Values)
  <2>1. Contents \in Seq(Values)
    BY DEF RecordsInStep
  <2>2. CASE UNCHANGED vars
    BY <2>1, <2>2, RingIsQuiet
  <2>3. CASE IngressPublishes
    BY <2>3, PublicationEntersQueue
  <2>4. CASE IngressPops
    BY <2>4, PopLeavesQueue
  <2>5. CASE ~ UNCHANGED vars /\ ~ IngressPublishes /\ ~ IngressPops
    <3>1. IngressChecksSpace \/ IngressRefuses \/ IngressWritesSlot \/ IngressEmpty
          \/ DiscardEnds
      BY <2>5
         DEF IngressNext, ingressVars, TryPublish, PublishBegins, PublishSkipsSlot,
             PublishTakesSlot, PublishFillsSlot, PublishCountsItem, PublishUncountsMotion,
             PublishUncountsItem, PublishFreesSlot, TrySubmit, SubmitTakesCredit,
             SubmitReturnsCredit, TryPush, PublishDemand, DemandWritten, DemandPublished,
             ServoTick, DemandNotThere, DemandTaken, RecordIsPlan, RecordIsControl,
             ItemDequeued, ItemAccounted, ItemBegins, ItemDropped, ItemEnds, SlotReleased,
             TickEnds, LatchEmergencyStop, IngressDiscarded, RecordDiscarded,
             DiscardAccounted, DiscardReleased
    <3>2. CASE IngressChecksSpace
      <4>1. \E v \in Values : PushChecksSpace(v)
        BY <3>2, RecordsAreValues DEF IngressChecksSpace, IngressTypeOK
      <4> QED
        BY <2>1, <4>1, RingIsQuiet
    <3> QED
      BY <2>1, <3>1, <3>2, RingIsQuiet
         DEF IngressRefuses, IngressWritesSlot, IngressEmpty, DiscardEnds
  <2> QED
    BY <2>2, <2>3, <2>4, <2>5
<1>2. servo'.at \in {"record", "discardRecord"} => received' \in Values
  <2>1. CASE UNCHANGED <<servo, received>>
    BY <2>1 DEF RecordsInStep
  <2>2. CASE ServoTick \/ LatchEmergencyStop
    BY <2>2, NothingInHand, PopLeavesQueue
  <2> QED
    BY <2>1, <2>2, HostLeavesServo DEF IngressNext, ingressVars, vars
<1>3. host'.at \in {"count", "push", "pushPlan", "full"} =>
          m_planSlots'[host'.slot].item = items' + 1
  <2> DEFINE Counted == {"count", "push", "pushPlan", "full"}
  <2>1. host \in HostType /\ host' \in HostType
    BY NextHostType DEF IngressTypeOK, HostType
  <2>2. CASE PublishFillsSlot
    <3>1. /\ host'.slot = host.slot /\ items' = items
          /\ m_planSlots' = [m_planSlots EXCEPT ![host.slot].item = items + 1]
      BY <2>1, <2>2 DEF PublishFillsSlot, Calls, HostType, history
    <3> QED
      BY <2>1, <3>1 DEF IngressTypeOK, HostType
  <2>3. CASE ~ PublishFillsSlot
    <3>1. ItemOf' = ItemOf
      BY <2>3, ItemsStay
    <3>2. \A slot \in PlanSlots : m_planSlots'[slot].item = m_planSlots[slot].item
      BY <3>1 DEF ItemOf
    <3>3. host'.at \in Counted =>
              host.at \in Counted /\ host'.slot = host.slot /\ items' = items
      <4> USE <2>1 DEF HostType, Calls, history
      <4>1. CASE UNCHANGED <<host, items>>
        BY <4>1
      <4>2. CASE TryPublish
        BY <2>3, <4>2
           DEF TryPublish, PublishBegins, PublishSkipsSlot, PublishTakesSlot,
               PublishCountsItem, PublishUncountsMotion, PublishUncountsItem,
               PublishFreesSlot, Idle
      <4>3. CASE TrySubmit \/ PublishDemand
        BY <4>3 DEF TrySubmit, SubmitTakesCredit, SubmitReturnsCredit, PublishDemand,
                    DemandWritten, DemandPublished
      <4>4. CASE TryPush
        BY <4>4 DEF TryPush, IngressChecksSpace, IngressRefuses, IngressWritesSlot,
                    IngressPublishes, Idle
      <4> QED
        BY <4>1, <4>2, <4>3, <4>4, ServoLeavesHost DEF IngressNext, ingressVars
    <3>4. host'.at \in Counted => m_planSlots[host.slot].item = items + 1
      BY <3>3 DEF RecordsInStep
    <3> QED
      BY <2>1, <3>2, <3>3, <3>4 DEF HostType
  <2> QED
    BY <2>2, <2>3
<1> QED
  BY <1>1, <1>2, <1>3 DEF RecordsInStep

\* Demands.
LEMMA NextDemandsInOrder ==
  ASSUME MailboxInvariant, IngressTypeOK, DemandsInOrder, [IngressNext]_ingressVars
  PROVE  DemandsInOrder'
<1> USE DEF DemandsInOrder, mailboxVars, history
<1>1. /\ preceding \in Seq(Nat) /\ Len(preceding) \in Nat
      /\ DOMAIN preceding = 1 .. Len(preceding)
      /\ published \in Nat /\ value \in Nat /\ items \in Nat /\ items' \in Nat
  BY NextHistoryType, LenProperties DEF IngressTypeOK, MailboxInvariant, MailboxTypeOK
<1>2. CASE UNCHANGED <<preceding, published, value, items>>
  BY <1>2
<1>3. CASE IngressPublishes
  <2>1. UNCHANGED <<preceding, published, value>> /\ items' \in {items, items + 1}
    BY <1>3 DEF IngressPublishes
  <2>2. items <= items'
    BY <1>1, <2>1
  <2>3. \A k \in DOMAIN preceding : preceding[k] \in Nat
    BY <1>1
  <2> QED
    BY <1>1, <2>1, <2>2, <2>3
<1>4. CASE DemandPublished
  <2>1. /\ preceding' = Append(preceding, items) /\ published' = published + 1
        /\ UNCHANGED <<value, items>>
    BY <1>4 DEF DemandPublished, PublishExchanges
  <2>2. /\ Len(Append(preceding, items)) = Len(preceding) + 1
        /\ DOMAIN Append(preceding, items) = 1 .. Len(preceding) + 1
        /\ Append(preceding, items)[Len(preceding) + 1] = items
        /\ \A k \in 1 .. Len(preceding) : Append(preceding, items)[k] = preceding[k]
    BY <1>1, AppendProperties, LenProperties
  <2>3. \A k \in 1 .. Len(preceding) + 1 : k \in 1 .. Len(preceding) \/ k = Len(preceding) + 1
    BY <1>1
  <2>4. \A k \in 1 .. Len(preceding) + 1 : Append(preceding, items)[k] <= items
    BY <1>1, <2>2, <2>3
  <2> QED
    BY <1>1, <2>1, <2>2, <2>4
<1>5. CASE DemandTaken
  <2>1. UNCHANGED <<preceding, published, items>>
    BY <1>5 DEF DemandTaken, ConsumeFindsDirty, ConsumeExchanges, ConsumeCopies
  <2>2. value' = value \/ value' = m_slots[m_front]
    BY <1>5 DEF DemandTaken, ConsumeFindsDirty, ConsumeExchanges, ConsumeCopies
  <2>3. m_slots[m_front] <= published
    BY DEF MailboxInvariant
  <2> QED
    BY <2>1, <2>2, <2>3
<1>6. CASE ~ IngressPublishes /\ ~ DemandPublished /\ ~ DemandTaken
  <2>1. UNCHANGED <<preceding, published, value, items>>
    <3>1. CASE TryPublish \/ TrySubmit \/ TryPush \/ PublishDemand
      BY <1>6, <3>1
         DEF TryPublish, PublishBegins, PublishSkipsSlot, PublishTakesSlot,
             PublishFillsSlot, PublishCountsItem, PublishUncountsMotion,
             PublishUncountsItem, PublishFreesSlot, TrySubmit, SubmitTakesCredit,
             SubmitReturnsCredit, TryPush, IngressChecksSpace, IngressRefuses,
             IngressWritesSlot, PublishDemand, DemandWritten, PublishWritesBack
    <3>2. CASE ServoTick
      BY <1>6, <3>2
         DEF ServoTick, DemandNotThere, ConsumeFindsNothing, IngressEmpty, IngressPops,
             RecordIsPlan, RecordIsControl, ItemDequeued, ItemAccounted, ItemBegins,
             ItemDropped, ItemEnds, SlotReleased, TickEnds
    <3>3. CASE LatchEmergencyStop
      BY <3>3 DEF LatchEmergencyStop, IngressDiscarded, RecordDiscarded, DiscardAccounted,
                  DiscardReleased, DiscardEnds
    <3>4. CASE UNCHANGED ingressVars
      BY <3>4 DEF ingressVars
    <3> QED
      BY <3>1, <3>2, <3>3, <3>4 DEF IngressNext
  <2> QED
    BY <1>2, <2>1
<1> QED
  BY <1>3, <1>4, <1>5, <1>6

-----------------------------------------------------------------------------
(* Every slot has one holder.                                              *)

LEMMA FourHoldings ==
  ASSUME NEW q, NEW h, NEW a, NEW s
  PROVE  LET holdings == <<q, h, a, s>>
         IN  /\ (\A i, j \in 1 .. 4 : i # j => holdings[i] \cap holdings[j] = {})
                    <=> /\ q \cap h = {} /\ q \cap a = {} /\ q \cap s = {}
                        /\ h \cap a = {} /\ h \cap s = {} /\ a \cap s = {}
             /\ UNION {holdings[i] : i \in 1 .. 4} = q \cup h \cup a \cup s
<1> DEFINE holdings == <<q, h, a, s>>
<1>1. 1 .. 4 = {1, 2, 3, 4}
  OBVIOUS
<1>2. holdings[1] = q /\ holdings[2] = h /\ holdings[3] = a /\ holdings[4] = s
  OBVIOUS
<1> HIDE DEF holdings
<1>3. (\A i, j \in 1 .. 4 : i # j => holdings[i] \cap holdings[j] = {})
          <=> /\ q \cap h = {} /\ q \cap a = {} /\ q \cap s = {}
              /\ h \cap a = {} /\ h \cap s = {} /\ a \cap s = {}
  BY <1>1, <1>2
<1>4. UNION {holdings[i] : i \in 1 .. 4} = q \cup h \cup a \cup s
  <2>1. \A x : x \in UNION {holdings[i] : i \in {1, 2, 3, 4}} <=> x \in q \cup h \cup a \cup s
    BY <1>2
  <2> QED
    BY <1>1, <2>1
<1> QED
  BY <1>3, <1>4 DEF holdings

\* The same without the tuple.
HeldOnce(q, h, a, s, o) ==
    /\ q \cap h = {} /\ q \cap a = {} /\ q \cap s = {}
    /\ h \cap a = {} /\ h \cap s = {} /\ a \cap s = {}
    /\ o = q \cup h \cup a \cup s

LEMMA HoldersAreHeldOnce ==
  /\ SlotsHaveOneHolder
         <=> HeldOnce(QueueHolds(Queue), HostHolds, m_active, ServoHolds, Occupied)
  /\ SlotsHaveOneHolder'
         <=> HeldOnce(QueueHolds(Queue'), HostHolds', m_active', ServoHolds', Occupied')
<1>1. SlotsHaveOneHolder
         <=> HeldOnce(QueueHolds(Queue), HostHolds, m_active, ServoHolds, Occupied)
  BY FourHoldings DEF SlotsHaveOneHolder, HeldOnce
<1>2. SlotsHaveOneHolder'
         <=> HeldOnce(QueueHolds(Queue'), HostHolds', m_active', ServoHolds', Occupied')
  <2>1. QueueHolds(Queue)' = QueueHolds(Queue')
    BY DEF QueueHolds, PlansOf
  <2>2. SlotsHaveOneHolder'
            <=> HeldOnce(QueueHolds(Queue)', HostHolds', m_active', ServoHolds', Occupied')
    BY FourHoldings DEF SlotsHaveOneHolder, HeldOnce
  <2> QED
    BY <2>1, <2>2
<1> QED
  BY <1>1, <1>2

LEMMA OccupiedChanges ==
  ASSUME IngressTypeOK, NEW slot \in PlanSlots
  PROVE  /\ m_planSlots' = [m_planSlots EXCEPT ![slot].occupied = TRUE]
                => Occupied' = Occupied \cup {slot}
         /\ m_planSlots' = [m_planSlots EXCEPT ![slot].occupied = FALSE]
                => Occupied' = Occupied \ {slot}
         /\ \A n : m_planSlots' = [m_planSlots EXCEPT ![slot].item = n]
                => Occupied' = Occupied
         /\ m_planSlots' = m_planSlots => Occupied' = Occupied
  BY DEF Occupied, IngressTypeOK

LEMMA HostKeepsHolders ==
  ASSUME ChannelInvariant, IngressTypeOK, HostInStep, RecordsInStep, SlotsHaveOneHolder,
         TryPublish \/ TrySubmit \/ TryPush \/ PublishDemand
  PROVE  SlotsHaveOneHolder'
<1> DEFINE q == QueueHolds(Queue)
<1>1. HeldOnce(q, HostHolds, m_active, ServoHolds, Occupied)
  BY HoldersAreHeldOnce
<1>2. ServoHolds' = ServoHolds /\ m_active' = m_active
  BY HostLeavesServo DEF ServoHolds
<1>3. host \in HostType /\ host.slot \in PlanSlots /\ Idle.at = "idle"
  BY DEF IngressTypeOK, HostType, Idle
<1>4. CASE PublishTakesSlot
  <2>1. HostHolds = {} /\ HostHolds' = {host.slot}
    BY <1>3, <1>4 DEF PublishTakesSlot, Calls, HostHolds, HostType
  <2>2. Occupied' = Occupied \cup {host.slot} /\ host.slot \notin Occupied
    BY <1>3, <1>4, OccupiedChanges DEF PublishTakesSlot, Occupied
  <2>3. Queue' = Queue
    BY <1>4, HostLeavesQueue DEF TryPublish
  <2>4. HeldOnce(q, HostHolds', m_active, ServoHolds, Occupied')
    BY <1>1, <2>1, <2>2 DEF HeldOnce
  <2> QED
    BY <1>2, <2>3, <2>4, HoldersAreHeldOnce
<1>5. CASE PublishFreesSlot
  <2>1. HostHolds = {host.slot} /\ HostHolds' = {}
    BY <1>3, <1>5 DEF PublishFreesSlot, HostHolds
  <2>2. Occupied' = Occupied \ {host.slot}
    BY <1>3, <1>5, OccupiedChanges DEF PublishFreesSlot
  <2>3. Queue' = Queue
    BY <1>5, HostLeavesQueue DEF TryPublish
  <2>4. HeldOnce(q, HostHolds', m_active, ServoHolds, Occupied')
    BY <1>1, <2>1, <2>2 DEF HeldOnce
  <2> QED
    BY <1>2, <2>3, <2>4, HoldersAreHeldOnce
<1>6. CASE IngressPublishes
  <2>1. /\ Queue \in Seq(Values) /\ producer.value \in Values
        /\ Queue' = Append(Queue, producer.value)
    BY <1>6, QueueIsOfRecords, PublicationEntersQueue
  <2>2. Occupied' = Occupied /\ HostHolds' = {} /\ producer.at # "idle"
    BY <1>3, <1>6, OccupiedChanges
       DEF IngressPublishes, PushPublishes, HostHolds
  <2>3. CASE host.at = "pushPlan"
    <3>1. HostHolds = {host.slot} /\ producer.value = PublishedPlan(host.slot)
      BY <2>3 DEF HostHolds, HostInStep
    <3>2. producer.value # Control /\ producer.value.slot = host.slot
      BY <3>1 DEF PublishedPlan, Control
    <3>3. QueueHolds(Queue') = q \cup {host.slot}
      BY <2>1, <3>2, AppendedHolds
    <3>4. HeldOnce(QueueHolds(Queue'), HostHolds', m_active, ServoHolds, Occupied')
      BY <1>1, <2>2, <3>1, <3>3 DEF HeldOnce
    <3> QED
      BY <1>2, <3>4, HoldersAreHeldOnce
  <2>4. CASE host.at = "pushControl"
    <3>1. HostHolds = {} /\ producer.value = Control
      BY <2>4 DEF HostHolds, HostInStep
    <3>2. QueueHolds(Queue') = q
      BY <2>1, <3>1, AppendedHolds
    <3>3. HeldOnce(QueueHolds(Queue'), HostHolds', m_active, ServoHolds, Occupied')
      BY <1>1, <2>2, <3>1, <3>2 DEF HeldOnce
    <3> QED
      BY <1>2, <3>3, HoldersAreHeldOnce
  <2> QED
    BY <2>2, <2>3, <2>4 DEF HostInStep
<1>7. CASE ~ PublishTakesSlot /\ ~ PublishFreesSlot /\ ~ IngressPublishes
  <2>1. Queue' = Queue
    BY <1>7, HostLeavesQueue DEF TryPush
  <2>2. HostHolds' = HostHolds /\ Occupied' = Occupied
    <3> USE <1>3 DEF HostType, Calls, HostHolds
    <3>1. CASE PublishFillsSlot
      BY <3>1, OccupiedChanges DEF PublishFillsSlot
    <3>2. CASE UNCHANGED m_planSlots
      <4>1. Occupied' = Occupied
        BY <3>2, OccupiedChanges
      <4>2. CASE TryPublish
        BY <1>7, <4>1, <4>2
           DEF TryPublish, PublishBegins, PublishSkipsSlot, PublishFillsSlot,
               PublishCountsItem, PublishUncountsMotion, PublishUncountsItem
      <4>3. CASE TrySubmit \/ PublishDemand
        BY <4>1, <4>3 DEF TrySubmit, SubmitTakesCredit, SubmitReturnsCredit, PublishDemand,
                          DemandWritten, DemandPublished
      <4>4. CASE TryPush
        BY <1>7, <4>1, <4>4 DEF TryPush, IngressChecksSpace, IngressRefuses, IngressWritesSlot
      <4> QED
        BY <4>2, <4>3, <4>4
    <3>3. PublishFillsSlot \/ UNCHANGED m_planSlots
      BY <1>7
         DEF TryPublish, PublishBegins, PublishSkipsSlot, PublishCountsItem,
             PublishUncountsMotion, PublishUncountsItem, TrySubmit, SubmitTakesCredit,
             SubmitReturnsCredit, TryPush, IngressChecksSpace, IngressRefuses,
             IngressWritesSlot, PublishDemand, DemandWritten, DemandPublished
    <3> QED
      BY <3>1, <3>2, <3>3
  <2> QED
    BY <1>1, <1>2, <2>1, <2>2, HoldersAreHeldOnce
<1> QED
  BY <1>4, <1>5, <1>6, <1>7

LEMMA ServoKeepsHolders ==
  ASSUME ChannelInvariant, IngressTypeOK, ServoInStep, RecordsInStep, SlotsHaveOneHolder,
         QueueIsTheNewest, ServoTick \/ LatchEmergencyStop
  PROVE  SlotsHaveOneHolder'
<1> DEFINE q == QueueHolds(Queue)
<1>1. HeldOnce(q, HostHolds, m_active, ServoHolds, Occupied)
  BY HoldersAreHeldOnce
<1>2. HostHolds' = HostHolds
  BY ServoLeavesHost DEF HostHolds
<1>3. servo \in ServoType /\ servo.slot \in PlanSlots /\ Executing.at = "execution"
  BY DEF IngressTypeOK, ServoType, Executing
<1>4. CASE ItemDequeued \/ RecordDiscarded
  <2>1. /\ Queue \in Seq(Values) /\ Queue # <<>> /\ Queue[1] # Control
        /\ servo'.slot = Queue[1].slot /\ Queue' = Without(Queue, 1)
    BY <1>4, QueueIsOfRecords, ItemLeavesQueue
  <2>2. /\ items - QueuedItems + 1 \in Int /\ items \in Int
        /\ InOrder(Queue, ItemOf, items - QueuedItems + 1, items)
    BY DEF QueueIsTheNewest, IngressTypeOK
  <2>3. servo'.slot \in q /\ QueueHolds(Queue') = q \ {servo'.slot}
    BY <2>1, <2>2, PlanLeavesHolds
  <2>4. /\ ServoHolds = {} /\ ServoHolds' = {servo'.slot}
        /\ m_active' = m_active /\ UNCHANGED m_planSlots
    BY <1>4 DEF ItemDequeued, RecordDiscarded, ServoHolds, core
  <2>5. Occupied' = Occupied
    BY <1>3, <2>4, OccupiedChanges
  <2>6. HeldOnce(QueueHolds(Queue'), HostHolds, m_active', ServoHolds', Occupied')
    BY <1>1, <2>3, <2>4, <2>5 DEF HeldOnce
  <2> QED
    BY <1>2, <2>6, HoldersAreHeldOnce
<1>5. CASE RecordIsControl
  <2>1. QueueHolds(Queue') = q
    BY <1>5, ControlLeavesQueue, QueueIsOfRecords, ControlLeavesHolds
  <2>2. ServoHolds' = ServoHolds /\ m_active' = m_active /\ UNCHANGED m_planSlots
    BY <1>3, <1>5 DEF RecordIsControl, Ticks, ServoType, ServoHolds, core
  <2>3. Occupied' = Occupied
    BY <1>3, <2>2, OccupiedChanges
  <2> QED
    BY <1>1, <1>2, <2>1, <2>2, <2>3, HoldersAreHeldOnce
<1>6. CASE ItemBegins \/ ItemEnds
  <2> DEFINE active == CHOOSE slot \in m_active : TRUE
  <2>1. m_active = {} \/ m_active = {active}
    BY DEF IngressTypeOK
  <2>2. Queue' = Queue
    BY <1>6, ServoLeavesQueue
  <2>3. Occupied' = Occupied
    BY <1>3, <1>6, OccupiedChanges DEF ItemBegins, ItemEnds
  <2>4. CASE ItemBegins
    <3>1. /\ ServoHolds = {servo.slot} /\ m_active' = {servo.slot}
          /\ servo' = IF m_active = {} THEN Executing
                      ELSE [at |-> "release", slot |-> active]
      BY <2>4 DEF ItemBegins, ServoHolds
    <3> HIDE DEF active
    <3>2. ServoHolds' = m_active
      BY <1>3, <2>1, <3>1 DEF ServoHolds
    <3>3. HeldOnce(q, HostHolds, m_active', ServoHolds', Occupied')
      BY <1>1, <2>3, <3>1, <3>2 DEF HeldOnce
    <3> QED
      BY <1>2, <2>2, <3>3, HoldersAreHeldOnce
  <2>5. CASE ItemEnds
    <3>1. /\ ServoHolds = {} /\ m_active' = {} /\ m_active # {}
          /\ servo' = [at |-> "release", slot |-> active]
      BY <2>5 DEF ItemEnds, ServoHolds
    <3> HIDE DEF active
    <3>2. ServoHolds' = m_active
      BY <2>1, <3>1 DEF ServoHolds
    <3>3. HeldOnce(q, HostHolds, m_active', ServoHolds', Occupied')
      BY <1>1, <2>3, <3>1, <3>2 DEF HeldOnce
    <3> QED
      BY <1>2, <2>2, <3>3, HoldersAreHeldOnce
  <2> QED
    BY <1>6, <2>4, <2>5
<1>7. CASE SlotReleased \/ DiscardReleased
  <2>1. Queue' = Queue
    BY <1>7, ServoLeavesQueue
  <2>2. /\ ServoHolds = {servo.slot} /\ ServoHolds' = {} /\ m_active' = m_active
        /\ m_planSlots' = [m_planSlots EXCEPT ![servo.slot].occupied = FALSE]
    BY <1>3, <1>7
       DEF SlotReleased, DiscardReleased, Ticks, ServoType, ServoHolds, core
  <2>3. Occupied' = Occupied \ {servo.slot}
    BY <1>3, <2>2, OccupiedChanges
  <2>4. HeldOnce(q, HostHolds, m_active, ServoHolds', Occupied')
    BY <1>1, <2>2, <2>3 DEF HeldOnce
  <2> QED
    BY <1>2, <2>1, <2>2, <2>4, HoldersAreHeldOnce
<1>8. CASE DemandNotThere \/ DemandTaken \/ IngressEmpty \/ IngressPops \/ RecordIsPlan
           \/ ItemAccounted \/ ItemDropped \/ TickEnds \/ IngressDiscarded
           \/ DiscardAccounted \/ DiscardEnds
  <2>1. Queue' = Queue
    BY <1>8, ServoLeavesQueue, PopLeavesQueue, PlanLeavesQueue
  <2>2. m_active' = m_active /\ UNCHANGED m_planSlots
    BY <1>8
       DEF DemandNotThere, DemandTaken, IngressEmpty, IngressPops, RecordIsPlan,
           ItemAccounted, ItemDropped, TickEnds, IngressDiscarded, DiscardAccounted,
           DiscardEnds, core
  <2>3. ServoHolds' = ServoHolds
    <3> USE <1>3 DEF ServoType, Ticks, PartAfter, ServoHolds
    <3>1. CASE DemandNotThere \/ DemandTaken \/ IngressEmpty \/ IngressPops
      BY <3>1 DEF DemandNotThere, DemandTaken, IngressEmpty, IngressPops
    <3>2. CASE RecordIsPlan \/ ItemAccounted \/ ItemDropped \/ TickEnds
      BY <3>2 DEF RecordIsPlan, ItemAccounted, ItemDropped, TickEnds
    <3>3. CASE IngressDiscarded \/ DiscardAccounted \/ DiscardEnds
      BY <3>3 DEF IngressDiscarded, DiscardAccounted, DiscardEnds
    <3> QED
      BY <1>8, <3>1, <3>2, <3>3
  <2>4. Occupied' = Occupied
    BY <1>3, <2>2, OccupiedChanges
  <2> QED
    BY <1>1, <1>2, <2>1, <2>2, <2>3, <2>4, HoldersAreHeldOnce
<1> QED
  BY <1>4, <1>5, <1>6, <1>7, <1>8 DEF ServoTick, LatchEmergencyStop

-----------------------------------------------------------------------------
(* The counters are exact.                                                 *)

LEMMA TogetherNext ==
  ASSUME NEW n \in Nat
  PROVE  Together(n) \in Int /\ Together(n + 1) = Together(n) + n + 1
<1> DEFINE p == n * (n + 1)
<1>1. p \in Int /\ (n + 1) * (n + 1 + 1) = p + 2 * (n + 1)
  OBVIOUS
<1> HIDE DEF p
<1>2. (p + 2 * (n + 1)) \div 2 = (p \div 2) + (n + 1) /\ p \div 2 \in Int
  BY <1>1
<1>3. Together(n) = p \div 2 /\ Together(n + 1) = (p + 2 * (n + 1)) \div 2
  BY <1>1 DEF Together, p
<1> QED
  BY <1>2, <1>3

LEMMA OrderOfSameItems ==
  ASSUME NEW q, NEW old, NEW new, NEW low, NEW high, InOrder(q, old, low, high),
         \A slot \in QueueHolds(q) : new[slot] = old[slot]
  PROVE  InOrder(q, new, low, high)
<1>1. \A i \in PlansOf(q) : new[q[i].slot] = old[q[i].slot]
  BY DEF QueueHolds
<1>2. {new[q[i].slot] : i \in PlansOf(q)} = {old[q[i].slot] : i \in PlansOf(q)}
  BY <1>1
<1> QED
  BY <1>1, <1>2 DEF InOrder

\* What the counters say of a queue.
Exact(queue, item, newest, n, motion, works) ==
    /\ n \in 0 .. newest
    /\ InOrder(queue, item, newest - n + 1, newest)
    /\ motion = Together(newest) - Together(newest - n)
    /\ works = Cardinality(ControlsOf(queue))

LEMMA CountersSayExactly ==
  /\ CountersAreExact
         <=> Exact(Queue, ItemOf, items, QueuedItems, QueuedMotion, QueuedControls)
  /\ CountersAreExact'
         <=> Exact(Queue', ItemOf', items', QueuedItems', QueuedMotion', QueuedControls')
<1>1. CountersAreExact
         <=> Exact(Queue, ItemOf, items, QueuedItems, QueuedMotion, QueuedControls)
  BY DEF CountersAreExact, QueueIsTheNewest, Exact
<1>2. CountersAreExact'
         <=> Exact(Queue', ItemOf', items', QueuedItems', QueuedMotion', QueuedControls')
  <2>1. ControlsOf(Queue)' = ControlsOf(Queue')
    BY DEF ControlsOf, Control
  <2>2. InOrder(Queue, ItemOf, items - QueuedItems + 1, items)'
            <=> InOrder(Queue', ItemOf', items' - QueuedItems' + 1, items')
    BY DEF InOrder, PlansOf
  <2>3. /\ Together(items)' = Together(items')
        /\ Together(items - QueuedItems)' = Together(items' - QueuedItems')
    BY DEF Together
  <2>4. Cardinality(ControlsOf(Queue))' = Cardinality(ControlsOf(Queue'))
    BY <2>1
  <2>5. QueueIsTheNewest'
            <=> /\ QueuedItems' \in 0 .. items'
                /\ InOrder(Queue', ItemOf', items' - QueuedItems' + 1, items')
    BY <2>2 DEF QueueIsTheNewest
  <2> QED
    BY <2>3, <2>4, <2>5 DEF CountersAreExact, Exact
<1> QED
  BY <1>1, <1>2

LEMMA ItemsOfQueueStay ==
  ASSUME IngressTypeOK, SlotsHaveOneHolder, [IngressNext]_ingressVars
  PROVE  \A slot \in QueueHolds(Queue) : ItemOf'[slot] = ItemOf[slot]
<1>1. CASE PublishFillsSlot
  <2>1. host.slot \in HostHolds
    BY <1>1 DEF PublishFillsSlot, Calls, HostHolds
  <2>2. host.slot \notin QueueHolds(Queue)
    BY <2>1, HoldersAreHeldOnce DEF HeldOnce
  <2>3. ItemOf' = [ItemOf EXCEPT ![host.slot] = items + 1]
    BY <1>1, ItemsStay
  <2>4. QueueHolds(Queue) \subseteq PlanSlots
    BY HoldersAreHeldOnce DEF HeldOnce, Occupied
  <2> QED
    BY <2>2, <2>3, <2>4 DEF ItemOf
<1>2. CASE ~ PublishFillsSlot
  BY <1>2, ItemsStay
<1> QED
  BY <1>1, <1>2

\* The steps in which a call has in hand what the counters already say, or not yet.
LEMMA HostKeepsCounters ==
  ASSUME ChannelInvariant, IngressTypeOK, HostInStep, RecordsInStep,
         SlotsHaveOneHolder, CountersAreExact,
         TryPublish \/ TrySubmit \/ PublishDemand
            \/ IngressChecksSpace \/ IngressRefuses \/ IngressWritesSlot
  PROVE  CountersAreExact'
<1>1. Exact(Queue, ItemOf, items, QueuedItems, QueuedMotion, QueuedControls)
  BY CountersSayExactly
<1>2. Queue' = Queue
  BY HostLeavesQueue
<1>3. \A slot \in QueueHolds(Queue) : ItemOf'[slot] = ItemOf[slot]
  BY ItemsOfQueueStay DEF IngressNext, TryPush
<1>4. items' = items
  BY DEF history, TryPublish, PublishBegins, PublishSkipsSlot, PublishTakesSlot,
         PublishFillsSlot, PublishCountsItem, PublishUncountsMotion, PublishUncountsItem,
         PublishFreesSlot, TrySubmit, SubmitTakesCredit, SubmitReturnsCredit, PublishDemand,
         DemandWritten, DemandPublished, IngressChecksSpace, IngressRefuses, IngressWritesSlot
<1>5. servo' = servo
  BY HostLeavesServo DEF TryPush
<1>6. host \in HostType /\ host.slot \in PlanSlots /\ Idle.at = "idle"
  BY DEF IngressTypeOK, HostType, Idle
<1>7. /\ m_queuedExecutionItems \in Int /\ m_queuedNormalMotionNanoseconds \in Int
      /\ m_queuedControls \in Int /\ m_planSlots[host.slot].item \in Int /\ items \in Nat
  BY <1>6 DEF IngressTypeOK
<1>8. QueuedItems' = QueuedItems
  <2> USE <1>5, <1>6, <1>7 DEF HostType, Calls, counters, QueuedItems, One
  <2>1. CASE TryPublish
    BY <2>1 DEF TryPublish, PublishBegins, PublishSkipsSlot, PublishTakesSlot,
                PublishFillsSlot, PublishCountsItem, PublishUncountsMotion,
                PublishUncountsItem, PublishFreesSlot
  <2>2. CASE TrySubmit \/ PublishDemand
    BY <2>2 DEF TrySubmit, SubmitTakesCredit, SubmitReturnsCredit, PublishDemand,
                DemandWritten, DemandPublished
  <2>3. CASE IngressChecksSpace \/ IngressRefuses \/ IngressWritesSlot
    BY <2>3 DEF IngressChecksSpace, IngressRefuses, IngressWritesSlot
  <2> QED
    BY <2>1, <2>2, <2>3
<1>9. QueuedControls' = QueuedControls
  <2> USE <1>6, <1>7 DEF HostType, Calls, counters, QueuedControls, One
  <2>1. CASE TryPublish
    BY <2>1 DEF TryPublish, PublishBegins, PublishSkipsSlot, PublishTakesSlot,
                PublishFillsSlot, PublishCountsItem, PublishUncountsMotion,
                PublishUncountsItem, PublishFreesSlot
  <2>2. CASE TrySubmit \/ PublishDemand
    BY <2>2 DEF TrySubmit, SubmitTakesCredit, SubmitReturnsCredit, PublishDemand,
                DemandWritten, DemandPublished
  <2>3. CASE IngressChecksSpace \/ IngressRefuses \/ IngressWritesSlot
    BY <2>3 DEF IngressChecksSpace, IngressRefuses, IngressWritesSlot
  <2> QED
    BY <2>1, <2>2, <2>3
<1>10. QueuedMotion' = QueuedMotion
  <2> USE <1>6, <1>7 DEF HostType, Calls, counters, QueuedMotion
  <2>1. CASE PublishFillsSlot
    <3>1. /\ m_planSlots' = [m_planSlots EXCEPT ![host.slot].item = items + 1]
          /\ m_queuedNormalMotionNanoseconds'
                 = m_queuedNormalMotionNanoseconds + items + 1
          /\ host.at = "fill" /\ host'.at = "count" /\ host'.slot = host.slot
      BY <2>1 DEF PublishFillsSlot
    <3>2. m_planSlots'[host'.slot].item = items + 1
      BY <3>1 DEF IngressTypeOK
    <3> QED
      BY <3>1, <3>2
  <2>2. CASE PublishTakesSlot
    BY <2>2 DEF PublishTakesSlot
  <2>3. CASE PublishFreesSlot
    BY <2>3 DEF PublishFreesSlot
  <2>4. CASE PublishBegins \/ PublishSkipsSlot \/ PublishCountsItem
             \/ PublishUncountsMotion \/ PublishUncountsItem
    BY <2>4 DEF PublishBegins, PublishSkipsSlot, PublishCountsItem,
                PublishUncountsMotion, PublishUncountsItem
  <2>5. CASE TrySubmit \/ PublishDemand
    BY <2>5 DEF TrySubmit, SubmitTakesCredit, SubmitReturnsCredit, PublishDemand,
                DemandWritten, DemandPublished
  <2>6. CASE IngressChecksSpace \/ IngressRefuses \/ IngressWritesSlot
    BY <2>6 DEF IngressChecksSpace, IngressRefuses, IngressWritesSlot
  <2> QED
    BY <2>1, <2>2, <2>3, <2>4, <2>5, <2>6 DEF TryPublish
<1>11. Exact(Queue', ItemOf', items', QueuedItems', QueuedMotion', QueuedControls')
  BY <1>1, <1>2, <1>3, <1>4, <1>8, <1>9, <1>10, OrderOfSameItems DEF Exact
<1> QED
  BY <1>11, CountersSayExactly
LEMMA PublicationKeepsCounters ==
  ASSUME ChannelInvariant, IngressTypeOK, HostInStep, RecordsInStep,
         SlotsHaveOneHolder, CountersAreExact, IngressPublishes
  PROVE  CountersAreExact'
<1>1. Exact(Queue, ItemOf, items, QueuedItems, QueuedMotion, QueuedControls)
  BY CountersSayExactly
<1>2. /\ Queue \in Seq(Values) /\ producer.value \in Values
      /\ Queue' = Append(Queue, producer.value)
  BY QueueIsOfRecords, PublicationEntersQueue
<1>3. ItemOf' = ItemOf /\ ItemOf \in [PlanSlots -> Nat]
  BY DEF ItemOf, IngressPublishes, IngressTypeOK
<1>4. /\ UNCHANGED <<counters, servo>> /\ host' = Idle /\ Idle.at = "idle"
      /\ m_planSlots' = m_planSlots
      /\ items' = IF host.at = "pushPlan" THEN items + 1 ELSE items
      /\ producer.at # "idle"
  BY DEF IngressPublishes, PushPublishes, Idle
<1>5. /\ m_queuedExecutionItems \in Int /\ m_queuedNormalMotionNanoseconds \in Int
      /\ m_queuedControls \in Int /\ items \in Nat /\ host.slot \in PlanSlots
      /\ QueuedItems \in Int /\ QueuedMotion \in Int /\ QueuedControls \in Int
  <2>1. host.slot \in PlanSlots /\ m_planSlots[host.slot].item \in Int
    BY DEF IngressTypeOK
  <2> QED
    BY <2>1 DEF IngressTypeOK, QueuedItems, QueuedMotion, QueuedControls, One
<1>6. Cardinality(ControlsOf(Queue')) = Cardinality(ControlsOf(Queue))
          + (IF producer.value = Control THEN 1 ELSE 0)
  BY <1>2, AppendedControls
<1>7. CASE host.at = "pushPlan"
  <2>1. /\ producer.value = PublishedPlan(host.slot)
        /\ m_planSlots[host.slot].item = items + 1
    BY <1>7 DEF HostInStep, RecordsInStep
  <2>2. producer.value # Control
    BY <2>1 DEF PublishedPlan, Control
  <2>3. /\ QueuedItems' = QueuedItems + 1 /\ QueuedControls' = QueuedControls
        /\ QueuedMotion' = QueuedMotion + items + 1
    BY <1>4, <1>5, <1>7, <2>1 DEF QueuedItems, QueuedMotion, QueuedControls, One, counters
  <2>4. items' = items + 1 /\ QueuedItems' \in 0 .. items'
    BY <1>1, <1>4, <1>5, <1>7, <2>3 DEF Exact
  <2>5. items' - QueuedItems' + 1 = items - QueuedItems + 1
        /\ items' - QueuedItems' = items - QueuedItems
    BY <1>5, <2>3, <2>4
  <2>6. InOrder(Queue', ItemOf', items' - QueuedItems' + 1, items')
    <3>1. ItemOf[host.slot] = items + 1
      BY <1>5, <2>1 DEF ItemOf
    <3>2. items - QueuedItems + 1 <= items + 1 /\ items - QueuedItems + 1 \in Int
      BY <1>1, <1>5 DEF Exact
    <3>3. InOrder(Append(Queue, PublishedPlan(host.slot)), ItemOf,
                  items - QueuedItems + 1, items + 1)
      BY <1>1, <1>2, <1>3, <1>5, <3>1, <3>2, PlanEntersInOrder DEF Exact
    <3> QED
      BY <1>2, <1>3, <2>1, <2>4, <2>5, <3>3
  <2>7. QueuedMotion' = Together(items') - Together(items' - QueuedItems')
    <3>1. Together(items) \in Int /\ Together(items + 1) = Together(items) + items + 1
      BY <1>5, TogetherNext
    <3>2. items - QueuedItems \in Nat
      BY <1>1, <1>5 DEF Exact
    <3>3. Together(items - QueuedItems) \in Int
      BY <3>2, TogetherNext
    <3>4. QueuedMotion = Together(items) - Together(items - QueuedItems)
      BY <1>1 DEF Exact
    <3> QED
      BY <1>5, <2>3, <2>4, <2>5, <3>1, <3>3, <3>4
  <2>8. QueuedControls' = Cardinality(ControlsOf(Queue'))
    <3>1. Cardinality(ControlsOf(Queue)) \in Nat
      BY <1>2, ControlsAreFinite
    <3> QED
      BY <1>1, <1>6, <2>2, <2>3, <3>1 DEF Exact
  <2> QED
    BY <2>4, <2>6, <2>7, <2>8, CountersSayExactly DEF Exact
<1>8. CASE host.at = "pushControl"
  <2>1. producer.value = Control
    BY <1>8 DEF HostInStep
  <2>2. /\ QueuedItems' = QueuedItems /\ QueuedControls' = QueuedControls + 1
        /\ QueuedMotion' = QueuedMotion /\ items' = items
    BY <1>4, <1>5, <1>8 DEF QueuedItems, QueuedMotion, QueuedControls, One, counters
  <2>3. InOrder(Queue', ItemOf', items' - QueuedItems' + 1, items')
    BY <1>1, <1>2, <1>3, <2>1, <2>2, ControlEntersInOrder DEF Exact
  <2>4. QueuedControls' = Cardinality(ControlsOf(Queue'))
    BY <1>1, <1>6, <2>1, <2>2 DEF Exact
  <2> QED
    BY <1>1, <2>2, <2>3, <2>4, CountersSayExactly DEF Exact
<1> QED
  BY <1>4, <1>7, <1>8 DEF HostInStep

LEMMA ServoKeepsCounters ==
  ASSUME ChannelInvariant, IngressTypeOK, ServoInStep, RecordsInStep,
         SlotsHaveOneHolder, CountersAreExact, ServoTick \/ LatchEmergencyStop
  PROVE  CountersAreExact'
<1>1. Exact(Queue, ItemOf, items, QueuedItems, QueuedMotion, QueuedControls)
  BY CountersSayExactly
<1>2. UNCHANGED <<host, items>> /\ Queue \in Seq(Values)
  BY ServoLeavesHost, QueueIsOfRecords
<1>3. ItemOf' = ItemOf /\ ItemOf \in [PlanSlots -> Nat]
  <2>1. ~ PublishFillsSlot
    BY <1>2 DEF PublishFillsSlot, Calls, IngressTypeOK
  <2> QED
    BY <2>1, ItemsStay DEF IngressNext, ItemOf, IngressTypeOK
<1>4. servo \in ServoType /\ Executing.at = "execution"
  BY DEF IngressTypeOK, ServoType, Executing
<1>5. /\ m_queuedExecutionItems \in Int /\ m_queuedNormalMotionNanoseconds \in Int
      /\ m_queuedControls \in Int /\ items \in Nat /\ host.slot \in PlanSlots
      /\ m_planSlots[host.slot].item \in Int /\ m_planSlots'[host.slot].item \in Int
      /\ QueuedItems \in Int /\ QueuedMotion \in Int /\ QueuedControls \in Int
      /\ m_planSlots'[host.slot].item = m_planSlots[host.slot].item
  <2>1. host.slot \in PlanSlots
    BY DEF IngressTypeOK
  <2>2. /\ m_planSlots[host.slot].item \in Int
        /\ m_planSlots'[host.slot].item = m_planSlots[host.slot].item
    BY <1>3, <2>1 DEF ItemOf, IngressTypeOK
  <2> QED
    BY <2>1, <2>2 DEF IngressTypeOK, QueuedItems, QueuedMotion, QueuedControls, One
<1>6. CASE ItemDequeued \/ RecordDiscarded
  <2>1. /\ Queue # <<>> /\ Queue[1] # Control /\ Queue[1] \in Values
        /\ servo'.slot = Queue[1].slot /\ Queue' = Without(Queue, 1)
    BY <1>6, ItemLeavesQueue
  <2>2. /\ UNCHANGED <<m_queuedExecutionItems, m_queuedControls>>
        /\ m_queuedNormalMotionNanoseconds'
               = m_queuedNormalMotionNanoseconds - m_planSlots[servo'.slot].item
        /\ servo.at \in {"execution", "discardRecord"}
        /\ servo'.at \in {"account", "discardAccount"}
    BY <1>6 DEF ItemDequeued, RecordDiscarded
  <2>3. Queue[1].slot \in PlanSlots
    BY <2>1, RecordKinds
  <2> DEFINE low == items - QueuedItems + 1
  <2>4. ItemOf[Queue[1].slot] = low /\ low <= items
        /\ InOrder(Queue', ItemOf, low + 1, items)
    <3>1. low \in Int /\ items \in Int /\ InOrder(Queue, ItemOf, low, items)
      BY <1>1, <1>5 DEF Exact
    <3> HIDE DEF low
    <3> QED
      BY <1>2, <1>3, <2>1, <3>1, PlanLeavesInOrder
  <2>5. /\ QueuedItems' = QueuedItems - 1 /\ QueuedControls' = QueuedControls
        /\ QueuedMotion' = QueuedMotion - low
    <3>1. m_planSlots[servo'.slot].item = low
      BY <2>1, <2>3, <2>4 DEF ItemOf
    <3>2. QueuedItems' = QueuedItems - 1
      BY <1>2, <1>5, <2>2 DEF QueuedItems, One
    <3>3. QueuedControls' = QueuedControls
      BY <1>2, <2>2 DEF QueuedControls
    <3>4. low \in Int
      BY <1>5
    <3> HIDE DEF low
    <3>5. QueuedMotion' = QueuedMotion - low
      BY <1>2, <1>5, <2>2, <3>1, <3>4 DEF QueuedMotion
    <3> QED
      BY <3>2, <3>3, <3>5
  <2>6. QueuedItems \in 1 .. items /\ QueuedItems' \in 0 .. items
    BY <1>1, <1>5, <2>4, <2>5 DEF Exact
  <2>7. InOrder(Queue', ItemOf', items' - QueuedItems' + 1, items')
    <3>1. items' - QueuedItems' + 1 = low + 1
      BY <1>2, <1>5, <2>5
    <3> QED
      BY <1>2, <1>3, <2>4, <3>1
  <2>8. QueuedMotion' = Together(items') - Together(items' - QueuedItems')
    <3>1. /\ items - QueuedItems \in Nat
          /\ items' - QueuedItems' = items - QueuedItems + 1
      BY <1>2, <1>5, <2>5, <2>6
    <3>2. /\ Together(items - QueuedItems) \in Int /\ Together(items) \in Int
          /\ Together(items - QueuedItems + 1)
                 = Together(items - QueuedItems) + (items - QueuedItems) + 1
      BY <1>5, <3>1, TogetherNext
    <3>3. QueuedMotion = Together(items) - Together(items - QueuedItems)
      BY <1>1 DEF Exact
    <3> QED
      BY <1>2, <1>5, <2>5, <3>1, <3>2, <3>3
  <2>9. QueuedControls' = Cardinality(ControlsOf(Queue'))
    <3>1. 1 \in 1 .. Len(Queue)
      BY <1>2, <2>1, EmptySeq
    <3>2. Cardinality(ControlsOf(Queue')) = Cardinality(ControlsOf(Queue)) - 0
      BY <1>2, <2>1, <3>1, RemovedControls
    <3>3. Cardinality(ControlsOf(Queue)) \in Nat
      BY <1>2, ControlsAreFinite
    <3> QED
      BY <1>1, <2>5, <3>2, <3>3 DEF Exact
  <2> QED
    BY <1>2, <2>6, <2>7, <2>8, <2>9, CountersSayExactly DEF Exact
<1>7. CASE RecordIsControl
  <2>1. PICK n \in 1 .. Len(Queue) : Queue[n] = Control /\ Queue' = Without(Queue, n)
    BY <1>7, ControlLeavesQueue
  <2>2. /\ QueuedItems' = QueuedItems /\ QueuedControls' = QueuedControls - 1
        /\ QueuedMotion' = QueuedMotion
    <3>1. /\ UNCHANGED <<m_queuedExecutionItems, m_queuedNormalMotionNanoseconds>>
          /\ m_queuedControls' = m_queuedControls - 1
          /\ servo.at \notin {"account", "discardAccount"}
          /\ servo'.at \notin {"account", "discardAccount"}
      BY <1>4, <1>7 DEF RecordIsControl, Ticks, ServoType
    <3> QED
      BY <1>2, <1>5, <3>1 DEF QueuedItems, QueuedMotion, QueuedControls, One
  <2>3. InOrder(Queue', ItemOf', items' - QueuedItems' + 1, items')
    BY <1>1, <1>2, <1>3, <2>1, <2>2, ControlLeavesInOrder DEF Exact
  <2>4. QueuedControls' = Cardinality(ControlsOf(Queue'))
    <3>1. Cardinality(ControlsOf(Queue')) = Cardinality(ControlsOf(Queue)) - 1
      BY <1>2, <2>1, RemovedControls
    <3> QED
      BY <1>1, <2>2, <3>1 DEF Exact
  <2> QED
    BY <1>1, <1>2, <2>2, <2>3, <2>4, CountersSayExactly DEF Exact
<1>8. CASE ~ ItemDequeued /\ ~ RecordDiscarded /\ ~ RecordIsControl
  <2>1. Queue' = Queue
    BY <1>8, ServoLeavesQueue, PopLeavesQueue, PlanLeavesQueue
       DEF ServoTick, LatchEmergencyStop
  <2>2. UNCHANGED <<m_queuedNormalMotionNanoseconds, m_queuedControls>>
    BY <1>8
       DEF ServoTick, LatchEmergencyStop, counters, DemandNotThere, DemandTaken,
           IngressEmpty, IngressPops, RecordIsPlan, ItemAccounted, ItemBegins, ItemDropped,
           ItemEnds, SlotReleased, TickEnds, IngressDiscarded, DiscardAccounted,
           DiscardReleased, DiscardEnds
  <2>3. QueuedMotion' = QueuedMotion /\ QueuedControls' = QueuedControls
    BY <1>2, <1>5, <2>2 DEF QueuedMotion, QueuedControls
  <2>4. QueuedItems' = QueuedItems
    <3> USE <1>2, <1>4, <1>5 DEF ServoType, Ticks, counters, PartAfter, QueuedItems, One
    <3>1. CASE DemandNotThere \/ DemandTaken \/ IngressEmpty \/ IngressPops
      BY <3>1 DEF DemandNotThere, DemandTaken, IngressEmpty, IngressPops
    <3>2. CASE RecordIsPlan \/ ItemAccounted \/ ItemDropped \/ TickEnds \/ SlotReleased
      BY <3>2 DEF RecordIsPlan, ItemAccounted, ItemDropped, TickEnds, SlotReleased
    <3>3. CASE ItemBegins \/ ItemEnds
      BY <3>3 DEF ItemBegins, ItemEnds
    <3>4. CASE IngressDiscarded \/ DiscardAccounted \/ DiscardReleased \/ DiscardEnds
      BY <3>4 DEF IngressDiscarded, DiscardAccounted, DiscardReleased, DiscardEnds
    <3> QED
      BY <1>8, <3>1, <3>2, <3>3, <3>4 DEF ServoTick, LatchEmergencyStop
  <2>5. Exact(Queue', ItemOf', items', QueuedItems', QueuedMotion', QueuedControls')
    BY <1>1, <1>2, <1>3, <2>1, <2>3, <2>4
  <2> QED
    BY <2>5, CountersSayExactly
<1> QED
  BY <1>6, <1>7, <1>8

-----------------------------------------------------------------------------
(* A demand finds its items.                                               *)

LEMMA RingIsOfQueue ==
  ASSUME IngressTypeOK, RecordsInStep, NEW i \in PlansOf(Contents)
  PROVE  Contents[i].slot \in QueueHolds(Queue)
<1>1. /\ Taken \in Seq(Values) /\ InHand \in Seq(Values) /\ Contents \in Seq(Values)
      /\ Queue = Taken \o InHand \o Contents
  BY QueueIsOfRecords
<1> DEFINE j == Len(Taken) + Len(InHand) + i
<1>2. /\ Len(Taken) \in Nat /\ Len(InHand) \in Nat /\ Len(Contents) \in Nat
      /\ i \in 1 .. Len(Contents) /\ Contents[i].kind = "PublishedPlan"
  BY <1>1, LenProperties DEF PlansOf
<1>3. /\ Len(Queue) = Len(Taken) + Len(InHand) + Len(Contents)
      /\ \A k \in 1 .. Len(Taken) + Len(InHand) + Len(Contents) :
             Queue[k] = IF k <= Len(Taken) THEN Taken[k]
                        ELSE IF k <= Len(Taken) + Len(InHand) THEN InHand[k - Len(Taken)]
                        ELSE Contents[k - Len(Taken) - Len(InHand)]
  BY <1>1, ThreeParts
<1>4. /\ j \in 1 .. Len(Taken) + Len(InHand) + Len(Contents)
      /\ ~ (j <= Len(Taken)) /\ ~ (j <= Len(Taken) + Len(InHand))
      /\ j - Len(Taken) - Len(InHand) = i
  BY <1>2
<1> HIDE DEF j
<1>5. Queue[j] = Contents[i]
  BY <1>3, <1>4
<1>6. j \in DOMAIN Queue
  BY <1>1, <1>3, <1>4, ThreeParts, LenProperties
<1> QED
  BY <1>2, <1>5, <1>6 DEF QueueHolds, PlansOf

InExecution == {"execution", "account", "dequeued", "release"}

LEMMA HostKeepsDemands ==
  ASSUME ChannelInvariant, MailboxInvariant, IngressTypeOK, HostInStep, RecordsInStep,
         DemandsInOrder, SlotsHaveOneHolder, DemandsFindTheirItems,
         TryPublish \/ TrySubmit \/ TryPush \/ PublishDemand
  PROVE  DemandsFindTheirItems'
<1> SUFFICES ASSUME servo'.at \in InExecution, value' > 0
             PROVE  \A i \in PlansOf(Contents') :
                        ItemOf'[Contents'[i].slot] > preceding'[value']
  BY DEF DemandsFindTheirItems, InExecution, PlansOf
<1>1. servo' = servo /\ value' = value /\ servo.at \in InExecution /\ value > 0
  BY HostLeavesServo
<1>2. /\ preceding \in Seq(Nat) /\ DOMAIN preceding = 1 .. Len(preceding)
      /\ Len(preceding) \in Nat /\ value \in Nat /\ value \in 1 .. Len(preceding)
      /\ items \in Nat
  <2>1. /\ preceding \in Seq(Nat) /\ Len(preceding) \in Nat
        /\ DOMAIN preceding = 1 .. Len(preceding)
        /\ value \in Nat /\ value <= Len(preceding) /\ items \in Nat
    BY LenProperties DEF IngressTypeOK, MailboxInvariant, MailboxTypeOK, DemandsInOrder
  <2> QED
    BY <1>1, <2>1
<1>3. \A i \in PlansOf(Contents) : ItemOf[Contents[i].slot] > preceding[value]
  BY <1>1 DEF DemandsFindTheirItems, InExecution
<1>4. \A i \in PlansOf(Contents) : ItemOf'[Contents[i].slot] = ItemOf[Contents[i].slot]
  BY RingIsOfQueue, ItemsOfQueueStay DEF IngressNext
<1>5. preceding'[value] = preceding[value]
  <2>1. CASE DemandPublished
    BY <1>2, <2>1, AppendProperties DEF DemandPublished
  <2>2. CASE ~ DemandPublished
    <3>1. preceding' = preceding
      BY <2>2
         DEF history, TryPublish, PublishBegins, PublishSkipsSlot, PublishTakesSlot,
             PublishFillsSlot, PublishCountsItem, PublishUncountsMotion,
             PublishUncountsItem, PublishFreesSlot, TrySubmit, SubmitTakesCredit,
             SubmitReturnsCredit, TryPush, IngressChecksSpace, IngressRefuses,
             IngressWritesSlot, IngressPublishes, PublishDemand, DemandWritten
    <3> QED
      BY <3>1
  <2> QED
    BY <2>1, <2>2
<1>6. CASE IngressPublishes
  <2>1. /\ producer.value \in Values /\ Contents \in Seq(Values)
        /\ Contents' = Append(Contents, producer.value)
        /\ producer.at # "idle"
    BY <1>6, RingGrows DEF IngressPublishes, RecordsInStep, PushPublishes
  <2>2. /\ PlansOf(Contents') = PlansOf(Contents)
               \cup (IF producer.value = Control THEN {} ELSE {Len(Contents) + 1})
        /\ \A i \in PlansOf(Contents) : Contents'[i] = Contents[i]
        /\ Contents'[Len(Contents) + 1] = producer.value
    BY <2>1, AppendedRecord
  <2>3. CASE host.at = "pushPlan"
    <3>1. /\ producer.value.slot = host.slot /\ host.slot \in PlanSlots
          /\ m_planSlots[host.slot].item = items + 1 /\ m_planSlots' = m_planSlots
      BY <1>6, <2>3
         DEF HostInStep, RecordsInStep, PublishedPlan, IngressTypeOK, IngressPublishes
    <3>2. ItemOf'[producer.value.slot] = items + 1
      BY <3>1 DEF ItemOf
    <3>3. preceding[value] <= items /\ preceding[value] \in Nat
      BY <1>2 DEF DemandsInOrder
    <3>4. ItemOf'[Contents'[Len(Contents) + 1].slot] > preceding[value]
      BY <1>2, <2>2, <3>2, <3>3
    <3> QED
      BY <1>1, <1>3, <1>4, <1>5, <2>2, <3>4
  <2>4. CASE host.at = "pushControl"
    <3>1. producer.value = Control
      BY <2>4 DEF HostInStep
    <3>2. PlansOf(Contents') = PlansOf(Contents)
      BY <2>2, <3>1
    <3> QED
      BY <1>1, <1>3, <1>4, <1>5, <2>2, <3>2
  <2> QED
    BY <2>1, <2>3, <2>4 DEF HostInStep
<1>7. CASE ~ IngressPublishes
  <2>1. Contents' = Contents
    <3>1. CASE IngressChecksSpace
      <4>1. \E v \in Values : PushChecksSpace(v)
        BY <3>1, RecordsAreValues DEF IngressChecksSpace, IngressTypeOK
      <4> QED
        BY <4>1, RingIsQuiet
    <3>2. CASE IngressRefuses \/ IngressWritesSlot
      BY <3>2, RingIsQuiet DEF IngressRefuses, IngressWritesSlot
    <3>3. CASE TryPublish \/ TrySubmit \/ PublishDemand
      <4>1. UNCHANGED vars
        BY <3>3 DEF TryPublish, PublishBegins, PublishSkipsSlot, PublishTakesSlot,
                    PublishFillsSlot, PublishCountsItem, PublishUncountsMotion,
                    PublishUncountsItem, PublishFreesSlot, TrySubmit, SubmitTakesCredit,
                    SubmitReturnsCredit, PublishDemand, DemandWritten, DemandPublished
      <4> QED
        BY <4>1, RingIsQuiet
    <3> QED
      BY <1>7, <3>1, <3>2, <3>3 DEF TryPush
  <2> QED
    BY <1>1, <1>3, <1>4, <1>5, <2>1
<1> QED
  BY <1>6, <1>7

LEMMA ServoKeepsDemands ==
  ASSUME ChannelInvariant, IngressTypeOK, ServoInStep, RecordsInStep,
         DemandsFindTheirItems, ServoTick \/ LatchEmergencyStop
  PROVE  DemandsFindTheirItems'
<1> SUFFICES ASSUME servo'.at \in InExecution, value' > 0
             PROVE  \A i \in PlansOf(Contents') :
                        ItemOf'[Contents'[i].slot] > preceding'[value']
  BY DEF DemandsFindTheirItems, InExecution, PlansOf
<1>1. servo \in ServoType
  BY DEF IngressTypeOK, ServoType
<1>2. IngressEmpty \/ ItemDequeued \/ ItemAccounted \/ ItemBegins \/ ItemDropped
         \/ ItemEnds \/ SlotReleased
  <2> USE <1>1 DEF ServoType, Ticks, PartAfter, InExecution
  <2>1. CASE DemandNotThere \/ DemandTaken \/ IngressPops
    BY <2>1 DEF DemandNotThere, DemandTaken, IngressPops
  <2>2. CASE RecordIsPlan \/ RecordIsControl \/ TickEnds
    BY <2>2 DEF RecordIsPlan, RecordIsControl, TickEnds
  <2>3. CASE LatchEmergencyStop
    BY <2>3 DEF LatchEmergencyStop, IngressDiscarded, RecordDiscarded, DiscardAccounted,
                DiscardReleased, DiscardEnds
  <2> QED
    BY <2>1, <2>2, <2>3 DEF ServoTick
<1>3. CASE IngressEmpty
  <2>1. Contents' = Contents /\ Contents = <<>>
    BY <1>3, RingIsQuiet, RingIsEmpty DEF IngressEmpty
  <2> QED
    BY <2>1 DEF PlansOf
<1>4. CASE ~ IngressEmpty
  <2>1. /\ UNCHANGED <<vars, preceding, value>> /\ servo.at \in InExecution
        /\ \A slot \in PlanSlots : m_planSlots'[slot].item = m_planSlots[slot].item
    <3>1. UNCHANGED <<vars, preceding, value>>
      BY <1>2, <1>4
         DEF ItemDequeued, ItemAccounted, ItemBegins, ItemDropped, ItemEnds, SlotReleased,
             history, mailboxVars
    <3>2. servo.at \in InExecution
      BY <1>2, <1>4
         DEF ItemDequeued, ItemAccounted, ItemBegins, ItemDropped, ItemEnds, SlotReleased,
             Ticks, InExecution
    <3>3. ~ PublishFillsSlot
      <4>1. host' = host
        BY ServoLeavesHost
      <4> QED
        BY <4>1 DEF PublishFillsSlot, Calls, IngressTypeOK
    <3>4. ItemOf' = ItemOf
      BY <3>3, ItemsStay DEF IngressNext
    <3> QED
      BY <3>1, <3>2, <3>4 DEF ItemOf
  <2>2. Contents' = Contents
    BY <2>1, RingIsQuiet
  <2>3. ItemOf' = ItemOf
    BY <2>1 DEF ItemOf
  <2>4. \A i \in PlansOf(Contents) : ItemOf[Contents[i].slot] > preceding[value]
    BY <2>1 DEF DemandsFindTheirItems, InExecution
  <2> QED
    BY <2>1, <2>2, <2>3, <2>4
<1> QED
  BY <1>3, <1>4

-----------------------------------------------------------------------------
(* The theorems.                                                           *)

LEMMA InitIngressInvariant == IngressInit => IngressInvariant
<1> SUFFICES ASSUME IngressInit
             PROVE  IngressInvariant
  OBVIOUS
<1>1. ChannelInvariant /\ MailboxInvariant /\ IngressTypeOK
  BY InitChannelInvariant, InitMailboxInvariant, InitIngressTypeOK DEF IngressInit
<1>2. Contents = <<>>
  <2>1. m_head = m_tail /\ m_head \in Slots /\ m_tail \in Slots
    BY <1>1 DEF IngressInit, Init, ChannelInvariant, TypeOK
  <2>2. Used = 0
    BY <2>1, UsedBounds
  <2> QED
    BY <2>2 DEF Contents
<1>3. /\ host = Idle /\ Idle.at = "idle" /\ servo.at = "demand"
      /\ producer.at = "idle" /\ consumer.at = "idle"
      /\ publisher = "idle" /\ poller = "idle"
      /\ m_plans = <<>> /\ m_active = {} /\ items = 0 /\ preceding = <<>>
      /\ published = 0 /\ value = 0
      /\ m_queuedExecutionItems = 0 /\ m_queuedNormalMotionNanoseconds = 0
      /\ m_queuedControls = 0
      /\ \A slot \in PlanSlots : ~ m_planSlots[slot].occupied
  BY DEF IngressInit, Init, MailboxInit, Idle
<1>4. HostInStep /\ ServoInStep
  BY <1>3 DEF HostInStep, ServoInStep
<1>5. RecordsInStep
  BY <1>2, <1>3 DEF RecordsInStep
<1>6. DemandsInOrder
  BY <1>3 DEF DemandsInOrder
<1>7. Queue = <<>>
  <2>1. Taken = <<>> /\ InHand = <<>>
    BY <1>3 DEF Taken, InHand
  <2>2. Queue = Taken \o InHand \o Contents
    BY <1>1, <1>5, QueueIsOfRecords
  <2> QED
    BY <1>2, <2>1, <2>2
<1>8. PlansOf(Queue) = {} /\ ControlsOf(Queue) = {} /\ QueueHolds(Queue) = {}
  BY <1>7 DEF PlansOf, ControlsOf, QueueHolds
<1>9. SlotsHaveOneHolder
  <2>1. HostHolds = {} /\ ServoHolds = {} /\ Occupied = {}
    BY <1>3 DEF HostHolds, ServoHolds, Occupied
  <2> QED
    BY <1>3, <1>8, <2>1, HoldersAreHeldOnce DEF HeldOnce
<1>10. CountersAreExact
  <2>1. QueuedItems = 0 /\ QueuedMotion = 0 /\ QueuedControls = 0
    <3>1. host.at = "idle" /\ servo.at = "demand"
      BY <1>3
    <3>2. /\ One(host.at \in {"push", "pushPlan", "full", "uncount"}) = 0
          /\ One(servo.at \in {"account", "discardAccount"}) = 0
          /\ One(host.at \in {"submit", "refused", "pushControl"}) = 0
      BY <3>1 DEF One
    <3>3. QueuedItems = 0
      BY <1>3, <3>2 DEF QueuedItems
    <3>4. QueuedMotion = 0
      BY <1>3, <3>1 DEF QueuedMotion
    <3>5. QueuedControls = 0
      BY <1>3, <3>2 DEF QueuedControls
    <3> QED
      BY <3>3, <3>4, <3>5
  <2>2. InOrder(Queue, ItemOf, 1, 0)
    BY <1>8 DEF InOrder
  <2>3. Together(0) = 0
    BY DEF Together
  <2>4. Cardinality({}) = 0
    BY FS_EmptySet
  <2>5. InOrder(Queue, ItemOf, items - QueuedItems + 1, items)
    BY <1>3, <2>1, <2>2
  <2>6. QueueIsTheNewest
    BY <1>3, <2>1, <2>5 DEF QueueIsTheNewest
  <2> QED
    BY <1>3, <1>8, <2>1, <2>3, <2>4, <2>6 DEF CountersAreExact
<1>11. DemandsFindTheirItems
  BY <1>3 DEF DemandsFindTheirItems
<1> QED
  BY <1>1, <1>4, <1>5, <1>6, <1>9, <1>10, <1>11 DEF IngressInvariant

LEMMA NextIngressInvariant ==
  IngressInvariant /\ [IngressNext]_ingressVars => IngressInvariant'
<1> SUFFICES ASSUME IngressInvariant, [IngressNext]_ingressVars
             PROVE  IngressInvariant'
  OBVIOUS
<1> USE DEF IngressInvariant
<1>1. ChannelInvariant' /\ MailboxInvariant'
  BY StepOfChannels, NextChannelInvariant, NextMailboxInvariant
<1>2. IngressTypeOK'
  BY NextIngressTypeOK
<1>3. HostInStep' /\ ServoInStep' /\ RecordsInStep'
  BY NextHostInStep, NextServoInStep, NextRecordsInStep
<1>4. DemandsInOrder'
  BY NextDemandsInOrder
<1>5. CASE UNCHANGED ingressVars
  <2>1. UNCHANGED <<vars, m_plans, servo, host, m_active, m_planSlots, counters, items,
                    value, preceding>>
    BY <1>5 DEF ingressVars, core, history, mailboxVars
  <2>2. Queue' = Queue /\ Contents' = Contents
    BY <2>1, RingIsQuiet, QueueUnmoved
  <2>3. ItemOf' = ItemOf /\ Occupied' = Occupied
    BY <2>1 DEF ItemOf, Occupied
  <2>4. HostHolds' = HostHolds /\ ServoHolds' = ServoHolds
    BY <2>1 DEF HostHolds, ServoHolds
  <2>5. /\ QueuedItems' = QueuedItems /\ QueuedMotion' = QueuedMotion
        /\ QueuedControls' = QueuedControls
    BY <2>1 DEF counters, QueuedItems, QueuedMotion, QueuedControls, One
  <2>6. SlotsHaveOneHolder'
    BY <2>1, <2>2, <2>3, <2>4, HoldersAreHeldOnce
  <2>7. CountersAreExact'
    BY <2>1, <2>2, <2>3, <2>5, CountersSayExactly
  <2>8. DemandsFindTheirItems'
    BY <2>1, <2>2, <2>3 DEF DemandsFindTheirItems, PlansOf
  <2> QED
    BY <1>1, <1>2, <1>3, <1>4, <2>6, <2>7, <2>8
<1>6. CASE TryPublish \/ TrySubmit \/ TryPush \/ PublishDemand
  <2>1. SlotsHaveOneHolder'
    BY <1>6, HostKeepsHolders
  <2>2. CountersAreExact'
    BY <1>6, HostKeepsCounters, PublicationKeepsCounters DEF TryPush
  <2>3. DemandsFindTheirItems'
    BY <1>6, HostKeepsDemands
  <2> QED
    BY <1>1, <1>2, <1>3, <1>4, <2>1, <2>2, <2>3
<1>7. CASE ServoTick \/ LatchEmergencyStop
  <2>1. SlotsHaveOneHolder'
    BY <1>7, ServoKeepsHolders DEF CountersAreExact
  <2>2. CountersAreExact'
    BY <1>7, ServoKeepsCounters
  <2>3. DemandsFindTheirItems'
    BY <1>7, ServoKeepsDemands
  <2> QED
    BY <1>1, <1>2, <1>3, <1>4, <2>1, <2>2, <2>3
<1> QED
  BY <1>5, <1>6, <1>7 DEF IngressNext

LEMMA IngressInvariantHolds == IngressSpec => []IngressInvariant
  BY InitIngressInvariant, NextIngressInvariant, PTL DEF IngressSpec

\* The ingress uses the ring as its two ends: every behaviour of it is one of the ring's ...
THEOREM IngressUsesChannel == IngressSpec => Spec
<1>1. IngressInit => Init
  BY DEF IngressInit
<1>2. IngressInvariant /\ [IngressNext]_ingressVars => [Next]_vars
  BY StepOfChannels DEF IngressInvariant
<1> QED
  BY <1>1, <1>2, IngressInvariantHolds, PTL DEF IngressSpec, Spec

\* ... and of the mailbox's.
THEOREM IngressUsesMailbox == IngressSpec => MailboxSpec
<1>1. IngressInit => MailboxInit
  BY DEF IngressInit
<1>2. IngressInvariant /\ [IngressNext]_ingressVars => [MailboxNext]_mailboxVars
  BY StepOfChannels DEF IngressInvariant
<1> QED
  BY <1>1, <1>2, IngressInvariantHolds, PTL DEF IngressSpec, MailboxSpec

\* The two threads of ProductionExecutorCore never meet on a slot of m_ingress.
THEOREM IngressHasNoDataRace == IngressSpec => []NoDataRace
  BY IngressUsesChannel, ChannelHasNoDataRace, PTL

\* m_ingress is a bounded FIFO to them ...
THEOREM IngressImplementsFifo == IngressSpec => ImplementsFifo
  BY IngressUsesChannel, ChannelImplementsFifo, PTL

\* ... and m_demandMailbox the newest demand.
THEOREM IngressImplementsLatestValue == IngressSpec => ImplementsLatestValue
  BY IngressUsesMailbox, MailboxImplementsLatestValue, PTL

\* Every variable keeps its type: slots stay slots, and the threads where they can be.
THEOREM IngressTypeCorrect == IngressSpec => []IngressTypeOK
<1>1. IngressInvariant => IngressTypeOK
  BY DEF IngressInvariant
<1> QED
  BY <1>1, IngressInvariantHolds, PTL

\* Every occupied plan slot has one holder and the counters are exact, wherever both
\* threads are: no slot is lost or lent twice, and no counter wraps.
THEOREM CreditsAlwaysMatchWork == IngressSpec => []CreditsMatchWork
<1>1. IngressInvariant => CreditsMatchWork
  BY DEF IngressInvariant, CreditsMatchWork
<1> QED
  BY <1>1, IngressInvariantHolds, PTL

\* A demand is acted upon together with everything published before it.
THEOREM DemandsAlwaysFindTheirItems == IngressSpec => []DemandsFindTheirItems
<1>1. IngressInvariant => DemandsFindTheirItems
  BY DEF IngressInvariant
<1> QED
  BY <1>1, IngressInvariantHolds, PTL
=============================================================================
