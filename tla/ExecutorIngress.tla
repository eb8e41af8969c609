---------------------------- MODULE ExecutorIngress ----------------------------
(***************************************************************************)
(* How work reaches ProductionExecutorCore                                 *)
(* (src/src/ProductionExecutorCore.cpp): the host thread publishes items   *)
(* and demands and submits controls while the servo thread takes them in   *)
(* its tick.                                                               *)
(*                                                                         *)
(* The core holds one SpscChannel, m_ingress, and one LatestValueMailbox,  *)
(* m_demandMailbox, and the two threads are the two ends of both.  Beside  *)
(* them they share the plan slots, which the ring carries by their index,  *)
(* and three atomic counters of what is queued.  Every access of a shared  *)
(* word is a step.                                                         *)
(*                                                                         *)
(* An item is the number of its publication, and takes that many           *)
(* nanoseconds.  The counters are unsigned in the code: a value below zero *)
(* stands for one that has wrapped.                                        *)
(***************************************************************************)
EXTENDS SpscChannel, LatestValueMailbox, FiniteSets

CONSTANTS
    PlanCapacity,       \* PLAN_CAPACITY
    ControlCapacity,    \* CONTROL_CAPACITY
    MaxItems,           \* bound on the items that are published
    MaxControls         \* bound on the calls of trySubmit

PlanSlots == 0 .. PlanCapacity - 1
PublishedPlan(slot) == [kind |-> "PublishedPlan", slot |-> slot]
Control == [kind |-> "Control", slot |-> 0]
IngressRecords == {PublishedPlan(slot) : slot \in PlanSlots} \cup {Control}

ASSUME IngressAssumption ==
    /\ PlanCapacity \in Nat \ {0} /\ ControlCapacity \in Nat \ {0}
    /\ MaxItems \in Nat /\ MaxControls \in Nat
    /\ Values = IngressRecords

Idle == [at |-> "idle", slot |-> 0]
Executing == [at |-> "execution", slot |-> 0]

VARIABLES
    m_planSlots,                        \* [occupied, item] of every plan slot
    m_queuedExecutionItems,
    m_queuedNormalMotionNanoseconds,
    m_queuedControls,
    m_plans,    \* the slots the servo thread has taken from the ring
    m_active,   \* {the slot of the active item} or {}
    host,       \* [at, slot]: the call the host thread is in
    servo,      \* [at, slot]: the part of the tick the servo thread is in
    items,      \* history: number of the newest item
    controls,   \* history: calls of trySubmit
    preceding   \* history: for every demand, the number of the newest item before it

counters == <<m_queuedExecutionItems, m_queuedNormalMotionNanoseconds, m_queuedControls>>
core == <<m_plans, m_active>>
history == <<items, controls, preceding>>
ingressVars == <<vars, mailboxVars, m_planSlots, counters, core, host, servo, history>>

IngressInit ==
    /\ Init /\ MailboxInit
    /\ m_planSlots = [slot \in PlanSlots |-> [occupied |-> FALSE, item |-> 0]]
    /\ m_queuedExecutionItems = 0
    /\ m_queuedNormalMotionNanoseconds = 0
    /\ m_queuedControls = 0
    /\ m_plans = <<>> /\ m_active = {}
    /\ host = Idle
    /\ servo = [at |-> "demand", slot |-> 0]
    /\ items = 0 /\ controls = 0 /\ preceding = <<>>

Calls(at, next) == host.at = at /\ host' = [host EXCEPT !.at = next]
Ticks(at, next) == servo.at = at /\ servo' = [servo EXCEPT !.at = next]

-----------------------------------------------------------------------------
(* tryPublish *)

PublishBegins ==
    /\ Calls("idle", "scan")
    /\ UNCHANGED <<vars, mailboxVars, m_planSlots, counters, core, servo, history>>

PublishSkipsSlot ==
    /\ host.at = "scan" /\ m_planSlots[host.slot].occupied
    /\ host' = IF host.slot + 1 \in PlanSlots THEN [host EXCEPT !.slot = @ + 1]
                                              ELSE Idle
    /\ UNCHANGED <<vars, mailboxVars, m_planSlots, counters, core, servo, history>>

PublishTakesSlot ==
    /\ ~ m_planSlots[host.slot].occupied /\ items < MaxItems
    /\ Calls("scan", "fill")
    /\ m_planSlots' = [m_planSlots EXCEPT ![host.slot].occupied = TRUE]
    /\ UNCHANGED <<vars, mailboxVars, counters, core, servo, history>>

PublishFillsSlot ==
    /\ Calls("fill", "count")
    /\ m_planSlots' = [m_planSlots EXCEPT ![host.slot].item = items + 1]
    /\ m_queuedNormalMotionNanoseconds' = m_queuedNormalMotionNanoseconds + items + 1
    /\ UNCHANGED <<vars, mailboxVars, m_queuedExecutionItems, m_queuedControls, core, servo,
                   history>>

PublishCountsItem ==
    /\ Calls("count", "push")
    /\ m_queuedExecutionItems' = m_queuedExecutionItems + 1
    /\ UNCHANGED <<vars, mailboxVars, m_planSlots, m_queuedNormalMotionNanoseconds,
                   m_queuedControls, core, servo, history>>

\* The ring is full: the publication is taken back.
PublishUncountsMotion ==
    /\ Calls("full", "uncount")
    /\ m_queuedNormalMotionNanoseconds' =
           m_queuedNormalMotionNanoseconds - m_planSlots[host.slot].item
    /\ UNCHANGED <<vars, mailboxVars, m_planSlots, m_queuedExecutionItems, m_queuedControls,
                   core, servo, history>>

PublishUncountsItem ==
    /\ Calls("uncount", "free")
    /\ m_queuedExecutionItems' = m_queuedExecutionItems - 1
    /\ UNCHANGED <<vars, mailboxVars, m_planSlots, m_queuedNormalMotionNanoseconds,
                   m_queuedControls, core, servo, history>>

PublishFreesSlot ==
    /\ host.at = "free" /\ host' = Idle
    /\ m_planSlots' = [m_planSlots EXCEPT ![host.slot].occupied = FALSE]
    /\ UNCHANGED <<vars, mailboxVars, counters, core, servo, history>>

-----------------------------------------------------------------------------
(* trySubmit, and the push both calls end with *)

SubmitTakesCredit ==
    /\ host.at = "idle" /\ controls < MaxControls
    /\ m_queuedControls' = m_queuedControls + 1
    /\ host' = [host EXCEPT !.at = IF m_queuedControls >= ControlCapacity THEN "refused"
                                   ELSE "submit"]
    /\ controls' = controls + 1
    /\ UNCHANGED <<vars, mailboxVars, m_planSlots, m_queuedExecutionItems,
                   m_queuedNormalMotionNanoseconds, core, servo, items, preceding>>

SubmitReturnsCredit ==
    /\ Calls("refused", "idle")
    /\ m_queuedControls' = m_queuedControls - 1
    /\ UNCHANGED <<vars, mailboxVars, m_planSlots, m_queuedExecutionItems,
                   m_queuedNormalMotionNanoseconds, core, servo, history>>

IngressChecksSpace ==
    /\ \/ host.at = "push" /\ PushChecksSpace(PublishedPlan(host.slot))
       \/ host.at = "submit" /\ PushChecksSpace(Control)
    /\ host' = [host EXCEPT !.at = IF host.at = "push" THEN "pushPlan" ELSE "pushControl"]
    /\ UNCHANGED <<mailboxVars, m_planSlots, counters, core, servo, history>>

IngressRefuses ==
    /\ host.at \in {"push", "submit"} /\ PushRefused
    /\ host' = [host EXCEPT !.at = IF host.at = "push" THEN "full" ELSE "refused"]
    /\ UNCHANGED <<mailboxVars, m_planSlots, counters, core, servo, history>>

IngressWritesSlot ==
    /\ PushWritesSlot
    /\ UNCHANGED <<mailboxVars, m_planSlots, counters, core, host, servo, history>>

IngressPublishes ==
    /\ PushPublishes
    /\ host' = Idle
    /\ items' = IF host.at = "pushPlan" THEN items + 1 ELSE items
    /\ UNCHANGED <<mailboxVars, m_planSlots, counters, core, servo, controls, preceding>>

-----------------------------------------------------------------------------
(* publishDemand *)

DemandWritten ==
    /\ Calls("idle", "demand") /\ PublishWritesBack
    /\ UNCHANGED <<vars, m_planSlots, counters, core, servo, history>>

DemandPublished ==
    /\ Calls("demand", "idle") /\ PublishExchanges
    /\ preceding' = Append(preceding, items)
    /\ UNCHANGED <<vars, m_planSlots, counters, core, servo, items, controls>>

-----------------------------------------------------------------------------
(* The tick: serviceDemand, serviceIngress, and what the execution takes *)

\* Mutant of PartAfter: the ingress is emptied before the demand is read.
PartAfterIngressFirst(part) ==
    CASE part = "ingress" -> "demand" [] part = "demand" -> "execution"
      [] part = "execution" -> "ingress"

\* The order of servoTick.
PartAfter(part) ==
    CASE part = "demand" -> "ingress" [] part = "ingress" -> "execution"
      [] part = "execution" -> "demand"

DemandNotThere ==
    /\ Ticks("demand", PartAfter("demand")) /\ ConsumeFindsNothing
    /\ UNCHANGED <<vars, m_planSlots, counters, core, host, history>>

DemandTaken ==
    /\ servo.at = "demand"
    /\ \/ (ConsumeFindsDirty \/ ConsumeExchanges) /\ UNCHANGED servo
       \/ ConsumeCopies /\ servo' = [servo EXCEPT !.at = PartAfter("demand")]
    /\ UNCHANGED <<vars, m_planSlots, counters, core, host, history>>

IngressEmpty ==
    /\ Ticks("ingress", PartAfter("ingress")) /\ PopRefused
    /\ UNCHANGED <<mailboxVars, m_planSlots, counters, core, host, history>>

IngressPops ==
    /\ servo.at \in {"ingress", "discard"}
    /\ \/ (PopChecksData \/ PopReadsSlot) /\ UNCHANGED servo
       \/ PopReleases /\ servo' = [servo EXCEPT !.at = IF servo.at = "ingress" THEN "record"
                                                      ELSE "discardRecord"]
    /\ UNCHANGED <<mailboxVars, m_planSlots, counters, core, host, history>>

\* m_plans has room for as many slots as there are.
RecordIsPlan ==
    /\ Ticks("record", "ingress") /\ received.kind = "PublishedPlan"
    /\ m_plans' = Append(m_plans, received.slot)
    /\ UNCHANGED <<vars, mailboxVars, m_planSlots, counters, m_active, host, history>>

RecordIsControl ==
    /\ Ticks("record", "ingress") \/ Ticks("discardRecord", "discard")
    /\ received = Control
    /\ m_queuedControls' = m_queuedControls - 1
    /\ UNCHANGED <<vars, mailboxVars, m_planSlots, m_queuedExecutionItems,
                   m_queuedNormalMotionNanoseconds, core, host, history>>

\* activateNext, selectContinuationOrStop and the discarding loops take the oldest item
\* and account for it first.
ItemDequeued ==
    /\ servo.at = "execution" /\ m_plans # <<>>
    /\ servo' = [at |-> "account", slot |-> Head(m_plans)]
    /\ m_plans' = Tail(m_plans)
    /\ m_queuedNormalMotionNanoseconds' =
           m_queuedNormalMotionNanoseconds - m_planSlots[Head(m_plans)].item
    /\ UNCHANGED <<vars, mailboxVars, m_planSlots, m_queuedExecutionItems, m_queuedControls,
                   m_active, host, history>>

ItemAccounted ==
    /\ Ticks("account", "dequeued")
    /\ m_queuedExecutionItems' = m_queuedExecutionItems - 1
    /\ UNCHANGED <<vars, mailboxVars, m_planSlots, m_queuedNormalMotionNanoseconds,
                   m_queuedControls, core, host, history>>

\* Mutant of ItemBegins: the slot of the continuation is released in place of the other.
ItemBeginsAndIsReleased ==
    /\ servo.at = "dequeued"
    /\ m_active' = {servo.slot}
    /\ servo' = IF m_active = {} THEN Executing
                ELSE [servo EXCEPT !.at = "release"]
    /\ UNCHANGED <<vars, mailboxVars, m_planSlots, counters, m_plans, host, history>>

\* It becomes the active item, and the one it continues is released.
ItemBegins ==
    /\ servo.at = "dequeued"
    /\ m_active' = {servo.slot}
    /\ servo' = IF m_active = {} THEN Executing
                ELSE [at |-> "release", slot |-> CHOOSE slot \in m_active : TRUE]
    /\ UNCHANGED <<vars, mailboxVars, m_planSlots, counters, m_plans, host, history>>

\* It is rejected or discarded.
ItemDropped ==
    /\ Ticks("dequeued", "release")
    /\ UNCHANGED <<vars, mailboxVars, m_planSlots, counters, core, host, history>>

\* The active item ends: it is finished, stopped or abandoned.
ItemEnds ==
    /\ servo.at = "execution" /\ m_active # {}
    /\ servo' = [at |-> "release", slot |-> CHOOSE slot \in m_active : TRUE]
    /\ m_active' = {}
    /\ UNCHANGED <<vars, mailboxVars, m_planSlots, counters, m_plans, host, history>>

\* release
SlotReleased ==
    /\ servo.at = "release" /\ servo' = Executing
    /\ m_planSlots' = [m_planSlots EXCEPT ![servo.slot].occupied = FALSE]
    /\ UNCHANGED <<vars, mailboxVars, counters, core, host, history>>

TickEnds ==
    /\ Ticks("execution", PartAfter("execution"))
    /\ UNCHANGED <<vars, mailboxVars, m_planSlots, counters, core, host, history>>

-----------------------------------------------------------------------------
(* latchEmergencyStop, before a tick: what is left of the execution is discarded as      *)
(* above, and then the ingress.                                                          *)

IngressDiscarded ==
    /\ Ticks("execution", "discard")
    /\ m_plans = <<>> /\ m_active = {}
    /\ UNCHANGED <<vars, mailboxVars, m_planSlots, counters, core, host, history>>

RecordDiscarded ==
    /\ servo.at = "discardRecord" /\ received.kind = "PublishedPlan"
    /\ servo' = [at |-> "discardAccount", slot |-> received.slot]
    /\ m_queuedNormalMotionNanoseconds' =
           m_queuedNormalMotionNanoseconds - m_planSlots[received.slot].item
    /\ UNCHANGED <<vars, mailboxVars, m_planSlots, m_queuedExecutionItems, m_queuedControls,
                   core, host, history>>

DiscardAccounted ==
    /\ Ticks("discardAccount", "discardRelease")
    /\ m_queuedExecutionItems' = m_queuedExecutionItems - 1
    /\ UNCHANGED <<vars, mailboxVars, m_planSlots, m_queuedNormalMotionNanoseconds,
                   m_queuedControls, core, host, history>>

DiscardReleased ==
    /\ Ticks("discardRelease", "discard")
    /\ m_planSlots' = [m_planSlots EXCEPT ![servo.slot].occupied = FALSE]
    /\ UNCHANGED <<vars, mailboxVars, counters, core, host, history>>

DiscardEnds ==
    /\ Ticks("discard", "demand") /\ PopRefused
    /\ UNCHANGED <<mailboxVars, m_planSlots, counters, core, host, history>>

-----------------------------------------------------------------------------

TryPublish == PublishBegins \/ PublishSkipsSlot \/ PublishTakesSlot \/ PublishFillsSlot
              \/ PublishCountsItem \/ PublishUncountsMotion \/ PublishUncountsItem
              \/ PublishFreesSlot
TrySubmit == SubmitTakesCredit \/ SubmitReturnsCredit
TryPush == IngressChecksSpace \/ IngressRefuses \/ IngressWritesSlot \/ IngressPublishes
PublishDemand == DemandWritten \/ DemandPublished
ServoTick == DemandNotThere \/ DemandTaken \/ IngressEmpty \/ IngressPops \/ RecordIsPlan
             \/ RecordIsControl \/ ItemDequeued \/ ItemAccounted \/ ItemBegins
             \/ ItemDropped \/ ItemEnds \/ SlotReleased \/ TickEnds
LatchEmergencyStop == IngressDiscarded \/ RecordDiscarded \/ DiscardAccounted
                      \/ DiscardReleased \/ DiscardEnds

IngressNext == TryPublish \/ TrySubmit \/ TryPush \/ PublishDemand \/ ServoTick
               \/ LatchEmergencyStop

IngressSpec == IngressInit /\ [][IngressNext]_ingressVars

-----------------------------------------------------------------------------
(* Properties *)

IngressTypeOK ==
    /\ m_planSlots \in [PlanSlots -> [occupied : BOOLEAN, item : Nat]]
    /\ m_queuedExecutionItems \in Int
    /\ m_queuedNormalMotionNanoseconds \in Int
    /\ m_queuedControls \in Int
    /\ m_plans \in Seq(PlanSlots)
    /\ m_active \in {{}} \cup {{slot} : slot \in PlanSlots}
    /\ host \in [at : {"idle", "scan", "fill", "count", "push", "pushPlan", "full", "uncount",
                       "free", "submit", "refused", "pushControl", "demand"},
                 slot : PlanSlots]
    /\ servo \in [at : {"demand", "ingress", "record", "execution", "account", "dequeued",
                        "release", "discard", "discardRecord", "discardAccount",
                        "discardRelease"},
                  slot : PlanSlots]
    /\ items \in Nat /\ controls \in Nat /\ preceding \in Seq(Nat)

\* What is queued, oldest first: the items the servo thread has taken from the ring, the
\* record in its hand, and what is in the ring.
InHand == IF servo.at \in {"record", "discardRecord"} THEN <<received>> ELSE <<>>
Queue == [i \in DOMAIN m_plans |-> PublishedPlan(m_plans[i])] \o InHand \o Contents

PlansOf(records) == {i \in DOMAIN records : records[i].kind = "PublishedPlan"}
ControlsOf(records) == {i \in DOMAIN records : records[i] = Control}
ItemOf == [slot \in PlanSlots |-> m_planSlots[slot].item]

HostHolds == IF host.at \in {"fill", "count", "push", "pushPlan", "full", "uncount", "free"}
             THEN {host.slot} ELSE {}
ServoHolds == IF servo.at \in {"account", "dequeued", "release", "discardAccount",
                                "discardRelease"}
              THEN {servo.slot} ELSE {}
QueueHolds(queue) == {queue[i].slot : i \in PlansOf(queue)}
Occupied == {slot \in PlanSlots : m_planSlots[slot].occupied}

SlotsHaveOneHolder ==
    LET holdings == <<QueueHolds(Queue), HostHolds, m_active, ServoHolds>>
    IN  /\ \A i, j \in 1 .. 4 : i # j => holdings[i] \cap holdings[j] = {}
        /\ Occupied = UNION {holdings[i] : i \in 1 .. 4}

One(holds) == IF holds THEN 1 ELSE 0

\* What the counters say of the queue, without what a call has in hand.
QueuedItems ==
    m_queuedExecutionItems - One(host.at \in {"push", "pushPlan", "full", "uncount"})
                           - One(servo.at \in {"account", "discardAccount"})
QueuedMotion ==
    m_queuedNormalMotionNanoseconds - (IF host.at \in {"count", "push", "pushPlan", "full"}
                                       THEN m_planSlots[host.slot].item ELSE 0)
QueuedControls == m_queuedControls - One(host.at \in {"submit", "refused", "pushControl"})

\* The time the first n items take together.
Together(n) == (n * (n + 1)) \div 2

\* The items of a queue are low .. high, in this order.
InOrder(queue, item, low, high) ==
    /\ {item[queue[i].slot] : i \in PlansOf(queue)} = low .. high
    /\ \A i, j \in PlansOf(queue) : i < j => item[queue[i].slot] < item[queue[j].slot]

\* The queue holds as many items as its counter says: the newest, each once, oldest first.
QueueIsTheNewest ==
    /\ QueuedItems \in 0 .. items
    /\ InOrder(Queue, ItemOf, items - QueuedItems + 1, items)

CountersAreExact ==
    /\ QueueIsTheNewest
    /\ QueuedMotion = Together(items) - Together(items - QueuedItems)
    /\ QueuedControls = Cardinality(ControlsOf(Queue))

\* A plan slot is lent from the publication of an item to its release: every occupied
\* slot has exactly one holder - the call that fills it, the queue, the active item or
\* the step that gives it back - and a free one has none.  The counters are what is
\* queued and what a call has in hand, wherever both threads are: they never wrap, and
\* convergeDemand never finds zero items while one is queued.
CreditsMatchWork == SlotsHaveOneHolder /\ CountersAreExact

\* A demand is acted upon together with what was published before it: when the tick goes
\* on to the execution, no item older than the demand it has taken is still in the ring.
DemandsFindTheirItems ==
    servo.at \in {"execution", "account", "dequeued", "release"} /\ value > 0 =>
        \A i \in PlansOf(Contents) : ItemOf[Contents[i].slot] > preceding[value]
=============================================================================
