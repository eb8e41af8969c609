----------------------------- MODULE SpscChannel -----------------------------
(***************************************************************************)
(* SpscChannel<T, Capacity> (src/src/include/machine/SpscChannel.h): the   *)
(* ring with one sentinel slot that carries plans, controls, events and    *)
(* snapshots between the real-time and the non-real-time thread.           *)
(*                                                                         *)
(* One thread calls tryPush and one other thread calls tryPop.  Each call  *)
(* is split at its shared accesses: the check of the peer's index (an      *)
(* acquire load), the plain access of the slot, and the release store of   *)
(* the caller's own index.  The acquire/release pairs order the plain slot *)
(* accesses, so interleaving these steps gives every behaviour of a call   *)
(* pair that has no data race; NoDataRace states that there is none.       *)
(***************************************************************************)
EXTENDS Integers, Sequences

CONSTANTS Capacity, Values, NoValue

ASSUME CapacityAssumption == Capacity \in Nat \ {0}
ASSUME NoValueAssumption == NoValue \notin Values

STORAGE_SIZE == Capacity + 1
Slots == 0 .. STORAGE_SIZE - 1

VARIABLES
    m_values,    \* the storage
    m_head,      \* next slot to write, stored by the producer only
    m_tail,      \* next slot to read, stored by the consumer only
    producer,    \* where tryPush is, and the value it carries
    consumer,    \* where tryPop is, and the value it has copied
    received     \* the value the last successful tryPop returned

vars == <<m_values, m_head, m_tail, producer, consumer, received>>

\* SpscChannel::next
NextSlot(k) == IF k + 1 = STORAGE_SIZE THEN 0 ELSE k + 1

Init ==
    /\ m_values = [s \in Slots |-> NoValue]
    /\ m_head = 0
    /\ m_tail = 0
    /\ producer = [at |-> "idle", value |-> NoValue]
    /\ consumer = [at |-> "idle", value |-> NoValue]
    /\ received = NoValue

-----------------------------------------------------------------------------
(* tryPush *)

\* Mutant of PushChecksSpace: the full check is dropped.
PushWithoutCheck(v) ==
    /\ producer.at = "idle"
    /\ producer' = [at |-> "write", value |-> v]
    /\ UNCHANGED <<m_values, m_head, m_tail, consumer, received>>

PushChecksSpace(v) ==
    /\ producer.at = "idle"
    /\ NextSlot(m_head) # m_tail
    /\ producer' = [at |-> "write", value |-> v]
    /\ UNCHANGED <<m_values, m_head, m_tail, consumer, received>>

\* The channel is full: tryPush returns false and changes nothing.
PushRefused ==
    /\ producer.at = "idle"
    /\ NextSlot(m_head) = m_tail
    /\ UNCHANGED vars

PushWritesSlot ==
    /\ producer.at = "write"
    /\ m_values' = [m_values EXCEPT ![m_head] = producer.value]
    /\ producer' = [producer EXCEPT !.at = "publish"]
    /\ UNCHANGED <<m_head, m_tail, consumer, received>>

PushPublishes ==
    /\ producer.at = "publish"
    /\ m_head' = NextSlot(m_head)
    /\ producer' = [producer EXCEPT !.at = "idle"]
    /\ UNCHANGED <<m_values, m_tail, consumer, received>>

-----------------------------------------------------------------------------
(* tryPop *)

PopChecksData ==
    /\ consumer.at = "idle"
    /\ m_tail # m_head
    /\ consumer' = [consumer EXCEPT !.at = "read"]
    /\ UNCHANGED <<m_values, m_head, m_tail, producer, received>>

PopRefused ==
    /\ consumer.at = "idle"
    /\ m_tail = m_head
    /\ UNCHANGED vars

\* Mutant of PopReadsSlot: the copy is taken one slot too far.
PopReadsNextSlot ==
    /\ consumer.at = "read"
    /\ consumer' = [at |-> "release", value |-> m_values[NextSlot(m_tail)]]
    /\ UNCHANGED <<m_values, m_head, m_tail, producer, received>>

PopReadsSlot ==
    /\ consumer.at = "read"
    /\ consumer' = [at |-> "release", value |-> m_values[m_tail]]
    /\ UNCHANGED <<m_values, m_head, m_tail, producer, received>>

PopReleases ==
    /\ consumer.at = "release"
    /\ m_tail' = NextSlot(m_tail)
    /\ received' = consumer.value
    /\ consumer' = [consumer EXCEPT !.at = "idle"]
    /\ UNCHANGED <<m_values, m_head, producer>>

-----------------------------------------------------------------------------

Push == PushRefused \/ PushWritesSlot \/ PushPublishes \/ \E v \in Values : PushChecksSpace(v)
Pop  == PopRefused \/ PopChecksData \/ PopReadsSlot \/ PopReleases

Next == Push \/ Pop

Spec == Init /\ [][Next]_vars

-----------------------------------------------------------------------------
(* Properties *)

\* Every variable keeps its type; both indices stay inside the storage.
TypeOK ==
    /\ m_values \in [Slots -> Values \cup {NoValue}]
    /\ m_head \in Slots
    /\ m_tail \in Slots
    /\ producer \in [at : {"idle", "write", "publish"}, value : Values \cup {NoValue}]
    /\ consumer \in [at : {"idle", "read", "release"}, value : Values \cup {NoValue}]
    /\ received \in Values \cup {NoValue}

\* The producer never writes the slot the consumer is copying from: the plain
\* access m_values[head] = value of tryPush and the plain access
\* value = m_values[tail] of tryPop never meet, whatever the interleaving.
NoDataRace ==
    ~ (producer.at = "write" /\ consumer.at = "read" /\ m_head = m_tail)

\* The number of published values, and the ones in the ring, oldest first.
Used == IF m_head >= m_tail THEN m_head - m_tail ELSE m_head - m_tail + STORAGE_SIZE
SlotAt(i) == IF m_tail + i >= STORAGE_SIZE THEN m_tail + i - STORAGE_SIZE ELSE m_tail + i
Contents == [i \in 1 .. Used |-> m_values[SlotAt(i - 1)]]

Fifo == INSTANCE BoundedFifo WITH queue <- Contents, taken <- received

\* The ring implements the bounded FIFO: a push takes effect at the store of
\* m_head, a pop at the store of m_tail; nothing is lost, repeated, reordered or
\* overwritten, and at most Capacity values are ever in flight.
ImplementsFifo == Fifo!FifoSpec
=============================================================================
