-------------------------- MODULE OwningSpscChannel --------------------------
(***************************************************************************)
(* OwningSpscChannel<T, Capacity>                                          *)
(* (src/src/include/machine/OwningSpscChannel.h): the queue between the    *)
(* interpreter thread and the execution thread.  Its ends sleep on a       *)
(* condition variable when the queue is empty or full, and the owner of    *)
(* the run may cancel it at any time.                                      *)
(*                                                                         *)
(* The producer calls waitPush with the messages 1, 2, ..., Messages, the  *)
(* consumer calls waitPop until it returns false, the owner may store      *)
(* `cancelled` and call notifyAll.  A step is one access of a shared       *)
(* atomic, of a slot, of the mutex or of a condition variable.             *)
(*                                                                         *)
(* The indices and the waiting flags are stored with memory_order_release  *)
(* and loaded with memory_order_acquire, which does not order a store      *)
(* before a later load of another variable.  With StoreBuffering a store   *)
(* enters the FIFO store buffer of its thread and reaches memory later, as *)
(* on x86; locking or unlocking the mutex drains the buffer.  Without it   *)
(* memory is sequentially consistent.                                      *)
(***************************************************************************)
EXTENDS Integers, Sequences

CONSTANTS
    Capacity,        \* usable entries
    Messages,        \* bound: how many messages the producer pushes
    StoreBuffering   \* whether stores may be delayed past later loads

ASSUME ChannelAssumption ==
    /\ Capacity \in Nat \ {0}
    /\ Messages \in Nat
    /\ StoreBuffering \in BOOLEAN

Threads == {"producer", "consumer"}
Peer == [producer |-> "consumer", consumer |-> "producer"]
Index == [producer |-> "head", consumer |-> "tail"]
WaitingFlag == [producer |-> "producerWaiting", consumer |-> "consumerWaiting"]

NoMessage == 0

VARIABLES
    m_values,        \* the slots, NoMessage when the optional is empty
    memory,          \* m_head, m_tail, m_producerWaiting, m_consumerWaiting
    buffer,          \* per thread, the stores that have not reached memory
    m_waitMutex,     \* its holder, or "free"
    asleep,          \* the threads blocked on their condition variable
    at,              \* where each thread is
    cancelled,       \* the flag every wait predicate reads
    owner,           \* "running", "cancelled", "notifying", "done"
    received,        \* history: the last message popped
    headAtCancel     \* history: messages published when the run was cancelled

vars == <<m_values, memory, buffer, m_waitMutex, asleep, at, cancelled, owner,
          received, headAtCancel>>

Init ==
    /\ m_values = [s \in 0 .. Capacity - 1 |-> NoMessage]
    /\ memory = [head |-> 0, tail |-> 0,
                 producerWaiting |-> FALSE, consumerWaiting |-> FALSE]
    /\ buffer = [t \in Threads |-> <<>>]
    /\ m_waitMutex = "free"
    /\ asleep = {}
    /\ at = [t \in Threads |-> "check"]
    /\ cancelled = FALSE
    /\ owner = "running"
    /\ received = NoMessage
    /\ headAtCancel = Messages

-----------------------------------------------------------------------------
(* Memory *)

Pending(t, x) == {i \in 1 .. Len(buffer[t]) : buffer[t][i].variable = x}

\* A thread sees its own buffered stores before memory.
Load(t, x) ==
    IF Pending(t, x) = {} THEN memory[x]
    ELSE buffer[t][CHOOSE i \in Pending(t, x) : \A j \in Pending(t, x) : j <= i].value

Store(t, x, v) ==
    IF StoreBuffering
    THEN /\ buffer' = [buffer EXCEPT ![t] = Append(@, [variable |-> x, value |-> v])]
         /\ UNCHANGED memory
    ELSE /\ memory' = [memory EXCEPT ![x] = v]
         /\ UNCHANGED buffer

Drain(t) ==
    /\ buffer[t] # <<>>
    /\ memory' = [memory EXCEPT ![Head(buffer[t]).variable] = Head(buffer[t]).value]
    /\ buffer' = [buffer EXCEPT ![t] = Tail(@)]
    /\ UNCHANGED <<m_values, m_waitMutex, asleep, at, cancelled, owner, received, headAtCancel>>

Lock(t) == m_waitMutex = "free" /\ buffer[t] = <<>> /\ m_waitMutex' = t
Unlock(t) == buffer[t] = <<>> /\ m_waitMutex' = "free"

Goto(t, place) == at' = [at EXCEPT ![t] = place]

\* full() for the producer, empty() for the consumer.
Blocked(t) ==
    IF t = "producer" THEN Load(t, "head") - Load(t, "tail") >= Capacity
                      ELSE Load(t, "tail") = Load(t, "head")

SlotOf(t) == Load(t, Index[t]) % Capacity

-----------------------------------------------------------------------------
(* tryPush and tryPop *)

TryChecks(t) ==
    /\ at[t] = "check"
    /\ t = "producer" => Load(t, "head") < Messages
    /\ Goto(t, IF Blocked(t) THEN "lock" ELSE "access")
    /\ UNCHANGED <<m_values, memory, buffer, m_waitMutex, asleep, cancelled, owner,
                   received, headAtCancel>>

PushEmplaces ==
    /\ at["producer"] = "access"
    /\ m_values' = [m_values EXCEPT ![SlotOf("producer")] = Load("producer", "head") + 1]
    /\ Goto("producer", "store")
    /\ UNCHANGED <<memory, buffer, m_waitMutex, asleep, cancelled, owner, received, headAtCancel>>

PopMoves ==
    /\ at["consumer"] = "access"
    /\ received' = m_values[SlotOf("consumer")]
    /\ m_values' = [m_values EXCEPT ![SlotOf("consumer")] = NoMessage]
    /\ Goto("consumer", "store")
    /\ UNCHANGED <<memory, buffer, m_waitMutex, asleep, cancelled, owner, headAtCancel>>

StoresIndex(t) ==
    /\ at[t] = "store"
    /\ Store(t, Index[t], Load(t, Index[t]) + 1)
    /\ Goto(t, "notify")
    /\ UNCHANGED <<m_values, m_waitMutex, asleep, cancelled, owner, received, headAtCancel>>

\* notifyConsumer and notifyProducer: the fast path skips the mutex.
NotifyChecks(t) ==
    /\ at[t] = "notify"
    /\ Goto(t, IF Load(t, WaitingFlag[Peer[t]]) THEN "notifyLock" ELSE "check")
    /\ UNCHANGED <<m_values, memory, buffer, m_waitMutex, asleep, cancelled, owner,
                   received, headAtCancel>>

NotifyLocks(t) ==
    /\ at[t] = "notifyLock"
    /\ Lock(t)
    /\ Goto(t, "notifyLocked")
    /\ UNCHANGED <<m_values, memory, buffer, asleep, cancelled, owner, received, headAtCancel>>

NotifyWakes(t) ==
    /\ at[t] = "notifyLocked"
    /\ asleep' = asleep \ {Peer[t]}
    /\ Unlock(t)
    /\ Goto(t, "check")
    /\ UNCHANGED <<m_values, memory, buffer, cancelled, owner, received, headAtCancel>>

-----------------------------------------------------------------------------
(* waitPush and waitPop, after their try call has failed *)

WaitLocks(t) ==
    /\ at[t] = "lock"
    /\ Lock(t)
    /\ Goto(t, "register")
    /\ UNCHANGED <<m_values, memory, buffer, asleep, cancelled, owner, received, headAtCancel>>

WaitRegisters(t) ==
    /\ at[t] = "register"
    /\ Store(t, WaitingFlag[t], TRUE)
    /\ Goto(t, "predicate")
    /\ UNCHANGED <<m_values, m_waitMutex, asleep, cancelled, owner, received, headAtCancel>>

\* The predicate: !full() || cancelled(), !empty() || cancelled().
WaitTestsQueue(t) ==
    /\ at[t] = "predicate"
    /\ Goto(t, IF Blocked(t) THEN "testCancelled" ELSE "awake")
    /\ UNCHANGED <<m_values, memory, buffer, m_waitMutex, asleep, cancelled, owner,
                   received, headAtCancel>>

WaitTestsCancelled(t) ==
    /\ at[t] = "testCancelled"
    /\ Goto(t, IF cancelled THEN "awake" ELSE "sleep")
    /\ UNCHANGED <<m_values, memory, buffer, m_waitMutex, asleep, cancelled, owner,
                   received, headAtCancel>>

WaitSleeps(t) ==
    /\ at[t] = "sleep"
    /\ Unlock(t)
    /\ asleep' = asleep \cup {t}
    /\ Goto(t, "asleep")
    /\ UNCHANGED <<m_values, memory, buffer, cancelled, owner, received, headAtCancel>>

SpuriousWakeup(t) ==
    /\ t \in asleep
    /\ asleep' = asleep \ {t}
    /\ UNCHANGED <<m_values, memory, buffer, m_waitMutex, at, cancelled, owner, received, headAtCancel>>

WaitRelocks(t) ==
    /\ at[t] = "asleep"
    /\ t \notin asleep
    /\ Lock(t)
    /\ Goto(t, "predicate")
    /\ UNCHANGED <<m_values, memory, buffer, asleep, cancelled, owner, received, headAtCancel>>

WaitDeregisters(t) ==
    /\ at[t] = "awake"
    /\ Store(t, WaitingFlag[t], FALSE)
    /\ Goto(t, "testExit")
    /\ UNCHANGED <<m_values, m_waitMutex, asleep, cancelled, owner, received, headAtCancel>>

\* waitPush gives up as soon as the run is cancelled.
PushReturns ==
    /\ at["producer"] = "testExit"
    /\ Unlock("producer")
    /\ Goto("producer", IF cancelled THEN "quit" ELSE "check")
    /\ UNCHANGED <<m_values, memory, buffer, asleep, cancelled, owner, received, headAtCancel>>

\* Mutant of PopReturns: a cancelled consumer leaves without draining the queue.
PopReturnsAtOnce ==
    /\ at["consumer"] = "testExit"
    /\ Unlock("consumer")
    /\ Goto("consumer", IF cancelled THEN "quit" ELSE "check")
    /\ UNCHANGED <<m_values, memory, buffer, asleep, cancelled, owner, received, headAtCancel>>

\* waitPop gives up only when cancelled() && empty(), read in this order.
PopReturns ==
    /\ \/ /\ at["consumer"] = "testExit" /\ cancelled
          /\ UNCHANGED m_waitMutex
          /\ Goto("consumer", "testEmpty")
       \/ /\ at["consumer"] = "testExit" /\ ~ cancelled
          /\ Unlock("consumer")
          /\ Goto("consumer", "check")
       \/ /\ at["consumer"] = "testEmpty"
          /\ Unlock("consumer")
          /\ Goto("consumer", IF Blocked("consumer") THEN "quit" ELSE "check")
    /\ UNCHANGED <<m_values, memory, buffer, asleep, cancelled, owner, received, headAtCancel>>

-----------------------------------------------------------------------------
(* The owner of the run *)

OwnerCancels ==
    /\ owner = "running"
    /\ cancelled' = TRUE
    /\ headAtCancel' = memory.head
    /\ owner' = "cancelled"
    /\ UNCHANGED <<m_values, memory, buffer, m_waitMutex, asleep, at, received>>

OwnerLocks ==
    /\ owner = "cancelled"
    /\ m_waitMutex = "free"
    /\ m_waitMutex' = "owner"
    /\ owner' = "notifying"
    /\ UNCHANGED <<m_values, memory, buffer, asleep, at, cancelled, received, headAtCancel>>

\* Mutant of OwnerNotifiesAll: only m_notEmpty is notified.
OwnerNotifiesConsumer ==
    /\ owner = "notifying"
    /\ asleep' = asleep \ {"consumer"}
    /\ m_waitMutex' = "free"
    /\ owner' = "done"
    /\ UNCHANGED <<m_values, memory, buffer, at, cancelled, received, headAtCancel>>

OwnerNotifiesAll ==
    /\ owner = "notifying"
    /\ asleep' = {}
    /\ m_waitMutex' = "free"
    /\ owner' = "done"
    /\ UNCHANGED <<m_values, memory, buffer, at, cancelled, received, headAtCancel>>

-----------------------------------------------------------------------------

Running(t) ==
    \/ TryChecks(t) \/ StoresIndex(t) \/ NotifyChecks(t) \/ NotifyWakes(t)
    \/ WaitRegisters(t) \/ WaitTestsQueue(t) \/ WaitTestsCancelled(t)
    \/ WaitSleeps(t) \/ WaitDeregisters(t)

Locking(t) == NotifyLocks(t) \/ WaitLocks(t) \/ WaitRelocks(t)

Transfer == PushEmplaces \/ PopMoves \/ PushReturns \/ PopReturns

Owner == OwnerCancels \/ OwnerLocks \/ OwnerNotifiesAll

Next ==
    \/ \E t \in Threads : Running(t) \/ Locking(t) \/ Drain(t) \/ SpuriousWakeup(t)
    \/ Transfer
    \/ Owner

\* Threads keep running and store buffers drain; a mutex that is released again
\* and again is granted to a thread that keeps asking.  Nothing makes the owner
\* cancel, and nothing makes a condition variable wake spuriously.
Fairness ==
    /\ \A t \in Threads : WF_vars(Running(t)) /\ SF_vars(Locking(t)) /\ WF_vars(Drain(t))
    /\ WF_vars(Transfer)
    /\ SF_vars(OwnerLocks) /\ WF_vars(OwnerNotifiesAll)

Spec == Init /\ [][Next]_vars
FairSpec == Spec /\ Fairness

-----------------------------------------------------------------------------
(* Properties *)

Places == {"check", "access", "store", "notify", "notifyLock", "notifyLocked", "lock",
           "register", "predicate", "testCancelled", "sleep", "asleep", "awake",
           "testExit", "testEmpty", "quit"}

TypeOK ==
    /\ m_values \in [0 .. Capacity - 1 -> 0 .. Messages]
    /\ memory \in [head : 0 .. Messages, tail : 0 .. Messages,
                   producerWaiting : BOOLEAN, consumerWaiting : BOOLEAN]
    /\ m_waitMutex \in Threads \cup {"free", "owner"}
    /\ asleep \subseteq Threads
    /\ at \in [Threads -> Places]
    /\ cancelled \in BOOLEAN
    /\ owner \in {"running", "cancelled", "notifying", "done"}
    /\ received \in 0 .. Messages
    /\ headAtCancel \in 0 .. Messages

\* The consumer only moves out of a slot the producer has finished filling, and
\* finds the next message in it (the optional is never dereferenced empty); the
\* producer only fills an empty slot.
MessagesPassInOrder ==
    /\ at["consumer"] = "access" => m_values[SlotOf("consumer")] = received + 1
    /\ at["producer"] = "access" => m_values[SlotOf("producer")] = NoMessage

\* A thread that is still going to notify the sleeper t.
WakeupComing(t) ==
    \/ at[Peer[t]] \in {"notify", "notifyLock", "notifyLocked"}
    \/ owner \in {"cancelled", "notifying"}

\* "Pair waiter registration and notification with the same mutex.  This closes
\* the gap between the wait predicate and actually sleeping"
\* (OwningSpscChannel.h:29): nobody sleeps on a condition that already holds
\* unless somebody is still going to wake it.  True where stores are not delayed
\* (NoWakeupLostWithoutDelay), not true of the code on a processor with store buffers
\* (README, findings).
NoLostWakeup ==
    /\ "consumer" \in asleep /\ (memory.head # memory.tail \/ cancelled)
           => WakeupComing("consumer")
    /\ "producer" \in asleep /\ (memory.head - memory.tail < Capacity \/ cancelled)
           => WakeupComing("producer")

\* "Cancellation must not discard a value that the producer published before
\* cancelling the run" (OwningSpscChannel.h:110): when waitPop returns false the
\* consumer has received everything published before the cancellation.
CancellationDiscardsNothing == at["consumer"] = "quit" => received >= headAtCancel

\* Every message that is published arrives, once, whole and in order, also when the run
\* is cancelled behind it.
PublishedMessagesArrive == MessagesPassInOrder /\ CancellationDiscardsNothing

\* "Shutdown cannot strand a participant" (OwningSpscChannel.h:90): once the run
\* is cancelled the consumer leaves its loop, and the producer leaves or finishes.
ShutdownStrandsNobody ==
    cancelled ~> /\ at["consumer"] = "quit"
                 /\ at["producer"] = "quit" \/ memory.head = Messages
=============================================================================
