-------------------------- MODULE LatestValueMailbox --------------------------
(***************************************************************************)
(* LatestValueMailbox<T> (src/src/include/machine/LatestValueMailbox.h):   *)
(* the wait-free triple buffer that carries the executor demand from the   *)
(* session to the real-time thread.                                        *)
(*                                                                         *)
(* A value is the number of its publication: 0 is the initial value.  The  *)
(* plain accesses of the slots are steps of their own; the exchange of     *)
(* m_middle and the assignment of the caller's private index that follows  *)
(* it are one step, for no other thread reads that index.                  *)
(***************************************************************************)
EXTENDS Integers

CONSTANT MaxPublications    \* bound on the number of calls of publish

ASSUME MaxPublicationsAssumption == MaxPublications \in Nat

MailboxSlots == 0 .. 2

VARIABLES
    m_slots,
    m_middle,    \* [index, dirty]: the word both threads exchange
    m_front,     \* the consumer's slot
    m_back,      \* the producer's slot
    publisher,   \* the producer: "idle", or "exchange" once the back slot is written
    poller,      \* the consumer: "idle", "exchange" after a dirty load, "copy" after the exchange
    published,   \* history: number of the newest publication
    value        \* history: what the last successful consumeLatest returned

mailboxVars == <<m_slots, m_middle, m_front, m_back, publisher, poller, published, value>>

MailboxInit ==
    /\ m_slots = [s \in MailboxSlots |-> 0]
    /\ m_middle = [index |-> 1, dirty |-> FALSE]
    /\ m_front = 0
    /\ m_back = 2
    /\ publisher = "idle"
    /\ poller = "idle"
    /\ published = 0
    /\ value = 0

-----------------------------------------------------------------------------
(* publish *)

PublishWritesBack ==
    /\ publisher = "idle"
    /\ published < MaxPublications
    /\ m_slots' = [m_slots EXCEPT ![m_back] = published + 1]
    /\ publisher' = "exchange"
    /\ UNCHANGED <<m_middle, m_front, m_back, poller, published, value>>

PublishExchanges ==
    /\ publisher = "exchange"
    /\ m_middle' = [index |-> m_back, dirty |-> TRUE]
    /\ m_back' = m_middle.index
    /\ publisher' = "idle"
    /\ published' = published + 1
    /\ UNCHANGED <<m_slots, m_front, poller, value>>

-----------------------------------------------------------------------------
(* consumeLatest *)

ConsumeFindsNothing ==
    /\ poller = "idle"
    /\ ~ m_middle.dirty
    /\ UNCHANGED mailboxVars

ConsumeFindsDirty ==
    /\ poller = "idle"
    /\ m_middle.dirty
    /\ poller' = "exchange"
    /\ UNCHANGED <<m_slots, m_middle, m_front, m_back, publisher, published, value>>

\* Mutant of ConsumeExchanges: the DIRTY bit is carried over by the exchange.
ConsumeLeavesDirty ==
    /\ poller = "exchange"
    /\ m_middle' = [index |-> m_front, dirty |-> TRUE]
    /\ m_front' = m_middle.index
    /\ poller' = "copy"
    /\ UNCHANGED <<m_slots, m_back, publisher, published, value>>

ConsumeExchanges ==
    /\ poller = "exchange"
    /\ m_middle' = [index |-> m_front, dirty |-> FALSE]
    /\ m_front' = m_middle.index
    /\ poller' = "copy"
    /\ UNCHANGED <<m_slots, m_back, publisher, published, value>>

ConsumeCopies ==
    /\ poller = "copy"
    /\ value' = m_slots[m_front]
    /\ poller' = "idle"
    /\ UNCHANGED <<m_slots, m_middle, m_front, m_back, publisher, published>>

-----------------------------------------------------------------------------

MailboxNext ==
    \/ PublishWritesBack \/ PublishExchanges
    \/ ConsumeFindsNothing \/ ConsumeFindsDirty \/ ConsumeExchanges \/ ConsumeCopies

MailboxSpec == MailboxInit /\ [][MailboxNext]_mailboxVars

-----------------------------------------------------------------------------
(* Properties *)

MailboxTypeOK ==
    /\ m_slots \in [MailboxSlots -> 0 .. MaxPublications]
    /\ m_middle \in [index : MailboxSlots, dirty : BOOLEAN]
    /\ m_front \in MailboxSlots
    /\ m_back \in MailboxSlots
    /\ publisher \in {"idle", "exchange"}
    /\ poller \in {"idle", "exchange", "copy"}
    /\ published \in 0 .. MaxPublications
    /\ value \in 0 .. MaxPublications

\* "The producer never writes the consumer's front slot and the consumer never
\* reads the producer's back slot" (LatestValueMailbox.h:10): at every moment
\* the three slots have three different owners.
SlotsHaveOneOwner ==
    /\ m_front # m_back
    /\ m_front # m_middle.index
    /\ m_back # m_middle.index

\* A dirty middle slot holds the newest publication, and a clean one means the
\* consumer already holds it: consumeLatest never returns false while something
\* newer is published, and never returns an old demand as new.
NothingNewerIsHidden ==
    IF m_middle.dirty THEN m_slots[m_middle.index] = published
                      ELSE m_slots[m_front] = published

Latest == INSTANCE LatestValue WITH latest <- published, current <- m_slots[m_front]

\* The triple buffer implements the latest-value channel: a publication takes
\* effect at the producer's exchange, a consumption at the consumer's.
ImplementsLatestValue == Latest!LatestSpec
=============================================================================
