----------------------- MODULE OwningSpscChannelProofs -----------------------
(***************************************************************************)
(* The blocking channel keeps its types, hands every published message     *)
(* over once, whole and in order, and a cancelled consumer leaves with     *)
(* everything that was published before, for every Capacity, every number  *)
(* of messages, and with or without store buffers.  Without them no wakeup *)
(* is lost either.                                                         *)
(***************************************************************************)
EXTENDS OwningSpscChannel, SequenceTheorems, WellFoundedInduction, TLAPS

\* The index a thread stores, as the thread itself reads it.
Own(t) == Load(t, Index[t])

Variables == {"head", "tail", "producerWaiting", "consumerWaiting"}
Stores == [variable : Variables, value : Nat \cup BOOLEAN]

\* What is on its way to memory: a thread stores its own index and its own flag only,
\* and its index never goes back, neither in the buffer nor from memory to the buffer.
BuffersInOrder ==
    /\ buffer \in [Threads -> Seq(Stores)]
    /\ \A t \in Threads : \A i \in 1 .. Len(buffer[t]) :
           \/ /\ buffer[t][i].variable = Index[t]
              /\ buffer[t][i].value \in memory[Index[t]] .. Messages
           \/ /\ buffer[t][i].variable = WaitingFlag[t]
              /\ buffer[t][i].value \in BOOLEAN
    /\ \A t \in Threads : \A i, j \in Pending(t, Index[t]) :
           i <= j => buffer[t][i].value <= buffer[t][j].value
    /\ ~ StoreBuffering => \A t \in Threads : buffer[t] = <<>>

\* What each end has done to the slots: between PushEmplaces or PopMoves and the store of
\* its index an end is one message ahead of that index.
Ahead(t) == IF at[t] = "store" THEN Own(t) + 1 ELSE Own(t)
Filled == Ahead("producer")
Emptied == Ahead("consumer")

\* The index of the other end is read late, never early: messages are taken below the
\* head in memory and filled below the tail in memory plus the capacity.
IndicesInStep ==
    /\ Own("consumer") <= memory.head
    /\ Own("producer") <= memory.tail + Capacity
    /\ at["consumer"] \in {"access", "store"} => Own("consumer") < memory.head
    /\ at["producer"] \in {"access", "store"} => /\ Own("producer") < memory.tail + Capacity
                                                 /\ Own("producer") < Messages

\* A slot holds its message from PushEmplaces to PopMoves and is empty otherwise.
SlotsHoldMessages ==
    /\ \A k \in Emptied .. Filled - 1 : m_values[k % Capacity] = k + 1
    /\ \A k \in Filled .. Emptied + Capacity - 1 : m_values[k % Capacity] = NoMessage
    /\ received = Emptied

CancelledInOrder ==
    /\ cancelled => owner # "running" /\ headAtCancel <= memory.head
    /\ at["consumer"] = "testEmpty" => cancelled
    /\ at["consumer"] = "quit" => cancelled /\ received >= headAtCancel

ChannelInvariant ==
    /\ TypeOK
    /\ BuffersInOrder
    /\ IndicesInStep
    /\ SlotsHoldMessages
    /\ CancelledInOrder

-----------------------------------------------------------------------------
(* Arithmetic of the slots.                                                *)

LEMMA SlotInRange == \A k \in Nat : k % Capacity \in 0 .. Capacity - 1
  BY ChannelAssumption

\* Two messages that are in the queue together have different slots.
LEMMA SlotsDiffer ==
  ASSUME NEW j \in Nat, NEW k \in Nat, j < k, k < j + Capacity
  PROVE  j % Capacity # k % Capacity
<1> DEFINE C == Capacity
<1>1. C \in Nat /\ C > 0
  BY ChannelAssumption
<1>2. PICK p, q \in Int : j = C * p + (j % C) /\ k = C * q + (k % C)
  <2>1. j \div C \in Int /\ k \div C \in Int
    BY <1>1
  <2>2. j = C * (j \div C) + (j % C) /\ k = C * (k \div C) + (k % C)
    BY <1>1
  <2> QED
    BY <2>1, <2>2
<1>3. C * q - C * p = C * (q - p)
  BY <1>1
<1>4. q - p >= 1 => C * (q - p) >= C
  BY <1>1
<1>5. q - p <= 0 => C * (q - p) <= 0
  BY <1>1
<1>6. j % C \in Nat /\ k % C \in Nat
  BY <1>1
<1>7. C * p \in Int /\ C * q \in Int
  BY <1>1
<1> HIDE DEF C
<1> QED
  BY <1>1, <1>2, <1>3, <1>4, <1>5, <1>6, <1>7 DEF C

\* The slots are used again after Capacity messages.
LEMMA SlotsRepeat ==
  ASSUME NEW k \in Nat
  PROVE  (k + Capacity) % Capacity = k % Capacity
<1> DEFINE C == Capacity
           p == k \div C
           q == (k + C) \div C
           d == q - p - 1
<1>1. C \in Nat /\ C > 0
  BY ChannelAssumption
<1>2. /\ p \in Int /\ k = C * p + (k % C) /\ k % C \in 0 .. C - 1
      /\ q \in Int /\ k + C = C * q + ((k + C) % C) /\ (k + C) % C \in 0 .. C - 1
  BY <1>1
<1> HIDE DEF p, q
<1>3. C * q = C * p + C + C * d /\ C * p \in Int /\ C * q \in Int /\ C * d \in Int
  BY <1>1, <1>2
<1>4. (d >= 1 => C * d >= C) /\ (d <= -1 => C * d <= - C) /\ (d = 0 => C * d = 0) /\ d \in Int
  BY <1>1, <1>2
<1> HIDE DEF d, C
<1>5. (k + C) % C = k % C
  BY <1>1, <1>2, <1>3, <1>4
<1> QED
  BY <1>5 DEF C

-----------------------------------------------------------------------------
(* What a thread loads.                                                    *)

LEMMA PendingIndices ==
  ASSUME BuffersInOrder, NEW t \in Threads, NEW x
  PROVE  Pending(t, x) \subseteq 1 .. Len(buffer[t]) /\ Len(buffer[t]) \in Nat
  BY DEF BuffersInOrder, Pending

\* The CHOOSE of Load finds the last of the pending stores.
LEMMA LastIsUnique ==
  ASSUME NEW S \in SUBSET Nat, NEW i \in S, \A j \in S : j <= i
  PROVE  (CHOOSE k \in S : \A j \in S : j <= k) = i
<1>1. \A k \in S : (\A j \in S : j <= k) => k = i
  OBVIOUS
<1> QED
  BY <1>1

LEMMA LoadIsLast ==
  ASSUME BuffersInOrder, NEW t \in Threads, NEW x, NEW i \in Pending(t, x),
         \A j \in Pending(t, x) : j <= i
  PROVE  Load(t, x) = buffer[t][i].value
<1>1. Pending(t, x) \in SUBSET Nat
  BY PendingIndices
<1>2. (CHOOSE k \in Pending(t, x) : \A j \in Pending(t, x) : j <= k) = i
  BY <1>1, LastIsUnique
<1> QED
  BY <1>2 DEF Load

\* The same, after a step.
LEMMA LoadWillBeLast ==
  ASSUME NEW t \in Threads, NEW x, NEW i \in Pending(t, x)',
         Pending(t, x)' \in SUBSET Nat, \A j \in Pending(t, x)' : j <= i
  PROVE  Load(t, x)' = buffer'[t][i].value
<1>1. (CHOOSE k \in Pending(t, x)' : \A j \in Pending(t, x)' : j <= k) = i
  BY LastIsUnique
<1> QED
  BY <1>1 DEF Load

LEMMA LastExists ==
  ASSUME BuffersInOrder, NEW t \in Threads, NEW x, Pending(t, x) # {}
  PROVE  \E i \in Pending(t, x) : \A j \in Pending(t, x) : j <= i
<1> DEFINE L == Len(buffer[t])
           Back == {n \in Nat : L - n \in Pending(t, x)}
<1>1. L \in Nat /\ Pending(t, x) \subseteq 1 .. L
  BY PendingIndices
<1>2. PICK k \in Pending(t, x) : TRUE
  OBVIOUS
<1>3. L - k \in Back
  BY <1>1
<1>4. PICK n \in Back : \A m \in Back : ~ (<<m, n>> \in OpToRel(<, Nat))
  <2> HIDE DEF Back
  <2>1. Back # {}
    BY <1>3
  <2>2. Back \subseteq Nat
    BY DEF Back
  <2> QED
    BY <2>1, <2>2, WFMin, NatLessThanWellFounded
<1>5. \A j \in Pending(t, x) : L - j \in Back
  BY <1>1
<1>6. \A j \in Pending(t, x) : j <= L - n
  <2>1. \A a, b \in Nat : a < b => <<a, b>> \in OpToRel(<, Nat)
    BY DEF OpToRel
  <2>2. \A m \in Back : ~ (m < n)
    BY <2>1, <1>4
  <2>3. ASSUME NEW j \in Pending(t, x)
        PROVE  j <= L - n
    <3>1. L - j \in Back /\ n \in Nat /\ j \in Nat
      BY <1>1, <1>5
    <3>2. ~ (L - j < n)
      BY <2>2, <3>1
    <3> QED
      BY <1>1, <3>1, <3>2
  <2> QED
    BY <2>3
<1> QED
  BY <1>1, <1>4, <1>6

\* The own index, as the thread reads it: it is not behind memory, nor behind any store
\* of it that is still pending.
LEMMA OwnBounds ==
  ASSUME TypeOK, BuffersInOrder, NEW t \in Threads
  PROVE  /\ Own(t) \in memory[Index[t]] .. Messages
         /\ \A i \in Pending(t, Index[t]) : buffer[t][i].value <= Own(t)
<1>1. memory[Index[t]] \in 0 .. Messages /\ Messages \in Nat
  BY ChannelAssumption DEF TypeOK, Threads, Index
<1>2. CASE Pending(t, Index[t]) = {}
  BY <1>1, <1>2 DEF Own, Load
<1>3. CASE Pending(t, Index[t]) # {}
  <2>1. PICK i \in Pending(t, Index[t]) : \A j \in Pending(t, Index[t]) : j <= i
    BY <1>3, LastExists
  <2>2. Own(t) = buffer[t][i].value
    BY <2>1, LoadIsLast DEF Own
  <2>3. buffer[t][i].value \in memory[Index[t]] .. Messages
    BY DEF BuffersInOrder, Pending, Threads, Index, WaitingFlag
  <2> QED
    BY <2>1, <2>2, <2>3 DEF BuffersInOrder
<1> QED
  BY <1>2, <1>3

\* The index of the other end is read from memory.
LEMMA PeerIndex ==
  ASSUME BuffersInOrder
  PROVE  /\ Load("producer", "tail") = memory.tail
         /\ Load("consumer", "head") = memory.head
<1>1. Pending("producer", "tail") = {} /\ Pending("consumer", "head") = {}
  BY DEF BuffersInOrder, Pending, Threads, Index, WaitingFlag
<1> QED
  BY <1>1 DEF Load

-----------------------------------------------------------------------------
(* What a step does to memory: nothing, a store or a drain.                *)

\* A store is seen by its own thread at once; it changes no other variable for anybody.
LEMMA StoreLoads ==
  ASSUME BuffersInOrder, TypeOK, NEW t \in Threads, NEW x \in Variables,
         NEW v \in Nat \cup BOOLEAN, Store(t, x, v)
  PROVE  /\ Load(t, x)' = v
         /\ \A u \in Threads, y \in Variables : y # x => Load(u, y)' = Load(u, y)
<1> DEFINE s == [variable |-> x, value |-> v]
<1>1. CASE StoreBuffering
  <2>1. buffer' = [buffer EXCEPT ![t] = Append(@, s)] /\ memory' = memory
    BY <1>1 DEF Store
  <2>2. buffer \in [Threads -> Seq(Stores)] /\ s \in Stores
    BY DEF BuffersInOrder, Stores
  <2> DEFINE L == Len(buffer[t])
  <2>3. /\ L \in Nat /\ Len(buffer'[t]) = L + 1
        /\ \A i \in 1 .. L : buffer'[t][i] = buffer[t][i]
        /\ buffer'[t][L + 1] = s
        /\ \A u \in Threads \ {t} : buffer'[u] = buffer[u]
    <3> HIDE DEF s
    <3> QED
      BY <2>1, <2>2, AppendProperties
  <2>4. Load(t, x)' = v
    <3>1. L + 1 \in Pending(t, x)' /\ \A j \in Pending(t, x)' : j <= L + 1
      BY <2>3 DEF Pending
    <3>. Pending(t, x)' \in SUBSET Nat
      BY <2>3 DEF Pending
    <3>2. Load(t, x)' = buffer'[t][L + 1].value
      BY <3>1, LoadWillBeLast
    <3> QED
      BY <2>3, <3>2
  <2>5. ASSUME NEW u \in Threads, NEW y \in Variables, y # x
        PROVE  Load(u, y)' = Load(u, y)
    <3>1. Pending(u, y)' = Pending(u, y)
      BY <2>3, <2>5 DEF Pending
    <3>2. \A i \in Pending(u, y) : buffer'[u][i] = buffer[u][i]
      BY <2>3, <2>5 DEF Pending
    <3>3. CASE Pending(u, y) = {}
      BY <2>1, <3>1, <3>3 DEF Load
    <3>4. CASE Pending(u, y) # {}
      <4>1. PICK i \in Pending(u, y) : \A j \in Pending(u, y) : j <= i
        BY <3>4, LastExists
      <4> QED
        BY <3>1, <3>2, <4>1 DEF Load
    <3> QED
      BY <3>3, <3>4
  <2> QED
    BY <2>4, <2>5
<1>2. CASE ~ StoreBuffering
  <2>1. memory' = [memory EXCEPT ![x] = v] /\ buffer' = buffer
    BY <1>2 DEF Store
  <2>2. \A u \in Threads, y \in Variables : Pending(u, y) = {} /\ Pending(u, y)' = {}
    BY <1>2, <2>1 DEF BuffersInOrder, Pending
  <2>3. \A u \in Threads, y \in Variables :
            Load(u, y) = memory[y] /\ Load(u, y)' = memory'[y]
    BY <2>2 DEF Load
  <2> QED
    BY <2>1, <2>3 DEF TypeOK, Variables
<1> QED
  BY <1>1, <1>2

\* A drain is not seen by its own thread; the other thread sees one variable change.
LEMMA DrainLoads ==
  ASSUME BuffersInOrder, TypeOK, NEW t \in Threads, Drain(t)
  PROVE  \A y \in Variables : Load(t, y)' = Load(t, y)
<1>1. buffer \in [Threads -> Seq(Stores)] /\ buffer[t] # <<>>
  BY DEF BuffersInOrder, Drain
<1> DEFINE L == Len(buffer[t])
           s == buffer[t][1]
<1>2. L \in Nat /\ L > 0 /\ s \in Stores
  BY <1>1
<1>3. /\ Len(buffer'[t]) = L - 1
      /\ \A i \in 1 .. L - 1 : buffer'[t][i] = buffer[t][i + 1]
      /\ memory' = [memory EXCEPT ![s.variable] = s.value]
  BY <1>1 DEF Drain
<1> SUFFICES ASSUME NEW y \in Variables
             PROVE  Load(t, y)' = Load(t, y)
  OBVIOUS
<1>4. \A i \in 1 .. L - 1 : i \in Pending(t, y)' <=> i + 1 \in Pending(t, y)
  BY <1>2, <1>3 DEF Pending
<1>5. Pending(t, y)' \subseteq 1 .. L - 1
  BY <1>3 DEF Pending
<1>6. Pending(t, y) \subseteq 1 .. L
  BY DEF Pending
<1> HIDE DEF L, s
<1>7. CASE Pending(t, y) = {}
  <2>1. Pending(t, y)' = {}
    BY <1>2, <1>4, <1>5, <1>7
  <2>2. s.variable # y
    BY <1>2, <1>7 DEF Pending, L, s
  <2>3. memory'[y] = memory[y]
    BY <1>3, <2>2 DEF TypeOK, Variables
  <2> QED
    BY <1>7, <2>1, <2>3 DEF Load
<1>8. CASE Pending(t, y) = {1}
  <2>1. Pending(t, y)' = {}
    BY <1>2, <1>4, <1>5, <1>8
  <2>2. s.variable = y
    BY <1>2, <1>8 DEF Pending, L, s
  <2>3. memory'[y] = s.value
    BY <1>3, <2>2 DEF TypeOK, Variables
  <2>4. Load(t, y) = s.value
    BY <1>8, LoadIsLast DEF s
  <2> QED
    BY <2>1, <2>3, <2>4 DEF Load
<1>9. CASE Pending(t, y) # {} /\ Pending(t, y) # {1}
  <2>1. PICK i \in Pending(t, y) : \A j \in Pending(t, y) : j <= i
    BY <1>9, LastExists
  <2>2. i \in 2 .. L
    BY <1>2, <1>6, <1>9, <2>1
  <2>3. i - 1 \in Pending(t, y)' /\ \A j \in Pending(t, y)' : j <= i - 1
    BY <1>2, <1>4, <1>5, <2>1, <2>2
  <2>4. Load(t, y)' = buffer'[t][i - 1].value
    BY <1>2, <1>5, <2>3, LoadWillBeLast
  <2>5. Load(t, y) = buffer[t][i].value
    BY <2>1, LoadIsLast
  <2>6. buffer'[t][i - 1] = buffer[t][i]
    BY <1>2, <1>3, <2>2
  <2> QED
    BY <2>4, <2>5, <2>6
<1> QED
  BY <1>7, <1>8, <1>9

LEMMA StoreInOrder ==
  ASSUME BuffersInOrder, TypeOK, NEW t \in Threads, NEW x \in Variables, NEW v, Store(t, x, v),
         \/ x = Index[t] /\ v \in Own(t) .. Messages
         \/ x = WaitingFlag[t] /\ v \in BOOLEAN
  PROVE  BuffersInOrder'
<1>1. /\ memory[Index[t]] \in 0 .. Messages /\ Messages \in Nat
      /\ Own(t) \in memory[Index[t]] .. Messages
      /\ \A i \in Pending(t, Index[t]) : buffer[t][i].value <= Own(t)
  BY OwnBounds, ChannelAssumption DEF TypeOK, Threads, Index
<1>2. v \in Nat \cup BOOLEAN
  BY <1>1
<1>3. Index[t] # WaitingFlag[t]
  BY DEF Index, WaitingFlag, Threads
<1>4. CASE StoreBuffering
  <2> DEFINE s == [variable |-> x, value |-> v]
             L == Len(buffer[t])
  <2>1. buffer' = [buffer EXCEPT ![t] = Append(@, s)] /\ memory' = memory
    BY <1>4 DEF Store
  <2>2. buffer \in [Threads -> Seq(Stores)] /\ s \in Stores
    BY <1>2 DEF BuffersInOrder, Stores
  <2>3. s.variable = x /\ s.value = v
    OBVIOUS
  <2> HIDE DEF s
  <2>4. /\ L \in Nat /\ Len(buffer'[t]) = L + 1 /\ buffer'[t] \in Seq(Stores)
        /\ \A i \in 1 .. L : buffer'[t][i] = buffer[t][i]
        /\ buffer'[t][L + 1] = s
        /\ \A u \in Threads \ {t} : buffer'[u] = buffer[u]
        /\ buffer' \in [Threads -> Seq(Stores)]
    BY <2>1, <2>2, AppendProperties
  <2> HIDE DEF L
  <2>5. ASSUME NEW u \in Threads, NEW i \in 1 .. Len(buffer'[u])
        PROVE  \/ /\ buffer'[u][i].variable = Index[u]
                  /\ buffer'[u][i].value \in memory'[Index[u]] .. Messages
               \/ /\ buffer'[u][i].variable = WaitingFlag[u]
                  /\ buffer'[u][i].value \in BOOLEAN
    <3>1. CASE u = t /\ i = L + 1
      BY <1>1, <2>1, <2>3, <2>4, <3>1
    <3>2. CASE ~ (u = t /\ i = L + 1)
      <4>1. i \in 1 .. Len(buffer[u]) /\ buffer'[u][i] = buffer[u][i]
        BY <2>4, <3>2 DEF L
      <4> QED
        BY <2>1, <4>1 DEF BuffersInOrder
    <3> QED
      BY <3>1, <3>2
  <2>6. ASSUME NEW u \in Threads, NEW i \in Pending(u, Index[u])',
               NEW j \in Pending(u, Index[u])', i <= j
        PROVE  buffer'[u][i].value <= buffer'[u][j].value
    <3>1. CASE u = t /\ j = L + 1
      <4>1. x = Index[t] /\ buffer'[t][j].value = v /\ v \in Own(t) .. Messages
        BY <1>3, <2>3, <2>4, <3>1 DEF Pending
      <4>2. CASE i = L + 1
        BY <1>1, <3>1, <4>1, <4>2
      <4>3. CASE i # L + 1
        <5>1. i \in Pending(t, Index[t]) /\ buffer'[t][i] = buffer[t][i]
          BY <2>4, <3>1, <4>3 DEF Pending, L
        <5>2. buffer[t][i].value <= Own(t) /\ buffer[t][i].value \in Int
          BY <1>1, <1>3, <5>1 DEF BuffersInOrder, Pending
        <5> QED
          BY <1>1, <3>1, <4>1, <5>1, <5>2
      <4> QED
        BY <4>2, <4>3
    <3>2. CASE ~ (u = t /\ j = L + 1)
      <4>1. /\ i \in Pending(u, Index[u]) /\ j \in Pending(u, Index[u])
            /\ buffer'[u][i] = buffer[u][i] /\ buffer'[u][j] = buffer[u][j]
        BY SMTT(30), <2>4, <2>6, <3>2 DEF Pending, L
      <4> QED
        BY <2>6, <4>1 DEF BuffersInOrder
    <3> QED
      BY <3>1, <3>2
  <2> QED
    BY <1>4, <2>4, <2>5, <2>6 DEF BuffersInOrder
<1>5. CASE ~ StoreBuffering
  BY <1>5 DEF BuffersInOrder, Store, Pending
<1> QED
  BY <1>4, <1>5

LEMMA DrainInOrder ==
  ASSUME BuffersInOrder, TypeOK, NEW t \in Threads, Drain(t)
  PROVE  BuffersInOrder'
<1>1. buffer \in [Threads -> Seq(Stores)] /\ buffer[t] # <<>>
  BY DEF BuffersInOrder, Drain
<1> DEFINE L == Len(buffer[t])
           s == buffer[t][1]
<1>2. L \in Nat /\ L > 0 /\ s \in Stores
  BY <1>1
<1>3. /\ Len(buffer'[t]) = L - 1
      /\ \A i \in 1 .. L - 1 : buffer'[t][i] = buffer[t][i + 1]
      /\ memory' = [memory EXCEPT ![s.variable] = s.value]
      /\ \A u \in Threads \ {t} : buffer'[u] = buffer[u]
      /\ buffer' \in [Threads -> Seq(Stores)]
  BY <1>1 DEF Drain
<1>4. ASSUME NEW u \in Threads \ {t}
      PROVE  memory'[Index[u]] = memory[Index[u]]
  <2>1. s.variable \in {Index[t], WaitingFlag[t]}
    BY <1>2 DEF BuffersInOrder
  <2> QED
    BY <1>3, <2>1 DEF TypeOK, Threads, Index, WaitingFlag
<1>5. ASSUME NEW i \in 1 .. L, buffer[t][i].variable = Index[t]
      PROVE  buffer[t][i].value \in memory'[Index[t]] .. Messages
  <2>1. buffer[t][i].value \in memory[Index[t]] .. Messages
    BY <1>5 DEF BuffersInOrder, Index, WaitingFlag, Threads
  <2>2. CASE s.variable = Index[t]
    <3>1. 1 \in Pending(t, Index[t]) /\ i \in Pending(t, Index[t])
      BY <1>2, <1>5, <2>2 DEF Pending
    <3>2. s.value <= buffer[t][i].value
      BY <1>2, <3>1 DEF BuffersInOrder
    <3>3. s.value \in memory[Index[t]] .. Messages
      BY <1>2, <2>2 DEF BuffersInOrder, Index, WaitingFlag, Threads
    <3>4. memory'[Index[t]] = s.value
      BY <1>3, <2>2 DEF TypeOK, Threads, Index
    <3> HIDE DEF s
    <3> QED
      BY <2>1, <3>2, <3>3, <3>4
  <2>3. CASE s.variable # Index[t]
    <3>1. memory'[Index[t]] = memory[Index[t]]
      BY <1>3, <2>3 DEF TypeOK, Threads, Index
    <3> QED
      BY <2>1, <3>1
  <2> QED
    BY <2>2, <2>3
<1> HIDE DEF L, s
<1>6. ASSUME NEW u \in Threads, NEW i \in 1 .. Len(buffer'[u])
      PROVE  \/ /\ buffer'[u][i].variable = Index[u]
                /\ buffer'[u][i].value \in memory'[Index[u]] .. Messages
             \/ /\ buffer'[u][i].variable = WaitingFlag[u]
                /\ buffer'[u][i].value \in BOOLEAN
  <2>1. CASE u = t
    <3>1. i + 1 \in 1 .. L /\ buffer'[t][i] = buffer[t][i + 1]
      BY <1>2, <1>3, <2>1
    <3> QED
      BY <1>5, <2>1, <3>1 DEF BuffersInOrder, L
  <2>2. CASE u # t
    BY <1>3, <1>4, <2>2 DEF BuffersInOrder
  <2> QED
    BY <2>1, <2>2
<1>7. ASSUME NEW u \in Threads, NEW i \in Pending(u, Index[u])',
             NEW j \in Pending(u, Index[u])', i <= j
      PROVE  buffer'[u][i].value <= buffer'[u][j].value
  <2>1. CASE u = t
    <3>1. /\ i + 1 \in Pending(t, Index[t]) /\ buffer'[t][i] = buffer[t][i + 1]
          /\ j + 1 \in Pending(t, Index[t]) /\ buffer'[t][j] = buffer[t][j + 1]
          /\ i + 1 <= j + 1
      BY <1>2, <1>3, <1>7, <2>1 DEF Pending, L
    <3> QED
      BY <2>1, <3>1 DEF BuffersInOrder
  <2>2. CASE u # t
    BY <1>3, <1>7, <2>2 DEF BuffersInOrder, Pending
  <2> QED
    BY <2>1, <2>2
<1>8. StoreBuffering
  BY <1>1 DEF BuffersInOrder
<1> QED
  BY <1>3, <1>6, <1>7, <1>8 DEF BuffersInOrder

-----------------------------------------------------------------------------
(* The step.  First memory: the indices only grow, and an end advances its *)
(* own index only by StoresIndex.                                          *)

MemoryType == memory \in [head : 0 .. Messages, tail : 0 .. Messages,
                          producerWaiting : BOOLEAN, consumerWaiting : BOOLEAN]

IndicesGrow ==
    /\ memory.head <= memory'.head
    /\ memory.tail <= memory'.tail
    /\ \A t \in Threads :
           Own(t)' = IF at[t] = "store" /\ at'[t] # "store" THEN Own(t) + 1 ELSE Own(t)

LEMMA QuietMemory ==
  ASSUME ChannelInvariant, UNCHANGED <<memory, buffer>>,
         \A t \in Threads : at[t] = "store" => at'[t] = "store"
  PROVE  BuffersInOrder' /\ MemoryType' /\ IndicesGrow
<1>1. \A t \in Threads, x \in Variables : Load(t, x)' = Load(t, x)
  BY DEF Load, Pending
<1>2. \A t \in Threads : Own(t)' = Own(t)
  BY <1>1 DEF Own, Threads, Index, Variables
<1>3. BuffersInOrder'
  BY DEF ChannelInvariant, BuffersInOrder, Pending
<1> QED
  BY <1>2, <1>3 DEF ChannelInvariant, TypeOK, MemoryType, IndicesGrow

LEMMA StoreMemory ==
  ASSUME ChannelInvariant, NEW t \in Threads, StoresIndex(t)
  PROVE  BuffersInOrder' /\ MemoryType' /\ IndicesGrow
<1>1. TypeOK /\ BuffersInOrder /\ at \in [Threads -> Places]
  BY DEF ChannelInvariant, TypeOK
<1>2. /\ Own(t) \in memory[Index[t]] .. Messages
      /\ memory[Index[t]] \in 0 .. Messages /\ Messages \in Nat /\ Capacity \in Nat \ {0}
  BY <1>1, OwnBounds, ChannelAssumption DEF TypeOK, Threads, Index
<1>3. at[t] = "store" /\ at' = [at EXCEPT ![t] = "notify"]
      /\ Store(t, Index[t], Own(t) + 1)
  BY DEF StoresIndex, Goto, Own
<1>4. Own(t) + 1 \in Own(t) .. Messages
  <2>1. t = "producer" => Own(t) < Messages
    BY <1>3 DEF ChannelInvariant, IndicesInStep
  <2>2. t = "consumer" => Own(t) < memory.head
    BY <1>3 DEF ChannelInvariant, IndicesInStep
  <2>3. memory.head \in 0 .. Messages
    BY <1>1 DEF TypeOK
  <2> QED
    BY <1>2, <2>1, <2>2, <2>3 DEF Threads
<1>5. Index[t] \in Variables /\ Own(t) + 1 \in Nat
  BY <1>2 DEF Threads, Index, Variables
<1>6. BuffersInOrder'
  BY <1>1, <1>3, <1>4, <1>5, StoreInOrder
<1>7. /\ Load(t, Index[t])' = Own(t) + 1
      /\ \A u \in Threads, y \in Variables : y # Index[t] => Load(u, y)' = Load(u, y)
  BY <1>1, <1>3, <1>5, StoreLoads
<1>8. \A u \in Threads \ {t} : Own(u)' = Own(u)
  BY <1>7 DEF Own, Threads, Index, Variables
<1>9. Own(t)' = Own(t) + 1
  BY <1>7 DEF Own
<1>10. memory' = memory \/ memory' = [memory EXCEPT ![Index[t]] = Own(t) + 1]
  BY <1>3 DEF Store
<1>11. MemoryType' /\ memory.head <= memory'.head /\ memory.tail <= memory'.tail
  <2>1. Own(t) + 1 \in 0 .. Messages /\ memory[Index[t]] <= Own(t) + 1
    BY <1>2, <1>4
  <2>2. memory.head \in Int /\ memory.tail \in Int
    BY <1>1 DEF TypeOK
  <2> QED
    BY <1>1, <1>10, <2>1, <2>2 DEF TypeOK, MemoryType, Threads, Index
<1>12. \A u \in Threads : at[u] = "store" /\ at'[u] # "store" <=> u = t
  BY <1>1, <1>3
<1> QED
  BY <1>6, <1>8, <1>9, <1>11, <1>12 DEF IndicesGrow

LEMMA FlagMemory ==
  ASSUME ChannelInvariant, NEW t \in Threads, WaitRegisters(t) \/ WaitDeregisters(t)
  PROVE  BuffersInOrder' /\ MemoryType' /\ IndicesGrow
<1>1. TypeOK /\ BuffersInOrder /\ at \in [Threads -> Places]
  BY DEF ChannelInvariant, TypeOK
<1>2. PICK v \in BOOLEAN : Store(t, WaitingFlag[t], v)
  BY DEF WaitRegisters, WaitDeregisters
<1>3. \A u \in Threads : at[u] = "store" => at'[u] = "store"
  BY <1>1 DEF WaitRegisters, WaitDeregisters, Goto
<1>4. WaitingFlag[t] \in Variables
  BY DEF Threads, WaitingFlag, Variables
<1>5. BuffersInOrder'
  BY <1>1, <1>2, <1>4, StoreInOrder
<1>6. \A u \in Threads, y \in Variables : y # WaitingFlag[t] => Load(u, y)' = Load(u, y)
  BY <1>1, <1>2, <1>4, StoreLoads
<1>7. \A u \in Threads : Own(u)' = Own(u)
  BY <1>6 DEF Own, Threads, Index, WaitingFlag, Variables
<1>8. memory' = memory \/ memory' = [memory EXCEPT ![WaitingFlag[t]] = v]
  BY <1>2 DEF Store
<1>9. MemoryType' /\ memory'.head = memory.head /\ memory'.tail = memory.tail
  BY <1>1, <1>8 DEF TypeOK, MemoryType, Threads, WaitingFlag
<1> QED
  BY <1>1, <1>3, <1>5, <1>7, <1>9 DEF IndicesGrow, TypeOK

LEMMA DrainMemory ==
  ASSUME ChannelInvariant, NEW t \in Threads, Drain(t)
  PROVE  BuffersInOrder' /\ MemoryType' /\ IndicesGrow
<1>1. TypeOK /\ BuffersInOrder
  BY DEF ChannelInvariant
<1>2. BuffersInOrder' /\ \A y \in Variables : Load(t, y)' = Load(t, y)
  BY <1>1, DrainInOrder, DrainLoads
<1>3. at' = at
  BY DEF Drain
<1>4. /\ buffer[t] # <<>> /\ buffer[t] \in Seq(Stores)
      /\ buffer' = [buffer EXCEPT ![t] = Tail(@)]
      /\ memory' = [memory EXCEPT ![buffer[t][1].variable] = buffer[t][1].value]
      /\ Len(buffer[t]) \in Nat \ {0}
  BY <1>1 DEF Drain, BuffersInOrder
<1>5. \/ /\ buffer[t][1].variable = Index[t]
         /\ buffer[t][1].value \in memory[Index[t]] .. Messages
      \/ /\ buffer[t][1].variable = WaitingFlag[t]
         /\ buffer[t][1].value \in BOOLEAN
  BY <1>1, <1>4 DEF BuffersInOrder
<1>6. MemoryType' /\ memory.head <= memory'.head /\ memory.tail <= memory'.tail
  <2>1. Messages \in Nat /\ memory.head \in 0 .. Messages /\ memory.tail \in 0 .. Messages
    BY <1>1, ChannelAssumption DEF TypeOK
  <2> QED
    BY <1>1, <1>4, <1>5, <2>1 DEF TypeOK, MemoryType, Threads, Index, WaitingFlag
<1>7. ASSUME NEW u \in Threads \ {t}
      PROVE  Own(u)' = Own(u)
  <2>1. buffer'[u] = buffer[u] /\ memory'[Index[u]] = memory[Index[u]]
    BY <1>1, <1>4, <1>5 DEF BuffersInOrder, TypeOK, Threads, Index, WaitingFlag
  <2> QED
    BY <2>1 DEF Own, Load, Pending
<1>8. Own(t)' = Own(t)
  BY <1>2 DEF Own, Threads, Index, Variables
<1> QED
  BY <1>2, <1>3, <1>6, <1>7, <1>8 DEF IndicesGrow

LEMMA NextMemory ==
  ASSUME ChannelInvariant, [Next]_vars
  PROVE  BuffersInOrder' /\ MemoryType' /\ IndicesGrow
<1> USE DEF ChannelInvariant, TypeOK
<1>1. ASSUME NEW t \in Threads,
             \/ TryChecks(t) \/ NotifyChecks(t) \/ NotifyWakes(t) \/ WaitTestsQueue(t)
             \/ WaitTestsCancelled(t) \/ WaitSleeps(t) \/ Locking(t) \/ SpuriousWakeup(t)
      PROVE  /\ UNCHANGED <<memory, buffer>>
             /\ \A u \in Threads : at[u] = "store" => at'[u] = "store"
  BY <1>1 DEF TryChecks, NotifyChecks, NotifyWakes, WaitTestsQueue, WaitTestsCancelled,
              WaitSleeps, Locking, NotifyLocks, WaitLocks, WaitRelocks, SpuriousWakeup, Goto
<1>2. ASSUME Transfer \/ Owner \/ UNCHANGED vars
      PROVE  /\ UNCHANGED <<memory, buffer>>
             /\ \A u \in Threads : at[u] = "store" => at'[u] = "store"
  BY <1>2 DEF Transfer, PushEmplaces, PopMoves, PushReturns, PopReturns, Goto, vars,
              Owner, OwnerCancels, OwnerLocks, OwnerNotifiesAll, Threads
<1> QED
  BY <1>1, <1>2, QuietMemory, StoreMemory, FlagMemory, DrainMemory DEF Next, Running

\* The bounds both ends rely on.
LEMMA InvariantBounds ==
  ASSUME ChannelInvariant
  PROVE  /\ Capacity \in Nat \ {0} /\ Messages \in Nat
         /\ memory.head \in Nat /\ memory.tail \in Nat
         /\ Own("producer") \in memory.head .. Messages
         /\ Own("consumer") \in memory.tail .. memory.head
         /\ Emptied \in Nat /\ Filled \in Nat
         /\ Emptied <= Filled /\ Filled <= Emptied + Capacity /\ Filled <= Messages
<1>1. /\ Own("producer") \in memory["head"] .. Messages
      /\ Own("consumer") \in memory["tail"] .. Messages
  BY OwnBounds DEF ChannelInvariant, Threads, Index
<1>2. memory.head \in 0 .. Messages /\ memory.tail \in 0 .. Messages
  BY DEF ChannelInvariant, TypeOK
<1>3. Capacity \in Nat \ {0} /\ Messages \in Nat
  BY ChannelAssumption
<1> QED
  BY <1>1, <1>2, <1>3 DEF ChannelInvariant, IndicesInStep, Ahead, Filled, Emptied

LEMMA NextIndicesInStep ==
  ASSUME ChannelInvariant, [Next]_vars, MemoryType', IndicesGrow
  PROVE  IndicesInStep'
<1> USE InvariantBounds
<1>1. /\ memory.head <= memory'.head /\ memory.tail <= memory'.tail
      /\ memory'.head \in Nat /\ memory'.tail \in Nat
  BY DEF IndicesGrow, MemoryType
<1>2. /\ Own("producer")' = IF at["producer"] = "store" /\ at'["producer"] # "store"
                            THEN Own("producer") + 1 ELSE Own("producer")
      /\ Own("consumer")' = IF at["consumer"] = "store" /\ at'["consumer"] # "store"
                            THEN Own("consumer") + 1 ELSE Own("consumer")
  BY DEF IndicesGrow, Threads
\* Only a successful check leads to the access of a slot, and only that to the store.
<1>3. /\ at'["producer"] \in {"access", "store"} =>
             /\ at["producer"] = "store" => at'["producer"] = "store"
             /\ \/ at["producer"] \in {"access", "store"}
                \/ Own("producer") < memory.tail + Capacity /\ Own("producer") < Messages
      /\ at'["consumer"] \in {"access", "store"} =>
             /\ at["consumer"] = "store" => at'["consumer"] = "store"
             /\ \/ at["consumer"] \in {"access", "store"}
                \/ Own("consumer") < memory.head
  <2> USE DEF ChannelInvariant, TypeOK, Goto, Threads
  <2>1. ASSUME NEW t \in Threads, TryChecks(t)
        PROVE  <1>3!1 /\ <1>3!2
    <3>1. at[t] = "check" /\ at' = [at EXCEPT ![t] = IF Blocked(t) THEN "lock" ELSE "access"]
      BY <2>1 DEF TryChecks
    <3>2. t = "producer" => Own("producer") < Messages
      BY <2>1 DEF TryChecks, Own, Index
    <3>3. t = "producer" /\ ~ Blocked(t) => Own("producer") < memory.tail + Capacity
      BY PeerIndex DEF Blocked, Own, Index
    <3>4. t = "consumer" /\ ~ Blocked(t) => Own("consumer") < memory.head
      BY PeerIndex DEF Blocked, Own, Index
    <3> QED
      BY <3>1, <3>2, <3>3, <3>4
  <2>2. ASSUME NEW t \in Threads, \/ Running(t) /\ ~ TryChecks(t)
                                  \/ Locking(t) \/ Drain(t) \/ SpuriousWakeup(t)
        PROVE  <1>3!1 /\ <1>3!2
    BY ZenonT(60), <2>2 DEF Running, StoresIndex, NotifyChecks, NotifyWakes, WaitRegisters,
                WaitTestsQueue, WaitTestsCancelled, WaitSleeps, WaitDeregisters, Locking,
                NotifyLocks, WaitLocks, WaitRelocks, Drain, SpuriousWakeup
  <2>3. CASE Transfer \/ Owner \/ UNCHANGED vars
    BY <2>3 DEF Transfer, PushEmplaces, PopMoves, PushReturns, PopReturns, vars,
                Owner, OwnerCancels, OwnerLocks, OwnerNotifiesAll
  <2> QED
    BY <2>1, <2>2, <2>3 DEF Next
<1>4. IndicesInStep
  BY DEF ChannelInvariant
<1>5. Own("consumer")' <= memory'.head
  BY <1>1, <1>2, <1>4 DEF IndicesInStep
<1>6. Own("producer")' <= memory'.tail + Capacity
  BY <1>1, <1>2, <1>4 DEF IndicesInStep
<1>7. ASSUME at'["consumer"] \in {"access", "store"}
      PROVE  Own("consumer")' < memory'.head
  <2>1. Own("consumer")' = Own("consumer")
    BY <1>2, <1>3, <1>7
  <2>2. Own("consumer") < memory.head
    BY <1>3, <1>4, <1>7 DEF IndicesInStep
  <2> QED
    BY <1>1, <2>1, <2>2
<1>8. ASSUME at'["producer"] \in {"access", "store"}
      PROVE  Own("producer")' < memory'.tail + Capacity /\ Own("producer")' < Messages
  <2>1. Own("producer")' = Own("producer")
    BY <1>2, <1>3, <1>8
  <2>2. Own("producer") < memory.tail + Capacity /\ Own("producer") < Messages
    BY <1>3, <1>4, <1>8 DEF IndicesInStep
  <2> QED
    BY <1>1, <2>1, <2>2
<1> QED
  BY <1>5, <1>6, <1>7, <1>8 DEF IndicesInStep

LEMMA NextSlotsHoldMessages ==
  ASSUME ChannelInvariant, [Next]_vars, IndicesGrow
  PROVE  SlotsHoldMessages'
<1> USE InvariantBounds
<1>1. TypeOK /\ at \in [Threads -> Places] /\ m_values \in [0 .. Capacity - 1 -> 0 .. Messages]
  BY DEF ChannelInvariant, TypeOK
<1>2. \A t \in Threads :
          Own(t)' = IF at[t] = "store" /\ at'[t] # "store" THEN Own(t) + 1 ELSE Own(t)
  BY DEF IndicesGrow
<1>3. CASE PushEmplaces
  <2>1. /\ at["producer"] = "access" /\ at' = [at EXCEPT !["producer"] = "store"]
        /\ m_values' = [m_values EXCEPT ![Filled % Capacity] = Filled + 1]
        /\ received' = received /\ Filled = Own("producer")
    BY <1>3 DEF PushEmplaces, Goto, SlotOf, Own, Index, Filled, Ahead
  <2>2. Filled' = Filled + 1 /\ Emptied' = Emptied
    BY <1>1, <1>2, <2>1 DEF Filled, Emptied, Ahead, Threads
  <2>3. Filled < Emptied + Capacity
    BY <2>1 DEF ChannelInvariant, IndicesInStep, Emptied, Ahead
  <2>4. \A k \in Emptied .. Emptied + Capacity - 1 :
            m_values'[k % Capacity] = IF k = Filled THEN Filled + 1 ELSE m_values[k % Capacity]
    <3>1. TAKE k \in Emptied .. Emptied + Capacity - 1
    <3>2. k # Filled => k % Capacity # Filled % Capacity
      <4>1. k < Filled => k \in Nat /\ Filled < k + Capacity
        BY <2>3
      <4>2. k > Filled => k \in Nat /\ k < Filled + Capacity
        OBVIOUS
      <4> QED
        BY <4>1, <4>2, SlotsDiffer
    <3>3. k % Capacity \in 0 .. Capacity - 1 /\ Filled % Capacity \in 0 .. Capacity - 1
      BY SlotInRange
    <3> QED
      BY <1>1, <2>1, <3>2, <3>3
  <2>5. \A k \in Emptied .. Filled : m_values'[k % Capacity] = k + 1
    BY <2>3, <2>4 DEF ChannelInvariant, SlotsHoldMessages
  <2>6. \A k \in Filled + 1 .. Emptied + Capacity - 1 : m_values'[k % Capacity] = NoMessage
    BY <2>4 DEF ChannelInvariant, SlotsHoldMessages
  <2>7. received' = Emptied'
    BY <2>1, <2>2 DEF ChannelInvariant, SlotsHoldMessages
  <2> QED
    BY <2>2, <2>5, <2>6, <2>7 DEF SlotsHoldMessages
<1>4. CASE PopMoves
  <2>1. /\ at["consumer"] = "access" /\ at' = [at EXCEPT !["consumer"] = "store"]
        /\ received' = m_values[Emptied % Capacity]
        /\ m_values' = [m_values EXCEPT ![Emptied % Capacity] = NoMessage]
        /\ Emptied = Own("consumer")
    BY <1>4 DEF PopMoves, Goto, SlotOf, Own, Index, Emptied, Ahead
  <2>2. Emptied' = Emptied + 1 /\ Filled' = Filled
    BY <1>1, <1>2, <2>1 DEF Filled, Emptied, Ahead, Threads
  <2>3. Emptied < Filled
    BY <2>1 DEF ChannelInvariant, IndicesInStep, Filled, Ahead
  <2>4. \A k \in Emptied .. Emptied + Capacity - 1 :
            m_values'[k % Capacity] = IF k = Emptied THEN NoMessage ELSE m_values[k % Capacity]
    <3>1. TAKE k \in Emptied .. Emptied + Capacity - 1
    <3>2. k # Emptied => k % Capacity # Emptied % Capacity
      <4>1. k # Emptied => k \in Nat /\ Emptied < k /\ k < Emptied + Capacity
        OBVIOUS
      <4> QED
        BY <4>1, SlotsDiffer
    <3>3. k % Capacity \in 0 .. Capacity - 1 /\ Emptied % Capacity \in 0 .. Capacity - 1
      BY SlotInRange
    <3> QED
      BY <1>1, <2>1, <3>2, <3>3
  <2>5. (Emptied + Capacity) % Capacity = Emptied % Capacity
    BY SlotsRepeat
  <2>6. received' = Emptied + 1
    BY <2>1, <2>3 DEF ChannelInvariant, SlotsHoldMessages
  <2>7. m_values'[(Emptied + Capacity) % Capacity] = NoMessage
    BY <2>4, <2>5
  <2>8. \A k \in Emptied + 1 .. Filled - 1 : m_values'[k % Capacity] = k + 1
    BY <2>4 DEF ChannelInvariant, SlotsHoldMessages
  <2>9. ASSUME NEW k \in Filled .. Emptied + Capacity
        PROVE  m_values'[k % Capacity] = NoMessage
    <3>1. CASE k = Emptied + Capacity
      BY <2>7, <3>1
    <3>2. CASE k \in Filled .. Emptied + Capacity - 1
      BY <2>3, <2>4, <3>2 DEF ChannelInvariant, SlotsHoldMessages
    <3> QED
      BY <3>1, <3>2
  <2> QED
    BY <2>2, <2>6, <2>8, <2>9 DEF SlotsHoldMessages
<1>5. CASE UNCHANGED <<m_values, received>> /\ Emptied' = Emptied /\ Filled' = Filled
  BY <1>5 DEF ChannelInvariant, SlotsHoldMessages
<1>6. ASSUME \A t \in Threads : at'[t] = "store" => at[t] = "store"
      PROVE  Emptied' = Emptied /\ Filled' = Filled
  BY <1>2, <1>6 DEF Emptied, Filled, Ahead, Threads
<1>7. ASSUME NEW t \in Threads, Running(t) \/ Locking(t) \/ Drain(t) \/ SpuriousWakeup(t)
      PROVE  m_values' = m_values /\ received' = received
             /\ \A u \in Threads : at'[u] = "store" => at[u] = "store"
  BY <1>1, <1>7
     DEF Running, TryChecks, StoresIndex, NotifyChecks, NotifyWakes, WaitRegisters,
         WaitTestsQueue, WaitTestsCancelled, WaitSleeps, WaitDeregisters, Locking,
         NotifyLocks, WaitLocks, WaitRelocks, Drain, SpuriousWakeup, Goto, Threads
<1>8. ASSUME PushReturns \/ PopReturns \/ Owner \/ UNCHANGED vars
      PROVE  m_values' = m_values /\ received' = received
             /\ \A u \in Threads : at'[u] = "store" => at[u] = "store"
  BY <1>1, <1>8 DEF PushReturns, PopReturns, vars, Goto, Threads,
                    Owner, OwnerCancels, OwnerLocks, OwnerNotifiesAll
<1> QED
  BY <1>3, <1>4, <1>5, <1>6, <1>7, <1>8 DEF Next, Transfer

LEMMA NextTypeOK ==
  ASSUME ChannelInvariant, [Next]_vars, MemoryType'
  PROVE  TypeOK'
<1> USE DEF TypeOK, Goto, Threads, Places
<1>1. TypeOK
  BY DEF ChannelInvariant
<1>2. CASE UNCHANGED vars
  BY <1>1, <1>2 DEF vars
<1>3. ASSUME NEW t \in Threads, Running(t) \/ Locking(t) \/ Drain(t) \/ SpuriousWakeup(t)
      PROVE  TypeOK'
  <2>1. UNCHANGED <<m_values, cancelled, owner, received, headAtCancel>>
    BY <1>3 DEF Running, TryChecks, StoresIndex, NotifyChecks, NotifyWakes, WaitRegisters,
                WaitTestsQueue, WaitTestsCancelled, WaitSleeps, WaitDeregisters, Locking,
                NotifyLocks, WaitLocks, WaitRelocks, Drain, SpuriousWakeup
  <2>2. \E place \in Places : at' = [at EXCEPT ![t] = place] \/ at' = at
    BY <1>1, <1>3
       DEF Running, TryChecks, StoresIndex, NotifyChecks, NotifyWakes, WaitRegisters,
           WaitTestsQueue, WaitTestsCancelled, WaitSleeps, WaitDeregisters, Locking,
           NotifyLocks, WaitLocks, WaitRelocks, Drain, SpuriousWakeup
  <2>3. m_waitMutex' \in {m_waitMutex, t, "free"} /\ asleep' \subseteq asleep \cup {t}
    BY <1>3
       DEF Running, TryChecks, StoresIndex, NotifyChecks, NotifyWakes, WaitRegisters,
           WaitTestsQueue, WaitTestsCancelled, WaitSleeps, WaitDeregisters, Locking,
           NotifyLocks, WaitLocks, WaitRelocks, Drain, SpuriousWakeup, Lock, Unlock
  <2>4. at' \in [Threads -> Places]
    BY <1>1, <2>2
  <2> QED
    BY <1>1, <2>1, <2>3, <2>4 DEF MemoryType
<1>4. CASE PushEmplaces
  <2>1. /\ m_values' = [m_values EXCEPT ![SlotOf("producer")] = Own("producer") + 1]
        /\ at["producer"] = "access"
    BY <1>4 DEF PushEmplaces, Own, Index
  <2>2. Own("producer") + 1 \in 0 .. Messages
    BY SMTT(30), <2>1, InvariantBounds DEF ChannelInvariant, IndicesInStep
  <2>3. m_values' \in [0 .. Capacity - 1 -> 0 .. Messages]
    BY <1>1, <2>1, <2>2
  <2> QED
    BY <1>1, <1>4, <2>3 DEF PushEmplaces, MemoryType
<1>5. CASE PopMoves
  <2>1. SlotOf("consumer") \in 0 .. Capacity - 1
    BY InvariantBounds, SlotInRange DEF SlotOf, Own, Index
  <2>2. Messages \in Nat
    BY ChannelAssumption
  <2> QED
    BY <1>1, <1>5, <2>1, <2>2 DEF PopMoves, MemoryType, NoMessage
<1>6. CASE PushReturns \/ PopReturns
  BY ZenonT(60), <1>1, <1>6 DEF PushReturns, PopReturns, Unlock, MemoryType
<1>7. CASE Owner
  BY <1>1, <1>7 DEF Owner, OwnerCancels, OwnerLocks, OwnerNotifiesAll, MemoryType
<1> QED
  BY <1>2, <1>3, <1>4, <1>5, <1>6, <1>7 DEF Next, Transfer

LEMMA NextCancelledInOrder ==
  ASSUME ChannelInvariant, [Next]_vars, IndicesGrow, MemoryType'
  PROVE  CancelledInOrder'
<1> USE DEF Goto, Threads
<1>1. /\ CancelledInOrder /\ at \in [Threads -> Places] /\ received = Emptied
      /\ headAtCancel \in Nat /\ memory.head \in Nat /\ memory'.head \in Nat
      /\ memory.head <= memory'.head
  BY InvariantBounds DEF ChannelInvariant, TypeOK, SlotsHoldMessages, IndicesGrow, MemoryType
<1>2. CASE UNCHANGED vars
  BY <1>1, <1>2 DEF CancelledInOrder, vars
<1>3. ASSUME NEW t \in Threads, Running(t) \/ Locking(t) \/ Drain(t) \/ SpuriousWakeup(t)
      PROVE  CancelledInOrder'
  <2>1. UNCHANGED <<cancelled, owner, received, headAtCancel>>
    BY <1>3 DEF Running, TryChecks, StoresIndex, NotifyChecks, NotifyWakes, WaitRegisters,
                WaitTestsQueue, WaitTestsCancelled, WaitSleeps, WaitDeregisters, Locking,
                NotifyLocks, WaitLocks, WaitRelocks, Drain, SpuriousWakeup
  <2>2. \A u \in Threads : at'[u] \in {"testEmpty", "quit"} => at'[u] = at[u]
    BY <1>1, <1>3
       DEF Running, TryChecks, StoresIndex, NotifyChecks, NotifyWakes, WaitRegisters,
           WaitTestsQueue, WaitTestsCancelled, WaitSleeps, WaitDeregisters, Locking,
           NotifyLocks, WaitLocks, WaitRelocks, Drain, SpuriousWakeup
  <2> QED
    BY <1>1, <2>1, <2>2 DEF CancelledInOrder
<1>4. CASE PushEmplaces \/ PopMoves
  <2>1. at'["consumer"] \notin {"testEmpty", "quit"} \/ UNCHANGED <<received, at["consumer"]>>
    BY <1>1, <1>4 DEF PushEmplaces, PopMoves
  <2>2. UNCHANGED <<cancelled, owner, headAtCancel>>
    BY <1>4 DEF PushEmplaces, PopMoves
  <2> QED
    BY <1>1, <2>1, <2>2 DEF CancelledInOrder
<1>5. CASE PushReturns
  BY <1>1, <1>5 DEF PushReturns, CancelledInOrder
<1>6. CASE PopReturns
  <2>1. UNCHANGED <<memory, cancelled, owner, received, headAtCancel>>
    BY <1>6 DEF PopReturns
  <2>2. at'["consumer"] = "testEmpty" => cancelled
    BY <1>1, <1>6 DEF PopReturns
  <2>3. ASSUME at'["consumer"] = "quit"
        PROVE  cancelled /\ received >= headAtCancel
    <3>1. at["consumer"] = "testEmpty" /\ Blocked("consumer")
      BY <1>1, <1>6, <2>3 DEF PopReturns
    <3>2. received = memory.head
      BY <1>1, <3>1, PeerIndex DEF ChannelInvariant, Blocked, Emptied, Ahead, Own, Index
    <3> QED
      BY <1>1, <3>1, <3>2 DEF CancelledInOrder
  <2> QED
    BY <1>1, <2>1, <2>2, <2>3 DEF CancelledInOrder
<1>7. CASE Owner
  BY <1>1, <1>7 DEF Owner, OwnerCancels, OwnerLocks, OwnerNotifiesAll, CancelledInOrder
<1> QED
  BY <1>2, <1>3, <1>4, <1>5, <1>6, <1>7 DEF Next, Transfer

-----------------------------------------------------------------------------
(* The theorems.                                                           *)

LEMMA InitChannelInvariant == Init => ChannelInvariant
<1> SUFFICES ASSUME Init
             PROVE  ChannelInvariant
  OBVIOUS
<1>1. \A t \in Threads, x \in Variables : Pending(t, x) = {}
  BY DEF Init, Pending
<1>2. Own("producer") = 0 /\ Own("consumer") = 0
  BY <1>1 DEF Init, Own, Load, Index, Threads, Variables
<1>3. Filled = 0 /\ Emptied = 0
  BY <1>2 DEF Init, Filled, Emptied, Ahead, Threads
<1>4. TypeOK
  <2>1. /\ m_values \in [0 .. Capacity - 1 -> 0 .. Messages]
        /\ received \in 0 .. Messages /\ headAtCancel \in 0 .. Messages
    BY ChannelAssumption DEF Init, NoMessage
  <2>2. memory \in [head : 0 .. Messages, tail : 0 .. Messages,
                    producerWaiting : BOOLEAN, consumerWaiting : BOOLEAN]
    BY ChannelAssumption DEF Init
  <2>3. at \in [Threads -> Places] /\ asleep \subseteq Threads
    BY DEF Init, Places
  <2> QED
    BY <2>1, <2>2, <2>3 DEF Init, TypeOK
<1>5. BuffersInOrder
  BY <1>1 DEF Init, BuffersInOrder, Threads, Index, Variables
<1>6. IndicesInStep
  BY <1>2, ChannelAssumption DEF Init, IndicesInStep, Threads
<1>7. SlotsHoldMessages
  <2>1. Capacity \in Nat /\ m_values = [s \in 0 .. Capacity - 1 |-> NoMessage]
    BY ChannelAssumption DEF Init
  <2>2. ASSUME NEW k \in 0 .. Capacity - 1
        PROVE  m_values[k % Capacity] = NoMessage
    <3>1. k \in Nat
      BY <2>1
    <3>2. k % Capacity \in 0 .. Capacity - 1
      BY <3>1, SlotInRange
    <3> QED
      BY <2>1, <3>2
  <2>3. received = 0
    BY DEF Init, NoMessage
  <2> QED
    BY <1>3, <2>1, <2>2, <2>3 DEF SlotsHoldMessages
<1>8. CancelledInOrder
  BY DEF Init, CancelledInOrder, Threads
<1> QED
  BY <1>4, <1>5, <1>6, <1>7, <1>8 DEF ChannelInvariant

LEMMA NextChannelInvariant == ChannelInvariant /\ [Next]_vars => ChannelInvariant'
  BY NextMemory, NextIndicesInStep, NextSlotsHoldMessages, NextTypeOK, NextCancelledInOrder
     DEF ChannelInvariant

LEMMA ChannelInvariantHolds == Spec => []ChannelInvariant
  BY InitChannelInvariant, NextChannelInvariant, PTL DEF Spec

\* Every variable keeps its type: no index runs past the messages.
THEOREM ChannelTypeCorrect == Spec => []TypeOK
<1>1. ChannelInvariant => TypeOK
  BY DEF ChannelInvariant
<1> QED
  BY <1>1, ChannelInvariantHolds, PTL

\* Every published message arrives once, whole and in order, also behind a cancellation,
\* whatever the two threads and the owner interleave and however long stores are delayed.
THEOREM ChannelDelivers == Spec => []PublishedMessagesArrive
<1>1. ASSUME ChannelInvariant
      PROVE  PublishedMessagesArrive
  <2>1. at["consumer"] = "access" => m_values[SlotOf("consumer")] = received + 1
    <3>1. ASSUME at["consumer"] = "access"
          PROVE  /\ SlotOf("consumer") = Emptied % Capacity
                 /\ Emptied \in Emptied .. Filled - 1
      BY <1>1, <3>1, InvariantBounds
         DEF ChannelInvariant, IndicesInStep, SlotOf, Own, Index, Emptied, Filled, Ahead
    <3> QED
      BY <1>1, <3>1 DEF ChannelInvariant, SlotsHoldMessages
  <2>2. at["producer"] = "access" => m_values[SlotOf("producer")] = NoMessage
    <3>1. ASSUME at["producer"] = "access"
          PROVE  /\ SlotOf("producer") = Filled % Capacity
                 /\ Filled \in Filled .. Emptied + Capacity - 1
      BY <1>1, <3>1, InvariantBounds
         DEF ChannelInvariant, IndicesInStep, SlotOf, Own, Index, Emptied, Filled, Ahead
    <3> QED
      BY <1>1, <3>1 DEF ChannelInvariant, SlotsHoldMessages
  <2>3. CancellationDiscardsNothing
    BY <1>1 DEF ChannelInvariant, CancelledInOrder, CancellationDiscardsNothing
  <2> QED
    BY <2>1, <2>2, <2>3 DEF PublishedMessagesArrive, MessagesPassInOrder
<1> QED
  BY <1>1, ChannelInvariantHolds, PTL

-----------------------------------------------------------------------------
(* The wakeups.  When no store is delayed past a later load nobody sleeps  *)
(* through a notification: what NoLostWakeup says fails only for the       *)
(* memory orders the code has chosen, not for the order of its steps.      *)

Holding == {"notifyLocked", "register", "predicate", "testCancelled", "sleep", "awake",
            "testExit", "testEmpty"}
Registered == {"predicate", "testCancelled", "sleep", "asleep", "awake"}

\* The queue as it is in memory.
Stuck(t) == IF t = "producer" THEN memory.head - memory.tail >= Capacity
                              ELSE memory.head = memory.tail

Notifying(t) == at[t] \in {"notify", "notifyLock", "notifyLocked"}

\* The mutex has one holder, the waiting flag is set from the registration to the end of
\* the wait, and from the test of the queue to the sleep a change of the queue has a
\* notification behind it that cannot pass the sleeper.
WaitInOrder(t) ==
    /\ at[t] \in Holding => m_waitMutex = t
    /\ at[t] \in Registered => memory[WaitingFlag[t]]
    /\ t \in asleep => at[t] = "asleep"
    /\ at[t] \in {"testCancelled", "sleep"} \/ t \in asleep => Stuck(t) \/ Notifying(Peer[t])
    /\ (at[t] = "sleep" \/ t \in asleep) /\ cancelled => owner \in {"cancelled", "notifying"}

WakeupInvariant ==
    /\ owner = "notifying" => m_waitMutex = "owner"
    /\ \A t \in Threads : WaitInOrder(t)

LEMMA LoadsAreMemory ==
  ASSUME ~ StoreBuffering, BuffersInOrder
  PROVE  /\ \A t \in Threads, x \in Variables : Load(t, x) = memory[x]
         /\ \A t \in Threads : Blocked(t) <=> Stuck(t)
<1>1. \A t \in Threads, x \in Variables : Load(t, x) = memory[x]
  BY DEF BuffersInOrder, Load, Pending
<1> QED
  BY <1>1 DEF Blocked, Stuck, Threads, Variables

LEMMA PeersAreTwo ==
  ASSUME NEW t \in Threads
  PROVE  /\ Threads = {t, Peer[t]} /\ Peer[t] # t /\ Peer[t] \in Threads /\ Peer[Peer[t]] = t
         /\ Index[t] \in Variables /\ WaitingFlag[t] \in Variables
         /\ Index[t] # WaitingFlag[t] /\ Index[t] # WaitingFlag[Peer[t]]
         /\ WaitingFlag[t] # WaitingFlag[Peer[t]]
         /\ t \notin {"owner", "free"} /\ WaitingFlag[t] \notin {"head", "tail"}
  BY DEF Threads, Peer, Index, WaitingFlag, Variables

LEMMA ThreadWakeupInvariant ==
  ASSUME ~ StoreBuffering, ChannelInvariant, WakeupInvariant, NEW t \in Threads,
         Running(t) \/ Locking(t) \/ Drain(t) \/ SpuriousWakeup(t)
  PROVE  WakeupInvariant'
<1> DEFINE p == Peer[t]
<1>1. /\ at \in [Threads -> Places] /\ asleep \subseteq Threads
      /\ buffer[t] = <<>> /\ DOMAIN memory = Variables
      /\ \A u \in Threads, x \in Variables : Load(u, x) = memory[x]
      /\ \A u \in Threads : Blocked(u) <=> Stuck(u)
  BY LoadsAreMemory DEF ChannelInvariant, TypeOK, BuffersInOrder, Variables
<1>2. /\ Threads = {t, p} /\ p # t /\ p \in Threads /\ Peer[p] = t
      /\ Index[t] \in Variables /\ WaitingFlag[t] \in Variables /\ WaitingFlag[p] \in Variables
      /\ Index[t] # WaitingFlag[t] /\ Index[t] # WaitingFlag[p]
      /\ WaitingFlag[t] # WaitingFlag[p]
      /\ t \notin {"owner", "free"} /\ WaitingFlag[t] \notin {"head", "tail"}
      /\ p \notin {"owner", "free"}
  BY PeersAreTwo
<1>3. WaitInOrder(t) /\ WaitInOrder(p) /\ (owner = "notifying" => m_waitMutex = "owner")
  BY <1>2 DEF WakeupInvariant
<1>4. memory' = memory => Stuck(t)' = Stuck(t) /\ Stuck(p)' = Stuck(p)
  BY DEF Stuck
<1> SUFFICES /\ WaitInOrder(t)' /\ WaitInOrder(p)'
             /\ owner' = "notifying" => m_waitMutex' = "owner"
  BY <1>2 DEF WakeupInvariant
<1> HIDE DEF p
<1> USE <1>1, <1>2, <1>3 DEF Goto, WaitInOrder, Notifying, Holding, Registered
<1>5. p = Peer[t]
  BY DEF p
<1>6. CASE TryChecks(t)
  BY <1>4, <1>5, <1>6 DEF TryChecks
<1>7. CASE StoresIndex(t)
  <2>1. /\ at[t] = "store" /\ at' = [at EXCEPT ![t] = "notify"]
        /\ memory' = [memory EXCEPT ![Index[t]] = Load(t, Index[t]) + 1]
        /\ UNCHANGED <<m_waitMutex, asleep, cancelled, owner>>
    BY <1>7 DEF StoresIndex, Store
  <2>2. /\ memory'[WaitingFlag[p]] = memory[WaitingFlag[p]]
        /\ t \notin asleep /\ at'[t] = "notify" /\ at'[p] = at[p]
    BY <2>1
  <2> QED
    BY <1>5, <2>1, <2>2
<1>8. CASE NotifyChecks(t)
  <2>1. /\ at[t] = "notify" /\ UNCHANGED <<memory, m_waitMutex, asleep, cancelled, owner>>
        /\ at' = [at EXCEPT ![t] = IF Load(t, WaitingFlag[p]) THEN "notifyLock" ELSE "check"]
    BY <1>5, <1>8 DEF NotifyChecks
  <2>2. /\ at'[t] = IF memory[WaitingFlag[p]] THEN "notifyLock" ELSE "check"
        /\ at'[p] = at[p]
    BY <2>1
  <2>3. WaitInOrder(t)'
    BY <1>4, <1>5, <2>1, <2>2
  <2>4. WaitInOrder(p)'
    BY <1>4, <1>5, <2>1, <2>2
  <2> QED
    BY <2>1, <2>3, <2>4
<1>9. CASE Locking(t)
  BY <1>4, <1>5, <1>9 DEF Locking, NotifyLocks, WaitLocks, WaitRelocks, Lock
<1>10. CASE NotifyWakes(t)
  <2>1. /\ at[t] = "notifyLocked" /\ at'[t] = "check" /\ at'[p] = at[p]
        /\ asleep' = asleep \ {p} /\ m_waitMutex' = "free" /\ m_waitMutex = t
        /\ UNCHANGED <<memory, cancelled, owner>>
    BY <1>5, <1>10 DEF NotifyWakes, Unlock
  <2>2. t \notin asleep' /\ p \notin asleep' /\ at[p] \notin Holding
    BY <2>1
  <2> QED
    BY <1>4, <1>5, <2>1, <2>2
<1>11. CASE WaitRegisters(t)
  <2>1. /\ at[t] = "register" /\ at' = [at EXCEPT ![t] = "predicate"]
        /\ memory' = [memory EXCEPT ![WaitingFlag[t]] = TRUE]
        /\ UNCHANGED <<m_waitMutex, asleep, cancelled, owner>>
    BY <1>11 DEF WaitRegisters, Store
  <2>2. Stuck(t)' = Stuck(t) /\ Stuck(p)' = Stuck(p)
    <3>1. memory'["head"] = memory["head"] /\ memory'["tail"] = memory["tail"]
      BY <2>1 DEF Variables
    <3> QED
      BY <3>1 DEF Stuck
  <2> QED
    BY <1>5, <2>1, <2>2
<1>12. CASE WaitTestsQueue(t)
  BY <1>4, <1>5, <1>12 DEF WaitTestsQueue
<1>13. CASE WaitTestsCancelled(t)
  BY <1>4, <1>5, <1>13 DEF WaitTestsCancelled
<1>14. CASE WaitSleeps(t)
  <2>1. /\ at[t] = "sleep" /\ at'[t] = "asleep" /\ at'[p] = at[p]
        /\ asleep' = asleep \cup {t} /\ m_waitMutex' = "free" /\ m_waitMutex = t
        /\ UNCHANGED <<memory, cancelled, owner>>
    BY <1>14 DEF WaitSleeps, Unlock
  <2>2. at[p] \notin Holding
    BY <2>1
  <2> QED
    BY <1>4, <1>5, <2>1, <2>2
<1>15. CASE WaitDeregisters(t)
  <2>1. /\ at[t] = "awake" /\ at' = [at EXCEPT ![t] = "testExit"]
        /\ memory' = [memory EXCEPT ![WaitingFlag[t]] = FALSE]
        /\ UNCHANGED <<m_waitMutex, asleep, cancelled, owner>>
    BY <1>15 DEF WaitDeregisters, Store
  <2>2. Stuck(t)' = Stuck(t) /\ Stuck(p)' = Stuck(p)
    <3>1. memory'["head"] = memory["head"] /\ memory'["tail"] = memory["tail"]
      BY <2>1 DEF Variables
    <3> QED
      BY <3>1 DEF Stuck
  <2> QED
    BY <1>5, <2>1, <2>2
<1>16. CASE Drain(t)
  BY <1>16 DEF Drain
<1>17. CASE SpuriousWakeup(t)
  BY <1>4, <1>5, <1>17 DEF SpuriousWakeup
<1> QED
  BY <1>6, <1>7, <1>8, <1>9, <1>10, <1>11, <1>12, <1>13, <1>14, <1>15, <1>16, <1>17
     DEF Running

LEMMA NextWakeupInvariant ==
  ASSUME ~ StoreBuffering, ChannelInvariant, WakeupInvariant, [Next]_vars
  PROVE  WakeupInvariant'
<1>1. at \in [Threads -> Places] /\ asleep \subseteq Threads
  BY DEF ChannelInvariant, TypeOK
<1> USE <1>1 DEF Goto, WakeupInvariant, WaitInOrder, Holding, Registered, Notifying, Stuck
<1>2. CASE UNCHANGED vars
  BY <1>2 DEF vars
<1>3. CASE PushEmplaces
  BY <1>3, PeersAreTwo DEF PushEmplaces, Threads, Peer
<1>4. CASE PopMoves
  BY <1>4, PeersAreTwo DEF PopMoves, Threads, Peer
<1>5. CASE PushReturns
  BY <1>5, PeersAreTwo DEF PushReturns, Unlock, Threads, Peer
<1>6. CASE PopReturns
  BY <1>6, PeersAreTwo DEF PopReturns, Unlock, Threads, Peer
<1>7. CASE OwnerCancels
  BY <1>7 DEF OwnerCancels
<1>8. CASE OwnerLocks
  BY <1>8 DEF OwnerLocks, Threads
<1>9. CASE OwnerNotifiesAll
  BY <1>9 DEF OwnerNotifiesAll, Threads
<1> QED
  BY <1>2, <1>3, <1>4, <1>5, <1>6, <1>7, <1>8, <1>9, ThreadWakeupInvariant
     DEF Next, Transfer, Owner

\* "Pair waiter registration and notification with the same mutex.  This closes the gap
\* between the wait predicate and actually sleeping" (OwningSpscChannel.h:29) is true of
\* the order of the steps: where a load never passes an earlier store, nobody sleeps on a
\* condition that holds without a notification that is still coming.
THEOREM NoWakeupLostWithoutDelay == ASSUME ~ StoreBuffering PROVE Spec => []NoLostWakeup
<1>1. Init => WakeupInvariant
  BY DEF Init, WakeupInvariant, WaitInOrder, Threads, Holding, Registered
<1>2. ChannelInvariant /\ WakeupInvariant => NoLostWakeup
  <2> SUFFICES ASSUME ChannelInvariant, WakeupInvariant
               PROVE  NoLostWakeup
    OBVIOUS
  <2>1. memory.head \in Int /\ memory.tail \in Int /\ Capacity \in Int
    BY ChannelAssumption DEF ChannelInvariant, TypeOK
  <2>2. \A t \in Threads : WaitInOrder(t)
    BY DEF WakeupInvariant
  <2>3. ASSUME NEW t \in Threads, t \in asleep, ~ Stuck(t) \/ cancelled
        PROVE  WakeupComing(t)
    BY <2>2, <2>3 DEF WaitInOrder, WakeupComing, Notifying
  <2>4. /\ memory.head # memory.tail => ~ Stuck("consumer")
        /\ memory.head - memory.tail < Capacity => ~ Stuck("producer")
    BY <2>1 DEF Stuck
  <2> QED
    BY <2>3, <2>4 DEF NoLostWakeup, Threads
<1>3. ChannelInvariant /\ WakeupInvariant /\ [Next]_vars => WakeupInvariant'
  BY NextWakeupInvariant
<1> QED
  BY <1>1, <1>2, <1>3, ChannelInvariantHolds, PTL DEF Spec
=============================================================================
