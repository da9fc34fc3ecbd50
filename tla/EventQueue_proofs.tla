--------------------------- MODULE EventQueue_proofs ---------------------------
(* Proofs about the event queue, for any kinds of events, intervals and    *)
(* size of the ring.                                                       *)
EXTENDS EventQueue, FiniteSetTheorems, WellFoundedInduction, TLAPS

-----------------------------------------------------------------------------
(* The least element of a set of natural numbers, and induction from it.   *)
Below == {ss \in Nat \X Nat : ss[1] < ss[2]}

LEMMA BelowIsWellFounded == IsWellFoundedOn(Below, Nat)
  BY NatLessThanWellFounded DEF OpToRel, Below

LEMMA Least ==
  ASSUME NEW T, T \subseteq Nat, T # {}
  PROVE  \E x \in T : \A y \in T : x <= y
<1>1. PICK x \in T : \A y \in T : ~ (<<y, x>> \in Below)
  BY BelowIsWellFounded, WFMin
<1>2. ASSUME NEW y \in T PROVE x <= y
  <2>1. x \in Nat /\ y \in Nat
    OBVIOUS
  <2>2. ~(y < x)
    BY <1>1, <2>1 DEF Below
  <2>3. QED
    BY <2>1, <2>2
<1>3. QED
  BY <1>2

LEMMA Induction ==
  ASSUME NEW T \in SUBSET Nat, 0 \in T, \A n \in T : n + 1 \in T
  PROVE  T = Nat
<1> SUFFICES ASSUME Nat \ T # {} PROVE FALSE
  OBVIOUS
<1>1. PICK x \in Nat \ T : \A y \in Nat \ T : x <= y
  BY Least
<1>2. x - 1 \in T
  BY <1>1
<1>3. QED
  BY <1>1, <1>2

-----------------------------------------------------------------------------
(* The arithmetic of the ring: the slot that is d ahead of slot p, and how *)
(* far slot s is ahead of it.                                              *)
At(p, d) == (p + d) % Size
Gap(s, p) == (s - p) % Size

LEMMA Quotient ==
  ASSUME NEW n \in Nat \ {0}, NEW r \in 0 .. n - 1
  PROVE  r % n = r /\ (r + n) % n = r /\ (r - n) % n = r
  OBVIOUS

LEMMA Wrap ==
  ASSUME NEW p \in Slot, NEW d \in Slot
  PROVE  /\ At(p, d) = IF p + d < Size THEN p + d ELSE p + d - Size
         /\ Gap(d, p) = IF d >= p THEN d - p ELSE d - p + Size
<1>1. Size \in Nat \ {0} /\ p \in 0 .. Size - 1 /\ d \in 0 .. Size - 1
  BY QueueAssumption DEF Slot
<1>2. ASSUME p + d < Size PROVE At(p, d) = p + d
  <2>1. p + d \in 0 .. Size - 1
    BY <1>1, <1>2
  <2>2. (p + d) % Size = p + d
    BY <1>1, <2>1, Quotient
  <2>3. QED
    BY <2>2 DEF At
<1>3. ASSUME ~(p + d < Size) PROVE At(p, d) = p + d - Size
  <2>1. p + d - Size \in 0 .. Size - 1 /\ p + d = (p + d - Size) + Size
    BY <1>1, <1>3
  <2>2. (p + d) % Size = p + d - Size
    BY <1>1, <2>1, Quotient
  <2>3. QED
    BY <2>2 DEF At
<1>4. At(p, d) = IF p + d < Size THEN p + d ELSE p + d - Size
  BY <1>2, <1>3
<1>5. CASE d >= p
  <2>1. d - p \in 0 .. Size - 1
    BY <1>1, <1>5
  <2>2. QED
    BY <1>1, <1>4, <1>5, <2>1, Quotient DEF Gap
<1>6. CASE ~(d >= p)
  <2>1. d - p + Size \in 0 .. Size - 1 /\ d - p = (d - p + Size) - Size
    BY <1>1, <1>6
  <2>2. (d - p) % Size = d - p + Size
    BY <1>1, <2>1, Quotient
  <2>3. QED
    BY <1>4, <1>6, <2>2 DEF Gap
<1>7. QED
  BY <1>4, <1>5, <1>6

LEMMA RingFacts ==
  ASSUME NEW p \in Slot, NEW d \in Slot
  PROVE  /\ At(p, d) \in Slot /\ Gap(d, p) \in Slot
         /\ Gap(At(p, d), p) = d
         /\ At(p, d) = p <=> d = 0
         /\ Gap(d, p) = 0 <=> d = p
<1>1. Size \in Nat \ {0} /\ p \in 0 .. Size - 1 /\ d \in 0 .. Size - 1
  BY QueueAssumption DEF Slot
<1>2. At(p, d) \in 0 .. Size - 1 /\ Gap(d, p) \in 0 .. Size - 1
  BY <1>1, Wrap
<1>3. At(p, d) \in Slot
  BY <1>2 DEF Slot
<1>4. Gap(At(p, d), p) = d
  BY <1>1, <1>3, Wrap
<1>5. (At(p, d) = p <=> d = 0) /\ (Gap(d, p) = 0 <=> d = p)
  BY <1>1, Wrap
<1>6. QED
  BY <1>2, <1>3, <1>4, <1>5 DEF Slot

(* Different distances are different slots.                                *)
LEMMA AtUnique ==
  ASSUME NEW p \in Slot, NEW d \in Slot, NEW e \in Slot, At(p, d) = At(p, e)
  PROVE  d = e
  BY RingFacts

(* Every slot but the one served comes nearer by one.                      *)
LEMMA Nearer ==
  ASSUME NEW p \in Slot, NEW s \in Slot \ {p}
  PROVE  At(p, 1) \in Slot /\ Gap(s, At(p, 1)) = Gap(s, p) - 1
<1>1. Size \in Nat \ {0} /\ p \in 0 .. Size - 1 /\ s \in 0 .. Size - 1 /\ s # p
  BY QueueAssumption DEF Slot
<1>2. 1 \in Slot
  BY <1>1 DEF Slot
<1>3. At(p, 1) \in Slot /\ At(p, 1) = IF p + 1 < Size THEN p + 1 ELSE p + 1 - Size
  BY <1>2, Wrap, RingFacts
<1>4. Gap(s, p) = IF s >= p THEN s - p ELSE s - p + Size
  BY <1>1, Wrap
<1>5. Gap(s, At(p, 1)) = IF s >= At(p, 1) THEN s - At(p, 1) ELSE s - At(p, 1) + Size
  BY <1>3, Wrap
<1>6. QED
  BY <1>1, <1>3, <1>4, <1>5

-----------------------------------------------------------------------------
(* Scheduling.  An event that is in no slot, but perhaps in the one that   *)
(* is served, finds a free one: the others are fewer than the slots that   *)
(* pro_eq_sched looks at, and none of those is the one that is served.     *)
Queues == [Slot -> Event \cup {Free}]
Kinds == Cardinality(Event)
OnceIn(q, S) == \A s, t \in S : q[s] # Free /\ q[s] = q[t] => s = t
Put(q, s, e) == [q EXCEPT ![s] = e]
Room(n) == n \in Nat \ {0} /\ n + Kinds < Size
SetTo(n) == {n + i : i \in Probes}

LEMMA KindsType ==
  /\ Kinds \in Nat /\ Size \in Nat \ {0} /\ Free \notin Event
  /\ \A e \in Event : Room(Interval[e])
  /\ Room(RetryInterval)
<1>1. Kinds \in Nat
  BY EventAssumption, FS_CardinalityType DEF Kinds
<1>2. QED
  BY <1>1, EventAssumption, IntervalAssumption, QueueAssumption DEF Free, Room, Kinds

LEMMA ProbesAhead ==
  ASSUME NEW n, Room(n), NEW i \in Probes
  PROVE  n + i \in Slot /\ n + i # 0 /\ n + i \in SetTo(n)
<1>1. Kinds \in Nat /\ Size \in Nat \ {0} /\ n \in Nat \ {0} /\ n + Kinds < Size /\ i \in 0 .. Kinds - 1
  BY KindsType DEF Room, Probes, Kinds
<1>2. n + i \in Slot /\ n + i # 0
  BY <1>1 DEF Slot
<1>3. QED
  BY <1>2 DEF SetTo

LEMMA SomeProbeFree ==
  ASSUME NEW p \in Slot, NEW q \in Queues, OnceIn(q, Slot \ {p}),
         NEW e \in Event, \A s \in Slot \ {p} : q[s] # e,
         NEW n, Room(n)
  PROVE  \E i \in Probes : q[At(p, n + i)] = Free
<1> SUFFICES ASSUME \A i \in Probes : q[At(p, n + i)] # Free PROVE FALSE
  OBVIOUS
<1> DEFINE kind == [i \in Probes |-> q[At(p, n + i)]]
<1>1. ASSUME NEW i \in Probes PROVE At(p, n + i) \in Slot \ {p}
  BY ProbesAhead, RingFacts
<1>2. kind \in [Probes -> Event \ {e}]
  BY <1>1 DEF Queues
<1>3. Kinds \in Nat /\ IsFiniteSet(Event) /\ Kinds = Cardinality(Event)
  BY KindsType, EventAssumption DEF Kinds
<1>4. IsFiniteSet(Event \ {e}) /\ Cardinality(Event \ {e}) = Kinds - 1
  BY <1>3, FS_RemoveElement
<1>5. IsFiniteSet(Probes) /\ Cardinality(Probes) = Kinds
  <2>1. Cardinality(Event \ {e}) \in Nat
    BY <1>4, FS_CardinalityType
  <2>2. 0 \in Int /\ Kinds - 1 \in Int /\ ~(0 > Kinds - 1)
    BY <1>3, <1>4, <2>1
  <2>3. QED
    BY <1>3, <2>2, FS_Interval DEF Probes
<1>6. PICK i \in Probes, j \in Probes : i # j /\ kind[i] = kind[j]
  <2>1. Cardinality(Event \ {e}) < Cardinality(Probes)
    BY <1>3, <1>4, <1>5
  <2> HIDE DEF kind
  <2>2. QED
    BY <1>2, <1>4, <1>5, <2>1, FS_PigeonHole
<1>7. At(p, n + i) = At(p, n + j)
  BY <1>1, <1>6 DEF OnceIn
<1>8. n + i = n + j
  BY <1>7, ProbesAhead, AtUnique
<1>9. i \in Int /\ j \in Int /\ n \in Int
  BY <1>3 DEF Probes, Room
<1>10. QED
  BY <1>6, <1>8, <1>9

LEMMA SchedPlaces ==
  ASSUME NEW p \in Slot, NEW q \in Queues, OnceIn(q, Slot \ {p}),
         NEW e \in Event, \A s \in Slot \ {p} : q[s] # e,
         NEW n, Room(n)
  PROVE  \E d \in SetTo(n) : /\ d \in Slot /\ d # 0
                             /\ q[At(p, d)] = Free
                             /\ SchedFrom(p, q, e, n) = Put(q, At(p, d), e)
<1> DEFINE free == {i \in Probes : q[(p + n + i) % Size] = Free}
           first == CHOOSE i \in free : \A j \in free : i <= j
<1>1. ASSUME NEW i \in Probes PROVE (p + n + i) % Size = At(p, n + i)
  <2>1. p \in Int /\ n \in Int /\ i \in Int
    BY KindsType DEF Slot, Room, Probes
  <2>2. p + n + i = p + (n + i)
    BY <2>1
  <2>3. QED
    BY <2>2 DEF At
<1>2. free # {}
  BY <1>1, SomeProbeFree
<1>3. free \subseteq Nat
  BY DEF Probes
<1>4. first \in free
  BY <1>2, <1>3, Least
<1>5. SchedFrom(p, q, e, n) = [q EXCEPT ![(p + n + first) % Size] = e]
  BY <1>2 DEF SchedFrom
<1> HIDE DEF first
<1>6. first \in Probes /\ q[At(p, n + first)] = Free
  BY <1>1, <1>4
<1>7. SchedFrom(p, q, e, n) = Put(q, At(p, n + first), e)
  BY <1>1, <1>5, <1>6 DEF Put
<1>8. QED
  BY <1>6, <1>7, ProbesAhead

(* What a queue is when e is put in a free slot.                           *)
LEMMA PutFacts ==
  ASSUME NEW q \in Queues, NEW s \in Slot, NEW e \in Event \cup {Free}
  PROVE  /\ Put(q, s, e) \in Queues
         /\ Put(q, s, e)[s] = e
         /\ \A t \in Slot \ {s} : Put(q, s, e)[t] = q[t]
  BY DEF Put, Queues

LEMMA PutOnce ==
  ASSUME NEW q \in Queues, NEW S \in SUBSET Slot, OnceIn(q, S), NEW s \in S,
         NEW e \in Event, \A t \in S : q[t] # e
  PROVE  OnceIn(Put(q, s, e), S)
  BY PutFacts DEF OnceIn

-----------------------------------------------------------------------------
(* The distance of an event in a queue whose pointer is at p.              *)
DistanceIn(q, p, e) ==
  IF \E s \in Slot : q[s] = e THEN ((CHOOSE s \in Slot : q[s] = e) - p) % Size ELSE -1

LEMMA DistanceFacts ==
  ASSUME NEW q \in Queues, OnceIn(q, Slot), NEW p \in Slot, NEW e \in Event
  PROVE  /\ \A s \in Slot : q[s] = e => DistanceIn(q, p, e) = Gap(s, p)
         /\ (\A s \in Slot : q[s] # e) => DistanceIn(q, p, e) = -1
         /\ DistanceIn(q, p, e) \in Int
<1> DEFINE c == CHOOSE s \in Slot : q[s] = e
<1>1. ASSUME NEW s \in Slot, q[s] = e PROVE DistanceIn(q, p, e) = Gap(s, p)
  <2>1. c \in Slot /\ q[c] = e
    BY <1>1
  <2>2. c = s
    BY <1>1, <2>1, KindsType DEF OnceIn
  <2>3. DistanceIn(q, p, e) = (c - p) % Size
    BY <1>1 DEF DistanceIn
  <2>4. QED
    BY <2>2, <2>3 DEF Gap
<1>2. (\A s \in Slot : q[s] # e) => DistanceIn(q, p, e) = -1
  BY DEF DistanceIn
<1>3. \A s \in Slot : Gap(s, p) \in Int
  BY RingFacts DEF Slot
<1>4. QED
  BY <1>1, <1>2, <1>3

(* Two queues with an event in the same slots.                             *)
LEMMA SameDistance ==
  ASSUME NEW q \in Queues, OnceIn(q, Slot), NEW r \in Queues, OnceIn(r, Slot),
         NEW p \in Slot, NEW e \in Event, \A s \in Slot : q[s] = e <=> r[s] = e
  PROVE  DistanceIn(q, p, e) = DistanceIn(r, p, e)
<1>1. CASE \E s \in Slot : q[s] = e
  BY <1>1, DistanceFacts
<1>2. CASE \A s \in Slot : q[s] # e
  BY <1>2, DistanceFacts
<1>3. QED
  BY <1>1, <1>2

(* An event that is put in the slot d ahead has the distance d.            *)
LEMMA PutDistance ==
  ASSUME NEW q \in Queues, OnceIn(q, Slot), NEW p \in Slot, NEW d \in Slot,
         NEW e \in Event, \A s \in Slot : q[s] # e, q[At(p, d)] = Free
  PROVE  LET r == Put(q, At(p, d), e) IN
         /\ r \in Queues /\ OnceIn(r, Slot)
         /\ DistanceIn(r, p, e) = d
         /\ \A f \in Event \ {e} : DistanceIn(r, p, f) = DistanceIn(q, p, f)
<1> DEFINE r == Put(q, At(p, d), e)
<1>1. At(p, d) \in Slot /\ Gap(At(p, d), p) = d
  BY RingFacts
<1>2. r \in Queues /\ OnceIn(r, Slot) /\ r[At(p, d)] = e /\ \A t \in Slot \ {At(p, d)} : r[t] = q[t]
  BY <1>1, PutFacts, PutOnce
<1> HIDE DEF r
<1>3. DistanceIn(r, p, e) = d
  BY <1>1, <1>2, DistanceFacts
<1>4. ASSUME NEW f \in Event \ {e} PROVE DistanceIn(r, p, f) = DistanceIn(q, p, f)
  <2>1. \A s \in Slot : r[s] = f <=> q[s] = f
    BY <1>1, <1>2, KindsType
  <2>2. QED
    BY <1>2, <2>1, SameDistance
<1>5. QED
  BY <1>2, <1>3, <1>4 DEF r

(* The slot of the pointer is cleared and the pointer moves on.            *)
LEMMA Clearing ==
  ASSUME NEW p \in Slot, NEW q \in Queues, OnceIn(q, Slot \ {p}), NEW f \in Event
  PROVE  LET r == Put(q, p, Free)
             next == At(p, 1)
         IN /\ r \in Queues /\ OnceIn(r, Slot) /\ next \in Slot
            /\ DistanceIn(r, next, f) \in Int
            /\ \A s \in Slot \ {p} : q[s] = f => DistanceIn(r, next, f) = Gap(s, p) - 1
            /\ (\A s \in Slot \ {p} : q[s] # f) => DistanceIn(r, next, f) = -1
<1> DEFINE r == Put(q, p, Free)
           next == At(p, 1)
<1>1. r \in Queues /\ r[p] = Free /\ \A t \in Slot \ {p} : r[t] = q[t]
  BY PutFacts
<1>2. OnceIn(r, Slot)
  BY <1>1 DEF OnceIn
<1>3. next \in Slot
  <2>1. CASE Size = 1
    <3>1. p = 0 /\ 0 \in Slot
      BY <2>1 DEF Slot
    <3>2. At(p, 1) = 0
      BY <2>1, <3>1 DEF At
    <3>3. QED
      BY <3>1, <3>2
  <2>2. CASE Size # 1
    <3>1. 1 \in Slot
      BY <2>2, KindsType DEF Slot
    <3>2. QED
      BY <3>1, RingFacts
  <2>3. QED
    BY <2>1, <2>2
<1> HIDE DEF r
<1>4. ASSUME NEW s \in Slot \ {p}, q[s] = f PROVE DistanceIn(r, next, f) = Gap(s, p) - 1
  <2>1. r[s] = f
    BY <1>1, <1>4
  <2>2. DistanceIn(r, next, f) = Gap(s, next)
    BY <1>1, <1>2, <1>3, <2>1, DistanceFacts
  <2>3. QED
    BY <2>2, Nearer
<1>5. ASSUME \A s \in Slot \ {p} : q[s] # f PROVE DistanceIn(r, next, f) = -1
  <2>1. \A s \in Slot : r[s] # f
    BY <1>1, <1>5, KindsType
  <2>2. QED
    BY <1>1, <1>2, <1>3, <2>1, DistanceFacts
<1>6. DistanceIn(r, next, f) \in Int
  BY <1>1, <1>2, <1>3, DistanceFacts
<1>7. QED
  BY <1>1, <1>2, <1>3, <1>4, <1>5, <1>6 DEF r

-----------------------------------------------------------------------------
(* What the handler of the event at the pointer leaves in the other slots, *)
(* event by event.                                                         *)
FoundFrom(p, q, f, n) == \E d \in SetTo(n) : d \in Slot /\ d # 0 /\ q[At(p, d)] = f
Found(q, f, n) == FoundFrom(ptr, q, f, n)
Away(q, f) == \A s \in Slot \ {ptr} : q[s] # f

LeftBy(q, e, f) ==
  \/ f # e /\ \A s \in Slot \ {ptr} : q[s] = f <=> queue[s] = f
  \/ f = e /\ e \notin Poller /\ Away(q, f)
  \/ f = e /\ e \in Poller /\ Found(q, f, Interval[f])
  \/ f = e /\ e \in Retry /\ Found(q, f, RetryInterval)
  \/ e \in Poller /\ f \in Spawn[e] /\ ~Pending(queue, f) /\ Found(q, f, Interval[f])

Left(q, e) ==
  /\ q \in Queues /\ OnceIn(q, Slot \ {ptr})
  /\ \A f \in Event : LeftBy(q, e, f)

LEMMA SoundQueue ==
  ASSUME QueueSound
  PROVE  /\ queue \in Queues /\ ptr \in Slot /\ OnceIn(queue, Slot)
         /\ OnceIn(queue, Slot \ {ptr})
  BY DEF QueueSound, TypeOK, OneOfEachType, Queues, OnceIn

(* The handler of e schedules e, which is in no slot but that of the       *)
(* pointer.                                                                *)
Rescheduled(r, p, q, e, n) ==
  /\ r \in Queues /\ OnceIn(r, Slot \ {p}) /\ r[p] = q[p]
  /\ FoundFrom(p, r, e, n)
  /\ \A f \in Event \ {e} : \A s \in Slot \ {p} : r[s] = f <=> q[s] = f

LEMMA HandlerSchedules ==
  ASSUME NEW p \in Slot, NEW q \in Queues, OnceIn(q, Slot \ {p}),
         NEW e \in Event, \A s \in Slot \ {p} : q[s] # e, NEW n, Room(n)
  PROVE  Rescheduled(SchedFrom(p, q, e, n), p, q, e, n)
<1>1. PICK d \in SetTo(n) : /\ d \in Slot /\ d # 0
                            /\ q[At(p, d)] = Free
                            /\ SchedFrom(p, q, e, n) = Put(q, At(p, d), e)
  BY SchedPlaces
<1> DEFINE r == Put(q, At(p, d), e)
<1>2. At(p, d) \in Slot \ {p}
  BY <1>1, RingFacts
<1>3. r \in Queues /\ r[At(p, d)] = e /\ \A t \in Slot \ {At(p, d)} : r[t] = q[t]
  BY <1>2, PutFacts
<1>4. OnceIn(r, Slot \ {p})
  BY <1>2, PutOnce
<1> HIDE DEF r
<1>5. \A f \in Event \ {e} : \A s \in Slot \ {p} : r[s] = f <=> q[s] = f
  BY <1>1, <1>2, <1>3, KindsType
<1>6. SchedFrom(p, q, e, n) = r
  BY <1>1 DEF r
<1>7. FoundFrom(p, r, e, n)
  BY <1>1, <1>3 DEF FoundFrom
<1>8. QED
  BY <1>2, <1>3, <1>4, <1>5, <1>6, <1>7 DEF Rescheduled

LEMMA HandlerLeaves ==
  ASSUME QueueSound, queue[ptr] # Free, NEW q \in Handled(queue[ptr])
  PROVE  queue[ptr] \in Event /\ Left(q, queue[ptr])
<1> DEFINE e == queue[ptr]
<1>1. /\ queue \in Queues /\ ptr \in Slot /\ OnceIn(queue, Slot)
      /\ OnceIn(queue, Slot \ {ptr})
  BY SoundQueue
<1>2. e \in Event
  BY <1>1 DEF Queues
<1>3. \A s \in Slot \ {ptr} : queue[s] # e
  BY <1>1 DEF OnceIn
<1> HIDE DEF e
<1>4. ASSUME q = queue, e \notin Poller PROVE Left(q, e)
  BY <1>1, <1>3, <1>4 DEF Left, LeftBy, Away
<1>5. ASSUME e \in Poller, q = Sched(queue, e, Interval[e]) PROVE Left(q, e)
  <2>1. q = SchedFrom(ptr, queue, e, Interval[e]) /\ Room(Interval[e])
    BY <1>2, <1>5, KindsType DEF Sched
  <2>2. /\ q \in Queues /\ OnceIn(q, Slot \ {ptr}) /\ Found(q, e, Interval[e])
        /\ \A f \in Event \ {e} : \A s \in Slot \ {ptr} : q[s] = f <=> queue[s] = f
    <3>1. Rescheduled(q, ptr, queue, e, Interval[e])
      BY <1>1, <1>2, <1>3, <2>1, HandlerSchedules
    <3>2. QED
      BY <3>1 DEF Rescheduled, Found
  <2>3. QED
    BY <1>2, <1>5, <2>2 DEF Left, LeftBy, e
<1>6. ASSUME e \in Retry, q = Sched(queue, e, RetryInterval) PROVE Left(q, e)
  <2>1. q = SchedFrom(ptr, queue, e, RetryInterval) /\ Room(RetryInterval)
    BY <1>6, KindsType DEF Sched
  <2>2. /\ q \in Queues /\ OnceIn(q, Slot \ {ptr}) /\ Found(q, e, RetryInterval)
        /\ \A f \in Event \ {e} : \A s \in Slot \ {ptr} : q[s] = f <=> queue[s] = f
    <3>1. Rescheduled(q, ptr, queue, e, RetryInterval)
      BY <1>1, <1>2, <1>3, <2>1, HandlerSchedules
    <3>2. QED
      BY <3>1 DEF Rescheduled, Found
  <2>3. QED
    BY <1>2, <1>6, <2>2 DEF Left, LeftBy, e
<1>7. ASSUME e \in Poller, NEW f \in Spawn[e], ~Pending(queue, f),
             q = Sched(Sched(queue, f, Interval[f]), e, Interval[e])
      PROVE  Left(q, e)
  <2>1. f \in Event /\ f # e
    BY <1>7, EventAssumption, SpawnAssumption
  <2> DEFINE between == SchedFrom(ptr, queue, f, Interval[f])
  <2>2. /\ between \in Queues /\ OnceIn(between, Slot \ {ptr}) /\ between[ptr] = e
        /\ Found(between, f, Interval[f])
        /\ \A g \in Event \ {f} : \A s \in Slot \ {ptr} : between[s] = g <=> queue[s] = g
    <3>1. \A s \in Slot \ {ptr} : queue[s] # f
      BY <1>7 DEF Pending
    <3>2. Room(Interval[f])
      BY <2>1, KindsType
    <3>3. Rescheduled(between, ptr, queue, f, Interval[f])
      BY <1>1, <2>1, <3>1, <3>2, HandlerSchedules
    <3>4. QED
      BY <3>3 DEF Rescheduled, Found, e
  <2>3. q = SchedFrom(ptr, between, e, Interval[e]) /\ Room(Interval[e])
    BY <1>2, <1>7, KindsType DEF Sched
  <2> HIDE DEF between
  <2>4. \A s \in Slot \ {ptr} : between[s] # e
    BY <1>2, <1>3, <2>1, <2>2
  <2>5. /\ q \in Queues /\ OnceIn(q, Slot \ {ptr}) /\ Found(q, e, Interval[e])
        /\ \A g \in Event \ {e} : \A s \in Slot \ {ptr} : q[s] = g <=> between[s] = g
    <3>1. Rescheduled(q, ptr, between, e, Interval[e])
      BY <1>1, <1>2, <2>2, <2>3, <2>4, HandlerSchedules
    <3>2. QED
      BY <3>1 DEF Rescheduled, Found
  <2>6. Found(q, f, Interval[f])
    <3>1. PICK d \in SetTo(Interval[f]) : d \in Slot /\ d # 0 /\ between[At(ptr, d)] = f
      BY <2>2 DEF Found, FoundFrom
    <3>2. At(ptr, d) \in Slot \ {ptr}
      BY <1>1, <3>1, RingFacts
    <3>3. q[At(ptr, d)] = f
      BY <2>1, <2>5, <3>1, <3>2
    <3>4. QED
      BY <3>1, <3>3 DEF Found, FoundFrom
  <2>7. ASSUME NEW g \in Event \ {e, f} PROVE \A s \in Slot \ {ptr} : q[s] = g <=> queue[s] = g
    BY <2>2, <2>5, <2>7
  <2>8. ASSUME NEW g \in Event PROVE LeftBy(q, e, g)
    BY <1>7, <2>1, <2>5, <2>6, <2>7 DEF LeftBy
  <2>9. QED
    BY <2>5, <2>8 DEF Left
<1>8. Left(q, e)
  <2>1. q \in Handled(e)
    BY DEF e
  <2>2. CASE e \in Poller
    BY <1>5, <1>7, <2>1, <2>2 DEF Handled
  <2>3. CASE e \notin Poller
    BY <1>4, <1>6, <2>1, <2>3 DEF Handled
  <2>4. QED
    BY <2>2, <2>3
<1>9. QED
  BY <1>2, <1>8 DEF e

-----------------------------------------------------------------------------
(* What the distances are when the slot has been served.                   *)
Moved(q, f) == DistanceIn(Put(q, ptr, Free), At(ptr, 1), f)
Was(f) == DistanceIn(queue, ptr, f)

LEMMA FoundDistance ==
  ASSUME ptr \in Slot, NEW q \in Queues, OnceIn(q, Slot \ {ptr}), NEW f \in Event,
         NEW n, Room(n), Found(q, f, n)
  PROVE  Moved(q, f) + 1 \in SetTo(n)
<1>1. PICK d \in SetTo(n) : d \in Slot /\ d # 0 /\ q[At(ptr, d)] = f
  BY DEF Found, FoundFrom
<1>2. At(ptr, d) \in Slot \ {ptr} /\ Gap(At(ptr, d), ptr) = d
  BY <1>1, RingFacts
<1>3. Moved(q, f) = d - 1
  BY <1>1, <1>2, Clearing DEF Moved
<1>4. d \in Int
  BY <1>1 DEF Slot
<1>5. Moved(q, f) + 1 = d
  BY <1>3, <1>4
<1>6. QED
  BY <1>1, <1>5

LEMMA AwayDistance ==
  ASSUME ptr \in Slot, NEW q \in Queues, OnceIn(q, Slot \ {ptr}), NEW f \in Event, Away(q, f)
  PROVE  Moved(q, f) = -1
  BY Clearing DEF Moved, Away

LEMMA OthersElapse ==
  ASSUME QueueSound, NEW q \in Queues, OnceIn(q, Slot \ {ptr}), NEW f \in Event, f # queue[ptr],
         \A s \in Slot \ {ptr} : q[s] = f <=> queue[s] = f
  PROVE  /\ Was(f) # 0
         /\ Moved(q, f) = IF Was(f) = -1 THEN -1 ELSE Was(f) - 1
<1>1. queue \in Queues /\ ptr \in Slot /\ OnceIn(queue, Slot)
  BY SoundQueue
<1>2. CASE \E s \in Slot : queue[s] = f
  <2>1. PICK s \in Slot \ {ptr} : queue[s] = f
    BY <1>2
  <2>2. Was(f) = Gap(s, ptr)
    BY <1>1, <2>1, DistanceFacts DEF Was
  <2>3. Moved(q, f) = Gap(s, ptr) - 1
    BY <1>1, <2>1, Clearing DEF Moved
  <2>4. Gap(s, ptr) \in Slot /\ Gap(s, ptr) # 0
    BY <1>1, <2>1, RingFacts
  <2>5. Gap(s, ptr) # -1
    BY <2>4 DEF Slot
  <2>6. QED
    BY <2>2, <2>3, <2>4, <2>5
<1>3. CASE \A s \in Slot : queue[s] # f
  <2>1. Was(f) = -1
    BY <1>1, <1>3, DistanceFacts DEF Was
  <2>2. Moved(q, f) = -1
    BY <1>1, <1>3, AwayDistance DEF Away
  <2>3. QED
    BY <2>1, <2>2
<1>4. QED
  BY <1>2, <1>3

(* Serving a slot keeps the queue sound.                                   *)
LEMMA ServeFacts ==
  ASSUME QueueSound, ServeSlot
  PROVE  \E q : /\ q \in Queues /\ OnceIn(q, Slot \ {ptr})
                /\ queue' = Put(q, ptr, Free) /\ ptr' = At(ptr, 1) /\ phase' = "exec"
                /\ \/ queue[ptr] = Free /\ q = queue
                   \/ queue[ptr] \in Event /\ Left(q, queue[ptr])
<1>1. queue \in Queues /\ ptr \in Slot /\ OnceIn(queue, Slot \ {ptr})
  BY SoundQueue
<1>2. CASE queue[ptr] = Free
  BY <1>1, <1>2 DEF ServeSlot, Advance, Put, Ahead, At
<1>3. CASE queue[ptr] # Free
  <2>1. PICK q \in Handled(queue[ptr]) : Advance(q)
    BY <1>3 DEF ServeSlot
  <2>2. queue[ptr] \in Event /\ Left(q, queue[ptr])
    BY <1>3, HandlerLeaves
  <2>3. QED
    BY <2>1, <2>2 DEF Left, Advance, Put, Ahead, At
<1>4. QED
  BY <1>2, <1>3

LEMMA ServeSound == ASSUME QueueSound, ServeSlot PROVE QueueSound'
<1>1. PICK q : /\ q \in Queues /\ OnceIn(q, Slot \ {ptr})
               /\ queue' = Put(q, ptr, Free) /\ ptr' = At(ptr, 1) /\ phase' = "exec"
  BY ServeFacts
<1>2. ptr \in Slot
  BY SoundQueue
<1>3. queue' \in Queues /\ queue'[ptr] = Free /\ \A t \in Slot \ {ptr} : queue'[t] = q[t]
  BY <1>1, <1>2, PutFacts
<1>4. ptr' \in Slot
  <2>1. CASE Size = 1
    BY <1>1, <1>2, <2>1 DEF At, Slot
  <2>2. CASE Size # 1
    <3>1. 1 \in Slot
      BY <2>2, KindsType DEF Slot
    <3>2. QED
      BY <1>1, <1>2, <3>1, RingFacts
  <2>3. QED
    BY <2>1, <2>2
<1>5. \A s, t \in Slot : queue'[s] # Free /\ queue'[s] = queue'[t] => s = t
  BY <1>1, <1>3 DEF OnceIn
<1>6. QED
  BY <1>1, <1>3, <1>4, <1>5 DEF QueueSound, TypeOK, OneOfEachType, Queues

(* An operation that starts, on a device that is idle.                     *)
LEMMA WriteFacts ==
  ASSUME QueueSound, NEW e \in GuestEvent, ~Pending(queue, e), WriteDevice(e)
  PROVE  /\ queue' \in Queues /\ OnceIn(queue', Slot)
         /\ ptr' = ptr /\ phase' = "fetch"
         /\ e \in Event
         /\ DistanceIn(queue', ptr, e) \in SetTo(Interval[e])
         /\ \A f \in Event \ {e} : DistanceIn(queue', ptr, f) = Was(f)
<1>1. queue \in Queues /\ ptr \in Slot /\ OnceIn(queue, Slot) /\ OnceIn(queue, Slot \ {ptr})
  BY SoundQueue
<1>2. e \in Event /\ \A s \in Slot : queue[s] # e
  BY DEF GuestEvent, Pending
<1>3. Room(Interval[e])
  BY <1>2, KindsType
<1>4. PICK d \in SetTo(Interval[e]) :
         /\ d \in Slot /\ d # 0
         /\ queue[At(ptr, d)] = Free
         /\ SchedFrom(ptr, queue, e, Interval[e]) = Put(queue, At(ptr, d), e)
  BY <1>1, <1>2, <1>3, SchedPlaces
<1>5. queue' = Put(queue, At(ptr, d), e) /\ ptr' = ptr /\ phase' = "fetch"
  BY <1>4 DEF WriteDevice, Sched
<1>6. /\ queue' \in Queues /\ OnceIn(queue', Slot)
      /\ DistanceIn(queue', ptr, e) = d
      /\ \A f \in Event \ {e} : DistanceIn(queue', ptr, f) = DistanceIn(queue, ptr, f)
  BY <1>1, <1>2, <1>4, <1>5, PutDistance
<1>7. QED
  BY <1>2, <1>4, <1>5, <1>6 DEF Was

-----------------------------------------------------------------------------
(* The resets of the devices, one after the other: there is a function     *)
(* that satisfies the equation that defines Scheduled.                     *)
Empty == [s \in Slot |-> Free]
Stage(g, n) == IF n = 0 THEN Empty ELSE SchedNext(g[n - 1], ResetOrder[n])
Stages(g, m) == g = [n \in 0 .. m |-> Stage(g, n)]

LEMMA SomeStages == \A m \in Nat : \E g : Stages(g, m)
<1> DEFINE T == {m \in Nat : \E g : Stages(g, m)}
<1>1. 0 \in T
  <2> DEFINE g == [n \in 0 .. 0 |-> Empty]
  <2>1. [n \in 0 .. 0 |-> Stage(g, n)] = g
    BY DEF Stage
  <2> HIDE DEF g
  <2>2. Stages(g, 0)
    BY <2>1 DEF Stages
  <2>3. QED
    BY <2>2
<1>2. ASSUME NEW m \in T PROVE m + 1 \in T
  <2>1. PICK g : Stages(g, m)
    OBVIOUS
  <2> DEFINE h == [n \in 0 .. m + 1 |-> IF n = m + 1 THEN SchedNext(g[m], ResetOrder[m + 1]) ELSE g[n]]
  <2>2. ASSUME NEW n \in 0 .. m + 1 PROVE h[n] = Stage(h, n)
    <3>1. CASE n = m + 1
      <4>1. n # 0 /\ n - 1 = m /\ m # m + 1 /\ m \in 0 .. m + 1
        BY <3>1
      <4>2. h[n] = SchedNext(g[m], ResetOrder[m + 1]) /\ h[m] = g[m]
        BY <3>1, <4>1
      <4> HIDE DEF h
      <4>3. QED
        BY <3>1, <4>1, <4>2 DEF Stage
    <3>2. CASE n # m + 1 /\ n = 0
      <4>1. h[n] = g[0] /\ 0 \in 0 .. m
        BY <3>2
      <4>2. g[0] = Stage(g, 0)
        BY <2>1, <4>1 DEF Stages
      <4> HIDE DEF h
      <4>3. QED
        BY <3>2, <4>1, <4>2 DEF Stage
    <3>3. CASE n # m + 1 /\ n # 0
      <4>1. n \in 0 .. m /\ n - 1 \in 0 .. m + 1 /\ n - 1 # m + 1
        BY <3>3
      <4>2. h[n] = g[n] /\ h[n - 1] = g[n - 1]
        BY <3>3, <4>1
      <4>3. g[n] = Stage(g, n)
        BY <2>1, <4>1 DEF Stages
      <4> HIDE DEF h
      <4>4. QED
        BY <3>3, <4>2, <4>3 DEF Stage
    <3>4. QED
      BY <3>1, <3>2, <3>3
  <2>3. h = [n \in 0 .. m + 1 |-> h[n]]
    OBVIOUS
  <2> HIDE DEF h
  <2>4. h = [n \in 0 .. m + 1 |-> Stage(h, n)]
    <3>1. [n \in 0 .. m + 1 |-> h[n]] = [n \in 0 .. m + 1 |-> Stage(h, n)]
      BY <2>2
    <3>2. QED
      BY <2>3, <3>1
  <2>5. QED
    BY <2>4 DEF Stages
<1> HIDE DEF T
<1>3. T = Nat
  <2>1. T \in SUBSET Nat
    BY DEF T
  <2>2. QED
    BY <1>1, <1>2, <2>1, Induction
<1>4. QED
  BY <1>3 DEF T

LEMMA ScheduledStages ==
  /\ Scheduled[0] = Empty
  /\ \A n \in 1 .. Len(ResetOrder) : Scheduled[n] = SchedNext(Scheduled[n - 1], ResetOrder[n])
<1>1. Len(ResetOrder) \in Nat
  BY OrderAssumption
<1>2. \E g : Stages(g, Len(ResetOrder))
  BY <1>1, SomeStages
<1>3. Scheduled = CHOOSE g : Stages(g, Len(ResetOrder))
  BY DEF Scheduled, Stages, Stage, Empty
<1>4. Stages(Scheduled, Len(ResetOrder))
  BY <1>2, <1>3
<1>5. ASSUME NEW n \in 0 .. Len(ResetOrder) PROVE Scheduled[n] = Stage(Scheduled, n)
  BY <1>4 DEF Stages
<1>6. QED
  BY <1>1, <1>5 DEF Stage

(* After n of the resets their polls wait, and nothing else does.          *)
Among(e, n) == \E i \in 1 .. n : ResetOrder[i] = e
ResetBy(q, n) ==
  /\ q \in Queues /\ OnceIn(q, Slot)
  /\ \A e \in Event : Among(e, n) => DistanceIn(q, 0, e) \in SetTo(Interval[e])
  /\ \A e \in Event : ~Among(e, n) => \A s \in Slot : q[s] # e

LEMMA ResetStep ==
  ASSUME NEW n \in Nat, n + 1 \in 1 .. Len(ResetOrder), NEW q, ResetBy(q, n)
  PROVE  ResetBy(SchedNext(q, ResetOrder[n + 1]), n + 1)
<1> DEFINE e == ResetOrder[n + 1]
<1>1. e \in Event /\ Len(ResetOrder) \in Nat /\ DOMAIN ResetOrder = 1 .. Len(ResetOrder)
  BY OrderAssumption, EventAssumption
<1>2. \A i \in 1 .. n : i \in DOMAIN ResetOrder /\ i # n + 1
  BY <1>1
<1>3. ~Among(e, n)
  BY <1>1, <1>2, OrderAssumption DEF Among
<1>4. \A f \in Event : Among(f, n + 1) <=> (f = e \/ Among(f, n))
  <2>1. 1 .. n + 1 = (1 .. n) \cup {n + 1}
    OBVIOUS
  <2>2. QED
    BY <2>1 DEF Among
<1> HIDE DEF e
<1>5. 0 \in Slot /\ Room(Interval[e])
  BY <1>1, KindsType DEF Slot
<1>6. q \in Queues /\ OnceIn(q, Slot) /\ OnceIn(q, Slot \ {0}) /\ \A s \in Slot : q[s] # e
  BY <1>1, <1>3 DEF ResetBy, OnceIn
<1>7. PICK d \in SetTo(Interval[e]) :
         /\ d \in Slot /\ d # 0
         /\ q[At(0, d)] = Free
         /\ SchedFrom(0, q, e, Interval[e]) = Put(q, At(0, d), e)
  BY <1>1, <1>5, <1>6, SchedPlaces
<1> DEFINE r == Put(q, At(0, d), e)
<1>8. /\ r \in Queues /\ OnceIn(r, Slot)
      /\ DistanceIn(r, 0, e) = d
      /\ \A f \in Event \ {e} : DistanceIn(r, 0, f) = DistanceIn(q, 0, f)
  BY <1>1, <1>5, <1>6, <1>7, PutDistance
<1>9. At(0, d) \in Slot /\ r[At(0, d)] = e /\ \A t \in Slot \ {At(0, d)} : r[t] = q[t]
  BY <1>1, <1>5, <1>6, <1>7, RingFacts, PutFacts
<1> HIDE DEF r
<1>10. \A f \in Event : Among(f, n + 1) => DistanceIn(r, 0, f) \in SetTo(Interval[f])
  BY <1>4, <1>6, <1>7, <1>8 DEF ResetBy
<1>11. \A f \in Event : ~Among(f, n + 1) => \A s \in Slot : r[s] # f
  BY <1>4, <1>9 DEF ResetBy
<1>12. ResetBy(r, n + 1)
  BY <1>8, <1>10, <1>11 DEF ResetBy
<1>13. SchedNext(q, e) = r
  BY <1>7 DEF SchedNext, r
<1>14. QED
  BY <1>12, <1>13 DEF e

LEMMA AllReset == ResetBy(PollsScheduled, Len(ResetOrder))
<1> DEFINE T == {n \in Nat : n \in 0 .. Len(ResetOrder) => ResetBy(Scheduled[n], n)}
<1>1. Len(ResetOrder) \in Nat
  BY OrderAssumption
<1>2. 0 \in T
  <2>1. Empty \in Queues /\ \A s \in Slot : Empty[s] = Free
    BY DEF Empty, Queues
  <2>2. \A e \in Event : ~Among(e, 0)
    BY DEF Among
  <2>3. \A e \in Event, s \in Slot : Empty[s] # e
    BY <2>1, KindsType
  <2>4. ResetBy(Empty, 0)
    BY <2>1, <2>2, <2>3 DEF ResetBy, OnceIn
  <2>5. QED
    BY <2>4, ScheduledStages
<1>3. ASSUME NEW n \in T PROVE n + 1 \in T
  <2> SUFFICES ASSUME n + 1 \in 0 .. Len(ResetOrder) PROVE ResetBy(Scheduled[n + 1], n + 1)
    OBVIOUS
  <2>1. n \in Nat /\ n \in 0 .. Len(ResetOrder) /\ n + 1 \in 1 .. Len(ResetOrder) /\ n + 1 - 1 = n
    BY <1>1
  <2>2. ResetBy(Scheduled[n], n)
    BY <2>1
  <2>3. Scheduled[n + 1] = SchedNext(Scheduled[n], ResetOrder[n + 1])
    BY <2>1, ScheduledStages
  <2>4. QED
    BY <2>1, <2>2, <2>3, ResetStep
<1> HIDE DEF T
<1>4. T = Nat
  <2>1. T \in SUBSET Nat
    BY DEF T
  <2>2. QED
    BY <1>2, <1>3, <2>1, Induction
<1>5. QED
  BY <1>1, <1>4 DEF T, PollsScheduled

(* The polls, and nothing else, wait after a reset.                        *)
LEMMA ResetFacts ==
  /\ PollsScheduled \in Queues /\ OnceIn(PollsScheduled, Slot) /\ 0 \in Slot
  /\ \A e \in Poller : DistanceIn(PollsScheduled, 0, e) \in SetTo(Interval[e])
  /\ \A e \in Event \ Poller : DistanceIn(PollsScheduled, 0, e) = -1
<1>1. Len(ResetOrder) \in Nat /\ DOMAIN ResetOrder = 1 .. Len(ResetOrder)
  BY OrderAssumption
<1>2. \A e \in Event : Among(e, Len(ResetOrder)) <=> e \in Poller
  <2>1. \A i \in 1 .. Len(ResetOrder) : ResetOrder[i] \in Poller
    BY <1>1, OrderAssumption
  <2>2. \A e \in Poller : \E i \in 1 .. Len(ResetOrder) : ResetOrder[i] = e
    BY <1>1, OrderAssumption
  <2>3. QED
    BY <2>1, <2>2 DEF Among
<1>3. 0 \in Slot
  BY KindsType DEF Slot
<1>4. PollsScheduled \in Queues /\ OnceIn(PollsScheduled, Slot)
  BY AllReset DEF ResetBy
<1>5. \A e \in Poller : DistanceIn(PollsScheduled, 0, e) \in SetTo(Interval[e])
  BY <1>2, AllReset, EventAssumption DEF ResetBy
<1>6. ASSUME NEW e \in Event \ Poller PROVE DistanceIn(PollsScheduled, 0, e) = -1
  <2>1. \A s \in Slot : PollsScheduled[s] # e
    BY <1>2, AllReset DEF ResetBy
  <2>2. QED
    BY <1>3, <1>4, <2>1, DistanceFacts
<1>7. QED
  BY <1>3, <1>4, <1>5, <1>6

-----------------------------------------------------------------------------
(* Every slot of the queue holds one event or none, and no event is in two *)
(* slots, for a guest that waits for the end of an operation before it     *)
(* starts the next on the same device.                                     *)
LEMMA SoundAtFirst == Init => QueueSound
  BY ResetFacts DEF Init, QueueSound, TypeOK, OneOfEachType, Queues, OnceIn

LEMMA ResetSound == ASSUME QueueSound, Reset PROVE QueueSound'
  BY ResetFacts DEF Reset, QueueSound, TypeOK, OneOfEachType, Queues, OnceIn

LEMMA SoundStep == QueueSound /\ [PoliteNext]_vars => QueueSound'
<1> SUFFICES ASSUME QueueSound, [PoliteNext]_vars PROVE QueueSound'
  OBVIOUS
<1>1. CASE ServeSlot
  BY <1>1, ServeSound
<1>2. CASE OtherInstruction
  BY <1>2 DEF OtherInstruction, QueueSound, TypeOK, OneOfEachType
<1>3. CASE Reset
  BY <1>3, ResetSound
<1>4. ASSUME NEW e \in GuestEvent, ~Pending(queue, e), WriteDevice(e) PROVE QueueSound'
  <2>1. queue' \in Queues /\ OnceIn(queue', Slot) /\ ptr' = ptr /\ phase' = "fetch"
    BY <1>4, WriteFacts
  <2>2. QED
    BY <2>1 DEF QueueSound, TypeOK, OneOfEachType, Queues, OnceIn
<1>5. CASE UNCHANGED vars
  BY <1>5 DEF vars, QueueSound, TypeOK, OneOfEachType
<1>6. QED
  BY <1>1, <1>2, <1>3, <1>4, <1>5 DEF PoliteNext

THEOREM QueueAlwaysSound == PoliteSpec => []QueueSound
<1>1. QED
  BY SoundAtFirst, SoundStep, PTL DEF PoliteSpec

-----------------------------------------------------------------------------
(* The ring implements the timers: no event is lost, early, or later than  *)
(* the others can make it.                                                 *)
Waits(q, p) == [e \in Event |-> DistanceIn(q, p, e)]
Mapped == [e \in Event |-> Distance(e)]

LEMMA TheTimers == Mapped = Waits(queue, ptr) /\ Mapped' = Waits(queue', ptr')
  BY DEF Mapped, Waits, Distance, DistanceIn, Pending

LEMMA TimersCount == Timers!Cardinality(Event) = Cardinality(Event)
  BY DEF Timers!Cardinality, Cardinality

LEMMA TimersSlack ==
  /\ Timers!Idle = -1
  /\ \A e \in Event : Timers!SetTimer(e) = SetTo(Interval[e])
  /\ {RetryInterval + n : n \in 0 .. Timers!Slack} = SetTo(RetryInterval)
  BY TimersCount DEF Timers!Idle, Timers!SetTimer, Timers!Slack, SetTo, Probes

LEMMA ResetTimers == Waits(PollsScheduled, 0) \in Timers!AfterReset
<1> DEFINE w == Waits(PollsScheduled, 0)
<1>1. \A e \in Event : w[e] = DistanceIn(PollsScheduled, 0, e)
  BY DEF Waits
<1>2. \A e \in Event : IF e \in Poller THEN w[e] \in Timers!SetTimer(e) ELSE w[e] = Timers!Idle
  BY <1>1, ResetFacts, TimersSlack
<1>3. w = [e \in Event |-> w[e]]
  BY DEF Waits
<1> HIDE DEF w
<1>4. w \in [Event -> {Timers!Idle} \cup UNION {Timers!SetTimer(e) : e \in Event}]
  BY <1>2, <1>3
<1>5. w \in Timers!AfterReset
  BY <1>2, <1>4 DEF Timers!AfterReset
<1>6. QED
  BY <1>5 DEF w

LEMMA TimersAtFirst == Init => Timers!TimersInit
<1> SUFFICES ASSUME Init PROVE Timers!TimersInit
  OBVIOUS
<1>1. Mapped = Waits(PollsScheduled, 0)
  BY TheTimers DEF Init
<1>2. QED
  BY <1>1, ResetTimers DEF Timers!TimersInit, Mapped

LEMMA ServeElapses ==
  ASSUME QueueSound, ServeSlot
  PROVE  Timers!Quiet \/ \E e \in Event : Timers!Expire(e)
<1>1. PICK q : /\ q \in Queues /\ OnceIn(q, Slot \ {ptr})
               /\ queue' = Put(q, ptr, Free) /\ ptr' = At(ptr, 1)
               /\ \/ queue[ptr] = Free /\ q = queue
                  \/ queue[ptr] \in Event /\ Left(q, queue[ptr])
  BY ServeFacts
<1>2. queue \in Queues /\ ptr \in Slot /\ OnceIn(queue, Slot)
  BY SoundQueue
<1>3. \A f \in Event : Mapped[f] = Was(f) /\ Mapped'[f] = Moved(q, f)
  BY <1>1, TheTimers DEF Waits, Was, Moved
<1>4. Mapped' = [f \in Event |-> Moved(q, f)]
  BY <1>1, TheTimers DEF Waits, Moved
<1>5. CASE queue[ptr] = Free
  <2>1. q = queue
    BY <1>1, <1>5, KindsType
  <2>2. ASSUME NEW f \in Event
        PROVE  Was(f) # 0 /\ Moved(q, f) = IF Was(f) = -1 THEN -1 ELSE Was(f) - 1
    BY <1>1, <1>5, <2>1, KindsType, OthersElapse
  <2>3. \A f \in Event : Mapped[f] # 0
    BY <1>3, <2>2
  <2>4. Mapped' = [f \in Event |-> IF Mapped[f] = -1 THEN -1 ELSE Mapped[f] - 1]
    BY <1>3, <1>4, <2>2
  <2>5. QED
    BY <2>3, <2>4 DEF Timers!Quiet, Timers!Elapsed, Timers!Idle, Mapped
<1>6. CASE queue[ptr] # Free
  <2> DEFINE e == queue[ptr]
  <2>1. e \in Event /\ Left(q, e)
    BY <1>1, <1>6
  <2>2. Mapped[e] = 0
    <3>1. Was(e) = Gap(ptr, ptr) /\ Gap(ptr, ptr) = 0
      BY <1>2, <2>1, DistanceFacts, RingFacts DEF Was
    <3>2. QED
      BY <1>3, <2>1, <3>1
  <2>3. Mapped' \in [Event -> {-1} \cup Int]
    <3>1. \A f \in Event : Moved(q, f) \in Int
      BY <1>1, <1>2, Clearing DEF Moved
    <3>2. QED
      BY <1>4, <3>1
  <2>4. ASSUME NEW f \in Event
        PROVE  \/ f # e /\ Mapped'[f] = IF Mapped[f] = -1 THEN -1 ELSE Mapped[f] - 1
               \/ f = e /\ e \notin Poller /\ Mapped'[f] = -1
               \/ f = e /\ e \in Poller /\ Mapped'[f] + 1 \in SetTo(Interval[f])
               \/ f = e /\ e \in Retry /\ Mapped'[f] + 1 \in SetTo(RetryInterval)
               \/ e \in Poller /\ f \in Spawn[e] /\ Mapped[f] = -1 /\ Mapped'[f] + 1 \in SetTo(Interval[f])
    <3>1. LeftBy(q, e, f)
      BY <2>1 DEF Left
    <3>2. Mapped[f] = Was(f) /\ Mapped'[f] = Moved(q, f)
      BY <1>3
    <3>3. ASSUME f # e, \A s \in Slot \ {ptr} : q[s] = f <=> queue[s] = f
          PROVE  Mapped'[f] = IF Mapped[f] = -1 THEN -1 ELSE Mapped[f] - 1
      BY <1>1, <3>2, <3>3, OthersElapse
    <3>4. ASSUME Away(q, f) PROVE Mapped'[f] = -1
      BY <1>1, <1>2, <3>2, <3>4, AwayDistance
    <3>5. ASSUME Found(q, f, Interval[f]) PROVE Mapped'[f] + 1 \in SetTo(Interval[f])
      BY <1>1, <1>2, <3>2, <3>5, KindsType, FoundDistance
    <3>6. ASSUME Found(q, f, RetryInterval) PROVE Mapped'[f] + 1 \in SetTo(RetryInterval)
      BY <1>1, <1>2, <3>2, <3>6, KindsType, FoundDistance
    <3>7. ASSUME ~Pending(queue, f) PROVE Mapped[f] = -1
      BY <1>2, <3>2, <3>7, DistanceFacts DEF Was, Pending
    <3> HIDE DEF e
    <3>8. QED
      BY <3>1, <3>3, <3>4, <3>5, <3>6, <3>7 DEF LeftBy
  <2> HIDE DEF e
  <2>5. Timers!Expire(e)
    BY <2>2, <2>3, <2>4, <2>1, TimersSlack DEF Timers!Expire, Timers!Elapsed, Timers!Idle, Mapped
  <2>6. QED
    BY <2>1, <2>5
<1>7. QED
  BY <1>5, <1>6

LEMMA WriteStarts ==
  ASSUME QueueSound, NEW e \in GuestEvent, ~Pending(queue, e), WriteDevice(e)
  PROVE  Timers!Start(e)
<1>1. /\ queue' \in Queues /\ OnceIn(queue', Slot)
      /\ ptr' = ptr
      /\ e \in Event
      /\ DistanceIn(queue', ptr, e) \in SetTo(Interval[e])
      /\ \A f \in Event \ {e} : DistanceIn(queue', ptr, f) = Was(f)
  BY WriteFacts
<1>2. Mapped[e] = -1
  BY <1>1, TheTimers DEF Waits, DistanceIn, Pending
<1>3. Mapped' = [Mapped EXCEPT ![e] = DistanceIn(queue', ptr, e)]
  BY <1>1, TheTimers DEF Waits, Was
<1>4. \E n \in SetTo(Interval[e]) : Mapped' = [Mapped EXCEPT ![e] = n]
  BY <1>1, <1>3
<1>5. QED
  BY <1>1, <1>2, <1>4, TimersSlack DEF Timers!Start, Mapped

LEMMA TimersStep ==
  ASSUME QueueSound, [PoliteNext]_vars
  PROVE  [Timers!TimersNext]_Mapped
<1>1. CASE ServeSlot
  BY <1>1, ServeElapses DEF Timers!TimersNext
<1>2. CASE OtherInstruction \/ UNCHANGED vars
  <2>1. queue' = queue /\ ptr' = ptr
    BY <1>2 DEF OtherInstruction, vars
  <2>2. Mapped' = Mapped
    BY <2>1, TheTimers
  <2>3. QED
    BY <2>2
<1>3. CASE Reset
  <2>1. Mapped' = Waits(PollsScheduled, 0)
    BY <1>3, TheTimers DEF Reset
  <2>2. Timers!ResetTimers
    BY <2>1, ResetTimers DEF Timers!ResetTimers, Mapped
  <2>3. QED
    BY <2>2 DEF Timers!TimersNext
<1>4. CASE \E e \in GuestEvent : ~Pending(queue, e) /\ WriteDevice(e)
  <2>1. PICK e \in GuestEvent : ~Pending(queue, e) /\ WriteDevice(e)
    BY <1>4
  <2>2. Timers!Start(e)
    BY <2>1, WriteStarts
  <2>3. e \in Timers!GuestEvent
    BY DEF GuestEvent, Timers!GuestEvent
  <2>4. QED
    BY <2>2, <2>3 DEF Timers!TimersNext
<1>5. QED
  BY <1>1, <1>2, <1>3, <1>4 DEF PoliteNext

(* The ring with its taken slots and its probing keeps what the timers     *)
(* promise, for every such guest, any ring and any intervals that fit it.  *)
THEOREM RingImplementsTimers == PoliteSpec => ImplementsTimers
<1>1. QueueSound /\ [PoliteNext]_vars => [Timers!TimersNext]_([e \in Event |-> Distance(e)])
  BY TimersStep DEF Mapped
<1>2. QED
  BY QueueAlwaysSound, TimersAtFirst, <1>1, PTL DEF PoliteSpec, ImplementsTimers, Timers!TimersSpec
=============================================================================
