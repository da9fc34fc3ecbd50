----------------------------- MODULE EventQueue ------------------------------
(***************************************************************************)
(* The event queue (src/src/pro_eq.c) and the place in the main loop that  *)
(* serves it (src/src/simh/pdp11_cpu.c): a ring of slots, one instruction  *)
(* per slot, each holding at most one event.  An event whose slot is taken *)
(* goes to the next free one; pro_eq_sched looks at as many slots as there *)
(* are kinds of events and then gives up without telling anyone.           *)
(***************************************************************************)
EXTENDS Integers, FiniteSets, Sequences

CONSTANTS Event, Poller, Retry, Spawn, Interval, RetryInterval,  \* see EventTimers
          Size,       \* slots (2^19 in the program)
          ResetOrder  \* the pollers, in the order in which a reset schedules them

ASSUME EventAssumption ==
  IsFiniteSet(Event) /\ "free" \notin Event
  /\ Poller \subseteq Event /\ Retry \subseteq Event \ Poller
ASSUME SpawnAssumption == Spawn \in [Poller -> SUBSET (Event \ (Poller \cup Retry))]
ASSUME IntervalAssumption == Interval \in [Event -> Nat \ {0}] /\ RetryInterval \in Nat \ {0}
ASSUME QueueAssumption ==
  /\ Size \in Nat \ {0}
  /\ \A e \in Event : Interval[e] + Cardinality(Event) < Size
  /\ RetryInterval + Cardinality(Event) < Size
ASSUME OrderAssumption ==
  /\ ResetOrder \in Seq(Poller)
  /\ \A e \in Poller : \E i \in DOMAIN ResetOrder : ResetOrder[i] = e
  /\ \A i, j \in DOMAIN ResetOrder : ResetOrder[i] = ResetOrder[j] => i = j

VARIABLES
  queue,   \* PRO_EQ
  ptr,     \* pro_eq_ptr
  phase    \* "fetch", or "exec" when the event of the instruction is served

vars == <<queue, ptr, phase>>

Slot == 0 .. Size - 1
Free == "free"
GuestEvent == Event \ (Poller \cup UNION {Spawn[e] : e \in Poller})
Probes == 0 .. Cardinality(Event) - 1

TypeOK ==
  /\ queue \in [Slot -> Event \cup {Free}]
  /\ ptr \in Slot
  /\ phase \in {"fetch", "exec"}

(* The slot that is d instructions ahead.                                  *)
Ahead(d) == (ptr + d) % Size

(* Slips: a taken slot is overwritten, or only one slot is looked at.      *)
Sched_NoProbe(q, e, interval) == [q EXCEPT ![Ahead(interval)] = e]
Sched_OneProbe(q, e, interval) ==
  IF q[Ahead(interval)] # Free THEN q ELSE [q EXCEPT ![Ahead(interval)] = e]

(* pro_eq_sched, with the pointer at p.                                    *)
SchedFrom(p, q, e, interval) ==
  LET at(i) == (p + interval + i) % Size
      free == {i \in Probes : q[at(i)] = Free}
      first == CHOOSE i \in free : \A j \in free : i <= j
  IN IF free = {} THEN q ELSE [q EXCEPT ![at(first)] = e]

Sched(q, e, interval) == SchedFrom(ptr, q, e, interval)

Pending(q, e) == \E s \in Slot : q[s] = e

(* pro_reset: the queue is emptied and its pointer returns to 0, then the  *)
(* resets of the devices schedule their polls, here the first n of them.   *)
SchedNext(q, e) == SchedFrom(0, q, e, Interval[e])
Scheduled[n \in 0 .. Len(ResetOrder)] ==
  IF n = 0 THEN [s \in Slot |-> Free] ELSE SchedNext(Scheduled[n - 1], ResetOrder[n])

PollsScheduled == Scheduled[Len(ResetOrder)]

Init ==
  /\ ptr = 0
  /\ phase = "fetch"
  /\ queue = PollsScheduled

-----------------------------------------------------------------------------
(* What the handler of e may leave in the queue: a poller schedules what   *)
(* follows from it (the clock: the end of its update cycle, which has long *)
(* ended when the next one starts) and then itself.                        *)
Handled(e) ==
  IF e \in Poller
  THEN {Sched(queue, e, Interval[e])} \cup
       {Sched(Sched(queue, f, Interval[f]), e, Interval[e]) :
          f \in {g \in Spawn[e] : ~Pending(queue, g)}}
  ELSE {queue} \cup (IF e \in Retry THEN {Sched(queue, e, RetryInterval)} ELSE {})

(* Slip: the slot is not cleared.                                          *)
Advance_NoClear(q) == queue' = q /\ ptr' = Ahead(1) /\ phase' = "exec"

(* The slot is cleared after the handler has run, and the pointer moves.   *)
Advance(q) ==
  /\ queue' = [q EXCEPT ![ptr] = Free]
  /\ ptr' = Ahead(1)
  /\ phase' = "exec"

(* The next instruction is fetched and the event of its slot served.       *)
ServeSlot ==
  /\ phase = "fetch"
  /\ \/ queue[ptr] = Free /\ Advance(queue)
     \/ queue[ptr] # Free /\ \E q \in Handled(queue[ptr]) : Advance(q)

(* The instruction writes a device register that starts an operation.      *)
WriteDevice(e) ==
  /\ phase = "exec"
  /\ queue' = Sched(queue, e, Interval[e])
  /\ phase' = "fetch"
  /\ UNCHANGED ptr

OtherInstruction ==
  /\ phase = "exec"
  /\ phase' = "fetch"
  /\ UNCHANGED <<queue, ptr>>

(* RESET or RUN at the console, between two instructions.                  *)
Reset ==
  /\ phase = "fetch"
  /\ queue' = PollsScheduled
  /\ ptr' = 0
  /\ UNCHANGED phase

(* Any guest.                                                              *)
Next ==
  \/ ServeSlot
  \/ OtherInstruction
  \/ Reset
  \/ \E e \in GuestEvent : WriteDevice(e)

Spec == Init /\ [][Next]_vars

(* A guest whose drivers wait for the end of an operation before they      *)
(* start the next one on the same device.                                  *)
PoliteNext ==
  \/ ServeSlot
  \/ OtherInstruction
  \/ Reset
  \/ \E e \in GuestEvent : ~Pending(queue, e) /\ WriteDevice(e)

PoliteSpec == Init /\ [][PoliteNext]_vars /\ WF_vars(ServeSlot) /\ WF_vars(OtherInstruction)

-----------------------------------------------------------------------------
(* "This assumes at most one event of each type can exist in the queue at  *)
(* a time" (pro_eq_sched).                                                 *)
OneOfEachType ==
  \A s, t \in Slot : queue[s] # Free /\ queue[s] = queue[t] => s = t

(* The ring stays a ring that holds each event at most once.               *)
QueueSound == TypeOK /\ OneOfEachType

(* The distance of the event, the timer it stands for.                     *)
Distance(e) ==
  IF Pending(queue, e)
  THEN ((CHOOSE s \in Slot : queue[s] = e) - ptr) % Size
  ELSE -1

Timers == INSTANCE EventTimers WITH wait <- [e \in Event |-> Distance(e)]

(* For such a guest no event is lost, early, or later than the others can  *)
(* make it: the ring implements the timers.                                *)
ImplementsTimers == Timers!TimersSpec

(* The devices that poll are polled forever, unless the console resets     *)
(* over and over.                                                          *)
PollersRun == \A e \in Poller : []<>(queue[ptr] = e) \/ []<><<Reset>>_vars
=============================================================================
