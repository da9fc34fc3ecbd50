----------------------------- MODULE EventTimers -----------------------------
(***************************************************************************)
(* What the event queue of src/src/pro_eq.c promises to the devices: each  *)
(* kind of event is a timer.  A timer that was set for n instructions runs *)
(* out after n instructions, or some more when others run out at the same  *)
(* time, but fewer than there are kinds of events; no timer is forgotten.  *)
(***************************************************************************)
EXTENDS Integers, FiniteSets

CONSTANTS
  Event,     \* kinds of events (PRO_EVENT_...)
  Poller,    \* those whose handler schedules them again
  Retry,     \* those whose handler may schedule them again, for a retry
  Spawn,     \* Spawn[e]: what the handler of poller e may schedule besides
  Interval,  \* Interval[e]: instructions until event e
  RetryInterval

(* The events that a guest causes by writing a device register.            *)
GuestEvent == Event \ (Poller \cup UNION {Spawn[e] : e \in Poller})

VARIABLE wait   \* instructions until the event, Idle when not scheduled

Idle == -1
Slack == Cardinality(Event) - 1

SetTimer(e) == {Interval[e] + n : n \in 0 .. Slack}
Elapsed(f) == IF wait[f] = Idle THEN Idle ELSE wait[f] - 1

(* After a reset the polls are scheduled, one after the other.             *)
AfterReset == {w \in [Event -> {Idle} \cup UNION {SetTimer(e) : e \in Event}] :
  \A e \in Event : IF e \in Poller THEN w[e] \in SetTimer(e) ELSE w[e] = Idle}

TimersInit == wait \in AfterReset

ResetTimers == wait' \in AfterReset

(* A guest starts an operation of a device.                                *)
Start(e) ==
  /\ wait[e] = Idle
  /\ \E n \in SetTimer(e) : wait' = [wait EXCEPT ![e] = n]

(* An instruction at which nothing is due.                                 *)
Quiet ==
  /\ \A e \in Event : wait[e] # 0
  /\ wait' = [f \in Event |-> Elapsed(f)]

(* An instruction at which e is due; its handler may set timers.           *)
Expire(e) ==
  /\ wait[e] = 0
  /\ wait' \in [Event -> {Idle} \cup Int]
  /\ \A f \in Event :
       \/ f # e /\ wait'[f] = Elapsed(f)
       \/ f = e /\ e \notin Poller /\ wait'[f] = Idle
       \/ f = e /\ e \in Poller /\ wait'[f] + 1 \in SetTimer(e)
       \/ f = e /\ e \in Retry /\ wait'[f] + 1 \in {RetryInterval + n : n \in 0 .. Slack}
       \/ e \in Poller /\ f \in Spawn[e] /\ wait[f] = Idle /\ wait'[f] + 1 \in SetTimer(f)

TimersNext ==
  \/ \E e \in GuestEvent : Start(e)
  \/ Quiet
  \/ \E e \in Event : Expire(e)
  \/ ResetTimers

TimersSpec == TimersInit /\ [][TimersNext]_wait
=============================================================================
