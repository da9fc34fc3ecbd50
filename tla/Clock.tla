-------------------------------- MODULE Clock --------------------------------
(***************************************************************************)
(* The real-time clock (src/src/pro_clk.c): periodic interrupts at a rate  *)
(* the program selects, tied to the host's time once the machine has       *)
(* started, and a calendar that shows the host's and is brought up to date *)
(* after every second of ticks, with an alarm.  When the events come is    *)
(* left open; the event queue orders them (EventQueue).                    *)
(***************************************************************************)
EXTENDS Integers, FiniteSets

CONSTANTS
  Base,         \* of the digits of host time, 100,000
  Freq,         \* ticks per second of each rate; rate 0 counts and is silent
  AnyTime,      \* alarm that does not care
  SecondsShown, \* seconds until the calendar repeats
  Csr1, Alarm,  \* values the program writes
  Throttle,     \* pro_int_throttle
  MaxTime       \* bound of the host's time

Rate == DOMAIN Freq

ASSUME BaseAssumption == Base \in Nat \ {0}
ASSUME FreqAssumption == 0 \in Rate /\ Freq \in [Rate -> Nat \ {0}]

(***************************************************************************)
(* Host time in three digits (bigtime), so that its product with an        *)
(* interrupt frequency fits 32-bit integers.  Units are a second divided   *)
(* by Base; in the code the products stay below 2^31 for eight centuries,  *)
(* and here they are exact.                                                *)
(***************************************************************************)
Digit == 0 .. Base - 1
Time == [hi : Nat, mid : Digit, lo : Digit]

(* The number a time stands for.                                           *)
Units(t) == (t.hi * Base + t.mid) * Base + t.lo

(* Slip: the borrow of the last digit stops at the middle one.             *)
BigtimeSub_NoBorrow(a, b) ==
  [hi |-> IF a.mid >= b.mid THEN a.hi - b.hi ELSE a.hi - b.hi - 1,
   mid |-> LET d == IF a.mid >= b.mid THEN a.mid - b.mid ELSE Base - b.mid + a.mid
           IN  IF a.lo >= b.lo THEN d ELSE IF d > 0 THEN d - 1 ELSE Base - 1,
   lo |-> IF a.lo >= b.lo THEN a.lo - b.lo ELSE Base - b.lo + a.lo]

(* bigtime_sub.                                                            *)
BigtimeSub(a, b) ==
  LET hi == IF a.mid >= b.mid THEN a.hi - b.hi ELSE a.hi - b.hi - 1
      mid == IF a.mid >= b.mid THEN a.mid - b.mid ELSE Base - b.mid + a.mid
  IN  IF a.lo >= b.lo THEN [hi |-> hi, mid |-> mid, lo |-> a.lo - b.lo]
      ELSE [hi |-> IF mid > 0 THEN hi ELSE hi - 1,
            mid |-> IF mid > 0 THEN mid - 1 ELSE Base - 1,
            lo |-> Base - b.lo + a.lo]

(* bigtime_add and bigtime_mul.                                            *)
BigtimeAdd(a, n) ==
  LET mid == (a.lo + n) \div Base + a.mid
  IN  [hi |-> mid \div Base + a.hi, mid |-> mid % Base, lo |-> (a.lo + n) % Base]

BigtimeMul(a, n) ==
  LET mid == (a.lo * n) \div Base + a.mid * n
  IN  [hi |-> mid \div Base + a.hi * n, mid |-> mid % Base, lo |-> (a.lo * n) % Base]

(* pro_time_get at the given moment.                                       *)
TimeAt(units) ==
  [hi |-> (units \div Base) \div Base, mid |-> (units \div Base) % Base, lo |-> units % Base]

-----------------------------------------------------------------------------
VARIABLES
  now,          \* the host's time
  rsel, uip,    \* csr0: rate select, update in progress
  enabled,      \* csr1: the interrupts enabled, of "P", "A" and "U"; "SET"
  flags,        \* csr2: the sources that came, "P", "A" and "U"; "IRQF"
  alarm, calendar, \* the alarm, and the second the time registers show
  rate, freq,   \* pro_clk_rs, pro_clk_freq
  startTime,    \* pro_time_start
  ticks,        \* pro_clk_int_cnt
  realtime,     \* pro_clk_realtime
  updating,     \* the update-ended event is scheduled
  irr,          \* the request bit of the clock in the interrupt controller
  origin, given \* when the rate was set, and the ticks since then

registers == <<rsel, uip, enabled, flags, alarm, calendar>>
timing == <<rate, freq, startTime, ticks, realtime, updating, irr, origin, given>>
clockVars == <<now, registers, timing>>

SecondAt(units) == (units \div Base) % SecondsShown

-----------------------------------------------------------------------------
(* pro_int_set, and the flag that says so, when one of the sources that    *)
(* came is enabled.                                                        *)
Raise(sources) ==
  /\ flags' = flags \cup sources \cup (IF sources \cap enabled # {} THEN {"IRQF"} ELSE {})
  /\ irr' = (irr \/ sources \cap enabled # {})

(* pro_clk_sched, in the state where tick counting left s and c: a new     *)
(* rate starts the count afresh.                                           *)
Sched(r, s, c, g) ==
  IF r # rate
  THEN /\ rate' = r /\ freq' = Freq[r]
       /\ startTime' = BigtimeMul(TimeAt(now), Freq[r])
       /\ ticks' = 0 /\ origin' = now /\ given' = 0
  ELSE startTime' = s /\ ticks' = c /\ given' = g /\ UNCHANGED <<rate, freq, origin>>

(* pro_clk_numint, and the two reasons to hold a tick back.                *)
Outstanding ==
  LET passed == BigtimeSub(BigtimeMul(TimeAt(now), freq), startTime)
  IN  passed.hi * Base + passed.mid
HeldBack == (Throttle /\ "P" \in flags /\ irr) \/ Outstanding < 1

(* Slip: the update is scheduled without a word.                           *)
SecondOver_NoUip(c) ==
  IF c >= freq
  THEN uip' = uip /\ updating' = (updating \/ "SET" \notin enabled)
  ELSE UNCHANGED <<uip, updating>>

(* Every second of ticks begins an update, unless the program sets the     *)
(* clock.                                                                  *)
SecondOver(c) ==
  IF c >= freq /\ "SET" \notin enabled
  THEN uip' = TRUE /\ updating' = TRUE
  ELSE UNCHANGED <<uip, updating>>

(* A tick: it counts, and is told unless the rate is 0.                    *)
Tick ==
  LET c == ticks + 1 IN
  /\ IF rate = 0 THEN UNCHANGED <<flags, irr>> ELSE Raise({"P"})
  /\ SecondOver(c)
  /\ Sched(rsel, IF realtime THEN BigtimeAdd(startTime, Base) ELSE startTime,
           IF c >= freq THEN 0 ELSE c, IF realtime THEN given + 1 ELSE given)

(* pro_clk_eq.  The update is over before the next second of ticks: its    *)
(* delay is the shorter one.  At the start every event is a tick, until    *)
(* enough instructions have run.                                           *)
ClkEq ==
  /\ ticks + 1 >= freq => ~updating
  /\ \/ ~realtime /\ Tick /\ realtime' \in BOOLEAN
     \/ realtime /\ ~HeldBack /\ Tick /\ UNCHANGED realtime
     \/ /\ realtime /\ HeldBack /\ Sched(rsel, startTime, ticks, given)
        /\ UNCHANGED <<uip, flags, irr, updating, realtime>>
  /\ UNCHANGED <<now, rsel, enabled, alarm, calendar>>

(* pro_clk_uf_eq.                                                          *)
ClkUfEq ==
  /\ updating /\ updating' = FALSE /\ uip' = FALSE
  /\ calendar' = SecondAt(now)
  /\ Raise({"U"} \cup IF alarm \in {calendar', AnyTime} THEN {"A"} ELSE {})
  /\ UNCHANGED <<now, rsel, enabled, alarm, rate, freq, startTime, ticks, realtime, origin, given>>

-----------------------------------------------------------------------------
(* pro_clk_rd of csr2, pro_clk_wr, and the interrupt acknowledge.          *)
ReadCsr2 ==
  /\ flags' = {}
  /\ UNCHANGED <<now, rsel, uip, enabled, alarm, calendar, timing>>

WriteCsr0(r) ==
  /\ rsel' = r
  /\ UNCHANGED <<now, uip, enabled, flags, alarm, calendar, timing>>

WriteCsr1(e) ==
  /\ enabled' = e
  /\ UNCHANGED <<now, rsel, uip, flags, alarm, calendar, timing>>

WriteAlarm(a) ==
  /\ alarm' = a
  /\ UNCHANGED <<now, rsel, uip, enabled, flags, calendar, timing>>

Acknowledge ==
  /\ irr /\ irr' = FALSE
  /\ UNCHANGED <<now, registers, rate, freq, startTime, ticks, realtime, updating, origin, given>>

(* The host's time goes on.                                                *)
HostTime ==
  /\ now < MaxTime /\ now' = now + 1
  /\ UNCHANGED <<registers, timing>>

(* pro_clk_reset; the resets before it empty the event queue and the       *)
(* interrupt controllers.                                                  *)
ClockReset ==
  /\ rsel' = 0 /\ uip' = FALSE /\ enabled' = {} /\ flags' = {} /\ alarm' = 0
  /\ calendar' = SecondAt(now)
  /\ rate' = 0 /\ freq' = Freq[0] /\ startTime' = BigtimeMul(TimeAt(now), Freq[0])
  /\ ticks' = 0 /\ realtime' = FALSE /\ updating' = FALSE /\ irr' = FALSE
  /\ origin' = now /\ given' = 0
  /\ UNCHANGED now

ClockInit ==
  /\ now = 0
  /\ rsel = 0 /\ uip = FALSE /\ enabled = {} /\ flags = {} /\ alarm = 0 /\ calendar = 0
  /\ rate = 0 /\ freq = Freq[0] /\ startTime = BigtimeMul(TimeAt(0), Freq[0])
  /\ ticks = 0 /\ realtime = FALSE /\ updating = FALSE /\ irr = FALSE
  /\ origin = 0 /\ given = 0

ClockNext ==
  \/ ClkEq \/ ClkUfEq
  \/ ReadCsr2 \/ Acknowledge
  \/ \E r \in Rate : WriteCsr0(r)
  \/ \E e \in Csr1 : WriteCsr1(e)
  \/ \E a \in Alarm : WriteAlarm(a)
  \/ HostTime \/ ClockReset

ClockSpec == ClockInit /\ [][ClockNext]_clockVars

-----------------------------------------------------------------------------
(* In real time no tick is given before its time has come and none is      *)
(* forgotten: the start time has moved by one period for every tick since  *)
(* the rate was set, and never beyond the host's time.  So the subtraction *)
(* of times has the operands it assumes, and what it leaves is the number  *)
(* of ticks that are outstanding.                                          *)
TicksFollowTime ==
  /\ startTime \in Time /\ ticks < freq
  /\ Units(startTime) = origin * freq + given * Base
  /\ given * Base <= (now - origin) * freq
  /\ Outstanding = ((now - origin) * freq) \div Base - given

(* The calendar changes only while the program is told not to read it, and *)
(* a program that waits until an update is over does not wait forever: one *)
(* is under way exactly while its end is scheduled.                        *)
CalendarSteady ==
  [][/\ calendar' # calendar => uip \/ ClockReset
     /\ uip' = updating']_clockVars
=============================================================================
