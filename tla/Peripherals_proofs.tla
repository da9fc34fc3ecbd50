------------------------- MODULE Peripherals_proofs --------------------------
(* Proofs about the peripherals around the machine: the real-time clock,   *)
(* for every size of the digits of host time and every set of frequencies, *)
(* the video board, the registers of the I/O page, the communication port  *)
(* with its program, for any characters and any queues with room for what  *)
(* the program leaves, the host's serial lines, the tablet, the printer,   *)
(* and the keyboard and the menu at their desk.                            *)
EXTENDS Clock, Video, Bus, ComDriver, HostSerial, Digipad, La50, Desk,
        FiniteSetTheorems, SequenceTheorems, WellFoundedInduction, TLAPS

-----------------------------------------------------------------------------
(* The clock: the arithmetic on three digits is exact, and the ticks       *)
(* follow the host's time.                                                 *)
LEMMA Division ==
  ASSUME NEW x \in Nat, NEW b \in Nat \ {0}
  PROVE  x \div b \in Nat /\ x % b \in 0 .. b - 1 /\ x = (x \div b) * b + (x % b)
  OBVIOUS

LEMMA DivisionUnique ==
  ASSUME NEW q \in Int, NEW b \in Nat \ {0}, NEW r \in 0 .. b - 1
  PROVE  (q * b + r) \div b = q
  OBVIOUS

LEMMA Distribute ==
  ASSUME NEW x \in Int, NEW y \in Int, NEW z \in Int
  PROVE  (x + y) * z = x * z + y * z /\ (x - y) * z = x * z - y * z
  OBVIOUS

LEMMA Rearrange ==
  ASSUME NEW x \in Int, NEW y \in Int, NEW z \in Int
  PROVE  (x * y) * z = (x * z) * y
  OBVIOUS

LEMMA UnitsType == ASSUME NEW t \in Time PROVE Units(t) \in Nat
  BY BaseAssumption DEF Time, Digit, Units

-----------------------------------------------------------------------------
(* bigtime_sub is exact when the first time is not the earlier one,        *)
(* wherever the two borrows go.                                            *)
THEOREM SubIsExact ==
  ASSUME NEW a \in Time, NEW b \in Time, Units(a) >= Units(b)
  PROVE  BigtimeSub(a, b) \in Time /\ Units(BigtimeSub(a, b)) = Units(a) - Units(b)
<1> DEFINE d == BigtimeSub(a, b)
<1>1. /\ a.hi \in Nat /\ a.mid \in Digit /\ a.lo \in Digit
      /\ b.hi \in Nat /\ b.mid \in Digit /\ b.lo \in Digit
      /\ Base \in Nat \ {0}
  BY BaseAssumption DEF Time
<1>2. /\ d.hi \in Int /\ d.mid \in Digit /\ d.lo \in Digit
      /\ d = [hi |-> d.hi, mid |-> d.mid, lo |-> d.lo]
  BY <1>1 DEF BigtimeSub, Digit
<1>3. PICK x \in 0 .. 1, y \in 0 .. 1 :
        /\ d.hi = a.hi - b.hi - y
        /\ d.mid = a.mid - b.mid - x + y * Base
        /\ d.lo = a.lo - b.lo + x * Base
  <2>1. CASE a.lo >= b.lo /\ a.mid >= b.mid
    BY <1>1, <2>1 DEF BigtimeSub, Digit
  <2>2. CASE a.lo >= b.lo /\ ~(a.mid >= b.mid)
    BY <1>1, <2>2 DEF BigtimeSub, Digit
  <2>3. CASE ~(a.lo >= b.lo) /\ a.mid >= b.mid
    BY <1>1, <2>3 DEF BigtimeSub, Digit
  <2>4. CASE ~(a.lo >= b.lo) /\ ~(a.mid >= b.mid)
    BY <1>1, <2>4 DEF BigtimeSub, Digit
  <2>5. QED
    BY <2>1, <2>2, <2>3, <2>4
<1>4. Units(d) = Units(a) - Units(b)
  <2>1. (d.hi * Base + d.mid) * Base + d.lo
          = ((a.hi * Base + a.mid) - (b.hi * Base + b.mid) - x) * Base + d.lo
    BY <1>1, <1>3 DEF Digit
  <2>2. ((a.hi * Base + a.mid) - (b.hi * Base + b.mid) - x) * Base
          = (a.hi * Base + a.mid) * Base - (b.hi * Base + b.mid) * Base - x * Base
    BY <1>1 DEF Digit
  <2>3. QED
    BY <1>1, <1>3, <2>1, <2>2 DEF Units, Digit
<1>5. d.hi >= 0
  <2>1. d.hi * Base + d.mid > -1
    <3>1. (d.hi * Base + d.mid) * Base + d.lo >= 0
      BY <1>4, UnitsType DEF Units
    <3>2. QED
      BY <1>1, <1>2, <3>1 DEF Digit
  <2>2. QED
    BY <1>1, <1>2, <2>1 DEF Digit
<1>6. QED
  BY <1>2, <1>4, <1>5 DEF Time

(* The same for bigtime_add and bigtime_mul, with the carries.             *)
THEOREM AddIsExact ==
  ASSUME NEW a \in Time, NEW n \in Nat
  PROVE  BigtimeAdd(a, n) \in Time /\ Units(BigtimeAdd(a, n)) = Units(a) + n
<1> DEFINE h == a.hi
           k == a.mid
           p == a.lo + n
           m == p \div Base + k
<1>1. h \in Nat /\ k \in Nat /\ p \in Nat /\ a.lo \in Nat /\ Base \in Nat \ {0}
  BY BaseAssumption DEF Time, Digit
<1>2. p \div Base \in Nat /\ p % Base \in Digit /\ p = (p \div Base) * Base + (p % Base)
  BY <1>1, Division DEF Digit
<1> HIDE DEF p, k, h
<1>3. m \in Nat
  BY <1>1, <1>2
<1>4. m \div Base \in Nat /\ m % Base \in Digit /\ m = (m \div Base) * Base + (m % Base)
  BY <1>1, <1>3, Division DEF Digit
<1>5. BigtimeAdd(a, n) = [hi |-> m \div Base + h, mid |-> m % Base, lo |-> p % Base]
  BY DEF BigtimeAdd, h, k, p
<1>6. Units(a) + n = (h * Base + k) * Base + p
  <2>1. (h * Base + k) * Base \in Nat
    BY <1>1
  <2>2. QED
    BY <1>1, <2>1 DEF Units, h, k, p
<1> HIDE DEF m
<1>7. (m \div Base + h) * Base + (m % Base) = h * Base + m
  BY <1>1, <1>4 DEF Digit
<1>8. (h * Base + m) * Base + (p % Base) = (h * Base + k) * Base + p
  <2> DEFINE q == p \div Base
             w == h * Base + k
             r == p % Base
  <2>1. w \in Nat /\ q \in Nat /\ h * Base + m = w + q
    BY <1>1, <1>2, <1>3 DEF m
  <2>2. r \in Nat /\ p = q * Base + r
    BY <1>1, <1>2, <1>3 DEF Digit
  <2> HIDE DEF w, q, r
  <2>3. (w + q) * Base + r = w * Base + p
    BY <1>1, <2>1, <2>2
  <2>4. (h * Base + m) * Base + r = w * Base + p
    BY <2>1, <2>3
  <2>5. QED
    BY <2>4 DEF w, r
<1>9. BigtimeAdd(a, n) \in Time
  BY <1>1, <1>2, <1>4, <1>5 DEF Time
<1>10. QED
  BY <1>5, <1>6, <1>7, <1>8, <1>9 DEF Units

THEOREM MulIsExact ==
  ASSUME NEW a \in Time, NEW n \in Nat
  PROVE  BigtimeMul(a, n) \in Time /\ Units(BigtimeMul(a, n)) = Units(a) * n
<1> DEFINE p == a.lo * n
           k == a.mid * n
           h == a.hi * n
           m == p \div Base + k
<1>1. a.hi \in Nat /\ a.mid \in Nat /\ a.lo \in Nat /\ Base \in Nat \ {0}
  BY BaseAssumption DEF Time, Digit
<1>2. p \in Nat /\ k \in Nat /\ h \in Nat
  BY <1>1
<1>3. Units(a) * n = (h * Base + k) * Base + p
  <2>1. (a.hi * Base) * n = h * Base
    BY <1>1
  <2>2. (a.hi * Base + a.mid) * n = h * Base + k
    BY <1>1, <2>1, Distribute
  <2>3. ((a.hi * Base + a.mid) * Base) * n = ((a.hi * Base + a.mid) * n) * Base
    BY <1>1, Rearrange
  <2>4. QED
    BY <1>1, <2>2, <2>3, Distribute DEF Units
<1> HIDE DEF p, k, h
<1>4. p \div Base \in Nat /\ p % Base \in Digit /\ p = (p \div Base) * Base + (p % Base)
  BY <1>1, <1>2, Division DEF Digit
<1>5. m \in Nat
  BY <1>2, <1>4
<1>6. m \div Base \in Nat /\ m % Base \in Digit /\ m = (m \div Base) * Base + (m % Base)
  BY <1>1, <1>5, Division DEF Digit
<1>7. BigtimeMul(a, n) = [hi |-> m \div Base + h, mid |-> m % Base, lo |-> p % Base]
  BY DEF BigtimeMul, h, k, p
<1> HIDE DEF m
<1>8. (m \div Base + h) * Base + (m % Base) = h * Base + m
  BY <1>1, <1>2, <1>6 DEF Digit
<1>9. (h * Base + m) * Base + (p % Base) = (h * Base + k) * Base + p
  <2> DEFINE q == p \div Base
             w == h * Base + k
             r == p % Base
  <2>1. w \in Nat /\ q \in Nat /\ h * Base + m = w + q
    <3>1. h * Base \in Nat
      BY <1>1, <1>2
    <3> DEFINE hb == h * Base
    <3>2. hb \in Nat
      BY <3>1
    <3> HIDE DEF hb
    <3>3. hb + k \in Nat /\ p \div Base \in Nat /\ hb + m = (hb + k) + p \div Base
      BY <1>2, <1>4, <3>2 DEF m
    <3>4. QED
      BY <3>3 DEF hb
  <2>2. r \in Nat /\ p = q * Base + r
    BY <1>1, <1>2, <1>4 DEF Digit
  <2> HIDE DEF w, q, r
  <2>3. (w + q) * Base + r = w * Base + p
    BY <1>1, <2>1, <2>2
  <2>4. (h * Base + m) * Base + r = w * Base + p
    BY <2>1, <2>3
  <2>5. QED
    BY <2>4 DEF w, r
<1>10. BigtimeMul(a, n) \in Time
  BY <1>2, <1>4, <1>6, <1>7 DEF Time
<1>11. QED
  BY <1>3, <1>7, <1>8, <1>9, <1>10 DEF Units

LEMMA TimeAtIsExact ==
  ASSUME NEW u \in Nat
  PROVE  TimeAt(u) \in Time /\ Units(TimeAt(u)) = u
<1> DEFINE q == u \div Base
<1>1. Base \in Nat \ {0}
  BY BaseAssumption
<1>2. q \in Nat /\ u % Base \in Digit /\ u = q * Base + (u % Base)
  BY <1>1, Division DEF Digit
<1> HIDE DEF q
<1>3. q \div Base \in Nat /\ q % Base \in Digit /\ q = (q \div Base) * Base + (q % Base)
  BY <1>1, <1>2, Division DEF Digit
<1>4. TimeAt(u) = [hi |-> q \div Base, mid |-> q % Base, lo |-> u % Base]
  BY DEF TimeAt, q
<1>5. QED
  BY <1>2, <1>3, <1>4 DEF Time, Units

-----------------------------------------------------------------------------
(* The inductive invariant: where the ticks of the rate in force started,  *)
(* how many have been given, and that they are not ahead of the host.      *)
StartExact == Units(startTime) = origin * freq + given * Base
NotAhead == given * Base <= (now - origin) * freq
ClockInv ==
  /\ now \in Nat /\ origin \in Nat /\ origin <= now /\ given \in Nat
  /\ rate \in Rate /\ rsel \in Rate /\ freq = Freq[rate]
  /\ ticks \in Nat /\ ticks < freq
  /\ startTime \in Time
  /\ StartExact /\ NotAhead

LEMMA FreqType == ASSUME NEW x \in Rate PROVE Freq[x] \in Nat \ {0}
  BY FreqAssumption

LEMMA OutstandingIsExact ==
  ASSUME ClockInv
  PROVE  Outstanding = ((now - origin) * freq) \div Base - given
<1> DEFINE b == BigtimeMul(TimeAt(now), freq)
           d == BigtimeSub(b, startTime)
           e == now - origin
           x == e * freq
<1>1. now \in Nat /\ origin \in Nat /\ e \in Nat /\ given \in Nat /\ Base \in Nat \ {0} /\ freq \in Nat
  BY BaseAssumption, FreqType DEF ClockInv
<1>2. b \in Time /\ Units(b) = now * freq
  BY <1>1, TimeAtIsExact, MulIsExact
<1>3. x \in Nat /\ given * Base \in Nat
  BY <1>1
<1>4. now * freq = origin * freq + x
  <2>1. (origin + e) * freq = origin * freq + e * freq
    BY <1>1, Distribute
  <2>2. QED
    BY <1>1, <2>1
<1>5. origin * freq \in Nat
  BY <1>1
<1>6. Units(b) - Units(startTime) = x - given * Base /\ Units(b) >= Units(startTime)
  <2>1. given * Base <= x
    BY DEF ClockInv, NotAhead
  <2>2. Units(startTime) = origin * freq + given * Base /\ Units(b) = origin * freq + x
    BY <1>2, <1>4 DEF ClockInv, StartExact
  <2> HIDE DEF x, b
  <2>3. QED
    BY <1>3, <1>5, <2>1, <2>2
<1>7. d \in Time /\ Units(d) = x - given * Base
  BY <1>2, <1>6, SubIsExact DEF ClockInv
<1> HIDE DEF d, x
<1>8. PICK n \in Nat, l \in Digit : n = d.hi * Base + d.mid /\ n * Base + l = x - given * Base
  BY <1>1, <1>7 DEF Time, Units, Digit
<1>9. (n + given) * Base + l = x
  <2>1. (n + given) * Base = n * Base + given * Base
    BY <1>1, <1>8, Distribute
  <2>2. n * Base \in Nat /\ l \in Nat
    BY <1>1, <1>8 DEF Digit
  <2>3. QED
    BY <1>3, <1>8, <2>1, <2>2
<1>10. x \div Base = n + given
  <2>1. n + given \in Int /\ l \in 0 .. Base - 1
    BY <1>1, <1>8 DEF Digit
  <2>2. ((n + given) * Base + l) \div Base = n + given
    BY <1>1, <2>1, DivisionUnique
  <2>3. QED
    BY <1>9, <2>2
<1>11. Outstanding = n
  BY <1>8 DEF Outstanding, d
<1>12. Outstanding = x \div Base - given
  BY <1>1, <1>8, <1>10, <1>11
<1>13. QED
  BY <1>12 DEF x

(* Rescheduling from a start time that is exact.                           *)
LEMMA SchedKeeps ==
  ASSUME ClockInv, NEW s \in Time, NEW c \in Nat, NEW g \in Nat, c < freq,
         Units(s) = origin * freq + g * Base, g * Base <= (now - origin) * freq,
         now' = now, rsel' = rsel, Sched(rsel, s, c, g)
  PROVE  ClockInv'
<1>1. CASE rsel = rate
  <2>1. /\ startTime' = s /\ ticks' = c /\ given' = g
        /\ rate' = rate /\ freq' = freq /\ origin' = origin
    BY <1>1 DEF Sched
  <2>2. Units(startTime)' = Units(s)
    BY <2>1 DEF Units
  <2>3. StartExact' /\ NotAhead'
    BY <2>1, <2>2 DEF StartExact, NotAhead
  <2>4. QED
    BY <1>1, <2>1, <2>3 DEF ClockInv
<1>2. CASE rsel # rate
  <2>1. /\ rate' = rsel /\ freq' = Freq[rsel] /\ ticks' = 0 /\ origin' = now /\ given' = 0
        /\ startTime' = BigtimeMul(TimeAt(now), Freq[rsel])
    BY <1>2 DEF Sched
  <2>2. now \in Nat /\ Freq[rsel] \in Nat \ {0} /\ Base \in Nat
    BY FreqType, BaseAssumption DEF ClockInv
  <2>3. startTime' \in Time /\ Units(startTime') = now * Freq[rsel]
    BY <2>1, <2>2, TimeAtIsExact, MulIsExact
  <2>4. Units(startTime)' = Units(startTime')
    BY DEF Units
  <2>5. now * Freq[rsel] = now * Freq[rsel] + 0 * Base /\ 0 * Base <= (now - now) * Freq[rsel]
    BY <2>2
  <2>6. StartExact' /\ NotAhead'
    BY <2>1, <2>3, <2>4, <2>5 DEF StartExact, NotAhead
  <2>7. QED
    BY <2>1, <2>2, <2>3, <2>6 DEF ClockInv
<1>3. QED
  BY <1>1, <1>2

(* A tick counts up to the frequency and starts again.                     *)
LEMMA TickKeeps ==
  ASSUME ClockInv, Tick, now' = now, rsel' = rsel, realtime \in BOOLEAN,
         realtime => ~HeldBack
  PROVE  ClockInv'
<1> DEFINE c == IF ticks + 1 >= freq THEN 0 ELSE ticks + 1
           s == IF realtime THEN BigtimeAdd(startTime, Base) ELSE startTime
           g == IF realtime THEN given + 1 ELSE given
<1>1. freq \in Nat \ {0} /\ Base \in Nat \ {0} /\ given \in Nat /\ startTime \in Time
  BY FreqType, BaseAssumption DEF ClockInv
<1>2. c \in Nat /\ c < freq
  BY <1>1 DEF ClockInv
<1>3. Sched(rsel, s, c, g)
  BY DEF Tick
<1>4. CASE ~realtime
  BY <1>1, <1>2, <1>3, <1>4, SchedKeeps DEF ClockInv, StartExact, NotAhead
<1>5. CASE realtime
  <2> DEFINE x == (now - origin) * freq
  <2>1. Outstanding >= 1 /\ Outstanding \in Int
    <3>1. ~(Outstanding < 1)
      BY <1>5 DEF HeldBack
    <3>2. x \in Nat /\ x \div Base \in Int
      BY <1>1 DEF ClockInv
    <3>3. QED
      BY <1>1, <3>1, <3>2, OutstandingIsExact
  <2>2. x \in Nat
    BY <1>1 DEF ClockInv
  <2>3. given + 1 <= x \div Base
    BY <1>1, <2>1, <2>2, OutstandingIsExact
  <2> HIDE DEF x
  <2>4. (given + 1) * Base <= x
    <3>1. PICK q \in Nat, r \in Nat : q = x \div Base /\ x = q * Base + r
      BY <1>1, <2>2, Division
    <3>2. given + 1 <= q
      BY <2>3, <3>1
    <3>3. (given + 1) * Base <= q * Base
      BY <1>1, <3>2
    <3>4. QED
      BY <1>1, <3>1, <3>3
  <2>5. s \in Time /\ Units(s) = Units(startTime) + Base
    BY <1>1, <1>5, AddIsExact
  <2>6. Units(startTime) = origin * freq + given * Base /\ origin * freq \in Nat
    BY <1>1 DEF ClockInv, StartExact
  <2>7. (given + 1) * Base = given * Base + Base
    BY <1>1
  <2>8. Units(s) = origin * freq + (given + 1) * Base
    BY <1>1, <2>5, <2>6, <2>7
  <2> HIDE DEF s, c
  <2>9. Sched(rsel, s, c, given + 1) /\ given + 1 \in Nat
    BY <1>1, <1>3, <1>5
  <2>10. QED
    BY <1>2, <2>4, <2>5, <2>8, <2>9, SchedKeeps DEF x
<1>6. QED
  BY <1>4, <1>5

LEMMA SameClock ==
  ASSUME ClockInv, NEW k \in Nat, now' = now + k, rsel' \in Rate,
         UNCHANGED <<rate, freq, startTime, ticks, origin, given>>
  PROVE  ClockInv'
<1>1. freq \in Nat /\ origin \in Nat /\ now \in Nat
  BY FreqType DEF ClockInv
<1>2. (now - origin) * freq <= (now' - origin) * freq
  <2> DEFINE e == now - origin
  <2>1. e \in Int /\ now' - origin = e + k
    BY <1>1
  <2> HIDE DEF e
  <2>2. (e + k) * freq = e * freq + k * freq
    BY <1>1, <2>1, Distribute
  <2>3. e * freq \in Int /\ k * freq \in Nat
    BY <1>1, <2>1
  <2>4. e * freq <= (e + k) * freq
    BY <2>2, <2>3
  <2>5. QED
    BY <2>1, <2>4 DEF e
<1>3. Units(startTime)' = Units(startTime)
  BY DEF Units
<1>4. StartExact'
  BY <1>3 DEF ClockInv, StartExact
<1>5. NotAhead'
  <2>1. given * Base <= (now - origin) * freq /\ given * Base \in Int
    BY BaseAssumption DEF ClockInv, NotAhead
  <2>2. (now - origin) * freq \in Int /\ (now' - origin) * freq \in Int
    BY <1>1
  <2>3. given * Base <= (now' - origin) * freq
    BY <1>2, <2>1, <2>2
  <2>4. QED
    BY <2>3 DEF NotAhead
<1>6. QED
  BY <1>1, <1>4, <1>5 DEF ClockInv

-----------------------------------------------------------------------------
LEMMA ClockInvInit == ClockInit => ClockInv
<1> SUFFICES ASSUME ClockInit PROVE ClockInv
  OBVIOUS
<1>1. Freq[0] \in Nat \ {0} /\ 0 \in Rate /\ Base \in Nat
  BY FreqAssumption, FreqType, BaseAssumption
<1>2. startTime \in Time /\ Units(startTime) = 0 * Freq[0]
  BY <1>1, TimeAtIsExact, MulIsExact DEF ClockInit
<1>3. now = 0 /\ origin = 0 /\ given = 0 /\ rate = 0 /\ rsel = 0 /\ ticks = 0 /\ freq = Freq[0]
  BY DEF ClockInit
<1>4. 0 * Freq[0] = 0 * Freq[0] + 0 * Base /\ 0 * Base <= (0 - 0) * Freq[0]
  BY <1>1
<1>5. StartExact /\ NotAhead
  BY <1>2, <1>3, <1>4 DEF StartExact, NotAhead
<1>6. QED
  BY <1>1, <1>2, <1>3, <1>5 DEF ClockInv

LEMMA ResetKeeps == ClockInv /\ ClockReset => ClockInv'
<1> SUFFICES ASSUME ClockInv, ClockReset PROVE ClockInv'
  OBVIOUS
<1>1. Freq[0] \in Nat \ {0} /\ 0 \in Rate /\ Base \in Nat /\ now \in Nat
  BY FreqAssumption, FreqType, BaseAssumption DEF ClockInv
<1>2. /\ now' = now /\ origin' = now /\ given' = 0 /\ rate' = 0 /\ rsel' = 0 /\ ticks' = 0
      /\ freq' = Freq[0] /\ startTime' = BigtimeMul(TimeAt(now), Freq[0])
  BY DEF ClockReset
<1>3. startTime' \in Time /\ Units(startTime') = now * Freq[0]
  BY <1>1, <1>2, TimeAtIsExact, MulIsExact
<1>4. Units(startTime)' = Units(startTime')
  BY DEF Units
<1>5. now * Freq[0] = now * Freq[0] + 0 * Base /\ 0 * Base <= (now - now) * Freq[0]
  BY <1>1
<1>6. StartExact' /\ NotAhead'
  BY <1>2, <1>3, <1>4, <1>5 DEF StartExact, NotAhead
<1>7. QED
  BY <1>1, <1>2, <1>3, <1>6 DEF ClockInv

Together == ClockInv /\ realtime \in BOOLEAN

LEMMA ClockInvStep == Together /\ [ClockNext]_clockVars => Together'
<1> SUFFICES ASSUME Together, [ClockNext]_clockVars PROVE Together'
  OBVIOUS
<1> USE DEF Together
<1>0. now \in Nat /\ rsel \in Rate /\ now = now + 0
  BY DEF ClockInv
<1>1. CASE ClkEq
  <2>1. now' = now /\ rsel' = rsel
    BY <1>1 DEF ClkEq
  <2>2. CASE ~realtime /\ Tick /\ realtime' \in BOOLEAN
    BY <2>1, <2>2, TickKeeps
  <2>3. CASE realtime /\ ~HeldBack /\ Tick /\ UNCHANGED realtime
    BY <2>1, <2>3, TickKeeps
  <2>4. CASE realtime /\ Sched(rsel, startTime, ticks, given) /\ UNCHANGED realtime
    BY <2>1, <2>4, SchedKeeps DEF ClockInv, StartExact, NotAhead
  <2>5. QED
    BY <1>1, <2>2, <2>3, <2>4 DEF ClkEq
<1>2. CASE ClkUfEq
  BY <1>0, <1>2, SameClock DEF ClkUfEq, Raise
<1>3. CASE ReadCsr2
  BY <1>0, <1>3, SameClock DEF ReadCsr2, timing
<1>4. CASE Acknowledge
  BY <1>0, <1>4, SameClock DEF Acknowledge, registers
<1>5. ASSUME NEW r \in Rate, WriteCsr0(r) PROVE Together'
  BY <1>0, <1>5, SameClock DEF WriteCsr0, timing
<1>6. ASSUME NEW e \in Csr1, WriteCsr1(e) PROVE Together'
  BY <1>0, <1>6, SameClock DEF WriteCsr1, timing
<1>7. ASSUME NEW a \in Alarm, WriteAlarm(a) PROVE Together'
  BY <1>0, <1>7, SameClock DEF WriteAlarm, timing
<1>8. CASE HostTime
  BY <1>0, <1>8, SameClock DEF HostTime, registers, timing
<1>9. CASE ClockReset
  BY <1>9, ResetKeeps DEF ClockReset
<1>10. CASE UNCHANGED clockVars
  BY <1>0, <1>10, SameClock DEF clockVars, registers, timing
<1>11. QED
  BY <1>1, <1>2, <1>3, <1>4, <1>5, <1>6, <1>7, <1>8, <1>9, <1>10 DEF ClockNext

(* Whatever the frequencies, the digits of the host's time and the order   *)
(* in which rates are written, events come late and the machine is reset:  *)
(* no tick is given ahead of the host's time, and what is computed as      *)
(* outstanding is the ticks that are.                                      *)
THEOREM TicksAlwaysFollow == ClockSpec => []TicksFollowTime
<1>1. ClockInit => Together
  BY ClockInvInit DEF Together, ClockInit
<1>2. Together => TicksFollowTime
  BY OutstandingIsExact DEF Together, ClockInv, TicksFollowTime, StartExact, NotAhead
<1>3. QED
  BY <1>1, <1>2, ClockInvStep, PTL DEF ClockSpec

-----------------------------------------------------------------------------
(* The calendar: an update is in progress exactly while its end is         *)
(* scheduled.                                                              *)
UpdateInv == {uip, updating} \subseteq BOOLEAN /\ (uip <=> updating)
Steady == (calendar' # calendar => uip \/ ClockReset) /\ uip' = updating'

LEMMA UpdateStep ==
  ASSUME UpdateInv, [ClockNext]_clockVars
  PROVE  UpdateInv' /\ (calendar' # calendar => uip \/ ClockReset)
<1> USE DEF UpdateInv
<1>1. CASE UNCHANGED <<uip, updating, calendar>>
  BY <1>1
<1>2. CASE ClkEq
  <2>1. UNCHANGED calendar
    BY <1>2 DEF ClkEq
  <2>2. CASE UNCHANGED <<uip, updating>>
    BY <2>1, <2>2
  <2>3. CASE uip' = TRUE /\ updating' = TRUE
    BY <2>1, <2>3
  <2>4. QED
    BY <1>2, <2>2, <2>3 DEF ClkEq, Tick, SecondOver
<1>3. CASE ClkUfEq
  BY <1>3 DEF ClkUfEq
<1>4. CASE ClockReset
  BY <1>4 DEF ClockReset
<1>5. QED
  BY <1>1, <1>2, <1>3, <1>4 DEF ClockNext, clockVars, registers, timing, ReadCsr2, Acknowledge,
     WriteCsr0, WriteCsr1, WriteAlarm, HostTime

(* Whatever the rates, and whenever the program sets the clock, reads the  *)
(* flags or resets the machine: the calendar changes only while the update *)
(* in progress is shown, and that is shown as long as its end is to come.  *)
THEOREM CalendarAlwaysSteady == ClockSpec => CalendarSteady
<1>1. ClockInit => UpdateInv
  BY DEF ClockInit, UpdateInv
<1>2. UpdateInv /\ [ClockNext]_clockVars => UpdateInv'
  BY UpdateStep
<1>3. UpdateInv /\ [ClockNext]_clockVars => [Steady]_clockVars
  <2>1. UpdateInv' => uip' = updating'
    BY DEF UpdateInv
  <2>2. QED
    BY <2>1, UpdateStep DEF Steady
<1>4. [][Steady]_clockVars => CalendarSteady
  BY PTL DEF Steady, CalendarSteady
<1>5. QED
  BY <1>1, <1>2, <1>3, <1>4, PTL DEF ClockSpec

-----------------------------------------------------------------------------
(* The video board.                                                        *)

(* Commands pile up only when one was given to a board that was not done.  *)
CommandTypes == {td, die, told, hasty} \subseteq BOOLEAN /\ drawing \in Nat
OneUnlessHasty == ~hasty => drawing <= 1
CommandInv == CommandTypes /\ OneUnlessHasty /\ DoneIsTold

LEMMA CommandStep ==
  ASSUME CommandInv, [VideoNext]_videoVars
  PROVE  CommandInv'
<1> USE DEF CommandInv
<1>1. CASE UNCHANGED <<td, die, drawing, told, hasty>>
  BY <1>1 DEF CommandTypes, OneUnlessHasty, DoneIsTold
<1>2. ASSUME NEW c \in Commands, Draw(c) PROVE CommandInv'
  <2>1. /\ td' = FALSE /\ told' = FALSE /\ hasty' = (hasty \/ ~td) /\ die' = die
        /\ drawing' = drawing + 1
    BY <1>2 DEF Draw
  <2>2. {td', die', told', hasty'} \subseteq BOOLEAN
    BY <2>1, Zenon DEF CommandTypes
  <2>3. drawing' \in Nat /\ drawing' > 0
    BY <2>1 DEF CommandTypes
  <2>4. ASSUME ~hasty' PROVE drawing' <= 1
    <3>1. ~hasty /\ td
      BY <2>1, <2>4, Zenon DEF CommandTypes
    <3>2. drawing = 0
      BY <3>1, Zenon DEF DoneIsTold
    <3>3. QED
      BY <2>1, <3>2
  <2>5. QED
    BY <2>1, <2>2, <2>3, <2>4 DEF CommandTypes, OneUnlessHasty, DoneIsTold
<1>3. CASE VidCmdEq
  <2>1. /\ td' = TRUE /\ told' = (told \/ die) /\ die' = die
        /\ hasty' = (hasty /\ drawing > 1) /\ drawing' = drawing - 1 /\ drawing > 0
    BY <1>3 DEF VidCmdEq
  <2>2. drawing' \in Nat /\ (drawing <= 1 => drawing' = 0) /\ (drawing <= 1 \/ drawing > 1)
    BY <2>1 DEF CommandTypes
  <2>3. {td', die', told', hasty'} \subseteq BOOLEAN
    BY <2>1, Zenon DEF CommandTypes
  <2>4. ASSUME ~hasty' PROVE drawing' = 0
    BY <2>1, <2>2, <2>4, Zenon DEF OneUnlessHasty
  <2>5. td' /\ die' => told'
    BY <2>1, Zenon
  <2>6. OneUnlessHasty'
    BY <2>4 DEF OneUnlessHasty
  <2>7. DoneIsTold'
    BY <2>1, <2>4, <2>5 DEF DoneIsTold
  <2>8. QED
    BY <2>2, <2>3, <2>6, <2>7 DEF CommandTypes
<1>4. ASSUME NEW v \in CsrValues, WriteCsr(v[1], v[2]) PROVE CommandInv'
  <2>1. die' = v[1] /\ told' = (told \/ (v[1] /\ ~die /\ td)) /\ UNCHANGED <<td, drawing, hasty>>
    BY <1>4 DEF WriteCsr
  <2>2. v[1] \in BOOLEAN
    BY CsrAssumption
  <2>3. QED
    BY <2>1, <2>2 DEF CommandTypes, OneUnlessHasty, DoneIsTold
<1>5. CASE VideoReset
  <2>1. td' = TRUE /\ die' = FALSE /\ drawing' = 0 /\ told' = FALSE /\ hasty' = FALSE
    BY <1>5, Zenon DEF VideoReset
  <2>2. drawing' \in Nat /\ drawing' <= 1
    BY <2>1
  <2>3. QED
    BY <2>1, <2>2, Zenon DEF CommandTypes, OneUnlessHasty, DoneIsTold
<1>6. ASSUME VideoStep PROVE CommandInv'
  BY <1>1, <1>2, <1>3, <1>4, <1>6
  DEF VideoStep, VidEq, VramWrite, WritePlaneControl, WriteScroll, WritePattern,
      WriteColormap, MenuPrints, MenuCloses, MenuSwitches, board
<1>7. QED
  BY <1>1, <1>5, <1>6 DEF VideoNext, videoVars, board

(* Whatever is drawn, and whenever the interrupt is enabled, a command ends *)
(* or the board is reset: the interrupt for the last command is requested,  *)
(* done comes, and it means that nothing is under way unless the program    *)
(* gave a command before the one before it was done.                        *)
THEOREM DoneIsAlwaysTold == VideoSpec => []DoneIsTold
<1>1. VideoInit => CommandInv
  <2> SUFFICES ASSUME VideoInit PROVE CommandInv
    OBVIOUS
  <2>1. td = TRUE /\ die = FALSE /\ drawing = 0 /\ told = FALSE /\ hasty = FALSE
    BY Zenon DEF VideoInit
  <2>2. drawing \in Nat /\ drawing <= 1
    BY <2>1
  <2>3. QED
    BY <2>1, <2>2, Zenon DEF CommandInv, CommandTypes, OneUnlessHasty, DoneIsTold
<1>2. CommandInv => DoneIsTold
  BY DEF CommandInv
<1>3. QED
  BY <1>1, <1>2, CommandStep, PTL DEF VideoSpec

-----------------------------------------------------------------------------
(* The registers of the I/O page.                                          *)

(* BatteryKept is not inductive: it speaks of the addresses that are       *)
(* tried, and the memory has to be a memory for its file to become one.    *)
Contents == [0 .. 49 -> SUBSET (0 .. 15)]
BusInv ==
  /\ battery \in Contents /\ meant = battery
  /\ Loaded(batFile) \in Contents
  /\ csr \ CsrBits = CsrInit \ CsrBits /\ led \subseteq LedBits

LEMMA BatteryWordInRange ==
  ASSUME NEW pa \in Nat, InBattery(pa)
  PROVE  BatteryWord(pa) \in 0 .. 49
  BY DEF InBattery, BatteryWord

(* The memory has the lower half of a word only, and WRITE_WB keeps to it. *)
LEMMA BatteryBitsWritten ==
  ASSUME NEW reg, NEW data \in SUBSET (0 .. 15), NEW pa, NEW byte \in BOOLEAN
  PROVE  WriteWB(reg, BatteryBits, data, pa, byte)
           = IF byte /\ pa % 2 = 1 THEN reg ELSE (reg \ Low) \cup (data \cap Low)
<1>1. \A b \in Shifted(data) : b \notin Low
  BY DEF Shifted, Low
<1>2. CASE byte /\ pa % 2 = 1
  BY <1>1, <1>2 DEF WriteWB, BatteryBits
<1>3. CASE ~(byte /\ pa % 2 = 1)
  BY <1>3 DEF WriteWB, BatteryBits
<1>4. QED
  BY <1>2, <1>3

(* What cannot be written stays.                                           *)
LEMMA OnlyWritable ==
  ASSUME NEW reg, NEW we, NEW data, NEW pa, NEW byte
  PROVE  /\ WriteWB(reg, we, data, pa, byte) \ we = reg \ we
         /\ reg \subseteq we => WriteWB(reg, we, data, pa, byte) \subseteq we
<1> DEFINE bits == IF ~byte THEN data
                   ELSE IF pa % 2 = 1 THEN Shifted(data) \cup (reg \cap Low)
                   ELSE (data \cap Low) \cup (reg \ Low)
<1>1. WriteWB(reg, we, data, pa, byte) = (reg \ we) \cup (bits \cap we)
  BY DEF WriteWB
<1> HIDE DEF bits
<1>2. QED
  BY <1>1

LEMMA ContentsIsAFile == ASSUME NEW file \in Contents PROVE Loaded(file) = file
<1>1. 0 \in DOMAIN file /\ 0 \notin DOMAIN <<>>
  BY DEF Contents
<1>2. file # <<>>
  BY <1>1
<1>3. QED
  BY <1>2 DEF Loaded

LEMMA BusStep == BusInv /\ [BusNext]_busVars => BusInv'
<1> SUFFICES ASSUME BusInv, [BusNext]_busVars PROVE BusInv'
  OBVIOUS
<1>1. ASSUME NEW pa \in Address, NEW data \in Value, NEW byte \in BOOLEAN, Write(pa, data, byte)
      PROVE  BusInv'
  <2>1. data \in SUBSET (0 .. 15) /\ pa \in Nat
    BY AddressAssumption, ValueAssumption
  <2>2. battery' \in Contents /\ meant' = battery'
    <3>1. CASE InBattery(pa)
      <4> DEFINE w == BatteryWord(pa)
                 new == IF byte /\ pa % 2 = 1 THEN battery[w]
                        ELSE (battery[w] \ Low) \cup (data \cap Low)
      <4>1. w \in 0 .. 49
        BY <2>1, <3>1, BatteryWordInRange
      <4>2. battery' = [battery EXCEPT ![w] = WriteWB(battery[w], BatteryBits, data, pa, byte)]
        BY <1>1, <3>1 DEF Write
      <4>3. WriteWB(battery[w], BatteryBits, data, pa, byte) = new
        BY <2>1, BatteryBitsWritten
      <4>4. meant' = [meant EXCEPT ![w] = IF byte /\ pa % 2 = 1 THEN meant[w]
                                          ELSE (meant[w] \ Low) \cup (data \cap Low)]
        BY <1>1, <3>1 DEF Write
      <4>5. new \in SUBSET (0 .. 15)
        BY <2>1, <4>1 DEF BusInv, Contents
      <4>6. meant' = [battery EXCEPT ![w] = new]
        BY <4>4 DEF BusInv
      <4> HIDE DEF w, new
      <4>7. QED
        BY <4>1, <4>2, <4>3, <4>5, <4>6 DEF BusInv, Contents
    <3>2. CASE ~InBattery(pa)
      BY <1>1, <3>2 DEF Write, BusInv
    <3>3. QED
      BY <3>1, <3>2
  <2>3. csr' \ CsrBits = csr \ CsrBits
    BY <1>1, OnlyWritable DEF Write
  <2>4. led' \subseteq LedBits
    BY <1>1, OnlyWritable DEF Write, BusInv
  <2>5. Loaded(batFile)' = Loaded(batFile)
    BY <1>1 DEF Write, Loaded
  <2>6. QED
    BY <2>2, <2>3, <2>4, <2>5 DEF BusInv
<1>2. CASE ResetOrKilled
  BY <1>2 DEF ResetOrKilled, ResetFrom, BusInv, Loaded
<1>3. CASE SaveAndStart
  <2>1. Loaded(battery) = battery
    BY ContentsIsAFile DEF BusInv
  <2>2. batFile' = battery /\ battery' = battery /\ meant' = meant /\ csr' = CsrInit /\ led' = {}
    BY <1>3, <2>1 DEF SaveAndStart, ResetFrom
  <2>3. Loaded(batFile)' = battery
    BY <2>1, <2>2 DEF Loaded
  <2>4. QED
    BY <2>2, <2>3 DEF BusInv
<1>4. CASE UNCHANGED busVars
  BY <1>4 DEF busVars, BusInv, Loaded
<1>5. QED
  BY <1>1, <1>2, <1>3, <1>4 DEF BusNext

(* For any addresses, words and option modules: the battery-backed memory  *)
(* holds what was stored in it and nothing else, through resets, exits and *)
(* kills, it answers at all its addresses, and the other registers keep    *)
(* the bits that cannot be written.                                        *)
THEOREM BatteryAlwaysKept == BusSpec => []BatteryKept
<1>1. BusInit => BusInv
  <2> SUFFICES ASSUME BusInit PROVE BusInv
    OBVIOUS
  <2>1. Cleared \in Contents
    BY DEF Cleared, Contents
  <2>2. \A v \in Value : [w \in 0 .. 49 |-> v] \in Contents
    BY ValueAssumption DEF Contents
  <2>3. Loaded(batFile) \in Contents
    BY <2>1, <2>2 DEF BusInit, Loaded
  <2>4. QED
    BY <2>3 DEF BusInit, BusInv
<1>2. BusInv => BatteryKept
  <2> SUFFICES ASSUME BusInv PROVE BatteryKept
    OBVIOUS
  <2>1. ASSUME NEW pa \in Address, InBattery(pa) PROVE Answer(pa) = meant[BatteryWord(pa)]
    <3>1. Even(pa) < \o17773700
      BY <2>1, AddressAssumption DEF InBattery, Even
    <3>2. QED
      BY <2>1, <3>1 DEF Answer, BusInv
  <2>2. ASSUME NEW pa \in Address, InBattery(pa) PROVE ~ReadFails(pa) /\ ~WriteFails(pa)
    BY <2>2 DEF ReadFails, WriteFails
  <2>3. QED
    BY <2>1, <2>2 DEF BatteryKept, BusInv
<1>3. QED
  BY <1>1, <1>2, BusStep, PTL DEF BusSpec

-----------------------------------------------------------------------------
(* The communication port.  First what short sequences are.                *)
Kind == {"rcv", "xmit"}

LEMMA AppendOne ==
  ASSUME NEW a \in Kind, NEW b \in Kind
  PROVE  Append(<<a>>, b) = <<a, b>>
<1> DEFINE s == Append(<<a>>, b)
           t == <<a, b>>
<1>1. <<a>> \in Seq(Kind) /\ Len(<<a>>) = 1
  OBVIOUS
<1>2. t \in Seq(Kind) /\ Len(t) = 2 /\ t[1] = a /\ t[2] = b
  OBVIOUS
<1>3. s \in Seq(Kind) /\ Len(s) = 2 /\ s[1] = a /\ s[2] = b
  BY <1>1, AppendProperties
<1> HIDE DEF s, t
<1>4. \A i \in 1 .. Len(s) : s[i] = t[i]
  <2>1. \A i \in 1 .. 2 : i = 1 \/ i = 2
    OBVIOUS
  <2>2. QED
    BY <1>2, <1>3, <2>1
<1>5. s = t
  BY <1>2, <1>3, <1>4, SeqEqual
<1>6. QED
  BY <1>5 DEF s, t

LEMMA AppendTwo ==
  ASSUME NEW a \in Kind, NEW b \in Kind, NEW c \in Kind
  PROVE  Append(<<a, b>>, c) = <<a, b, c>>
<1> DEFINE s == Append(<<a, b>>, c)
           t == <<a, b, c>>
<1>1. <<a, b>> \in Seq(Kind) /\ Len(<<a, b>>) = 2
  OBVIOUS
<1>2. t \in Seq(Kind) /\ Len(t) = 3 /\ t[1] = a /\ t[2] = b /\ t[3] = c
  OBVIOUS
<1>3. s \in Seq(Kind) /\ Len(s) = 3 /\ s[1] = a /\ s[2] = b /\ s[3] = c
  BY <1>1, AppendProperties
<1> HIDE DEF s, t
<1>4. \A i \in 1 .. Len(s) : s[i] = t[i]
  <2>1. \A i \in 1 .. 3 : i = 1 \/ i = 2 \/ i = 3
    OBVIOUS
  <2>2. QED
    BY <1>2, <1>3, <2>1
<1>5. s = t
  BY <1>2, <1>3, <1>4, SeqEqual
<1>6. QED
  BY <1>5 DEF s, t

LEMMA Tuples ==
  ASSUME NEW a \in Kind, NEW b \in Kind, NEW c \in Kind
  PROVE  /\ Append(<<>>, a) = <<a>> /\ Append(<<a>>, b) = <<a, b>>
         /\ Append(<<a, b>>, c) = <<a, b, c>>
         /\ Head(<<a>>) = a /\ Head(<<a, b>>) = a /\ Head(<<a, b, c>>) = a
         /\ Tail(<<a>>) = <<>> /\ Tail(<<a, b>>) = <<b>> /\ Tail(<<a, b, c>>) = <<b, c>>
         /\ Len(<<>>) = 0 /\ Len(<<a>>) = 1 /\ Len(<<a, b>>) = 2 /\ Len(<<a, b, c>>) = 3
<1>1. Append(<<>>, a) = <<a>>
  OBVIOUS
<1>2. Append(<<a>>, b) = <<a, b>> /\ Append(<<a, b>>, c) = <<a, b, c>>
  BY AppendOne, AppendTwo
<1>3. Head(<<a>>) = a /\ Head(<<a, b>>) = a /\ Head(<<a, b, c>>) = a
  OBVIOUS
<1>4. Tail(<<a>>) = <<>>
  OBVIOUS
<1>5. Tail(<<a, b>>) = <<b>>
  OBVIOUS
<1>6. Tail(<<a, b, c>>) = <<b, c>>
  OBVIOUS
<1>7. Len(<<>>) = 0 /\ Len(<<a>>) = 1 /\ Len(<<a, b>>) = 2 /\ Len(<<a, b, c>>) = 3
  OBVIOUS
<1>8. QED
  BY <1>1, <1>2, <1>3, <1>4, <1>5, <1>6, <1>7

LEMMA AppendFacts ==
  ASSUME NEW S, NEW q \in Seq(S), NEW x \in S
  PROVE  /\ Append(q, x) \in Seq(S) /\ Append(q, x) # <<>>
         /\ Len(Append(q, x)) = Len(q) + 1 /\ Len(q) \in Nat
         /\ q # <<>> => Head(Append(q, x)) = Head(q) /\ Tail(Append(q, x)) = Append(Tail(q), x)
<1>1. Len(q) \in Nat
  BY LenProperties
<1>2. QED
  BY <1>1, AppendProperties, HeadTailAppend

LEMMA TailFacts ==
  ASSUME NEW S, NEW q \in Seq(S), q # <<>>
  PROVE  Tail(q) \in Seq(S) /\ Head(q) \in S /\ Len(Tail(q)) = Len(q) - 1 /\ Len(q) \in Nat \ {0}
  BY HeadTailProperties, EmptySeq

(* Counting, one entry at a time.                                          *)
Is(y, x) == IF y = x THEN 1 ELSE 0

LEMMA CountEmpty == ASSUME NEW x PROVE Count(<<>>, x) = 0
<1>1. {i \in DOMAIN <<>> : <<>>[i] = x} = {}
  OBVIOUS
<1>2. QED
  BY <1>1, FS_EmptySet DEF Count

LEMMA CountAppend ==
  ASSUME NEW S, NEW q \in Seq(S), NEW y \in S, NEW x
  PROVE  Count(Append(q, y), x) = Count(q, x) + Is(y, x) /\ Count(q, x) \in Nat
<1> DEFINE at == {i \in DOMAIN q : q[i] = x}
           n == Len(q) + 1
           r == Append(q, y)
<1>1. n \in Nat /\ DOMAIN q = 1 .. Len(q) /\ Len(q) \in Nat /\ DOMAIN r = 1 .. n /\ r[n] = y /\ \A i \in DOMAIN q : r[i] = q[i]
  OBVIOUS
<1>2. IsFiniteSet(at)
  <2>1. IsFiniteSet(1 .. Len(q))
    BY <1>1, FS_Interval
  <2>2. QED
    BY <1>1, <2>1, FS_Subset
<1>3. Cardinality(at) \in Nat
  BY <1>2, FS_CardinalityType
<1>4. DOMAIN r = DOMAIN q \cup {n} /\ n \notin DOMAIN q
  BY <1>1
<1>5. CASE y = x
  <2>1. {i \in DOMAIN r : r[i] = x} = at \cup {n} /\ n \notin at
    BY <1>1, <1>4, <1>5
  <2>2. Cardinality(at \cup {n}) = Cardinality(at) + 1
    BY <1>2, <2>1, FS_AddElement
  <2>3. QED
    BY <1>3, <1>5, <2>1, <2>2 DEF Count, Is
<1>6. CASE y # x
  <2>1. {i \in DOMAIN r : r[i] = x} = at
    BY <1>1, <1>4, <1>6
  <2>2. Count(r, x) = Cardinality(at) /\ Count(q, x) = Cardinality(at)
    BY <2>1 DEF Count
  <2>3. Is(y, x) = 0
    BY <1>6 DEF Is
  <2> HIDE DEF at
  <2>4. QED
    BY <1>3, <2>2, <2>3
<1>7. QED
  BY <1>5, <1>6

LEMMA CountOne ==
  ASSUME NEW a \in Kind, NEW x
  PROVE  Count(<<a>>, x) = Is(a, x)
<1>1. <<>> \in Seq(Kind)
  OBVIOUS
<1>2. Append(<<>>, a) = <<a>>
  OBVIOUS
<1>3. Count(Append(<<>>, a), x) = Count(<<>>, x) + Is(a, x)
  BY <1>1, CountAppend
<1>4. Count(<<>>, x) = 0 /\ Is(a, x) \in Nat
  BY CountEmpty DEF Is
<1>5. QED
  BY <1>2, <1>3, <1>4

LEMMA CountTwo ==
  ASSUME NEW a \in Kind, NEW b \in Kind, NEW x
  PROVE  Count(<<a, b>>, x) = Is(a, x) + Is(b, x)
<1>1. <<a>> \in Seq(Kind)
  OBVIOUS
<1>2. Append(<<a>>, b) = <<a, b>>
  BY AppendOne
<1>3. Count(Append(<<a>>, b), x) = Count(<<a>>, x) + Is(b, x)
  BY <1>1, CountAppend
<1>4. Count(<<a>>, x) = Is(a, x) /\ Is(b, x) \in Nat
  BY CountOne DEF Is
<1>5. QED
  BY <1>2, <1>3, <1>4

LEMMA CountThree ==
  ASSUME NEW a \in Kind, NEW b \in Kind, NEW c \in Kind, NEW x
  PROVE  Count(<<a, b, c>>, x) = Is(a, x) + Is(b, x) + Is(c, x)
<1>1. <<a, b>> \in Seq(Kind)
  OBVIOUS
<1>2. Append(<<a, b>>, c) = <<a, b, c>>
  BY AppendTwo
<1>3. Count(Append(<<a, b>>, c), x) = Count(<<a, b>>, x) + Is(c, x)
  BY <1>1, CountAppend
<1>4. Count(<<a, b>>, x) = Is(a, x) + Is(b, x) /\ Is(c, x) \in Nat
  BY CountTwo DEF Is
<1>5. QED
  BY <1>2, <1>3, <1>4

LEMMA CountTail ==
  ASSUME NEW S, NEW q \in Seq(S), q # <<>>, NEW x
  PROVE  Count(q, x) = Count(Tail(q), x) + Is(Head(q), x) /\ Count(Tail(q), x) \in Nat
<1> DEFINE at == {i \in DOMAIN q : q[i] = x}
           after == at \ {1}
           bt == {i \in DOMAIN Tail(q) : Tail(q)[i] = x}
           moveUp == [i \in bt |-> i + 1]
<1>1. Len(q) \in Nat \ {0} /\ DOMAIN q = 1 .. Len(q) /\ Head(q) = q[1]
  <2>1. Len(q) \in Nat \ {0}
    BY TailFacts
  <2>2. DOMAIN q = 1 .. Len(q)
    BY LenProperties
  <2>3. QED
    BY <2>1, <2>2
<1>2. DOMAIN Tail(q) = 1 .. Len(q) - 1 /\ \A i \in 1 .. Len(q) - 1 : Tail(q)[i] = q[i + 1]
  BY <1>1
<1>3. IsFiniteSet(at) /\ IsFiniteSet(bt)
  <2>1. IsFiniteSet(1 .. Len(q)) /\ IsFiniteSet(1 .. Len(q) - 1)
    BY <1>1, FS_Interval
  <2>2. at \subseteq 1 .. Len(q) /\ bt \subseteq 1 .. Len(q) - 1
    BY <1>1, <1>2
  <2>3. QED
    BY <2>1, <2>2, FS_Subset
<1>4. moveUp \in Bijection(bt, after)
  <2>1. moveUp \in [bt -> after]
    BY <1>1, <1>2
  <2>2. \A i, j \in bt : moveUp[i] = moveUp[j] => i = j
    BY <1>1, <1>2
  <2>3. \A j \in after : \E i \in bt : moveUp[i] = j
    <3>1. ASSUME NEW j \in after PROVE \E i \in bt : moveUp[i] = j
      <4>1. j \in 2 .. Len(q) /\ q[j] = x
        BY <1>1, <3>1
      <4>2. j - 1 \in 1 .. Len(q) - 1 /\ j = (j - 1) + 1
        BY <1>1, <4>1
      <4>3. j - 1 \in bt
        BY <1>2, <4>1, <4>2
      <4>4. moveUp[j - 1] = j
        BY <4>2, <4>3
      <4>5. QED
        BY <4>3, <4>4
    <3>2. QED
      BY <3>1
  <2> HIDE DEF moveUp, bt, after
  <2>4. QED
    BY <2>1, <2>2, <2>3 DEF Bijection, Injection, IsInjective, Surjection
<1>5. Cardinality(after) = Cardinality(bt) /\ IsFiniteSet(after) /\ Cardinality(bt) \in Nat
  <2> HIDE DEF after, bt, moveUp
  <2>1. ExistsBijection(bt, after)
    BY <1>4, Zenon DEF ExistsBijection
  <2>2. Cardinality(after) = Cardinality(bt) /\ IsFiniteSet(after)
    BY <1>3, <2>1, FS_Bijection
  <2>3. Cardinality(bt) \in Nat
    BY <1>3, FS_CardinalityType
  <2>4. QED
    BY <2>2, <2>3
<1>6. CASE Head(q) = x
  <2>1. at = after \cup {1} /\ 1 \notin after
    BY <1>1, <1>6
  <2>2. Cardinality(after \cup {1}) = Cardinality(after) + 1
    BY <1>5, <2>1, FS_AddElement
  <2>3. QED
    BY <1>5, <1>6, <2>1, <2>2 DEF Count, Is
<1>7. CASE Head(q) # x
  <2>1. at = after
    BY <1>1, <1>7
  <2>2. Count(q, x) = Cardinality(bt) /\ Count(Tail(q), x) = Cardinality(bt)
    BY <1>5, <2>1 DEF Count
  <2>3. Is(Head(q), x) = 0
    BY <1>7 DEF Is
  <2> HIDE DEF bt
  <2>4. QED
    BY <1>5, <2>2, <2>3
<1>8. QED
  BY <1>6, <1>7

-----------------------------------------------------------------------------
(* What the queue of interrupts can be: Body is without the entry that has *)
(* been served.  The transmitter is in it at most once, and at most one    *)
(* character has come before it and one after it.                          *)
BodyOf(s, q) == IF s = "served" THEN Tail(q) ELSE q
Body == BodyOf(isr, intq)
NoXmit == {<<>>, <<"rcv">>}
OneXmit == {<<"xmit">>, <<"rcv", "xmit">>, <<"xmit", "rcv">>, <<"rcv", "xmit", "rcv">>}
Shapes == NoXmit \cup OneXmit

(* The characters that belong to it.                                       *)
HeldBy(b) ==
  CASE b \in {<<>>, <<"xmit">>} -> 0
    [] b \in {<<"rcv">>, <<"rcv", "xmit">>, <<"xmit", "rcv">>} -> 1
    [] b = <<"rcv", "xmit", "rcv">> -> 2

(* What is on its way to the program, and what the registers say of it.    *)
Writing ==
  /\ writes \in {0, 1}
  /\ writes = 1 => waiting /\ Body \in NoXmit /\ txen /\ tie /\ (mm => rxen)
  /\ writes = 0 => (waiting <=> Body \in OneXmit)

Requested ==
  /\ isr = "idle" => (comInt <=> intq # <<>>)
  /\ isr # "idle" => intq # <<>> /\ (comInt => Len(intq) > 1)
  /\ isr \in {"rcv", "xmit"} => Head(intq) = isr
  /\ isr # "none"
  /\ intp => intq # <<>>

PortInv ==
  /\ DriverTypeOK
  /\ Body \in Shapes
  /\ Len(dataq) = HeldBy(Body)
  /\ rxca <=> dataq # <<>>
  /\ Writing
  /\ Requested

LEMMA ShapeTypes ==
  /\ NoXmit \cap OneXmit = {}
  /\ \A b \in Shapes : b \in Seq(Kind) /\ Len(b) <= 3 /\ HeldBy(b) \in 0 .. 2
  /\ \A b \in NoXmit : Len(b) <= 1 /\ HeldBy(b) <= 1
<1>1. ASSUME NEW a \in Kind, NEW b \in Kind, NEW c \in Kind
      PROVE  /\ <<a>> # <<>> /\ <<a, b>> # <<>> /\ <<a, b, c>> # <<>>
             /\ <<a>> \in Seq(Kind) /\ <<a, b>> \in Seq(Kind)
             /\ <<a, b, c>> \in Seq(Kind)
  <2>1. <<a>> # <<>> /\ <<a, b>> # <<>> /\ <<a, b, c>> # <<>>
    OBVIOUS
  <2>2. <<a>> \in Seq(Kind) /\ <<a, b>> \in Seq(Kind)
    OBVIOUS
  <2>3. <<a, b, c>> \in Seq(Kind)
    OBVIOUS
  <2>4. QED
    BY <2>1, <2>2, <2>3
<1>2. Len(<<>>) = 0 /\ <<>> \in Seq(Kind)
  OBVIOUS
<1>3. "rcv" \in Kind /\ "xmit" \in Kind
  BY DEF Kind
<1>4. NoXmit \cap OneXmit = {}
  BY DEF NoXmit, OneXmit
<1>5. \A b \in Shapes : b \in Seq(Kind)
  BY <1>1, <1>2, <1>3 DEF Shapes, NoXmit, OneXmit
<1>6. \A b \in Shapes : Len(b) <= 3
  <2>1. Len(<<"rcv">>) = 1 /\ Len(<<"xmit">>) = 1 /\ Len(<<"rcv", "xmit">>) = 2
    BY <1>3, Tuples
  <2>2. Len(<<"xmit", "rcv">>) = 2 /\ Len(<<"rcv", "xmit", "rcv">>) = 3
    BY <1>3, Tuples
  <2>3. ASSUME NEW b \in Shapes PROVE Len(b) <= 3
    <3>1. \/ b = <<>> \/ b = <<"rcv">> \/ b = <<"xmit">> \/ b = <<"rcv", "xmit">>
          \/ b = <<"xmit", "rcv">> \/ b = <<"rcv", "xmit", "rcv">>
      BY DEF Shapes, NoXmit, OneXmit
    <3>2. Len(b) \in {0, 1, 2, 3}
      BY <1>2, <2>1, <2>2, <3>1, Zenon
    <3>3. \A n \in {0, 1, 2, 3} : n <= 3
      OBVIOUS
    <3>4. QED
      BY <3>2, <3>3, Zenon
  <2>4. QED
    BY <2>3, Zenon
<1>7. \A b \in Shapes : HeldBy(b) \in 0 .. 2
  BY DEF Shapes, NoXmit, OneXmit, HeldBy
<1>8. \A b \in NoXmit : Len(b) <= 1 /\ HeldBy(b) <= 1
  <2>1. Len(<<"rcv">>) = 1
    BY <1>3, Tuples
  <2>2. ASSUME NEW b \in NoXmit PROVE Len(b) <= 1
    <3>1. CASE b = <<>>
      BY <1>2, <3>1
    <3>2. CASE b = <<"rcv">>
      BY <2>1, <3>2
    <3>3. QED
      BY <3>1, <3>2 DEF NoXmit
  <2>3. \A b \in NoXmit : HeldBy(b) <= 1
    BY DEF NoXmit, HeldBy
  <2>4. QED
    BY <2>2, <2>3
<1>9. QED
  BY <1>4, <1>5, <1>6, <1>7, <1>8

(* A character comes while none waits to be read.                          *)
LEMMA ShapePoll ==
  ASSUME NEW b \in Shapes, HeldBy(b) = 0
  PROVE  LET r == Append(b, "rcv") IN
         r \in Shapes /\ (r \in NoXmit <=> b \in NoXmit) /\ HeldBy(r) = 1
<1>1. "rcv" \in Kind /\ "xmit" \in Kind
  BY DEF Kind
<1>2. Append(<<>>, "rcv") = <<"rcv">> /\ Append(<<"xmit">>, "rcv") = <<"xmit", "rcv">>
  BY <1>1, Tuples
<1>3. b = <<>> \/ b = <<"xmit">>
  BY DEF Shapes, NoXmit, OneXmit, HeldBy
<1>4. CASE b = <<>>
  BY <1>2, <1>4 DEF Shapes, NoXmit, HeldBy
<1>5. CASE b = <<"xmit">>
  BY <1>2, <1>5 DEF Shapes, NoXmit, OneXmit, HeldBy
<1>6. QED
  BY <1>3, <1>4, <1>5

(* A write ends, with or without coming back.                              *)
LEMMA ShapeWrite ==
  ASSUME NEW b \in NoXmit
  PROVE  LET r == Append(b, "xmit")
             s == Append(r, "rcv")
         IN /\ r \in OneXmit /\ HeldBy(r) = HeldBy(b)
            /\ s \in OneXmit /\ HeldBy(s) = HeldBy(b) + 1
<1>1. "rcv" \in Kind /\ "xmit" \in Kind
  BY DEF Kind
<1>2. Append(<<>>, "xmit") = <<"xmit">> /\ Append(<<"xmit">>, "rcv") = <<"xmit", "rcv">>
  BY <1>1, Tuples
<1>3. Append(<<"rcv">>, "xmit") = <<"rcv", "xmit">>
  BY <1>1, AppendOne
<1>4. Append(<<"rcv", "xmit">>, "rcv") = <<"rcv", "xmit", "rcv">>
  BY <1>1, AppendTwo
<1>5. b = <<>> \/ b = <<"rcv">>
  BY DEF NoXmit
<1>6. CASE b = <<>>
  BY <1>2, <1>6 DEF OneXmit, HeldBy
<1>7. CASE b = <<"rcv">>
  <2>1. Append(b, "xmit") = <<"rcv", "xmit">>
    BY <1>3, <1>7
  <2>2. Append(Append(b, "xmit"), "rcv") = <<"rcv", "xmit", "rcv">>
    BY <1>4, <2>1
  <2>3. HeldBy(b) = 1 /\ HeldBy(<<"rcv", "xmit">>) = 1
    BY <1>7 DEF HeldBy
  <2>4. HeldBy(<<"rcv", "xmit", "rcv">>) = 2
    BY DEF HeldBy
  <2>5. HeldBy(Append(b, "xmit")) = 1 /\ HeldBy(Append(Append(b, "xmit"), "rcv")) = 2
    BY <2>1, <2>2, <2>3, <2>4, Zenon
  <2>6. Append(b, "xmit") \in OneXmit /\ Append(Append(b, "xmit"), "rcv") \in OneXmit
    BY <2>1, <2>2, Zenon DEF OneXmit
  <2>7. QED
    BY <2>3, <2>5, <2>6
<1>8. QED
  BY <1>5, <1>6, <1>7

(* The entry at the head has been served.                                  *)
LEMMA ShapeServe ==
  ASSUME NEW b \in Shapes, b # <<>>
  PROVE  /\ Head(b) = "rcv" => /\ Tail(b) \in Shapes /\ HeldBy(Tail(b)) + 1 = HeldBy(b)
                               /\ Tail(b) \in NoXmit <=> b \in NoXmit
         /\ Head(b) = "xmit" => b \in OneXmit /\ Tail(b) \in NoXmit /\ HeldBy(Tail(b)) = HeldBy(b)
<1>1. "rcv" \in Kind /\ "xmit" \in Kind
  BY DEF Kind
<1>2. CASE b = <<"rcv">>
  <2>1. Head(b) = "rcv" /\ Tail(b) = <<>>
    BY <1>1, <1>2, Tuples
  <2>2. QED
    BY <1>2, <2>1 DEF Shapes, NoXmit, OneXmit, HeldBy
<1>3. CASE b = <<"xmit">>
  <2>1. Head(b) = "xmit" /\ Tail(b) = <<>>
    BY <1>1, <1>3, Tuples
  <2>2. QED
    BY <1>3, <2>1 DEF Shapes, NoXmit, OneXmit, HeldBy
<1>4. CASE b = <<"rcv", "xmit">>
  <2>1. Head(b) = "rcv" /\ Tail(b) = <<"xmit">>
    BY <1>1, <1>4, Tuples
  <2>2. QED
    BY <1>4, <2>1 DEF Shapes, NoXmit, OneXmit, HeldBy
<1>5. CASE b = <<"xmit", "rcv">>
  <2>1. Head(b) = "xmit" /\ Tail(b) = <<"rcv">>
    BY <1>1, <1>5, Tuples
  <2>2. QED
    BY <1>5, <2>1 DEF Shapes, NoXmit, OneXmit, HeldBy
<1>6. CASE b = <<"rcv", "xmit", "rcv">>
  <2>1. Head(b) = "rcv" /\ Tail(b) = <<"xmit", "rcv">>
    BY <1>1, <1>6, Tuples
  <2>2. QED
    BY <1>6, <2>1 DEF Shapes, NoXmit, OneXmit, HeldBy
<1>7. QED
  BY <1>2, <1>3, <1>4, <1>5, <1>6 DEF Shapes, NoXmit, OneXmit

-----------------------------------------------------------------------------
(* The queues have room for all this, so their rings never overrun.        *)
LEMMA Room ==
  ASSUME PortInv
  PROVE  /\ intq \in Seq(Kind) /\ Len(intq) \in Nat /\ Len(intq) <= 4
         /\ Body \in NoXmit => Len(intq) <= 2
         /\ Len(dataq) \in Nat /\ Len(dataq) <= 2 /\ dataq \in Seq(Char)
         /\ DataDepth \in Nat /\ DataDepth > 2 /\ IntDepth \in Nat /\ IntDepth > 4
         /\ isr = "served" => intq # <<>>
<1>1. intq \in Seq(Kind) /\ dataq \in Seq(Char)
  BY DEF PortInv, DriverTypeOK, TypeOK, Kind
<1>2. Len(intq) \in Nat /\ Len(dataq) \in Nat
  BY <1>1, LenProperties
<1>3. isr = "served" => intq # <<>>
  BY DEF PortInv, Requested
<1>4. Len(intq) = Len(Body) \/ Len(intq) = Len(Body) + 1
  <2>1. CASE isr = "served"
    <3>1. Len(Tail(intq)) = Len(intq) - 1
      BY <1>1, <1>3, <2>1, TailFacts
    <3>2. Body = Tail(intq)
      BY <2>1 DEF Body, BodyOf
    <3>3. QED
      BY <1>2, <3>1, <3>2
  <2>2. CASE isr # "served"
    BY <2>2 DEF Body, BodyOf
  <2>3. QED
    BY <2>1, <2>2
<1>5. Body \in Shapes /\ Len(Body) \in Nat
  <2>1. Body \in Shapes
    BY DEF PortInv
  <2>2. Body \in Seq(Kind)
    BY <2>1, ShapeTypes
  <2>3. QED
    BY <2>1, <2>2, LenProperties
<1>6. Len(Body) <= 3 /\ (Body \in NoXmit => Len(Body) <= 1)
  BY <1>5, ShapeTypes
<1>7. Len(intq) <= 4 /\ (Body \in NoXmit => Len(intq) <= 2)
  BY <1>2, <1>4, <1>5, <1>6
<1>8. Len(dataq) <= 2
  <2>1. HeldBy(Body) \in 0 .. 2 /\ Len(dataq) = HeldBy(Body)
    BY <1>5, ShapeTypes DEF PortInv
  <2>2. QED
    BY <2>1
<1>9. DataDepth \in Nat /\ DataDepth > 2 /\ IntDepth \in Nat /\ IntDepth > 4
  BY DepthAssumption, RoomAssumption
<1>10. QED
  BY <1>1, <1>2, <1>3, <1>7, <1>8, <1>9

LEMMA QueuedRoom ==
  ASSUME NEW q, NEW x, NEW depth, Len(q) # depth
  PROVE  Queued(q, x, depth) = Append(q, x)
  BY DEF Queued

LEMMA BodyAppend ==
  ASSUME NEW s, NEW q \in Seq(Kind), s = "served" => q # <<>>, NEW x \in Kind
  PROVE  BodyOf(s, Append(q, x)) = Append(BodyOf(s, q), x)
  BY AppendFacts DEF BodyOf

(* An interrupt more to serve.                                             *)
LEMMA RequestMore ==
  ASSUME PortInv, NEW r \in Seq(Kind), intq' = r, Len(r) > Len(intq),
         intq # <<>> => Head(r) = Head(intq),
         comInt' = TRUE, isr' = isr, intp' = intp
  PROVE  Requested'
<1>1. Len(intq) \in Nat /\ Len(r) \in Nat /\ intq \in Seq(Kind)
  BY Room, LenProperties
<1>2. r # <<>> /\ (intq # <<>> => Len(r) > 1)
  BY <1>1, EmptySeq
<1>3. (isr' = "idle" => (comInt' <=> intq' # <<>>)) /\ (intp' => intq' # <<>>)
  BY <1>2
<1>4. isr # "idle" => intq # <<>>
  BY DEF PortInv, Requested
<1>5. isr' # "idle" => intq' # <<>> /\ (comInt' => Len(intq') > 1)
  BY <1>2, <1>4
<1>6. isr' # "none" /\ (isr' \in {"rcv", "xmit"} => Head(intq') = isr')
  BY <1>4 DEF PortInv, Requested
<1>7. QED
  BY <1>3, <1>5, <1>6 DEF Requested

(* What concerns neither the queues nor a write under way.                 *)
LEMMA Aside ==
  ASSUME PortInv, DriverTypeOK',
         UNCHANGED <<dataq, rxca, intq, intp, comInt, isr, waiting, writes>>,
         writes = 1 => txen' /\ tie' /\ (mm' => rxen')
  PROVE  PortInv'
<1>1. Body' = Body
  BY DEF Body, BodyOf
<1>2. Writing'
  BY <1>1 DEF PortInv, Writing
<1>3. Requested'
  BY DEF PortInv, Requested
<1>4. QED
  BY <1>1, <1>2, <1>3 DEF PortInv

LEMMA Enabled ==
  ASSUME PortInv
  PROVE  /\ writes = 1 => waiting /\ txen /\ tie /\ (mm => rxen)
         /\ writes \in {0, 1}
  BY DEF PortInv, Writing

LEMMA TypeKeeps ==
  ASSUME PortInv, NEW c \in Char, Type(c), UNCHANGED driverVars
  PROVE  PortInv'
<1>1. DriverTypeOK
  BY DEF PortInv
<1>2. line' \in Seq(Char) /\ Len(line') <= MaxTyped
  BY <1>1, AppendFacts, BoundAssumption DEF Type, DriverTypeOK, TypeOK
<1>3. DriverTypeOK'
  BY <1>1, <1>2 DEF Type, DriverTypeOK, TypeOK, rcvVars, intVars, xmitVars, ctlVars, driverVars
<1>4. QED
  BY <1>3, Aside, Enabled DEF Type, rcvVars, intVars, xmitVars, ctlVars, driverVars

LEMMA ConfigureKeeps ==
  ASSUME PortInv, SelectRegister \/ SetRegister \/ Configure
  PROVE  PortInv'
<1>1. DriverTypeOK
  BY DEF PortInv
<1>2. CASE SelectRegister
  <2>1. DriverTypeOK'
    BY <1>1, <1>2 DEF SelectRegister, SelectA, DriverTypeOK, TypeOK, Pointer, rcvVars, intVars, xmitVars, driverVars
  <2>2. QED
    BY <1>2, <2>1, Aside, Enabled DEF SelectRegister, SelectA, rcvVars, intVars, xmitVars, driverVars
<1>3. CASE SetRegister
  <2>1. PICK x \in BOOLEAN : (waiting => x) /\ WriteSelectedA(x) /\ UNCHANGED driverVars
    BY <1>3 DEF SetRegister
  <2>2. DriverTypeOK'
    BY <1>1, <2>1 DEF WriteSelectedA, DriverTypeOK, TypeOK, Pointer, rcvVars, intVars, xmitVars, driverVars
  <2>3. writes = 1 => txen' /\ tie' /\ (mm' => rxen')
    BY <2>1, Enabled DEF WriteSelectedA
  <2>4. QED
    BY <2>1, <2>2, <2>3, Aside DEF WriteSelectedA, rcvVars, intVars, xmitVars, driverVars
<1>4. CASE Configure
  <2>1. ASSUME NEW m \in Modem, ~waiting, WriteModemControl(m), UNCHANGED driverVars PROVE PortInv'
    <3>1. m.mm \in BOOLEAN /\ m.dtr \in BOOLEAN
      BY DtrAssumption DEF Modem
    <3>2. DriverTypeOK'
      BY <1>1, <2>1, <3>1 DEF WriteModemControl, DriverTypeOK, TypeOK, rcvVars, intVars, xmitVars, driverVars
    <3>3. QED
      BY <2>1, <3>2, Aside, Enabled DEF WriteModemControl, rcvVars, intVars, xmitVars, driverVars
  <2>2. ASSUME WriteBaud \/ ReadStatusA, UNCHANGED driverVars PROVE PortInv'
    <3>1. DriverTypeOK'
      BY <1>1, <2>2 DEF WriteBaud, ReadStatusA, DriverTypeOK, TypeOK, Pointer, rcvVars, intVars, xmitVars, driverVars
    <3>2. QED
      BY <2>2, <3>1, Aside, Enabled DEF WriteBaud, ReadStatusA, rcvVars, intVars, xmitVars, driverVars
  <2>3. QED
    BY <1>4, <2>1, <2>2 DEF Configure
<1>5. QED
  BY <1>2, <1>3, <1>4

LEMMA PollKeeps ==
  ASSUME PortInv, Poll, UNCHANGED driverVars
  PROVE  /\ PortInv'
         /\ dataq' = Append(dataq, Head(line)) /\ line # <<>> /\ line' = Tail(line)
<1>1. DriverTypeOK /\ Writing /\ Body \in Shapes /\ Len(dataq) = HeldBy(Body)
  BY DEF PortInv
<1>2. dataq = <<>> /\ ~rxca
  BY DEF PortInv, Poll
<1>3. Len(dataq) = 0 /\ HeldBy(Body) = 0
  BY <1>1, <1>2, EmptySeq
<1>4. "rcv" \in Kind
  BY DEF Kind
<1>5. Len(intq) # IntDepth /\ Len(dataq) # DataDepth /\ intq \in Seq(Kind) /\ Len(intq) \in Nat
  BY <1>3, Room
<1>6. intq' = Append(intq, "rcv")
  BY <1>5, QueuedRoom DEF Poll
<1>7. /\ dataq' = Append(dataq, Head(line)) /\ rxca' = TRUE
      /\ line # <<>> /\ line' = Tail(line)
  BY <1>5, QueuedRoom DEF Poll, QueueData
<1>8. line \in Seq(Char) /\ Head(line) \in Char /\ line' \in Seq(Char) /\ Len(line') <= MaxTyped
  <2>1. line \in Seq(Char) /\ Len(line) <= MaxTyped
    BY <1>1 DEF DriverTypeOK, TypeOK
  <2>2. Tail(line) \in Seq(Char) /\ Head(line) \in Char /\ Len(Tail(line)) = Len(line) - 1 /\ Len(line) \in Nat
    BY <1>7, <2>1, TailFacts
  <2>3. QED
    BY <1>7, <2>1, <2>2, BoundAssumption
<1>9. dataq' \in Seq(Char) /\ Len(dataq') = 1 /\ dataq' # <<>>
  <2>1. dataq \in Seq(Char)
    BY Room
  <2>2. dataq' \in Seq(Char) /\ Len(dataq') = Len(dataq) + 1 /\ dataq' # <<>>
    BY <1>7, <1>8, <2>1, AppendFacts
  <2>3. QED
    BY <1>3, <2>2
<1>10. intq' \in Seq(Kind) /\ Len(intq') = Len(intq) + 1 /\ Len(intq') <= IntDepth
  <2>1. intq' \in Seq(Kind) /\ Len(intq') = Len(intq) + 1
    BY <1>4, <1>5, <1>6, AppendFacts
  <2>2. QED
    BY <2>1, Room
<1>11. intq # <<>> => Head(intq') = Head(intq)
  BY <1>4, <1>5, <1>6, AppendFacts
<1>12. isr' = isr /\ waiting' = waiting /\ writes' = writes /\ comInt' = TRUE /\ intp' = intp
  BY DEF Poll, driverVars, xmitVars
<1>13. Body' = Append(Body, "rcv")
  <2>1. isr = "served" => intq # <<>>
    BY Room
  <2>2. BodyOf(isr, Append(intq, "rcv")) = Append(BodyOf(isr, intq), "rcv")
    BY <1>4, <1>5, <2>1, BodyAppend
  <2>3. QED
    BY <1>6, <1>12, <2>2 DEF Body
<1>14. Body' \in Shapes /\ (Body' \in NoXmit <=> Body \in NoXmit) /\ HeldBy(Body') = 1
  BY <1>1, <1>3, <1>13, ShapePoll
<1>15. Requested'
  BY <1>5, <1>10, <1>11, <1>12, RequestMore
<1>16. Writing'
  <2>1. Body' \in OneXmit <=> Body \in OneXmit
    BY <1>1, <1>14, ShapeTypes DEF Shapes
  <2>2. UNCHANGED <<txen, tie, mm, rxen>>
    BY DEF Poll, ctlVars
  <2>3. QED
    BY <1>1, <1>12, <1>14, <2>1, <2>2 DEF Writing
<1>17. DriverTypeOK'
  <2>1. Len(dataq') <= DataDepth
    BY <1>9, Room
  <2>2. QED
    BY <1>1, <1>7, <1>8, <1>9, <1>10, <2>1
    DEF Poll, DriverTypeOK, TypeOK, Kind, driverVars, xmitVars, ctlVars
<1>18. PortInv'
  BY <1>7, <1>9, <1>14, <1>15, <1>16, <1>17 DEF PortInv
<1>19. QED
  BY <1>7, <1>18

(* A write ends: its interrupt, and in maintenance mode the character with *)
(* an interrupt of its own.                                                *)
Returned(q, r) == r = IF mm THEN Append(q, wdata) ELSE q

LEMMA WriteDoneKeeps ==
  ASSUME PortInv, CharacterLeaves
  PROVE  PortInv' /\ writes = 1 /\ writes' = 0 /\ Returned(dataq, dataq')
<1>1. DriverTypeOK /\ Writing /\ Body \in Shapes /\ Len(dataq) = HeldBy(Body)
  BY DEF PortInv
<1>2. writes = 1 /\ writes' = 0
  BY <1>1 DEF Writing, CharacterLeaves, WriteDone
<1>3. waiting /\ Body \in NoXmit /\ txen /\ tie /\ (mm => rxen)
  BY <1>1, <1>2 DEF Writing
<1>4. "rcv" \in Kind /\ "xmit" \in Kind
  BY DEF Kind
<1>5. intq \in Seq(Kind) /\ Len(intq) \in Nat /\ Len(intq) <= 2 /\ dataq \in Seq(Char) /\ Len(dataq) <= 1
  <2>1. Len(dataq) <= 1
    BY <1>1, <1>3, ShapeTypes
  <2>2. QED
    BY <1>3, <2>1, Room
<1> DEFINE one == Append(intq, "xmit")
           two == Append(one, "rcv")
<1>6. one \in Seq(Kind) /\ Len(one) = Len(intq) + 1 /\ (intq # <<>> => Head(one) = Head(intq)) /\ one # <<>>
  BY <1>4, <1>5, AppendFacts
<1>7. two \in Seq(Kind) /\ Len(two) = Len(intq) + 2 /\ Head(two) = Head(one)
  <2> HIDE DEF one
  <2>1. two \in Seq(Kind) /\ Len(two) = Len(one) + 1 /\ Head(two) = Head(one)
    BY <1>4, <1>6, AppendFacts
  <2>2. QED
    BY <1>5, <1>6, <2>1
<1>8. isr' = isr /\ waiting' = waiting /\ comInt' = TRUE /\ intp' = intp
  BY <1>3 DEF CharacterLeaves, WriteDone
<1>9. Queued(intq, "xmit", IntDepth) = one
  BY <1>5, Room, QueuedRoom
<1>10. isr = "served" => intq # <<>>
  BY Room
<1>11. BodyOf(isr, one) = Append(Body, "xmit")
  BY <1>4, <1>5, <1>10, BodyAppend DEF Body
<1>12. BodyOf(isr, two) = Append(Append(Body, "xmit"), "rcv")
  <2> HIDE DEF one
  <2>1. BodyOf(isr, two) = Append(BodyOf(isr, one), "rcv")
    BY <1>4, <1>6, BodyAppend
  <2>2. QED
    BY <1>11, <2>1
<1> HIDE DEF one, two
<1>13. ASSUME Body' \in OneXmit PROVE Writing'
  BY <1>2, <1>3, <1>8, <1>13 DEF Writing
<1>14. ASSUME intq' \in Seq(Kind), Len(intq') <= IntDepth, dataq' \in Seq(Char), Len(dataq') <= DataDepth, rxca' \in BOOLEAN
       PROVE  DriverTypeOK'
  <2>1. writes' \in 0 .. MaxWrites
    BY <1>2, BoundAssumption
  <2>2. left' \in Char
    BY <1>1 DEF CharacterLeaves, DriverTypeOK, TypeOK
  <2>3. tbmt' \in BOOLEAN /\ allSent' \in BOOLEAN /\ UNCHANGED <<wdata, ctlVars, line, isr, got>>
    BY DEF CharacterLeaves, WriteDone
  <2>4. QED
    BY <1>1, <1>8, <1>14, <2>1, <2>2, <2>3 DEF DriverTypeOK, TypeOK, Kind, ctlVars
<1>15. CASE mm
  <2>1. Len(one) # IntDepth /\ Len(dataq) # DataDepth
    BY <1>5, <1>6, Room
  <2>2. intq' = Queued(one, "rcv", IntDepth) /\ dataq' = Queued(dataq, wdata, DataDepth) /\ rxca' = TRUE
    BY <1>3, <1>9, <1>15 DEF CharacterLeaves, WriteDone, QueueData
  <2>3. intq' = two
    BY <2>1, <2>2, QueuedRoom DEF two
  <2>4. dataq' = Append(dataq, wdata)
    BY <2>1, <2>2, QueuedRoom
  <2>5. wdata \in Char
    BY <1>1 DEF DriverTypeOK, TypeOK
  <2>6. dataq' \in Seq(Char) /\ Len(dataq') = Len(dataq) + 1 /\ dataq' # <<>> /\ Len(dataq) \in Nat
    BY <1>5, <2>4, <2>5, AppendFacts
  <2>7. Body' \in OneXmit /\ HeldBy(Body') = HeldBy(Body) + 1
    <3>1. Body' = Append(Append(Body, "xmit"), "rcv")
      BY <1>8, <1>12, <2>3 DEF Body
    <3>2. QED
      BY <1>3, <3>1, ShapeWrite
  <2>8. Requested'
    <3>1. Len(two) > Len(intq)
      BY <1>5, <1>7
    <3>2. QED
      BY <1>6, <1>7, <1>8, <2>3, <3>1, RequestMore
  <2>9. DriverTypeOK'
    <3>1. Len(intq') <= IntDepth /\ intq' \in Seq(Kind)
      BY <1>5, <1>7, <2>3, Room
    <3>2. Len(dataq') <= DataDepth
      BY <1>5, <2>6, Room
    <3>3. QED
      BY <1>14, <2>2, <2>6, <3>1, <3>2
  <2>10. Len(dataq') = HeldBy(Body')
    BY <1>1, <2>6, <2>7
  <2>11. PortInv'
    BY <1>13, <2>2, <2>6, <2>7, <2>8, <2>9, <2>10 DEF PortInv, Shapes
  <2>12. QED
    BY <1>2, <1>15, <2>4, <2>11 DEF Returned
<1>16. CASE ~mm
  <2>1. intq' = one /\ dataq' = dataq /\ rxca' = rxca
    BY <1>3, <1>9, <1>16 DEF CharacterLeaves, WriteDone, rcvVars
  <2>2. Body' \in OneXmit /\ HeldBy(Body') = HeldBy(Body)
    <3>1. Body' = Append(Body, "xmit")
      BY <1>8, <1>11, <2>1 DEF Body
    <3>2. QED
      BY <1>3, <3>1, ShapeWrite
  <2>3. Requested'
    <3>1. Len(one) > Len(intq)
      BY <1>5, <1>6
    <3>2. QED
      BY <1>6, <1>8, <2>1, <3>1, RequestMore
  <2>4. DriverTypeOK'
    <3>1. Len(intq') <= IntDepth /\ intq' \in Seq(Kind)
      BY <1>5, <1>6, <2>1, Room
    <3>2. rxca' \in BOOLEAN /\ dataq' \in Seq(Char) /\ Len(dataq') <= DataDepth
      BY <1>1, <2>1 DEF DriverTypeOK, TypeOK
    <3>3. QED
      BY <1>14, <3>1, <3>2
  <2>5. PortInv'
    BY <1>1, <1>13, <2>1, <2>2, <2>3, <2>4 DEF PortInv, Shapes
  <2>6. QED
    BY <1>2, <1>16, <2>1, <2>5 DEF Returned
<1>17. QED
  BY <1>15, <1>16

LEMMA EnterKeeps == ASSUME PortInv, EnterIsr PROVE PortInv'
<1>1. isr = "idle" /\ isr' = "entered" /\ comInt /\ comInt' = FALSE
  BY DEF EnterIsr, TakeRequest
<1>2. UNCHANGED <<dataq, rxca, intq, intp, waiting, writes, txen, tie, mm, rxen>>
  BY DEF EnterIsr, TakeRequest, rcvVars, xmitVars, ctlVars
<1>3. DriverTypeOK'
  <2>1. DriverTypeOK
    BY DEF PortInv
  <2>2. QED
    BY <1>1, <1>2, <2>1 DEF EnterIsr, TakeRequest, DriverTypeOK, TypeOK, rcvVars, xmitVars, ctlVars
<1>4. Body' = Body
  BY <1>1, <1>2 DEF Body, BodyOf
<1>5. Requested'
  BY <1>1, <1>2 DEF PortInv, Requested
<1>6. Writing'
  BY <1>2, <1>4 DEF PortInv, Writing
<1>7. QED
  BY <1>2, <1>3, <1>4, <1>5, <1>6 DEF PortInv

LEMMA AskKeeps == ASSUME PortInv, AskPort PROVE PortInv'
<1>1. DriverTypeOK /\ Requested
  BY DEF PortInv
<1>2. CASE ptrB = 0 /\ WriteB(2) /\ UNCHANGED isr
  <2>1. DriverTypeOK'
    BY <1>1, <1>2 DEF AskPort, WriteB, DriverTypeOK, TypeOK, Pointer, rcvVars, intVars, xmitVars
  <2>2. QED
    BY <1>2, <2>1, Aside, Enabled DEF AskPort, WriteB, rcvVars, intVars, xmitVars
<1>3. CASE ptrB = 2 /\ ReadInterrupt /\ isr' = IF intq = <<>> THEN "none" ELSE Head(intq)
  <2>1. isr = "entered" /\ intq # <<>>
    BY <1>1 DEF AskPort, Requested
  <2>2. intq \in Seq(Kind) /\ Head(intq) \in Kind
    BY <2>1, Room, TailFacts
  <2>3. isr' = Head(intq) /\ isr' \in {"rcv", "xmit"}
    BY <1>3, <2>1, <2>2 DEF Kind
  <2>4. UNCHANGED <<dataq, rxca, intq, comInt, waiting, writes, txen, tie, mm, rxen>> /\ intp' = TRUE
    BY <1>3, <2>1 DEF AskPort, ReadInterrupt, rcvVars, xmitVars
  <2>5. DriverTypeOK'
    BY <1>1, <1>3, <2>3, <2>4 DEF AskPort, ReadInterrupt, DriverTypeOK, TypeOK, Pointer, rcvVars, xmitVars
  <2>6. Body' = Body
    BY <2>1, <2>3, <2>4 DEF Body, BodyOf
  <2>7. Requested'
    BY <1>1, <2>1, <2>3, <2>4 DEF Requested
  <2>8. Writing'
    BY <2>4, <2>6 DEF PortInv, Writing
  <2>9. QED
    BY <2>4, <2>5, <2>6, <2>7, <2>8 DEF PortInv
<1>4. QED
  BY <1>2, <1>3 DEF AskPort

LEMMA ServeReceiverKeeps ==
  ASSUME PortInv, ServeReceiver
  PROVE  PortInv' /\ dataq # <<>> /\ dataq' = Tail(dataq) /\ got' = Head(dataq)
<1>1. DriverTypeOK /\ Requested /\ Writing /\ Body \in Shapes /\ Len(dataq) = HeldBy(Body)
  BY DEF PortInv
<1>2. isr = "rcv" /\ isr' = "served"
  BY DEF ServeReceiver
<1>3. intq # <<>> /\ Head(intq) = "rcv" /\ Body = intq
  BY <1>1, <1>2 DEF Requested, Body, BodyOf
<1>4. UNCHANGED <<intq, intp, comInt, waiting, writes, txen, tie, mm, rxen>>
  BY DEF ServeReceiver, ReadData, intVars, xmitVars, ctlVars
<1>5. Body' = Tail(intq)
  BY <1>2, <1>4 DEF Body, BodyOf
<1>6. Body' \in Shapes /\ HeldBy(Body') + 1 = HeldBy(Body) /\ (Body' \in NoXmit <=> Body \in NoXmit)
  BY <1>1, <1>3, <1>5, ShapeServe
<1>7. HeldBy(Body) \in 0 .. 2 /\ HeldBy(Body') \in 0 .. 2
  BY <1>1, <1>6, ShapeTypes
<1>8. dataq # <<>>
  BY <1>1, <1>6, <1>7, EmptySeq
<1>9. dataq' = Tail(dataq) /\ got' = Head(dataq) /\ (rxca' <=> rxca /\ dataq' # <<>>)
  BY <1>8 DEF ServeReceiver, ReadData
<1>10. dataq' \in Seq(Char) /\ Len(dataq') = Len(dataq) - 1 /\ got' \in Char /\ Len(dataq) \in Nat \ {0}
  <2>1. dataq \in Seq(Char)
    BY Room
  <2>2. QED
    BY <1>8, <1>9, <2>1, TailFacts
<1>11. Len(dataq') = HeldBy(Body') /\ Len(dataq') <= DataDepth
  BY <1>1, <1>6, <1>7, <1>10, Room
<1>12. rxca' <=> dataq' # <<>>
  BY <1>8, <1>9 DEF PortInv
<1>13. DriverTypeOK'
  BY <1>1, <1>2, <1>9, <1>10, <1>11 DEF ServeReceiver, ReadData, DriverTypeOK, TypeOK, intVars, xmitVars, ctlVars
<1>14. Requested'
  BY <1>1, <1>2, <1>3, <1>4 DEF Requested
<1>15. Writing'
  <2>1. Body' \in OneXmit <=> Body \in OneXmit
    BY <1>1, <1>6, ShapeTypes DEF Shapes
  <2>2. QED
    BY <1>1, <1>4, <1>6, <2>1 DEF Writing
<1>16. PortInv'
  BY <1>6, <1>11, <1>12, <1>13, <1>14, <1>15 DEF PortInv
<1>17. QED
  BY <1>8, <1>9, <1>16

LEMMA ServeTransmitterKeeps == ASSUME PortInv, ServeTransmitter PROVE PortInv'
<1>1. DriverTypeOK /\ Requested /\ Writing /\ Body \in Shapes /\ Len(dataq) = HeldBy(Body)
  BY DEF PortInv
<1>2. isr = "xmit" /\ isr' = "served" /\ waiting' = FALSE
  BY DEF ServeTransmitter
<1>3. intq # <<>> /\ Head(intq) = "xmit" /\ Body = intq
  BY <1>1, <1>2 DEF Requested, Body, BodyOf
<1>4. UNCHANGED <<dataq, rxca, intq, intp, comInt, writes, txen, tie, mm, rxen>>
  BY DEF ServeTransmitter, vars, rcvVars, intVars, xmitVars, ctlVars
<1>5. Body' = Tail(intq)
  BY <1>2, <1>4 DEF Body, BodyOf
<1>6. Body \in OneXmit /\ Body' \in NoXmit /\ HeldBy(Body') = HeldBy(Body)
  BY <1>1, <1>3, <1>5, ShapeServe
<1>7. Body \notin NoXmit /\ Body' \notin OneXmit
  BY <1>6, ShapeTypes
<1>8. writes = 0
  BY <1>1, <1>7 DEF Writing
<1>9. Writing'
  BY <1>2, <1>4, <1>7, <1>8 DEF Writing
<1>10. Requested'
  BY <1>1, <1>2, <1>3, <1>4 DEF Requested
<1>11. DriverTypeOK'
  BY <1>1, <1>2 DEF ServeTransmitter, DriverTypeOK, TypeOK, vars, rcvVars, intVars, xmitVars, ctlVars
<1>12. QED
  BY <1>1, <1>4, <1>6, <1>9, <1>10, <1>11 DEF PortInv, Shapes

LEMMA LeaveKeeps == ASSUME PortInv, LeaveIsr PROVE PortInv'
<1>1. DriverTypeOK /\ Requested /\ Writing /\ Body \in Shapes /\ Len(dataq) = HeldBy(Body)
  BY DEF PortInv
<1>2. isr = "served" /\ isr' = "idle" /\ intq # <<>> /\ (comInt => Len(intq) > 1)
  BY <1>1 DEF LeaveIsr, Requested
<1>3. /\ intq' = Tail(intq)
      /\ IF intq' # <<>> THEN comInt' = TRUE /\ intp' = intp ELSE intp' = FALSE /\ comInt' = comInt
  BY <1>2 DEF LeaveIsr, EndOfInterrupt
<1>4. Body' = Body
  BY <1>2, <1>3 DEF Body, BodyOf
<1>5. intq \in Seq(Kind) /\ intq' \in Seq(Kind) /\ Len(intq') = Len(intq) - 1 /\ Len(intq) \in Nat \ {0}
  <2>1. intq \in Seq(Kind)
    BY Room
  <2>2. QED
    BY <1>2, <1>3, <2>1, TailFacts
<1>6. intq' = <<>> => ~comInt'
  <2>1. ASSUME intq' = <<>> PROVE ~comInt'
    <3>1. Len(intq') = 0
      <4>1. Len(<<>>) = 0
        BY EmptySeq
      <4>2. QED
        BY <2>1, <4>1
    <3>2. ~(Len(intq) > 1)
      <4>1. \A n \in Nat \ {0} : n - 1 = 0 => ~(n > 1)
        OBVIOUS
      <4>2. QED
        BY <1>5, <3>1, <4>1, Zenon
    <3>3. QED
      BY <1>2, <1>3, <2>1, <3>2
  <2>2. QED
    BY <2>1
<1>7. Requested'
  BY <1>2, <1>3, <1>6 DEF Requested
<1>8. UNCHANGED <<dataq, rxca, waiting, writes, txen, tie, mm, rxen>>
  BY DEF LeaveIsr, EndOfInterrupt, rcvVars, xmitVars
<1>9. Writing'
  BY <1>1, <1>4, <1>8 DEF Writing
<1>10. Len(intq') <= IntDepth /\ comInt' \in BOOLEAN /\ intp' \in BOOLEAN
  <2>1. Len(intq') <= IntDepth
    BY <1>5, Room
  <2>2. QED
    BY <1>1, <1>3, <2>1 DEF DriverTypeOK, TypeOK
<1>11. DriverTypeOK'
  BY <1>1, <1>2, <1>5, <1>8, <1>10
  DEF LeaveIsr, EndOfInterrupt, DriverTypeOK, TypeOK, Kind, Pointer, rcvVars, xmitVars
<1>12. QED
  BY <1>1, <1>4, <1>7, <1>8, <1>9, <1>11 DEF PortInv

LEMMA SendKeeps ==
  ASSUME PortInv, NEW c \in Char, SendCharacter(c)
  PROVE  PortInv' /\ writes = 0 /\ writes' = 1 /\ wdata' = c /\ dataq' = dataq
<1>1. DriverTypeOK /\ Requested /\ Writing /\ Body \in Shapes /\ Len(dataq) = HeldBy(Body)
  BY DEF PortInv
<1>2. ~waiting /\ waiting' = TRUE /\ txen /\ tie /\ (mm => rxen) /\ writes < MaxWrites
  BY DEF SendCharacter, WriteData
<1>3. writes = 0 /\ Body \in NoXmit
  BY <1>1, <1>2 DEF Writing, Shapes
<1>4. writes' = 1
  BY <1>3 DEF SendCharacter, WriteData
<1>5. UNCHANGED <<dataq, rxca, intq, intp, comInt, isr, txen, tie, mm, rxen>> /\ wdata' = c
  BY DEF SendCharacter, WriteData, rcvVars, intVars, ctlVars
<1>6. Body' = Body
  BY <1>5 DEF Body, BodyOf
<1>7. Writing'
  BY <1>2, <1>3, <1>4, <1>5, <1>6 DEF Writing
<1>8. Requested'
  BY <1>1, <1>5 DEF Requested
<1>9. writes' \in 0 .. MaxWrites
  BY <1>2, <1>3, <1>4, BoundAssumption
<1>10. DriverTypeOK'
  BY <1>1, <1>2, <1>9 DEF SendCharacter, WriteData, DriverTypeOK, TypeOK, rcvVars, intVars, ctlVars
<1>11. PortInv'
  BY <1>1, <1>5, <1>6, <1>7, <1>8, <1>10 DEF PortInv
<1>12. QED
  BY <1>3, <1>4, <1>5, <1>11

(* A reset leaves nothing to be told.                                      *)
LEMMA FreshPort ==
  /\ DriverInit => PortInv
  /\ DriverTypeOK /\ Restart => PortInv'
<1>1. Len(<<>>) = 0 /\ <<>> \in NoXmit /\ <<>> \notin OneXmit /\ <<>> \in Shapes /\ HeldBy(<<>>) = 0
  <2>1. <<>> \in NoXmit
    BY DEF NoXmit
  <2>2. HeldBy(<<>>) = 0
    BY DEF HeldBy
  <2>3. QED
    BY <2>1, <2>2, ShapeTypes, EmptySeq DEF Shapes
<1>2. <<>> \in Seq(Char) /\ <<>> \in Seq(Kind) /\ 0 \in Char
  BY EmptySeq, CharAssumption
<1>3. 0 <= DataDepth /\ 0 <= IntDepth /\ 0 <= MaxTyped /\ 0 \in 0 .. MaxWrites
  BY DepthAssumption, BoundAssumption
<1>4. ASSUME DriverInit PROVE PortInv
  <2>1. Body = <<>>
    BY <1>4 DEF DriverInit, Init, Body, BodyOf
  <2>2. DriverTypeOK
    BY <1>1, <1>2, <1>3, <1>4 DEF DriverInit, Init, DriverTypeOK, TypeOK, Pointer, Kind
  <2>3. Writing
    BY <1>1, <1>4, <2>1 DEF DriverInit, Init, Writing
  <2>4. Requested
    BY <1>4 DEF DriverInit, Init, Requested
  <2>5. QED
    BY <1>1, <1>4, <2>1, <2>2, <2>3, <2>4 DEF DriverInit, Init, PortInv
<1>5. ASSUME DriverTypeOK, Restart PROVE PortInv'
  <2>1. Body' = <<>>
    BY <1>5 DEF Restart, Reset, Body, BodyOf
  <2>2. DriverTypeOK'
    BY <1>1, <1>2, <1>3, <1>5 DEF Restart, Reset, DriverTypeOK, TypeOK, Pointer, Kind
  <2>3. Writing'
    BY <1>1, <1>5, <2>1 DEF Restart, Reset, Writing
  <2>4. Requested'
    BY <1>5 DEF Restart, Reset, Requested
  <2>5. QED
    BY <1>1, <1>5, <2>1, <2>2, <2>3, <2>4 DEF Restart, Reset, PortInv
<1>6. QED
  BY <1>4, <1>5

LEMMA PortStep == PortInv /\ [DriverNext]_allVars => PortInv'
<1> SUFFICES ASSUME PortInv, [DriverNext]_allVars PROVE PortInv'
  OBVIOUS
<1>1. CASE World
  BY <1>1, TypeKeeps, PollKeeps DEF World
<1>2. CASE CharacterLeaves
  BY <1>2, WriteDoneKeeps
<1>3. CASE InterruptRoutine
  BY <1>3, EnterKeeps, AskKeeps, ServeReceiverKeeps, ServeTransmitterKeeps, LeaveKeeps
  DEF InterruptRoutine
<1>4. CASE \E c \in Char : SendCharacter(c)
  BY <1>4, SendKeeps
<1>5. CASE SelectRegister \/ SetRegister \/ Configure
  BY <1>5, ConfigureKeeps
<1>6. CASE Restart
  BY <1>6, FreshPort DEF PortInv
<1>7. CASE UNCHANGED allVars
  <2>1. DriverTypeOK'
    BY <1>7 DEF PortInv, DriverTypeOK, TypeOK, allVars, vars, rcvVars, intVars, xmitVars, ctlVars, driverVars
  <2>2. QED
    BY <1>7, <2>1, Aside, Enabled DEF allVars, vars, rcvVars, intVars, xmitVars, ctlVars, driverVars
<1>8. QED
  BY <1>1, <1>2, <1>3, <1>4, <1>5, <1>6, <1>7 DEF DriverNext

LEMMA PortInvariant == DriverSpec => []PortInv
<1>1. QED
  BY FreshPort, PortStep, PTL DEF DriverSpec

-----------------------------------------------------------------------------
(* Counting gives what the shapes say.                                     *)
LEMMA ShapeCounts ==
  ASSUME NEW b \in Shapes
  PROVE  /\ Count(b, "rcv") = HeldBy(b)
         /\ Count(b, "xmit") = IF b \in OneXmit THEN 1 ELSE 0
<1>1. "rcv" \in Kind /\ "xmit" \in Kind
  BY DEF Kind
<1>2. Is("rcv", "rcv") = 1 /\ Is("xmit", "rcv") = 0 /\ Is("rcv", "xmit") = 0 /\ Is("xmit", "xmit") = 1
  BY DEF Is
<1>3. CASE b = <<>>
  BY <1>3, CountEmpty DEF HeldBy, OneXmit
<1>4. CASE b = <<"rcv">>
  <2>1. Count(b, "rcv") = Is("rcv", "rcv")
    BY <1>1, <1>4, CountOne, CountTwo, CountThree
  <2>2. Count(b, "xmit") = Is("rcv", "xmit")
    BY <1>1, <1>4, CountOne, CountTwo, CountThree
  <2>3. Count(b, "rcv") = 1 /\ Count(b, "xmit") = 0
    BY <1>2, <2>1, <2>2
  <2>4. QED
    BY <1>4, <2>3 DEF HeldBy, OneXmit
<1>5. CASE b = <<"xmit">>
  <2>1. Count(b, "rcv") = Is("xmit", "rcv")
    BY <1>1, <1>5, CountOne, CountTwo, CountThree
  <2>2. Count(b, "xmit") = Is("xmit", "xmit")
    BY <1>1, <1>5, CountOne, CountTwo, CountThree
  <2>3. Count(b, "rcv") = 0 /\ Count(b, "xmit") = 1
    BY <1>2, <2>1, <2>2
  <2>4. QED
    BY <1>5, <2>3 DEF HeldBy, OneXmit
<1>6. CASE b = <<"rcv", "xmit">>
  <2>1. Count(<<"rcv", "xmit">>, "rcv") = Is("rcv", "rcv") + Is("xmit", "rcv")
    BY <1>1, CountOne, CountTwo, CountThree
  <2>2. Count(<<"rcv", "xmit">>, "xmit") = Is("rcv", "xmit") + Is("xmit", "xmit")
    BY <1>1, CountOne, CountTwo, CountThree
  <2>3. Count(<<"rcv", "xmit">>, "rcv") = 1 /\ Count(<<"rcv", "xmit">>, "xmit") = 1
    BY <1>2, <2>1, <2>2
  <2>4. Count(b, "rcv") = 1 /\ Count(b, "xmit") = 1
    BY <1>6, <2>3, Zenon
  <2>5. QED
    BY <1>6, <2>4 DEF HeldBy, OneXmit
<1>7. CASE b = <<"xmit", "rcv">>
  <2>1. Count(<<"xmit", "rcv">>, "rcv") = Is("xmit", "rcv") + Is("rcv", "rcv")
    BY <1>1, CountOne, CountTwo, CountThree
  <2>2. Count(<<"xmit", "rcv">>, "xmit") = Is("xmit", "xmit") + Is("rcv", "xmit")
    BY <1>1, CountOne, CountTwo, CountThree
  <2>3. Count(<<"xmit", "rcv">>, "rcv") = 1 /\ Count(<<"xmit", "rcv">>, "xmit") = 1
    BY <1>2, <2>1, <2>2
  <2>4. Count(b, "rcv") = 1 /\ Count(b, "xmit") = 1
    BY <1>7, <2>3, Zenon
  <2>5. QED
    BY <1>7, <2>4 DEF HeldBy, OneXmit
<1>8. CASE b = <<"rcv", "xmit", "rcv">>
  <2>1. Count(<<"rcv", "xmit", "rcv">>, "rcv") = Is("rcv", "rcv") + Is("xmit", "rcv") + Is("rcv", "rcv")
    BY <1>1, CountOne, CountTwo, CountThree
  <2>2. Count(<<"rcv", "xmit", "rcv">>, "xmit") = Is("rcv", "xmit") + Is("xmit", "xmit") + Is("rcv", "xmit")
    BY <1>1, CountOne, CountTwo, CountThree
  <2>3. Count(<<"rcv", "xmit", "rcv">>, "rcv") = 2 /\ Count(<<"rcv", "xmit", "rcv">>, "xmit") = 1
    BY <1>2, <2>1, <2>2
  <2>4. Count(b, "rcv") = 2 /\ Count(b, "xmit") = 1
    BY <1>8, <2>3, Zenon
  <2>5. QED
    BY <1>8, <2>4 DEF HeldBy, OneXmit
<1>9. QED
  BY <1>3, <1>4, <1>5, <1>6, <1>7, <1>8 DEF Shapes, NoXmit, OneXmit

(* The entry that is being served has its own place in the count.          *)
LEMMA BodyCounts ==
  ASSUME PortInv
  PROVE  /\ Count(intq, "rcv") = Len(dataq) + One(isr = "served" /\ Head(intq) = "rcv")
         /\ LET n == Count(intq, "xmit")
                m == One(isr = "served" /\ Head(intq) = "xmit")
            IN IF Body \in OneXmit THEN n > m ELSE n = m
<1>1. Body \in Shapes /\ Len(dataq) = HeldBy(Body)
  BY DEF PortInv
<1>2. intq \in Seq(Kind) /\ (isr = "served" => intq # <<>>)
  BY Room
<1>3. Count(Body, "rcv") = Len(dataq) /\ Len(dataq) \in Nat
  BY <1>1, ShapeCounts, Room
<1>4. Count(Body, "xmit") = IF Body \in OneXmit THEN 1 ELSE 0
  BY <1>1, ShapeCounts
<1>5. CASE isr = "served"
  <2>1. Body = Tail(intq)
    BY <1>5 DEF Body, BodyOf
  <2>2. One(isr = "served" /\ Head(intq) = "rcv") = Is(Head(intq), "rcv")
    BY <1>5 DEF One, Is
  <2>3. One(isr = "served" /\ Head(intq) = "xmit") = Is(Head(intq), "xmit")
    BY <1>5 DEF One, Is
  <2>4. Count(intq, "rcv") = Count(Body, "rcv") + Is(Head(intq), "rcv")
    BY <1>2, <1>5, <2>1, CountTail
  <2>5. Count(intq, "xmit") = Count(Body, "xmit") + Is(Head(intq), "xmit")
    BY <1>2, <1>5, <2>1, CountTail
  <2>6. Is(Head(intq), "xmit") \in Nat
    BY DEF Is
  <2>7. IF Body \in OneXmit THEN Count(intq, "xmit") > Is(Head(intq), "xmit")
                             ELSE Count(intq, "xmit") = Is(Head(intq), "xmit")
    BY <1>4, <2>5, <2>6
  <2>8. QED
    BY <1>3, <2>2, <2>3, <2>4, <2>7
<1>6. CASE isr # "served"
  <2>1. Body = intq
    BY <1>6 DEF Body, BodyOf
  <2>2. One(isr = "served" /\ Head(intq) = "rcv") = 0
    BY <1>6 DEF One
  <2>3. One(isr = "served" /\ Head(intq) = "xmit") = 0
    BY <1>6 DEF One
  <2>4. Count(intq, "rcv") = Len(dataq)
    BY <1>3, <2>1
  <2>5. IF Body \in OneXmit THEN Count(intq, "xmit") > 0 ELSE Count(intq, "xmit") = 0
    BY <1>4, <2>1
  <2>6. QED
    BY <1>3, <2>2, <2>3, <2>4, <2>5
<1>7. QED
  BY <1>5, <1>6

LEMMA SignalsOfPort == PortInv => Signalled
<1> SUFFICES ASSUME PortInv PROVE Signalled
  OBVIOUS
<1> DEFINE n == Count(intq, "xmit")
           m == One(isr = "served" /\ Head(intq) = "xmit")
<1>1. DriverTypeOK /\ Requested /\ Writing /\ Body \in Shapes /\ (rxca <=> dataq # <<>>)
  BY DEF PortInv
<1>2. QueuesFit
  BY Room DEF QueuesFit
<1>3. Count(intq, "rcv") = Len(dataq) + One(isr = "served" /\ Head(intq) = "rcv")
  BY BodyCounts
<1>4. m \in {0, 1} /\ IF Body \in OneXmit THEN n > m ELSE n = m
  <2>1. m \in {0, 1}
    BY DEF One
  <2>2. QED
    BY <2>1, BodyCounts
<1> HIDE DEF n, m
<1>5. n > m <=> Body \in OneXmit
  BY <1>4
<1>6. waiting <=> writes > 0 \/ Body \in OneXmit
  <2>1. waiting \in BOOLEAN
    BY <1>1 DEF DriverTypeOK
  <2>2. CASE writes = 1
    BY <1>1, <2>2 DEF Writing
  <2>3. CASE writes = 0
    BY <1>1, <2>3 DEF Writing
  <2>4. QED
    BY <1>1, <2>2, <2>3 DEF Writing
<1>7. waiting <=> writes > 0 \/ n > m
  BY <1>5, <1>6
<1>8. QED
  BY <1>1, <1>2, <1>3, <1>7 DEF Signalled, Requested, n, m

(* Received characters, their interrupts and the request go together, and  *)
(* neither ring overruns, however arrivals, completed writes, reads and    *)
(* ends of interrupts interleave: the routine of ComDriver misses nothing. *)
THEOREM PortSignals == DriverSpec => []Signalled
<1>1. QED
  BY PortInvariant, SignalsOfPort, PTL

-----------------------------------------------------------------------------
(* What the program sees of the port is the line of SerialLine.            *)
LEMMA LineInitial == DriverInit => Channel!LineInit
<1> SUFFICES ASSUME DriverInit PROVE Channel!LineInit
  OBVIOUS
<1>1. line = <<>> /\ dataq = <<>> /\ writes = 0 /\ got = 0 /\ left = 0
  BY DEF DriverInit, Init
<1>2. (IF writes > 0 THEN <<wdata>> ELSE <<>>) = <<>>
  BY <1>1
<1>3. QED
  BY <1>1, <1>2, CharAssumption DEF Channel!LineInit

LEMMA LineStep == PortInv /\ [DriverNext]_allVars => [Channel!LineNext]_(Channel!lineVars)
<1> SUFFICES ASSUME PortInv, [DriverNext]_allVars PROVE [Channel!LineNext]_(Channel!lineVars)
  OBVIOUS
<1> DEFINE held == IF writes > 0 THEN <<wdata>> ELSE <<>>
           then == IF writes' > 0 THEN <<wdata'>> ELSE <<>>
<1>1. ASSUME UNCHANGED <<line, dataq, writes, wdata, got, left>>
      PROVE  UNCHANGED Channel!lineVars
  BY <1>1 DEF Channel!lineVars
<1>2. CASE World
  <2>1. writes' = writes /\ wdata' = wdata /\ got' = got /\ left' = left
    BY <1>2 DEF World, Type, Poll, xmitVars, driverVars
  <2>2. ASSUME NEW c \in Char, Type(c) PROVE Channel!LineNext
    <3>1. line' = Append(line, c) /\ dataq' = dataq
      BY <2>2 DEF Type, rcvVars
    <3>2. Channel!Types(c)
      BY <2>1, <3>1 DEF Channel!Types
    <3>3. QED
      BY <3>2 DEF Channel!LineNext
  <2>3. ASSUME Poll PROVE Channel!LineNext
    <3>1. UNCHANGED driverVars
      BY <1>2 DEF World
    <3>2. dataq' = Append(dataq, Head(line)) /\ line # <<>> /\ line' = Tail(line)
      BY <2>3, <3>1, PollKeeps
    <3>3. Channel!Arrives
      BY <2>1, <3>2 DEF Channel!Arrives
    <3>4. QED
      BY <3>3 DEF Channel!LineNext
  <2>4. QED
    BY <1>2, <2>2, <2>3 DEF World
<1>3. CASE CharacterLeaves
  <2>1. writes = 1 /\ writes' = 0 /\ Returned(dataq, dataq')
    BY <1>3, WriteDoneKeeps
  <2>2. held = <<wdata>> /\ then = <<>> /\ held # <<>> /\ Head(held) = wdata
    BY <2>1
  <2>3. line' = line /\ got' = got /\ left' = IF mm THEN left ELSE wdata
    BY <1>3 DEF CharacterLeaves, WriteDone
  <2>4. CASE mm
    <3>1. Channel!ComesBack
      BY <2>1, <2>2, <2>3, <2>4 DEF Channel!ComesBack, Returned
    <3>2. QED
      BY <3>1 DEF Channel!LineNext
  <2>5. CASE ~mm
    <3>1. Channel!Leaves
      BY <2>1, <2>2, <2>3, <2>5 DEF Channel!Leaves, Returned
    <3>2. QED
      BY <3>1 DEF Channel!LineNext
  <2>6. QED
    BY <2>4, <2>5
<1>4. CASE InterruptRoutine
  <2>1. CASE ServeReceiver
    <3>1. dataq # <<>> /\ dataq' = Tail(dataq) /\ got' = Head(dataq)
      BY <2>1, ServeReceiverKeeps
    <3>2. UNCHANGED <<line, writes, wdata, left>>
      BY <2>1 DEF ServeReceiver, ReadData, xmitVars
    <3>3. Channel!Reads
      BY <3>1, <3>2 DEF Channel!Reads
    <3>4. QED
      BY <3>3 DEF Channel!LineNext
  <2>2. CASE EnterIsr \/ AskPort \/ ServeTransmitter \/ LeaveIsr
    <3>1. CASE EnterIsr
      BY <1>1, <3>1 DEF EnterIsr, TakeRequest, rcvVars, xmitVars
    <3>2. CASE AskPort
      BY <1>1, <3>2 DEF AskPort, WriteB, ReadInterrupt, rcvVars, xmitVars
    <3>3. CASE ServeTransmitter
      BY <1>1, <3>3 DEF ServeTransmitter, vars, rcvVars, xmitVars
    <3>4. CASE LeaveIsr
      BY <1>1, <3>4 DEF LeaveIsr, EndOfInterrupt, rcvVars, xmitVars
    <3>5. QED
      BY <2>2, <3>1, <3>2, <3>3, <3>4
  <2>3. QED
    BY <1>4, <2>1, <2>2 DEF InterruptRoutine
<1>5. CASE \E c \in Char : SendCharacter(c)
  <2>1. PICK c \in Char : SendCharacter(c)
    BY <1>5
  <2>2. writes = 0 /\ writes' = 1 /\ wdata' = c /\ dataq' = dataq
    BY <2>1, SendKeeps
  <2>3. held = <<>> /\ then = <<c>>
    BY <2>2
  <2>4. UNCHANGED <<line, got, left>>
    BY <2>1 DEF SendCharacter, WriteData
  <2>5. Channel!Sends(c)
    BY <2>2, <2>3, <2>4 DEF Channel!Sends
  <2>6. QED
    BY <2>5 DEF Channel!LineNext
<1>6. CASE SelectRegister \/ SetRegister \/ Configure
  <2>1. CASE SelectRegister
    BY <1>1, <2>1 DEF SelectRegister, SelectA, rcvVars, xmitVars, driverVars
  <2>2. CASE SetRegister
    BY <1>1, <2>2 DEF SetRegister, WriteSelectedA, rcvVars, xmitVars, driverVars
  <2>3. CASE Configure
    BY <1>1, <2>3 DEF Configure, WriteModemControl, WriteBaud, ReadStatusA, rcvVars, xmitVars, driverVars
  <2>4. QED
    BY <1>6, <2>1, <2>2, <2>3
<1>7. CASE Restart
  <2>1. dataq' = <<>> /\ writes' = 0 /\ UNCHANGED <<line, got, left>>
    BY <1>7 DEF Restart, Reset
  <2>2. then = <<>>
    BY <2>1
  <2>3. Channel!Forgets
    BY <2>1, <2>2 DEF Channel!Forgets
  <2>4. QED
    BY <2>3 DEF Channel!LineNext
<1>8. CASE UNCHANGED allVars
  BY <1>1, <1>8 DEF allVars, vars, rcvVars, xmitVars, driverVars
<1>9. QED
  BY <1>2, <1>3, <1>4, <1>5, <1>6, <1>7, <1>8 DEF DriverNext

(* Every run of the port with its program is a run of the serial line:     *)
(* characters are read in the order in which they came, once each, and a   *)
(* character that is sent leaves once or comes back once.                  *)
THEOREM PortImplementsLine == DriverSpec => ImplementsLine
<1>1. QED
  BY LineInitial, LineStep, PortInvariant, PTL DEF DriverSpec, ImplementsLine, Channel!LineSpec

-----------------------------------------------------------------------------
(* The host's serial lines.  What the buffer holds was read at once, from  *)
(* one line, and is what the machine has still to get of it; it has been   *)
(* taken out by the time of the next read.                                 *)
AnySpeed == Speed \cup {Slowest}
Setting == {"original", "hangup"} \cup AnySpeed
Counts == [HostLine -> Nat]
From(l, d, n) == [i \in 1 .. n |-> <<l, d[l] + i>>]
Gone(l, d, n) == [d EXCEPT ![l] = @ + n]

SerialTypes ==
  /\ attached \in HostLine \cup {"other"} /\ sfd \in HostLine \cup {"closed"}
  /\ getCnt \in Nat /\ getCnt < RSize /\ moved \in BOOLEAN
  /\ speed \in AnySpeed /\ settings \in [HostLine -> Setting] /\ saved \in Setting
  /\ atHost \in Counts /\ taken \in Counts /\ delivered \in Counts /\ sending \in Counts

BufferOf(l, n) == rbuf = From(l, delivered, n) /\ taken = Gone(l, delivered, n)

Buffered ==
  \/ rbuf = <<>> /\ taken = delivered
  \/ \E l \in HostLine, n \in Nat \ {0} : BufferOf(l, n) /\ n + getCnt < RSize

(* The settings to restore are those of before, and the port remembers     *)
(* that it has a line to close, unless a reset made it forget.             *)
Kept == ~moved \/ Configured \in HostLine

Restorable ==
  Kept =>
    /\ \A l \in HostLine \ {sfd} : settings[l] = "original"
    /\ sfd # "closed" => saved = "original" /\ attached \in HostLine

OpenShown == ~moved => sfd \in {"closed", attached}
SpeedAsked == sfd \in HostLine /\ attached = sfd => settings[sfd] = Asked(speed)
Bounded == \A l \in HostLine : l \in Countable => sending[l] <= WDepth + 1

SerialInv == SerialTypes /\ Buffered /\ Restorable /\ OpenShown /\ SpeedAsked /\ Bounded

LEMMA AskedType == \A v \in AnySpeed : Asked(v) \in Setting
  BY DEF Asked, Setting

(* A character is taken out of the buffer.                                 *)
LEMMA FromFacts ==
  ASSUME NEW l \in HostLine, NEW d \in Counts, NEW n \in Nat
  PROVE  /\ From(l, d, n) \in Seq(HostLine \X Nat) /\ Len(From(l, d, n)) = n
         /\ From(l, d, n) = <<>> <=> n = 0
         /\ \A i \in 1 .. n : From(l, d, n)[i] = <<l, d[l] + i>>
         /\ Gone(l, d, n) \in Counts
         /\ Gone(l, d, 0) = d
<1> DEFINE b == From(l, d, n)
<1>1. d[l] \in Nat
  BY DEF Counts
<1>2. b \in Seq(HostLine \X Nat) /\ Len(b) = n /\ \A i \in 1 .. n : b[i] = <<l, d[l] + i>>
  BY <1>1 DEF From
<1>3. Gone(l, d, n) \in Counts
  BY <1>1 DEF Gone, Counts
<1>4. Gone(l, d, 0) = d
  BY <1>1 DEF Gone, Counts
<1> HIDE DEF b
<1>5. b = <<>> <=> n = 0
  BY <1>2, EmptySeq
<1>6. QED
  BY <1>2, <1>3, <1>4, <1>5 DEF b

LEMMA TakeOne ==
  ASSUME NEW l \in HostLine, NEW d \in Counts, NEW n \in Nat \ {0},
         NEW e, e = [d EXCEPT ![Head(From(l, d, n))[1]] = Head(From(l, d, n))[2]]
  PROVE  /\ e \in Counts /\ e = Gone(l, d, 1)
         /\ Tail(From(l, d, n)) = From(l, e, n - 1)
         /\ Gone(l, d, n) = Gone(l, e, n - 1)
<1> DEFINE b == From(l, d, n)
           m == n - 1
<1>1. d[l] \in Nat /\ m \in Nat
  BY DEF Counts
<1>2. b \in Seq(HostLine \X Nat) /\ Len(b) = n /\ b # <<>> /\ \A i \in 1 .. n : b[i] = <<l, d[l] + i>>
  BY FromFacts
<1>3. Head(b) = <<l, d[l] + 1>>
  <2> HIDE DEF b
  <2>1. Head(b) = b[1]
    BY <1>2
  <2>2. QED
    BY <1>2, <2>1
<1>4. e = [d EXCEPT ![l] = d[l] + 1]
  <2>1. Head(b)[1] = l /\ Head(b)[2] = d[l] + 1
    <3> HIDE DEF b
    <3>1. QED
      BY <1>3
  <2>2. e = [d EXCEPT ![Head(b)[1]] = Head(b)[2]]
    OBVIOUS
  <2> HIDE DEF b
  <2>3. QED
    BY <2>1, <2>2, Zenon
<1>5. e \in Counts /\ e[l] = d[l] + 1 /\ e = Gone(l, d, 1)
  <2>1. ASSUME NEW f, f = [d EXCEPT ![l] = d[l] + 1]
        PROVE  f \in Counts /\ f[l] = d[l] + 1 /\ f = Gone(l, d, 1)
    BY <1>1, <2>1 DEF Counts, Gone
  <2>2. QED
    BY <1>4, <2>1, Zenon
<1>6. Tail(b) = From(l, e, m)
  <2> DEFINE t == Tail(b)
             f == From(l, e, m)
  <2>1. t \in Seq(HostLine \X Nat) /\ Len(t) = m /\ \A i \in 1 .. m : t[i] = b[i + 1]
    <3> HIDE DEF b
    <3>1. QED
      BY <1>2, HeadTailProperties
  <2>2. f \in Seq(HostLine \X Nat) /\ Len(f) = m /\ \A i \in 1 .. m : f[i] = <<l, e[l] + i>>
    BY <1>1, <1>5, FromFacts
  <2>3. \A i \in 1 .. m : b[i + 1] = <<l, e[l] + i>>
    <3> HIDE DEF b
    <3>1. ASSUME NEW i \in 1 .. m PROVE b[i + 1] = <<l, e[l] + i>>
      <4>1. i + 1 \in 1 .. n /\ d[l] + (i + 1) = e[l] + i
        BY <1>1, <1>5
      <4>2. QED
        BY <1>2, <4>1
    <3>2. QED
      BY <3>1
  <2> HIDE DEF t, f, b, m
  <2>4. t = f
    BY <2>1, <2>2, <2>3, SeqEqual
  <2>5. QED
    BY <2>4 DEF t, f
<1>7. Gone(l, d, n) = Gone(l, e, m)
  <2>1. d[l] + n = e[l] + m
    BY <1>1, <1>5
  <2>2. QED
    BY <1>4, <1>5, <2>1 DEF Gone, Counts
<1>8. QED
  BY <1>5, <1>6, <1>7

LEMMA GetKeeps == ASSUME SerialInv, SerialGet PROVE SerialInv'
<1> DEFINE buf(n) == IF n = 0 THEN rbuf ELSE [i \in 1 .. n |-> <<sfd, taken[sfd] + i>>]
<1>1. SerialTypes /\ Buffered
  BY DEF SerialInv
<1>2. UNCHANGED <<attached, sfd, speed, settings, saved, sending, moved>>
  BY DEF SerialGet
<1>3. getCnt' \in Nat /\ getCnt' < RSize /\ getCnt' = IF ReadDue THEN 0 ELSE getCnt + 1
  BY <1>1, BufferAssumption DEF SerialGet, SerialTypes, ReadDue
<1>4. PICK n \in 0 .. RSize :
        /\ IF ReadDue /\ sfd # "closed"
           THEN /\ n <= atHost[sfd]
                /\ atHost' = [atHost EXCEPT ![sfd] = @ - n]
                /\ taken' = [taken EXCEPT ![sfd] = @ + n]
           ELSE n = 0 /\ UNCHANGED <<atHost, taken>>
        /\ IF buf(n) = <<>> THEN rbuf' = buf(n) /\ UNCHANGED delivered
           ELSE /\ rbuf' = Tail(buf(n))
                /\ delivered' = [delivered EXCEPT ![Head(buf(n))[1]] = Head(buf(n))[2]]
  BY DEF SerialGet
<1> HIDE DEF buf
<1>5. n \in Nat /\ n <= RSize /\ RSize \in Nat \ {0} /\ delivered \in Counts /\ taken \in Counts
  BY <1>1, BufferAssumption DEF SerialTypes
<1>6. atHost' \in Counts
  <2>1. CASE ReadDue /\ sfd # "closed"
    <3>1. sfd \in HostLine /\ atHost \in [HostLine -> Nat] /\ atHost[sfd] - n \in Nat
      BY <1>1, <1>4, <1>5, <2>1 DEF SerialTypes, Counts
    <3>2. atHost' = [atHost EXCEPT ![sfd] = atHost[sfd] - n]
      BY <1>4, <2>1
    <3>3. QED
      BY <3>1, <3>2 DEF Counts
  <2>2. CASE ~(ReadDue /\ sfd # "closed")
    BY <1>1, <1>4, <2>2 DEF SerialTypes
  <2>3. QED
    BY <2>1, <2>2
(* Whatever is in the buffer, one character less of it is left.            *)
<1>7. ASSUME NEW l \in HostLine, NEW m \in Nat \ {0}, m <= RSize,
             buf(n) = From(l, delivered, m), taken' = Gone(l, delivered, m),
             m - 1 + getCnt' < RSize
      PROVE  Buffered' /\ delivered' \in Counts /\ taken' \in Counts
  <2>1. buf(n) # <<>> /\ taken' \in Counts
    BY <1>5, <1>7, FromFacts
  <2>2. rbuf' = Tail(From(l, delivered, m))
    BY <1>4, <1>7, <2>1
  <2>3. delivered' = [delivered EXCEPT ![Head(From(l, delivered, m))[1]] = Head(From(l, delivered, m))[2]]
    BY <1>4, <1>7, <2>1
  <2>4. delivered' \in Counts /\ rbuf' = From(l, delivered', m - 1) /\ taken' = Gone(l, delivered', m - 1)
    <3>1. /\ delivered' \in Counts
          /\ Tail(From(l, delivered, m)) = From(l, delivered', m - 1)
          /\ Gone(l, delivered, m) = Gone(l, delivered', m - 1)
      BY <1>5, <2>3, TakeOne, ZenonT(30)
    <3>2. QED
      BY <1>7, <2>2, <3>1
  <2>5. CASE m = 1
    <3>1. rbuf' = <<>> /\ taken' = delivered'
      BY <2>4, <2>5, FromFacts
    <3>2. QED
      BY <2>1, <2>4, <3>1 DEF Buffered
  <2>6. CASE m # 1
    <3>1. m - 1 \in Nat \ {0}
      BY <2>6
    <3>2. QED
      BY <1>7, <2>1, <2>4, <3>1 DEF Buffered, BufferOf
  <2>7. QED
    BY <2>5, <2>6
<1>8. ASSUME buf(n) = <<>>, rbuf = <<>>, taken = delivered, taken' = taken
      PROVE  Buffered' /\ delivered' \in Counts /\ taken' \in Counts
  BY <1>4, <1>5, <1>8 DEF Buffered
<1>9. Buffered' /\ delivered' \in Counts /\ taken' \in Counts
  <2>1. CASE ReadDue
    <3>1. rbuf = <<>> /\ taken = delivered
      <4>1. ASSUME NEW m \in Nat \ {0}, m + getCnt < RSize PROVE FALSE
        BY <1>1, <1>5, <2>1, <4>1 DEF ReadDue, SerialTypes
      <4>2. QED
        BY <1>1, <4>1 DEF Buffered
    <3>2. CASE n = 0
      <4>1. buf(n) = <<>>
        BY <3>1, <3>2 DEF buf
      <4>2. taken' = taken
        <5>1. CASE sfd # "closed"
          <6>1. sfd \in HostLine
            BY <1>1, <5>1 DEF SerialTypes
          <6>2. taken' = Gone(sfd, taken, 0)
            BY <1>4, <2>1, <3>2, <5>1 DEF Gone
          <6>3. QED
            BY <1>5, <6>1, <6>2, FromFacts
        <5>2. QED
          BY <1>4, <5>1
      <4>3. QED
        BY <1>8, <3>1, <4>1, <4>2
    <3>3. CASE n # 0
      <4>1. sfd \in HostLine /\ sfd # "closed"
        BY <1>1, <1>4, <3>3 DEF SerialTypes
      <4>2. buf(n) = From(sfd, delivered, n)
        BY <3>1, <3>3 DEF buf, From
      <4>3. taken' = Gone(sfd, delivered, n)
        BY <1>4, <2>1, <3>1, <4>1 DEF Gone
      <4>4. n \in Nat \ {0} /\ n - 1 + getCnt' < RSize
        BY <1>3, <1>5, <2>1, <3>3
      <4>5. QED
        BY <1>5, <1>7, <4>1, <4>2, <4>3, <4>4
    <3>4. QED
      BY <3>2, <3>3
  <2>2. CASE ~ReadDue
    <3>1. n = 0 /\ taken' = taken /\ buf(n) = rbuf /\ getCnt' = getCnt + 1
      BY <1>3, <1>4, <2>2 DEF buf
    <3>2. CASE rbuf = <<>> /\ taken = delivered
      BY <1>8, <3>1, <3>2
    <3>3. ASSUME NEW l \in HostLine, NEW m \in Nat \ {0}, BufferOf(l, m), m + getCnt < RSize
          PROVE  Buffered' /\ delivered' \in Counts /\ taken' \in Counts
      <4>1. m - 1 + getCnt' < RSize /\ m <= RSize
        BY <1>1, <1>5, <3>1, <3>3 DEF SerialTypes
      <4>2. QED
        BY <1>7, <3>1, <3>3, <4>1 DEF BufferOf
    <3>4. QED
      BY <1>1, <3>2, <3>3 DEF Buffered
  <2>3. QED
    BY <2>1, <2>2
<1>10. SerialTypes'
  BY <1>1, <1>2, <1>3, <1>6, <1>9 DEF SerialTypes
<1>11. QED
  BY <1>2, <1>9, <1>10
  DEF SerialInv, Restorable, Kept, OpenShown, SpeedAsked, Bounded

LEMMA PutKeeps == ASSUME SerialInv, SerialPut PROVE SerialInv'
<1>1. SerialTypes /\ Bounded
  BY DEF SerialInv
<1>2. UNCHANGED <<attached, sfd, rbuf, getCnt, speed, settings, saved, lineIn, moved>>
  BY DEF SerialPut
<1>3. sfd \in HostLine /\ sending \in [HostLine -> Nat] /\ sending' = [sending EXCEPT ![sfd] = sending[sfd] + 1]
  BY <1>1 DEF SerialTypes, SerialPut, Counts
<1>4. sfd \in Countable => sending[sfd] <= WDepth
  BY DEF SerialPut
<1>5. sending' \in Counts
  BY <1>3 DEF Counts
<1>6. ASSUME NEW l \in HostLine, l \in Countable PROVE sending'[l] <= WDepth + 1
  <2>1. CASE l = sfd
    BY <1>3, <1>4, <1>6, <2>1, BufferAssumption
  <2>2. CASE l # sfd
    BY <1>1, <1>3, <1>6, <2>2 DEF Bounded
  <2>3. QED
    BY <2>1, <2>2
<1>7. SerialTypes' /\ Bounded'
  BY <1>1, <1>2, <1>5, <1>6 DEF SerialTypes, Bounded, lineIn
<1>8. QED
  BY <1>2, <1>7
  DEF SerialInv, Buffered, BufferOf, Restorable, Kept, OpenShown, SpeedAsked, lineIn

LEMMA SpeedKeeps == ASSUME SerialInv, NEW v \in Speed, SetSpeed(v) PROVE SerialInv'
<1>1. SerialTypes /\ Restorable
  BY DEF SerialInv
<1>2. UNCHANGED <<attached, sfd, rbuf, getCnt, saved, lineIn, sending, moved>> /\ speed' = v
  BY DEF SetSpeed
<1>3. v \in AnySpeed /\ Asked(v) \in Setting
  BY AskedType DEF AnySpeed
<1>4. CASE attached \in HostLine /\ sfd # "closed"
  <2>1. sfd \in HostLine /\ settings \in [HostLine -> Setting] /\ settings' = [settings EXCEPT ![sfd] = Asked(v)]
    BY <1>1, <1>4 DEF SerialTypes, SetSpeed, CtrlPut
  <2>2. settings' \in [HostLine -> Setting] /\ settings'[sfd] = Asked(v)
    BY <1>3, <2>1
  <2>3. \A l \in HostLine \ {sfd} : settings'[l] = settings[l]
    BY <2>1
  <2>4. SerialTypes' /\ Restorable' /\ SpeedAsked'
    BY <1>1, <1>2, <1>3, <2>2, <2>3 DEF SerialTypes, Restorable, Kept, SpeedAsked, lineIn
  <2>5. QED
    BY <1>2, <2>4 DEF SerialInv, Buffered, BufferOf, OpenShown, Bounded, lineIn
<1>5. CASE ~(attached \in HostLine /\ sfd # "closed")
  <2>1. settings' = settings
    BY <1>5 DEF SetSpeed, CtrlPut
  <2>2. ~(sfd \in HostLine /\ attached = sfd)
    BY <1>5, LineAssumption
  <2>3. SerialTypes' /\ Restorable' /\ SpeedAsked'
    BY <1>1, <1>2, <1>3, <2>1, <2>2 DEF SerialTypes, Restorable, Kept, SpeedAsked, lineIn
  <2>4. QED
    BY <1>2, <2>3 DEF SerialInv, Buffered, BufferOf, OpenShown, Bounded, lineIn
<1>6. QED
  BY <1>4, <1>5

(* The port gets a device: what is open after it, and the settings.        *)
LEMMA OpenFacts ==
  ASSUME NEW to \in HostLine \cup {"other"}, NEW open \in HostLine \cup {"closed"},
         NEW set \in [HostLine -> Setting], NEW v \in AnySpeed,
         saved \in Setting, OpenPort(to, open, set, v)
  PROVE  /\ attached' = to /\ speed' = v
         /\ sfd' = open \/ (open = "closed" /\ sfd' = to /\ to \in HostLine)
         /\ settings' \in [HostLine -> Setting] /\ saved' \in Setting
         /\ saved' = IF sfd' = open THEN saved ELSE set[sfd']
         /\ \A l \in HostLine \ {sfd'} : settings'[l] = set[l]
         /\ SpeedAsked'
<1>1. PICK opened \in IF to \in HostLine /\ open = "closed" THEN {to, "closed"} ELSE {open} :
        /\ sfd' = opened
        /\ saved' = IF opened # open THEN set[opened] ELSE saved
        /\ settings' = IF to \in HostLine THEN CtrlPut(opened, v, set) ELSE set
  BY DEF OpenPort
<1>2. attached' = to /\ speed' = v
  BY DEF OpenPort
<1>3. sfd' = open \/ (open = "closed" /\ sfd' = to /\ to \in HostLine)
  BY <1>1
<1>4. saved' = IF sfd' = open THEN saved ELSE set[sfd']
  BY <1>1
<1>5. saved' \in Setting
  BY <1>3, <1>4
<1>6. Asked(v) \in Setting
  BY AskedType
<1>7. CASE to \in HostLine /\ sfd' # "closed"
  <2>1. sfd' \in HostLine /\ settings' = [set EXCEPT ![sfd'] = Asked(v)]
    BY <1>1, <1>3, <1>7 DEF CtrlPut
  <2>2. settings' \in [HostLine -> Setting] /\ settings'[sfd'] = Asked(v)
    BY <1>6, <2>1
  <2>3. \A l \in HostLine \ {sfd'} : settings'[l] = set[l]
    BY <2>1
  <2>4. QED
    BY <1>2, <1>3, <1>4, <1>5, <2>2, <2>3 DEF SpeedAsked
<1>8. CASE ~(to \in HostLine /\ sfd' # "closed")
  <2>1. settings' = set
    BY <1>1, <1>8 DEF CtrlPut
  <2>2. ~(sfd' \in HostLine /\ attached' = sfd')
    BY <1>2, <1>8, LineAssumption
  <2>3. QED
    BY <1>2, <1>3, <1>4, <1>5, <2>1, <2>2 DEF SpeedAsked
<1>9. QED
  BY <1>7, <1>8

(* pro_serial_exit leaves every line as it was found, if it can.           *)
LEMMA ClosingFacts ==
  ASSUME SerialInv
  PROVE  /\ Closing.open \in HostLine \cup {"closed"} /\ Closing.now \in [HostLine -> Setting]
         /\ Kept => Closing.open = "closed" /\ \A l \in HostLine : Closing.now[l] = "original"
         /\ attached \in HostLine => Closing.open = "closed"
<1>1. SerialTypes /\ Restorable
  BY DEF SerialInv
<1>2. CASE attached \in HostLine /\ sfd # "closed"
  <2>1. Closing.open = "closed" /\ Closing.now = [settings EXCEPT ![sfd] = saved]
    BY <1>2 DEF Closing
  <2>2. sfd \in HostLine /\ settings \in [HostLine -> Setting] /\ saved \in Setting
    BY <1>1, <1>2 DEF SerialTypes
  <2>3. Closing.now \in [HostLine -> Setting] /\ Closing.now[sfd] = saved
        /\ \A l \in HostLine \ {sfd} : Closing.now[l] = settings[l]
    BY <2>1, <2>2
  <2>4. Kept => \A l \in HostLine : Closing.now[l] = "original"
    BY <1>1, <1>2, <2>3 DEF Restorable
  <2>5. QED
    BY <2>1, <2>3, <2>4
<1>3. CASE ~(attached \in HostLine /\ sfd # "closed")
  <2>1. Closing.open = sfd /\ Closing.now = settings
    BY <1>3 DEF Closing
  <2>2. Kept => sfd = "closed" /\ \A l \in HostLine : settings[l] = "original"
    BY <1>1, <1>3, LineAssumption DEF Restorable
  <2>3. QED
    BY <1>1, <1>3, <2>1, <2>2 DEF SerialTypes
<1>4. QED
  BY <1>2, <1>3

LEMMA AssignKeeps ==
  ASSUME SerialInv, NEW to \in HostLine \cup {"other"}, Assign(to)
  PROVE  SerialInv'
<1>1. SerialTypes /\ OpenShown
  BY DEF SerialInv
<1>2. UNCHANGED <<rbuf, getCnt, lineIn, sending, moved>> /\ OpenPort(to, Closing.open, Closing.now, speed)
  BY DEF Assign
<1> DEFINE open == Closing.open
           set == Closing.now
<1>3. /\ open \in HostLine \cup {"closed"} /\ set \in [HostLine -> Setting]
      /\ Kept => open = "closed" /\ \A l \in HostLine : set[l] = "original"
      /\ attached \in HostLine => open = "closed"
  BY ClosingFacts
<1>4. /\ attached' = to /\ speed' = speed
      /\ sfd' = open \/ (open = "closed" /\ sfd' = to /\ to \in HostLine)
      /\ settings' \in [HostLine -> Setting] /\ saved' \in Setting
      /\ saved' = IF sfd' = open THEN saved ELSE set[sfd']
      /\ \A l \in HostLine \ {sfd'} : settings'[l] = set[l]
      /\ SpeedAsked'
  BY <1>1, <1>2, <1>3, OpenFacts DEF SerialTypes
<1> HIDE DEF open, set
<1>5. SerialTypes'
  BY <1>1, <1>2, <1>3, <1>4 DEF SerialTypes, lineIn
<1>6. Restorable'
  BY <1>2, <1>3, <1>4 DEF Restorable, Kept
<1>7. OpenShown'
  BY <1>2, <1>3, <1>4 DEF OpenShown, Kept
<1>8. QED
  BY <1>2, <1>4, <1>5, <1>6, <1>7 DEF SerialInv, Buffered, BufferOf, Bounded, lineIn

LEMMA LeaveAndStartKeeps == ASSUME SerialInv, LeaveAndStart PROVE SerialInv'
<1>1. SerialTypes
  BY DEF SerialInv
<1>2. /\ UNCHANGED <<atHost, taken, sending, moved>> /\ rbuf' = <<>> /\ getCnt' = 0 /\ delivered' = taken
      /\ OpenPort(Configured, "closed", Closing.now, Slowest)
  BY DEF LeaveAndStart
<1> DEFINE set == Closing.now
<1>3. /\ set \in [HostLine -> Setting]
      /\ Kept => \A l \in HostLine : set[l] = "original"
  BY ClosingFacts
<1>4. Configured \in HostLine \cup {"other"} /\ Slowest \in AnySpeed
  BY LineAssumption DEF AnySpeed
<1>5. /\ attached' = Configured /\ speed' = Slowest
      /\ sfd' = "closed" \/ (sfd' = Configured /\ Configured \in HostLine)
      /\ settings' \in [HostLine -> Setting] /\ saved' \in Setting
      /\ saved' = IF sfd' = "closed" THEN saved ELSE set[sfd']
      /\ \A l \in HostLine \ {sfd'} : settings'[l] = set[l]
      /\ SpeedAsked'
  BY <1>1, <1>2, <1>3, <1>4, OpenFacts DEF SerialTypes
<1> HIDE DEF set
<1>6. SerialTypes'
  BY <1>1, <1>2, <1>4, <1>5, BufferAssumption DEF SerialTypes
<1>7. Restorable' /\ OpenShown'
  BY <1>2, <1>3, <1>5 DEF Restorable, Kept, OpenShown
<1>8. Buffered'
  BY <1>2 DEF Buffered
<1>9. QED
  BY <1>2, <1>5, <1>6, <1>7, <1>8 DEF SerialInv, Bounded

LEMMA ConsoleResetKeeps == ASSUME SerialInv, ConsoleReset PROVE SerialInv'
<1>1. SerialTypes /\ Restorable /\ OpenShown
  BY DEF SerialInv
<1>2. /\ UNCHANGED <<rbuf, getCnt, lineIn, sending>>
      /\ moved' = (moved \/ (sfd # "closed" /\ sfd # Configured))
      /\ OpenPort(Configured, sfd, settings, Slowest)
  BY DEF ConsoleReset
<1>3. Configured \in HostLine \cup {"other"} /\ Slowest \in AnySpeed
  BY LineAssumption DEF AnySpeed
<1>4. /\ attached' = Configured /\ speed' = Slowest
      /\ sfd' = sfd \/ (sfd = "closed" /\ sfd' = Configured /\ Configured \in HostLine)
      /\ settings' \in [HostLine -> Setting] /\ saved' \in Setting
      /\ saved' = IF sfd' = sfd THEN saved ELSE settings[sfd']
      /\ \A l \in HostLine \ {sfd'} : settings'[l] = settings[l]
      /\ SpeedAsked'
  BY <1>1, <1>2, <1>3, OpenFacts DEF SerialTypes
<1>5. SerialTypes'
  BY <1>1, <1>2, <1>3, <1>4 DEF SerialTypes, lineIn
<1>6. Restorable'
  BY <1>1, <1>2, <1>4, LineAssumption DEF Restorable, Kept, SerialTypes
<1>7. OpenShown'
  BY <1>2, <1>4 DEF OpenShown
<1>8. QED
  BY <1>2, <1>4, <1>5, <1>6, <1>7 DEF SerialInv, Buffered, BufferOf, Bounded, lineIn

LEMMA OtherEndKeeps ==
  ASSUME SerialInv, NEW l \in HostLine, Comes(l) \/ Goes(l)
  PROVE  SerialInv'
<1>1. SerialTypes
  BY DEF SerialInv
<1>2. CASE Comes(l)
  <2>1. atHost' \in Counts
    BY <1>1, <1>2 DEF SerialTypes, Comes, Counts
  <2>2. UNCHANGED <<attached, sfd, rbuf, getCnt, speed, settings, saved, taken, delivered, sending, moved>>
    BY <1>2 DEF Comes
  <2>3. SerialTypes'
    BY <1>1, <2>1, <2>2 DEF SerialTypes
  <2>4. QED
    BY <2>2, <2>3 DEF SerialInv, Buffered, BufferOf, Restorable, Kept, OpenShown, SpeedAsked, Bounded
<1>3. CASE Goes(l)
  <2>1. sending \in [HostLine -> Nat] /\ sending[l] > 0 /\ sending' = [sending EXCEPT ![l] = sending[l] - 1]
    BY <1>1, <1>3 DEF SerialTypes, Goes, Counts
  <2>2. sending' \in Counts /\ \A k \in HostLine : sending'[k] <= sending[k]
    BY <2>1 DEF Counts
  <2>3. UNCHANGED <<attached, sfd, rbuf, getCnt, speed, settings, saved, lineIn, moved>>
    BY <1>3 DEF Goes
  <2>4. SerialTypes'
    BY <1>1, <2>2, <2>3 DEF SerialTypes, lineIn
  <2>5. Bounded'
    <3>1. ASSUME NEW k \in HostLine, k \in Countable PROVE sending'[k] <= WDepth + 1
      <4>1. sending[k] <= WDepth + 1
        BY <3>1 DEF SerialInv, Bounded
      <4>2. sending[k] \in Nat /\ sending'[k] \in Nat
        BY <2>1, <2>2 DEF Counts
      <4>3. QED
        BY <2>2, <4>1, <4>2, BufferAssumption
    <3>2. QED
      BY <3>1 DEF Bounded
  <2>6. QED
    BY <2>3, <2>4, <2>5 DEF SerialInv, Buffered, BufferOf, Restorable, Kept, OpenShown, SpeedAsked, lineIn
<1>4. QED
  BY <1>2, <1>3

LEMMA SerialAtFirst == SerialInit => SerialInv
<1> SUFFICES ASSUME SerialInit PROVE SerialInv
  OBVIOUS
<1> DEFINE none == [l \in HostLine |-> 0]
           original == [l \in HostLine |-> "original"]
<1>1. none \in Counts /\ original \in [HostLine -> Setting] /\ \A l \in HostLine : original[l] = "original" /\ none[l] = 0
  BY DEF Counts, Setting
<1>2. /\ attached = Configured /\ speed = Slowest /\ settings = CtrlPut(sfd, Slowest, original) /\ saved = "original"
      /\ sfd = "closed" \/ (sfd = Configured /\ Configured \in HostLine)
      /\ rbuf = <<>> /\ getCnt = 0 /\ atHost = none /\ taken = none /\ delivered = none /\ sending = none
      /\ moved = FALSE
  BY DEF SerialInit
<1> HIDE DEF none, original
<1>3. Slowest \in AnySpeed /\ Asked(Slowest) \in Setting /\ "original" \in Setting
  BY AskedType DEF AnySpeed, Setting
<1> DEFINE fresh == getCnt \in Nat /\ getCnt < RSize /\ moved \in BOOLEAN
<1>4. fresh
  <2>1. 0 \in Nat /\ 0 < RSize
    BY BufferAssumption
  <2>2. QED
    BY <1>2, <2>1
<1> HIDE DEF fresh
<1>5. CASE sfd = "closed"
  <2>1. settings = original /\ sfd \notin HostLine
    BY <1>2, <1>5, LineAssumption DEF CtrlPut
  <2>2. SerialTypes
    BY <1>1, <1>2, <1>3, <1>5, <1>4, <2>1, LineAssumption DEF SerialTypes, fresh
  <2>3. Restorable /\ OpenShown /\ SpeedAsked /\ Buffered
    BY <1>1, <1>2, <1>5, <2>1 DEF Restorable, OpenShown, SpeedAsked, Buffered
  <2>4. Bounded
    BY <1>1, <1>2, BufferAssumption DEF Bounded
  <2>5. QED
    BY <2>2, <2>3, <2>4 DEF SerialInv
<1>6. CASE sfd # "closed"
  <2>1. sfd = Configured /\ sfd \in HostLine /\ settings = [original EXCEPT ![sfd] = Asked(Slowest)]
    BY <1>2, <1>6 DEF CtrlPut
  <2>2. settings \in [HostLine -> Setting] /\ settings[sfd] = Asked(Slowest) /\ \A l \in HostLine \ {sfd} : settings[l] = "original"
    BY <1>1, <1>3, <2>1
  <2>3. SerialTypes
    BY <1>1, <1>2, <1>3, <1>4, <2>1, <2>2 DEF SerialTypes, fresh
  <2>4. Restorable /\ OpenShown /\ SpeedAsked /\ Buffered
    BY <1>2, <2>1, <2>2 DEF Restorable, OpenShown, SpeedAsked, Buffered
  <2>5. Bounded
    BY <1>1, <1>2, BufferAssumption DEF Bounded
  <2>6. QED
    BY <2>3, <2>4, <2>5 DEF SerialInv
<1>7. QED
  BY <1>5, <1>6

LEMMA SerialStep == SerialInv /\ [SerialNext]_serialVars => SerialInv'
<1> SUFFICES ASSUME SerialInv, [SerialNext]_serialVars PROVE SerialInv'
  OBVIOUS
<1>1. CASE UNCHANGED serialVars
  BY <1>1
  DEF serialVars, lineIn, SerialInv, SerialTypes, Buffered, BufferOf, Restorable, Kept, OpenShown,
      SpeedAsked, Bounded
<1>2. CASE SerialNext
  BY <1>2, GetKeeps, PutKeeps, SpeedKeeps, AssignKeeps, ConsoleResetKeeps, LeaveAndStartKeeps, OtherEndKeeps
  DEF SerialNext
<1>3. QED
  BY <1>1, <1>2

LEMMA KeptLines == SerialInv => LinesKept
<1> SUFFICES ASSUME SerialInv PROVE LinesKept
  OBVIOUS
<1> DEFINE here(l) == {i \in DOMAIN rbuf : rbuf[i][1] = l}
           upTo(l, i) == {j \in here(l) : j <= i}
<1>1. SerialTypes /\ Buffered /\ Restorable /\ OpenShown /\ SpeedAsked /\ Bounded
  BY DEF SerialInv
<1>2. ASSUME NEW l \in HostLine
      PROVE  /\ delivered[l] + Cardinality(here(l)) = taken[l]
             /\ \A i \in here(l) : rbuf[i][2] = delivered[l] + Cardinality(upTo(l, i))
  <2>1. delivered \in Counts /\ delivered[l] \in Nat
    BY <1>1 DEF SerialTypes, Counts
  <2>2. CASE rbuf = <<>> /\ taken = delivered
    <3>1. here(l) = {}
      BY <2>2
    <3>2. QED
      BY <2>1, <2>2, <3>1, FS_EmptySet
  <2>3. ASSUME NEW k \in HostLine, NEW n \in Nat \ {0}, BufferOf(k, n)
        PROVE  /\ delivered[l] + Cardinality(here(l)) = taken[l]
               /\ \A i \in here(l) : rbuf[i][2] = delivered[l] + Cardinality(upTo(l, i))
    <3>1. DOMAIN rbuf = 1 .. n /\ \A i \in 1 .. n : rbuf[i] = <<k, delivered[k] + i>>
      BY <2>1, <2>3 DEF BufferOf, From
    <3>2. taken[l] = IF l = k THEN delivered[l] + n ELSE delivered[l]
      BY <2>1, <2>3 DEF BufferOf, Gone, Counts
    <3>3. CASE l = k
      <4>1. here(l) = 1 .. n
        BY <3>1, <3>3
      <4>2. Cardinality(1 .. n) = n
        BY FS_Interval
      <4>3. ASSUME NEW i \in 1 .. n PROVE rbuf[i][2] = delivered[l] + Cardinality(upTo(l, i))
        <5>1. upTo(l, i) = 1 .. i
          BY <4>1
        <5>2. Cardinality(1 .. i) = i
          BY FS_Interval
        <5>3. rbuf[i][2] = delivered[l] + i
          BY <3>1, <3>3
        <5> HIDE DEF upTo
        <5>4. QED
          BY <5>1, <5>2, <5>3
      <4> HIDE DEF here, upTo
      <4>4. QED
        BY <3>2, <3>3, <4>1, <4>2, <4>3
    <3>4. CASE l # k
      <4>1. here(l) = {}
        BY <3>1, <3>4
      <4> HIDE DEF here, upTo
      <4>2. QED
        BY <2>1, <3>2, <3>4, <4>1, FS_EmptySet
    <3>5. QED
      BY <3>3, <3>4
  <2> HIDE DEF here, upTo
  <2>4. QED
    BY <1>1, <2>2, <2>3 DEF Buffered
<1>3. QED
  BY <1>1, <1>2 DEF LinesKept, Bounded, SpeedAsked, OpenShown, Restorable, Kept

(* For any lines of the host, chunks and speeds: what comes down a line is *)
(* delivered once and in order, also when the port changes its line in the *)
(* middle of a chunk; the host has never too much to send; and the menu,   *)
(* resets and exits leave each line's settings as LinesKept says.          *)
THEOREM LinesAlwaysKept == SerialSpec => []LinesKept
<1>1. QED
  BY SerialAtFirst, SerialStep, KeptLines, PTL DEF SerialSpec

-----------------------------------------------------------------------------
(* The tablet.  The ring holds at most one echo, as the program waits for  *)
(* it.  Outside of suppressed mode nothing follows it but a report.  In    *)
(* suppressed mode the ring is small when there is news, because the pen   *)
(* is seen to move only when the last report's first character is read.    *)
PadSymbol == Place \cup {"away", "more", "0xff", "echo"}

Echoing(f) == \E i \in 1 .. Len(f) : f[i] = "echo"
EchoAfter(f, p) == \E i \in 1 .. Len(f) : p < i /\ f[i] = "echo"

OneEcho(f) == \A i, j \in 1 .. Len(f) : f[i] = "echo" /\ f[j] = "echo" => i = j

Calm(f) ==
  /\ Len(f) <= 3 * ReportLen + 1
  /\ Echoing(f) \/ Len(f) <= ReportLen
  /\ \A i \in 1 .. Len(f) : f[i] = "echo" => Len(f) <= i + ReportLen

Small(f) == Len(f) <= ReportLen \/ (Echoing(f) /\ Len(f) <= ReportLen + 1)

Recent(f) ==
  /\ Len(f) <= 2 * ReportLen \/ (Echoing(f) /\ Len(f) <= 2 * ReportLen + 1)
  /\ \E p \in 1 .. Len(f) :
       /\ f[p] \in Place \cup {"away"}
       /\ Len(f) < p + ReportLen \/ (EchoAfter(f, p) /\ Len(f) <= p + ReportLen)

PadTypes ==
  /\ pen \in Place /\ near \in BOOLEAN /\ mode \in {"remote", "suppressed", "none"}
  /\ padRing \in Seq(PadSymbol)

News == reported # <<>> /\ ~asked => known = IF reported[2] THEN reported[1] ELSE "away"

PadInv ==
  /\ PadTypes /\ ~overran /\ News /\ OneEcho(padRing)
  /\ mode # "suppressed" => Calm(padRing)
  /\ mode = "suppressed" => Small(padRing) \/ (Where = reported /\ Recent(padRing))

(* A ring that is not filled holds everything that was put into it.        *)
LEMMA HeldAll ==
  ASSUME NEW S, NEW f \in Seq(S), Len(f) < PadDepth
  PROVE  PadHeld(f) = f
<1>1. Len(f) \in Nat /\ PadDepth \in Nat
  BY PadAssumption
<1>2. \A n, k \in Nat : n < k => n \div k = 0
  OBVIOUS
<1>3. Len(f) \div PadDepth = 0
  BY <1>1, <1>2
<1>4. PadDepth * 0 + 1 = 1
  BY <1>1
<1>5. PadHeld(f) = SubSeq(f, 1, Len(f))
  BY <1>3, <1>4 DEF PadHeld
<1>6. QED
  BY <1>5

(* A character is taken out of the ring.                                   *)
LEMMA TakenKeeps ==
  ASSUME NEW f \in Seq(PadSymbol), f # <<>>, OneEcho(f)
  PROVE  /\ Tail(f) \in Seq(PadSymbol) /\ OneEcho(Tail(f))
         /\ Calm(f) => Calm(Tail(f))
         /\ Small(f) => Small(Tail(f))
         /\ Recent(f) => Small(Tail(f)) \/ Recent(Tail(f))
<1> DEFINE g == Tail(f)
<1>1. /\ g \in Seq(PadSymbol) /\ Len(g) \in Nat /\ Len(f) = Len(g) + 1
      /\ \A i \in 1 .. Len(g) : i + 1 \in 1 .. Len(f) /\ g[i] = f[i + 1]
  OBVIOUS
<1> HIDE DEF g
<1>2. \A i \in 1 .. Len(f) : i = 1 \/ (i - 1 \in 1 .. Len(g) /\ g[i - 1] = f[i])
  BY <1>1
<1>r. ReportLen \in Nat /\ ReportLen > 1
  BY PadAssumption
<1>3. OneEcho(g)
  BY <1>1 DEF OneEcho
<1>4. ASSUME Echoing(f) PROVE Echoing(g) \/ f[1] = "echo"
  BY <1>1, <1>2, <1>4 DEF Echoing
<1>5. ASSUME Calm(f) PROVE Calm(g)
  <2>1. Len(g) <= 3 * ReportLen + 1
    BY <1>1, <1>5, <1>r DEF Calm
  <2>2. Echoing(g) \/ Len(g) <= ReportLen
    <3>1. CASE f[1] = "echo"
      <4>1. 1 \in 1 .. Len(f)
        BY <1>1
      <4>2. Len(f) <= 1 + ReportLen
        BY <1>5, <3>1, <4>1 DEF Calm
      <4>3. QED
        BY <1>1, <1>r, <4>2
    <3>2. CASE f[1] # "echo"
      <4>1. Echoing(f) => Echoing(g)
        BY <1>4, <3>2
      <4>2. Echoing(f) \/ Len(f) <= ReportLen
        BY <1>5 DEF Calm
      <4>3. Len(f) <= ReportLen => Len(g) <= ReportLen
        BY <1>1, <1>r
      <4>4. QED
        BY <4>1, <4>2, <4>3
    <3>3. QED
      BY <3>1, <3>2
  <2>3. ASSUME NEW i \in 1 .. Len(g), g[i] = "echo" PROVE Len(g) <= i + ReportLen
    <3>1. Len(f) <= i + 1 + ReportLen
      BY <1>1, <1>5, <2>3 DEF Calm
    <3>2. QED
      BY <1>1, <1>r, <3>1
  <2>4. QED
    BY <2>1, <2>2, <2>3 DEF Calm
<1>6. ASSUME Small(f) PROVE Small(g)
  <2>1. Len(f) <= ReportLen + 1
    BY <1>1, <1>6, <1>r DEF Small
  <2>2. QED
    BY <1>1, <1>r, <2>1 DEF Small
<1>7. ASSUME Recent(f) PROVE Small(g) \/ Recent(g)
  <2>1. PICK p \in 1 .. Len(f) :
          /\ f[p] \in Place \cup {"away"}
          /\ Len(f) < p + ReportLen \/ (EchoAfter(f, p) /\ Len(f) <= p + ReportLen)
    BY <1>7 DEF Recent
  <2>2. Len(f) <= p + ReportLen
    BY <1>1, <1>r, <2>1
  <2>3. CASE p = 1
    <3>1. Len(g) <= ReportLen
      BY <1>1, <1>r, <2>2, <2>3
    <3>2. QED
      BY <3>1 DEF Small
  <2>4. CASE p # 1
    <3>1. p - 1 \in 1 .. Len(g) /\ g[p - 1] = f[p]
      BY <1>2, <2>4
    <3>2. EchoAfter(f, p) => EchoAfter(g, p - 1)
      <4>1. SUFFICES ASSUME NEW i \in 1 .. Len(f), p < i, f[i] = "echo" PROVE EchoAfter(g, p - 1)
        BY DEF EchoAfter
      <4>2. i - 1 \in 1 .. Len(g) /\ g[i - 1] = "echo" /\ p - 1 < i - 1
        BY <1>2, <4>1
      <4>3. QED
        BY <4>2 DEF EchoAfter
    <3>3. Len(g) < (p - 1) + ReportLen \/ (EchoAfter(g, p - 1) /\ Len(g) <= (p - 1) + ReportLen)
      <4>1. CASE Len(f) < p + ReportLen
        BY <1>1, <1>r, <4>1
      <4>2. CASE EchoAfter(f, p) /\ Len(f) <= p + ReportLen
        <5>1. Len(g) <= (p - 1) + ReportLen
          BY <1>1, <1>r, <4>2
        <5>2. QED
          BY <3>2, <4>2, <5>1
      <4>3. QED
        BY <2>1, <4>1, <4>2
    <3>4. Len(g) <= 2 * ReportLen
      <4>1. Len(f) <= 2 * ReportLen + 1
        BY <1>1, <1>r, <1>7 DEF Recent
      <4>2. QED
        BY <1>1, <1>r, <4>1
    <3>5. Recent(g)
      BY <2>1, <3>1, <3>3, <3>4 DEF Recent
    <3>6. QED
      BY <3>5
  <2>5. QED
    BY <2>3, <2>4
<1>8. QED
  BY <1>1, <1>3, <1>5, <1>6, <1>7 DEF g

(* The echo of a command.                                                  *)
LEMMA EchoKeeps ==
  ASSUME NEW f \in Seq(PadSymbol), ~Echoing(f), NEW g, g = f \o <<"echo">>
  PROVE  /\ g \in Seq(PadSymbol) /\ OneEcho(g)
         /\ Len(f) <= 3 * ReportLen => Calm(g)
         /\ Small(f) => Small(g)
         /\ Recent(f) => Recent(g)
<1>1. /\ g \in Seq(PadSymbol) /\ Len(f) \in Nat /\ Len(g) = Len(f) + 1 /\ g[Len(g)] = "echo"
      /\ \A i \in 1 .. Len(f) : i \in 1 .. Len(g) /\ g[i] = f[i] /\ f[i] # "echo"
  BY DEF PadSymbol, Echoing
<1>2. \A i \in 1 .. Len(g) : g[i] = "echo" => i = Len(g)
  BY <1>1
<1>r. ReportLen \in Nat /\ ReportLen > 1
  BY PadAssumption
<1>3. OneEcho(g)
  BY <1>2 DEF OneEcho
<1>4. Len(g) \in 1 .. Len(g) /\ Echoing(g)
  BY <1>1 DEF Echoing
<1>5. Len(f) <= 3 * ReportLen => Calm(g)
  <2>1. \A i \in 1 .. Len(g) : g[i] = "echo" => Len(g) <= i + ReportLen
    BY <1>1, <1>2, <1>r
  <2>2. Len(f) <= 3 * ReportLen => Len(g) <= 3 * ReportLen + 1
    BY <1>1, <1>r
  <2>3. QED
    BY <1>4, <2>1, <2>2 DEF Calm
<1>6. ASSUME Small(f) PROVE Small(g)
  <2>1. Len(f) <= ReportLen
    BY <1>6 DEF Small
  <2>2. Len(g) <= ReportLen + 1
    BY <1>1, <1>r, <2>1
  <2>3. QED
    BY <1>4, <2>2 DEF Small
<1>7. ASSUME Recent(f) PROVE Recent(g)
  <2>1. PICK p \in 1 .. Len(f) : f[p] \in Place \cup {"away"} /\ (Len(f) < p + ReportLen \/ EchoAfter(f, p))
    BY <1>7 DEF Recent
  <2>2. ~EchoAfter(f, p)
    BY <1>1 DEF EchoAfter
  <2>3. Len(f) < p + ReportLen
    BY <2>1, <2>2
  <2>4. p \in 1 .. Len(g) /\ g[p] = f[p] /\ Len(g) <= p + ReportLen
    BY <1>1, <1>r, <2>3
  <2>5. EchoAfter(g, p)
    BY <1>1, <1>4 DEF EchoAfter
  <2>6. Len(f) <= 2 * ReportLen
    BY <1>7 DEF Recent
  <2>7. Len(g) <= 2 * ReportLen + 1
    BY <1>1, <1>r, <2>6
  <2>8. QED
    BY <1>4, <2>1, <2>4, <2>5, <2>7 DEF Recent
<1>8. QED
  BY <1>1, <1>3, <1>5, <1>6, <1>7

(* The answer to a question or to a reset.                                 *)
LEMMA AnswerKeeps ==
  ASSUME NEW f \in Seq(PadSymbol), ~Echoing(f), Len(f) <= 2 * ReportLen,
         NEW s \in Seq(PadSymbol), Len(s) = ReportLen, ~Echoing(s),
         NEW g, g = f \o (<<"echo">> \o s)
  PROVE  g \in Seq(PadSymbol) /\ OneEcho(g) /\ Calm(g)
<1>1. /\ g \in Seq(PadSymbol) /\ Len(f) \in Nat /\ Len(g) = Len(f) + 1 + ReportLen /\ g[Len(f) + 1] = "echo"
      /\ \A i \in 1 .. Len(f) : g[i] = f[i]
      /\ \A i \in Len(f) + 2 .. Len(g) : i - Len(f) - 1 \in 1 .. Len(s) /\ g[i] = s[i - Len(f) - 1]
  <2> DEFINE t == <<"echo">> \o s
  <2>1. t \in Seq(PadSymbol) /\ Len(t) = 1 + ReportLen /\ t[1] = "echo"
    BY PadAssumption DEF PadSymbol
  <2>2. \A i \in 2 .. Len(t) : i - 1 \in 1 .. Len(s) /\ t[i] = s[i - 1]
    BY <2>1, PadAssumption
  <2> HIDE DEF t
  <2>3. /\ g \in Seq(PadSymbol) /\ Len(f) \in Nat /\ Len(g) = Len(f) + Len(t)
        /\ \A i \in 1 .. Len(f) : g[i] = f[i]
        /\ \A i \in Len(f) + 1 .. Len(g) : i - Len(f) \in 1 .. Len(t) /\ g[i] = t[i - Len(f)]
    BY <2>1 DEF t
  <2>4. Len(f) + 1 \in Len(f) + 1 .. Len(g) /\ g[Len(f) + 1] = t[1]
    BY <2>1, <2>3, PadAssumption
  <2>5. ASSUME NEW i \in Len(f) + 2 .. Len(g)
        PROVE  i - Len(f) - 1 \in 1 .. Len(s) /\ g[i] = s[i - Len(f) - 1]
    <3>1. i - Len(f) \in 2 .. Len(t) /\ g[i] = t[i - Len(f)]
      BY <2>1, <2>3, PadAssumption
    <3>2. QED
      BY <2>2, <3>1
  <2>6. QED
    BY <2>1, <2>3, <2>4, <2>5, PadAssumption
<1>r. ReportLen \in Nat /\ ReportLen > 1
  BY PadAssumption
<1>2. \A i \in 1 .. Len(g) : g[i] = "echo" => i = Len(f) + 1
  <2>1. SUFFICES ASSUME NEW i \in 1 .. Len(g), i # Len(f) + 1 PROVE g[i] # "echo"
    OBVIOUS
  <2>2. i \in 1 .. Len(f) \/ i \in Len(f) + 2 .. Len(g)
    BY <1>1, <2>1
  <2>3. QED
    BY <1>1, <2>2 DEF Echoing
<1>3. OneEcho(g)
  BY <1>2 DEF OneEcho
<1>4. Len(f) + 1 \in 1 .. Len(g)
  BY <1>1, <1>r
<1>5. Echoing(g)
  BY <1>1, <1>4 DEF Echoing
<1>6. Len(g) <= 3 * ReportLen + 1
  BY <1>1, <1>r
<1>7. \A i \in 1 .. Len(g) : g[i] = "echo" => Len(g) <= i + ReportLen
  BY <1>1, <1>2, <1>r
<1>8. QED
  BY <1>1, <1>3, <1>5, <1>6, <1>7 DEF Calm

(* A report of news, whose first character is taken at once if the ring    *)
(* was empty.                                                              *)
LEMMA NewsKeeps ==
  ASSUME NEW f \in Seq(PadSymbol), OneEcho(f), Small(f),
         NEW s \in Seq(PadSymbol), Len(s) = ReportLen, ~Echoing(s), s[1] \in Place \cup {"away"},
         NEW g, g = Tail(f \o s)
  PROVE  g \in Seq(PadSymbol) /\ OneEcho(g) /\ (Small(g) \/ Recent(g))
<1>r. ReportLen \in Nat /\ ReportLen > 1
  BY PadAssumption
<1> DEFINE t == f \o s
<1>1. /\ t \in Seq(PadSymbol) /\ Len(f) \in Nat /\ Len(t) = Len(f) + ReportLen
      /\ \A i \in 1 .. Len(f) : t[i] = f[i]
      /\ \A i \in Len(f) + 1 .. Len(t) : i - Len(f) \in 1 .. Len(s) /\ t[i] = s[i - Len(f)]
  <2>1. t \in Seq(PadSymbol) /\ Len(t) = Len(f) + Len(s)
    BY ConcatProperties
  <2>2. \A i \in 1 .. Len(f) : t[i] = f[i]
    OBVIOUS
  <2>3. \A i \in Len(f) + 1 .. Len(f) + Len(s) : i - Len(f) \in 1 .. Len(s) /\ t[i] = s[i - Len(f)]
    OBVIOUS
  <2>4. QED
    BY <2>1, <2>2, <2>3
<1>2. Len(f) <= ReportLen + 1
  BY <1>1, <1>r DEF Small
<1> HIDE DEF t
<1>3. \A i \in 1 .. Len(t) : t[i] = "echo" => i \in 1 .. Len(f) /\ f[i] = "echo"
  <2>1. SUFFICES ASSUME NEW i \in 1 .. Len(t), t[i] = "echo" PROVE i \in 1 .. Len(f) /\ f[i] = "echo"
    OBVIOUS
  <2>2. i \in 1 .. Len(f) \/ i \in Len(f) + 1 .. Len(t)
    BY <1>1
  <2>3. QED
    BY <1>1, <2>1, <2>2 DEF Echoing
<1>4. OneEcho(t)
  BY <1>3 DEF OneEcho
<1>5. t # <<>>
  BY <1>1, <1>r
<1>6. g \in Seq(PadSymbol) /\ OneEcho(g)
  BY <1>1, <1>4, <1>5, TakenKeeps DEF t
<1>7. Len(g) = Len(t) - 1 /\ \A i \in 1 .. Len(g) : g[i] = t[i + 1]
  BY <1>1, <1>5 DEF t
<1>8. CASE Len(f) = 0
  <2>1. Len(g) <= ReportLen
    BY <1>1, <1>7, <1>8, <1>r
  <2>2. QED
    BY <1>6, <2>1 DEF Small
<1>9. CASE Len(f) # 0
  <2>1. Len(f) + 1 \in Len(f) + 1 .. Len(t)
    BY <1>1, <1>r
  <2>2. (Len(f) + 1) - Len(f) = 1
    BY <1>1
  <2>3. t[Len(f) + 1] = s[1]
    BY <1>1, <2>1, <2>2
  <2>4. Len(f) \in 1 .. Len(g) /\ Len(g) < Len(f) + ReportLen /\ Len(g) <= 2 * ReportLen
    BY <1>1, <1>2, <1>7, <1>9, <1>r
  <2>5. g[Len(f)] \in Place \cup {"away"}
    BY <1>7, <2>3, <2>4
  <2>6. Recent(g)
    BY <2>4, <2>5 DEF Recent
  <2>7. QED
    BY <1>6, <2>6
<1>10. QED
  BY <1>8, <1>9

(* The characters of a report and of the answer to a reset.                *)
LEMMA ReportFacts ==
  ASSUME pen \in Place
  PROVE  /\ Report \in Seq(PadSymbol) /\ Len(Report) = ReportLen /\ ~Echoing(Report)
         /\ Report[1] \in Place \cup {"away"} /\ Report[1] = Shown
         /\ ResetAnswer \in Seq(PadSymbol) /\ Len(ResetAnswer) = ReportLen /\ ~Echoing(ResetAnswer)
<1>1. Shown \in Place \cup {"away"} /\ Shown \in PadSymbol /\ Shown # "echo"
  BY PadAssumption DEF Shown, PadSymbol
<1>2. "more" \in PadSymbol /\ "0xff" \in PadSymbol
  BY DEF PadSymbol
<1> HIDE DEF PadSymbol, Shown
<1>3. Report \in Seq(PadSymbol) /\ Len(Report) = ReportLen /\ \A i \in 1 .. ReportLen : Report[i] = IF i = 1 THEN Shown ELSE "more"
  BY <1>1, <1>2, PadAssumption DEF Report
<1>4. ResetAnswer \in Seq(PadSymbol) /\ Len(ResetAnswer) = ReportLen /\ \A i \in 1 .. ReportLen : ResetAnswer[i] = "0xff"
  BY <1>2, PadAssumption DEF ResetAnswer
<1>5. ~Echoing(Report) /\ ~Echoing(ResetAnswer)
  BY <1>1, <1>3, <1>4 DEF Echoing
<1>6. Report[1] = Shown
  BY <1>3, PadAssumption
<1>7. QED
  BY <1>1, <1>3, <1>4, <1>5, <1>6

(* What room is left in each state in which a command may come.            *)
LEMMA PadRoom ==
  ASSUME PadInv
  PROVE  /\ Len(padRing) \in Nat /\ Len(padRing) <= 3 * ReportLen + 1
         /\ ~Echoing(padRing) => Len(padRing) <= 2 * ReportLen
         /\ ~Echoing(padRing) /\ mode # "suppressed" => Len(padRing) <= ReportLen
         /\ mode = "suppressed" /\ Where # reported => Small(padRing)
<1>1. padRing \in Seq(PadSymbol) /\ Len(padRing) \in Nat /\ ReportLen \in Nat /\ ReportLen > 1
  BY PadAssumption DEF PadInv, PadTypes
<1>2. CASE mode # "suppressed"
  <2>1. Calm(padRing)
    BY <1>2 DEF PadInv
  <2>2. QED
    BY <1>1, <1>2, <2>1 DEF Calm
<1>3. CASE mode = "suppressed"
  <2>1. Small(padRing) \/ (Where = reported /\ Recent(padRing))
    BY <1>3 DEF PadInv
  <2>2. Small(padRing) => Len(padRing) <= ReportLen + 1 /\ (~Echoing(padRing) => Len(padRing) <= ReportLen)
    BY <1>1 DEF Small
  <2>3. Recent(padRing) => Len(padRing) <= 2 * ReportLen + 1 /\ (~Echoing(padRing) => Len(padRing) <= 2 * ReportLen)
    BY <1>1 DEF Recent
  <2>4. \/ Len(padRing) <= ReportLen + 1 /\ (~Echoing(padRing) => Len(padRing) <= ReportLen)
        \/ Len(padRing) <= 2 * ReportLen + 1 /\ (~Echoing(padRing) => Len(padRing) <= 2 * ReportLen)
    BY <2>1, <2>2, <2>3
  <2>5. Len(padRing) <= 3 * ReportLen + 1 /\ (~Echoing(padRing) => Len(padRing) <= 2 * ReportLen)
    BY <1>1, <2>4
  <2>6. QED
    BY <1>1, <1>3, <2>1, <2>5
<1>4. QED
  BY <1>2, <1>3

LEMMA PadGetKeeps == PadInv /\ PadGet => PadInv'
<1> SUFFICES ASSUME PadInv, PadGet PROVE PadInv'
  OBVIOUS
<1>1. /\ PadTypes /\ ~overran /\ News /\ OneEcho(padRing) /\ padRing \in Seq(PadSymbol)
      /\ pen \in Place /\ near \in BOOLEAN
  BY DEF PadInv, PadTypes
<1>2. UNCHANGED <<pen, near, mode, asked>>
  BY DEF PadGet
<1>3. Where' = Where
  BY <1>2 DEF Where
<1>4. CASE mode = "suppressed" /\ Where # reported
  <2>1. /\ reported' = Where /\ known' = Shown
        /\ padRing' = IF PadHeld(padRing \o Report) = <<>> THEN PadHeld(padRing \o Report) ELSE Tail(PadHeld(padRing \o Report))
        /\ overran' = (overran \/ Len(padRing) + ReportLen >= PadDepth)
    BY <1>4 DEF PadGet
  <2>2. Small(padRing)
    BY <1>4, PadRoom
  <2>3. Len(padRing) + ReportLen < PadDepth
    BY <1>1, <2>2, PadAssumption DEF Small
  <2>4. /\ padRing \o Report \in Seq(PadSymbol) /\ Len(padRing \o Report) = Len(padRing) + ReportLen
        /\ padRing \o Report # <<>>
    BY <1>1, ReportFacts, PadAssumption
  <2>5. PadHeld(padRing \o Report) = padRing \o Report
    BY <2>3, <2>4, HeldAll
  <2>6. padRing' = Tail(padRing \o Report)
    BY <2>1, <2>4, <2>5
  <2>7. padRing' \in Seq(PadSymbol) /\ OneEcho(padRing') /\ (Small(padRing') \/ Recent(padRing'))
    BY <1>1, <2>2, <2>6, NewsKeeps, ReportFacts
  <2>8. ~overran'
    <3>1. ~(Len(padRing) + ReportLen >= PadDepth)
      BY <1>1, <2>3, PadAssumption
    <3>2. QED
      BY <1>1, <2>1, <3>1, Zenon
  <2>9. News'
    BY <2>1 DEF News, Where, Shown
  <2>10. PadTypes'
    BY <1>1, <1>2, <2>7 DEF PadTypes
  <2>11. QED
    BY <1>2, <1>3, <1>4, <2>1, <2>7, <2>8, <2>9, <2>10 DEF PadInv
<1>5. CASE ~(mode = "suppressed" /\ Where # reported)
  <2>1. padRing # <<>> /\ padRing' = Tail(padRing) /\ UNCHANGED <<reported, known, overran>>
    BY <1>5 DEF PadGet
  <2>2. /\ padRing' \in Seq(PadSymbol) /\ OneEcho(padRing')
        /\ Calm(padRing) => Calm(padRing')
        /\ Small(padRing) => Small(padRing')
        /\ Recent(padRing) => Small(padRing') \/ Recent(padRing')
    BY <1>1, <2>1, TakenKeeps
  <2>3. News' /\ ~overran'
    BY <1>1, <1>2, <2>1 DEF News
  <2>4. PadTypes'
    BY <1>1, <1>2, <2>2 DEF PadTypes
  <2>5. Where' = reported' <=> Where = reported
    BY <1>3, <2>1
  <2>6. /\ mode' # "suppressed" => Calm(padRing')
        /\ mode' = "suppressed" => Small(padRing') \/ (Where' = reported' /\ Recent(padRing'))
    BY <1>2, <2>2, <2>5 DEF PadInv
  <2>7. QED
    BY <2>2, <2>3, <2>4, <2>6 DEF PadInv
<1>6. QED
  BY <1>4, <1>5

LEMMA PadSendKeeps == ASSUME NEW c \in PadChar PROVE PadInv /\ PadSend(c) => PadInv'
<1> SUFFICES ASSUME PadInv, PadSend(c) PROVE PadInv'
  OBVIOUS
<1>1. /\ PadTypes /\ ~overran /\ News /\ OneEcho(padRing) /\ padRing \in Seq(PadSymbol) /\ Len(padRing) \in Nat
      /\ pen \in Place /\ near \in BOOLEAN /\ mode \in {"remote", "suppressed", "none"}
      /\ ReportLen \in Nat /\ ReportLen > 1
  BY PadAssumption DEF PadInv, PadTypes
<1>2. PadPut(c) /\ UNCHANGED <<pen, near>> /\ Where' = Where /\ (c \in {"XON", "XOFF"} \/ ~Echoing(padRing))
  BY DEF PadSend, PadPut, Where, Echoing
<1>3. CASE Flow(c)
  BY <1>1, <1>2, <1>3 DEF Flow, PadInv, PadTypes, News
<1>4. CASE Question /\ ~Echoing(padRing)
  <2>1. Len(padRing) <= ReportLen
    BY <1>4, PadRoom DEF Question
  <2> DEFINE s == <<"echo">> \o Report
  <2>2. s \in Seq(PadSymbol) /\ Len(s) = 1 + ReportLen
    BY <1>1, ReportFacts DEF PadSymbol
  <2>3. padRing' = PadHeld(padRing \o s) /\ overran' = (overran \/ Len(padRing) + Len(s) >= PadDepth)
    BY <1>4 DEF Question, PadPutAll
  <2>4. padRing \o s \in Seq(PadSymbol) /\ Len(padRing \o s) = Len(padRing) + Len(s) /\ Len(padRing \o s) < PadDepth
    BY <1>1, <2>1, <2>2, PadAssumption
  <2>5. padRing' = padRing \o s /\ ~overran'
    <3>1. ~(Len(padRing) + Len(s) >= PadDepth)
      BY <1>1, <2>2, <2>4, PadAssumption
    <3>2. padRing' = padRing \o s
      BY <2>3, <2>4, HeldAll
    <3>3. QED
      BY <1>1, <2>3, <3>1, <3>2, Zenon
  <2>6. padRing' \in Seq(PadSymbol) /\ OneEcho(padRing') /\ Calm(padRing')
    <3>1. Len(padRing) <= 2 * ReportLen
      BY <1>1, <2>1
    <3>2. QED
      BY <1>1, <1>4, <2>5, <3>1, AnswerKeeps, ReportFacts
  <2>7. mode' = mode /\ mode # "suppressed" /\ News'
    BY <1>4 DEF Question, News
  <2>8. QED
    BY <1>1, <1>2, <2>5, <2>6, <2>7 DEF PadInv, PadTypes
<1>5. CASE ResetPad /\ ~Echoing(padRing)
  <2>1. Len(padRing) <= 2 * ReportLen
    BY <1>5, PadRoom
  <2> DEFINE s == <<"echo">> \o ResetAnswer
  <2>2. s \in Seq(PadSymbol) /\ Len(s) = 1 + ReportLen
    BY <1>1, ReportFacts DEF PadSymbol
  <2>3. padRing' = PadHeld(padRing \o s) /\ overran' = (overran \/ Len(padRing) + Len(s) >= PadDepth)
    BY <1>5 DEF ResetPad, PadPutAll
  <2>4. padRing \o s \in Seq(PadSymbol) /\ Len(padRing \o s) = Len(padRing) + Len(s) /\ Len(padRing \o s) < PadDepth
    BY <1>1, <2>1, <2>2, PadAssumption
  <2>5. padRing' = padRing \o s /\ ~overran'
    <3>1. ~(Len(padRing) + Len(s) >= PadDepth)
      BY <1>1, <2>2, <2>4, PadAssumption
    <3>2. padRing' = padRing \o s
      BY <2>3, <2>4, HeldAll
    <3>3. QED
      BY <1>1, <2>3, <3>1, <3>2, Zenon
  <2>6. padRing' \in Seq(PadSymbol) /\ OneEcho(padRing') /\ Calm(padRing')
    BY <1>1, <1>5, <2>1, <2>5, AnswerKeeps, ReportFacts
  <2>7. mode' = "none" /\ News'
    BY <1>5 DEF ResetPad, News
  <2>8. QED
    BY <1>1, <1>2, <2>5, <2>6, <2>7 DEF PadInv, PadTypes
<1>6. CASE ChangeMode(c) /\ ~Echoing(padRing)
  <2>1. Len(padRing) <= 2 * ReportLen /\ (mode # "suppressed" => Len(padRing) <= ReportLen)
    BY <1>6, PadRoom
  <2>2. /\ padRing' = PadHeld(padRing \o <<"echo">>)
        /\ overran' = (overran \/ Len(padRing) + Len(<<"echo">>) >= PadDepth)
        /\ mode' = ModeAfter(c) /\ UNCHANGED <<reported, known, asked>>
    BY <1>6 DEF ChangeMode, PadPutAll
  <2>3. /\ padRing \o <<"echo">> \in Seq(PadSymbol) /\ Len(padRing \o <<"echo">>) = Len(padRing) + 1
        /\ Len(<<"echo">>) = 1
    BY <1>1 DEF PadSymbol
  <2>4. padRing' = padRing \o <<"echo">> /\ ~overran'
    <3>1. ~(Len(padRing) + Len(<<"echo">>) >= PadDepth) /\ Len(padRing \o <<"echo">>) < PadDepth
      BY <1>1, <2>1, <2>3, PadAssumption
    <3>2. padRing' = padRing \o <<"echo">>
      BY <2>2, <2>3, <3>1, HeldAll
    <3>3. QED
      BY <1>1, <2>2, <3>1, <3>2, Zenon
  <2>5. /\ padRing' \in Seq(PadSymbol) /\ OneEcho(padRing') /\ Calm(padRing')
        /\ Small(padRing) => Small(padRing')
        /\ Recent(padRing) => Recent(padRing')
    <3>1. Len(padRing) <= 3 * ReportLen
      BY <1>1, <2>1
    <3>2. QED
      BY <1>1, <1>6, <2>4, <3>1, EchoKeeps
  <2>6. mode' \in {"remote", "suppressed", "none"}
    BY <1>1, <2>2 DEF ModeAfter
  <2>7. Small(padRing') \/ (Where' = reported' /\ Recent(padRing'))
    <3>1. CASE mode = "suppressed"
      BY <1>2, <2>2, <2>5, <3>1 DEF PadInv
    <3>2. CASE mode # "suppressed"
      BY <2>1, <2>5, <3>2 DEF Small
    <3>3. QED
      BY <3>1, <3>2
  <2>8. News' /\ PadTypes'
    BY <1>1, <1>2, <2>2, <2>5, <2>6 DEF News, PadTypes
  <2>9. QED
    BY <2>4, <2>5, <2>7, <2>8 DEF PadInv
<1>7. Flow(c) \/ ((Question \/ ResetPad \/ ChangeMode(c)) /\ ~Echoing(padRing))
  BY <1>2 DEF PadPut
<1>8. QED
  BY <1>3, <1>4, <1>5, <1>6, <1>7

LEMMA MovePenKeeps == PadInv /\ MovePen => PadInv'
<1> SUFFICES ASSUME PadInv, MovePen PROVE PadInv'
  OBVIOUS
<1>1. ~Recent(padRing)
  BY DEF MovePen, Recent, PadInv, PadTypes
<1>2. pen' \in Place /\ near' \in BOOLEAN /\ UNCHANGED <<mode, reported, padRing, known, overran, asked>>
  BY DEF MovePen
<1>3. QED
  BY <1>1, <1>2 DEF PadInv, PadTypes, News

LEMMA PadAtFirst == PadInit => PadInv
<1> SUFFICES ASSUME PadInit PROVE PadInv
  OBVIOUS
<1>1. /\ pen \in Place /\ near = TRUE /\ mode = "none" /\ reported = <<>> /\ overran = FALSE
      /\ padRing = <<>> /\ padRing \in Seq(PadSymbol) /\ Len(padRing) = 0
  BY DEF PadInit
<1>2. OneEcho(padRing) /\ Calm(padRing)
  BY <1>1, PadAssumption DEF OneEcho, Calm
<1>3. QED
  BY <1>1, <1>2 DEF PadInv, PadTypes, News

LEMMA PadStep == PadInv /\ [PadNext]_padVars => PadInv'
<1> SUFFICES ASSUME PadInv, [PadNext]_padVars PROVE PadInv'
  OBVIOUS
<1>1. CASE UNCHANGED padVars
  BY <1>1 DEF padVars, PadInv, PadTypes, News, Where
<1>2. CASE PadNext
  BY <1>2, PadGetKeeps, PadSendKeeps, MovePenKeeps DEF PadNext
<1>3. QED
  BY <1>1, <1>2

(* For any places, lengths of a report and rings with room for three of    *)
(* them: the ring is never filled, though nothing tests it, and the        *)
(* machine has been told of the place the tablet compares with, unless it  *)
(* asked for one in between.                                               *)
THEOREM ReportsAlwaysFollow == PadSpec => []ReportsFollowPen
<1>1. PadInv => ReportsFollowPen
  BY DEF PadInv, News, ReportsFollowPen
<1>2. QED
  BY <1>1, PadAtFirst, PadStep, PTL DEF PadSpec

-----------------------------------------------------------------------------
(* The least element of a set of natural numbers, and induction from it.   *)
Below == {ss \in Nat \X Nat : ss[1] < ss[2]}

LEMMA BelowIsWellFounded == IsWellFoundedOn(Below, Nat)
  BY NatLessThanWellFounded DEF OpToRel, Below

LEMMA Least ==
  ASSUME NEW T, T \subseteq Nat, T # {}
  PROVE  \E x \in T : \A y \in T : x <= y
<1>1. PICK x \in T : \A y \in T : ~ (<<y, x>> \in Below)
  BY BelowIsWellFounded, WFMin
<1>2. ASSUME NEW y \in T PROVE x <= y
  <2>1. x \in Nat /\ y \in Nat
    OBVIOUS
  <2>2. ~(y < x)
    BY <1>1, <2>1 DEF Below
  <2>3. QED
    BY <2>1, <2>2
<1>3. QED
  BY <1>2

LEMMA Induction ==
  ASSUME NEW T \in SUBSET Nat, 0 \in T, \A n \in T : n + 1 \in T
  PROVE  T = Nat
<1> SUFFICES ASSUME Nat \ T # {} PROVE FALSE
  OBVIOUS
<1>1. PICK x \in Nat \ T : \A y \in Nat \ T : x <= y
  BY Least
<1>2. x - 1 \in T
  BY <1>1
<1>3. QED
  BY <1>1, <1>2

-----------------------------------------------------------------------------
(* The printer.  A line of graphics is not longer than the most its rows   *)
(* are repeated, whatever the turn of the repetitions.                     *)
MaxRows(n) == n \in Nat \ {0} /\ \A i \in DOMAIN RowRep : RowRep[i] <= n
RowsOf(r) == RowRep[((rowrcnt + r - 1) % Len(RowRep)) + 1]
RowStep(g, r) == IF r = 0 THEN 0 ELSE g[r - 1] + RowsOf(r)
RowSums(g, m) == g = [r \in 0 .. m |-> RowStep(g, r)]

LEMMA RowsType ==
  ASSUME rowrcnt \in Nat, NEW r \in Nat \ {0}
  PROVE  RowsOf(r) \in Nat /\ \A n : MaxRows(n) => RowsOf(r) <= n
<1>1. RowRep \in Seq(Nat) /\ Len(RowRep) \in Nat /\ Len(RowRep) > 0 /\ DOMAIN RowRep = 1 .. Len(RowRep)
  BY La50Assumption
<1>2. rowrcnt + r - 1 \in Nat
  OBVIOUS
<1>3. \A a, b \in Nat : b > 0 => a % b \in 0 .. b - 1
  OBVIOUS
<1>4. (rowrcnt + r - 1) % Len(RowRep) \in 0 .. Len(RowRep) - 1
  BY <1>1, <1>2, <1>3
<1>5. ((rowrcnt + r - 1) % Len(RowRep)) + 1 \in 1 .. Len(RowRep)
  BY <1>1, <1>4
<1>6. QED
  BY <1>1, <1>5 DEF RowsOf, MaxRows

LEMMA SomeRowSums == \A m \in Nat : \E g : RowSums(g, m)
<1> DEFINE T == {m \in Nat : \E g : RowSums(g, m)}
<1>1. 0 \in T
  <2> DEFINE g == [r \in 0 .. 0 |-> 0]
  <2>1. [r \in 0 .. 0 |-> RowStep(g, r)] = g
    BY DEF RowStep
  <2> HIDE DEF g
  <2>2. RowSums(g, 0)
    BY <2>1 DEF RowSums
  <2>3. QED
    BY <2>2
<1>2. ASSUME NEW m \in T PROVE m + 1 \in T
  <2>1. PICK g : RowSums(g, m)
    OBVIOUS
  <2> DEFINE h == [r \in 0 .. m + 1 |-> IF r = m + 1 THEN g[m] + RowsOf(m + 1) ELSE g[r]]
  <2>2. ASSUME NEW r \in 0 .. m + 1 PROVE h[r] = RowStep(h, r)
    <3>1. CASE r = m + 1
      <4>1. r # 0 /\ r - 1 = m /\ m # m + 1 /\ m \in 0 .. m + 1
        BY <3>1
      <4>2. h[r] = g[m] + RowsOf(m + 1) /\ h[m] = g[m]
        BY <3>1, <4>1
      <4> HIDE DEF h
      <4>3. QED
        BY <3>1, <4>1, <4>2 DEF RowStep
    <3>2. CASE r # m + 1 /\ r = 0
      <4>1. h[r] = g[0] /\ 0 \in 0 .. m
        BY <3>2
      <4>2. g[0] = RowStep(g, 0)
        BY <2>1, <4>1 DEF RowSums
      <4> HIDE DEF h
      <4>3. QED
        BY <3>2, <4>1, <4>2 DEF RowStep
    <3>3. CASE r # m + 1 /\ r # 0
      <4>1. r \in 0 .. m /\ r - 1 \in 0 .. m + 1 /\ r - 1 # m + 1
        BY <3>3
      <4>2. h[r] = g[r] /\ h[r - 1] = g[r - 1]
        BY <3>3, <4>1
      <4>3. g[r] = RowStep(g, r)
        BY <2>1, <4>1 DEF RowSums
      <4> HIDE DEF h
      <4>4. QED
        BY <3>3, <4>2, <4>3 DEF RowStep
    <3>4. QED
      BY <3>1, <3>2, <3>3
  <2>3. h = [r \in 0 .. m + 1 |-> h[r]]
    OBVIOUS
  <2> HIDE DEF h
  <2>4. [r \in 0 .. m + 1 |-> h[r]] = [r \in 0 .. m + 1 |-> RowStep(h, r)]
    BY <2>2
  <2>5. RowSums(h, m + 1)
    BY <2>3, <2>4 DEF RowSums
  <2>6. QED
    BY <2>5
<1> HIDE DEF T
<1>3. T = Nat
  <2>1. T \in SUBSET Nat
    BY DEF T
  <2>2. QED
    BY <1>1, <1>2, <2>1, Induction
<1>4. QED
  BY <1>3 DEF T

LEMMA RowEndStep == \A r \in 0 .. SixRows : RowEnd[r] = RowStep(RowEnd, r)
<1>1. SixRows \in Nat
  BY La50Assumption
<1>2. \E g : RowSums(g, SixRows)
  BY <1>1, SomeRowSums
<1>3. RowEnd = CHOOSE g : RowSums(g, SixRows)
  BY DEF RowEnd, RowSums, RowStep, RowsOf
<1>4. RowSums(RowEnd, SixRows)
  BY <1>2, <1>3
<1>5. QED
  BY <1>4 DEF RowSums

LEMMA RowsBound ==
  ASSUME rowrcnt \in Nat, NEW n \in Nat
  PROVE  RowEnd[SixRows] \in Nat /\ (MaxRows(n) => RowEnd[SixRows] <= SixRows * n)
<1> DEFINE T == {r \in Nat : r \in 0 .. SixRows => RowEnd[r] \in Nat /\ (MaxRows(n) => RowEnd[r] <= r * n)}
<1>0. n \in Nat /\ SixRows \in Nat
  BY La50Assumption
<1>1. 0 \in T
  <2>1. 0 \in 0 .. SixRows /\ 0 * n = 0
    BY <1>0
  <2>2. RowEnd[0] = 0
    BY <2>1, RowEndStep DEF RowStep
  <2>3. QED
    BY <2>1, <2>2
<1>2. ASSUME NEW r \in T PROVE r + 1 \in T
  <2> SUFFICES ASSUME r + 1 \in 0 .. SixRows 
                PROVE  RowEnd[r + 1] \in Nat /\ (MaxRows(n) => RowEnd[r + 1] <= (r + 1) * n)
    OBVIOUS
  <2>1. r \in Nat /\ r \in 0 .. SixRows /\ r + 1 # 0 /\ r + 1 - 1 = r /\ r + 1 \in Nat \ {0}
    BY <1>0
  <2>2. RowEnd[r] \in Nat /\ (MaxRows(n) => RowEnd[r] <= r * n)
    BY <2>1
  <2>3. RowEnd[r + 1] = RowEnd[r] + RowsOf(r + 1)
    BY <2>1, RowEndStep DEF RowStep
  <2>4. RowsOf(r + 1) \in Nat /\ (MaxRows(n) => RowsOf(r + 1) <= n)
    BY <2>1, RowsType
  <2> HIDE DEF T
  <2>5. (r + 1) * n = r * n + n /\ r * n \in Nat
    BY <1>0, <2>1
  <2>6. \A a, b, c, d \in Nat : a <= c /\ b <= d => a + b \in Nat /\ a + b <= c + d
    OBVIOUS
  <2>7. QED
    BY <1>0, <2>2, <2>3, <2>4, <2>5, <2>6
<1> HIDE DEF T
<1>3. T = Nat
  <2>1. T \in SUBSET Nat
    BY DEF T
  <2>2. QED
    BY <1>1, <1>2, <2>1, Induction
<1>4. SixRows \in 0 .. SixRows
  BY <1>0
<1>5. QED
  BY <1>0, <1>3, <1>4 DEF T

(* The ring holds what is still to go out as long as none was lost, and    *)
(* the level counts it, with what was lost and without what was refused.   *)
PrinterSymbol == {"text", "start", "end"} \cup SUBSET (0 .. MaxPos - 1)
Rows(n) == MaxRows(n) => most <= SixRows * n

PrinterInv ==
  /\ ring \in Seq(PrinterSymbol)
  /\ laps \in Nat /\ most \in Nat /\ refused \in Nat /\ rowrcnt \in Nat
  /\ PrintsInOrder
  /\ \A n \in Nat : Rows(n)

LEMMA RowsFit ==
  ASSUME rowrcnt \in Nat
  PROVE  /\ RowsOut \in Seq(PrinterSymbol)
         /\ \A n \in Nat : MaxRows(n) => Len(RowsOut) <= SixRows * n
<1>1. RowEnd[SixRows] \in Nat /\ \A n \in Nat : MaxRows(n) => RowEnd[SixRows] <= SixRows * n
  BY RowsBound
<1>2. \A r : ScaledRow(r) \in PrinterSymbol
  BY DEF ScaledRow, PrinterSymbol
<1>3. RowsOut \in Seq(PrinterSymbol) /\ Len(RowsOut) = RowEnd[SixRows]
  <2> DEFINE m == RowEnd[SixRows]
             e(i) == ScaledRow(CHOOSE r \in 0 .. SixRows - 1 : RowEnd[r] < i /\ i <= RowEnd[r + 1])
  <2>1. \A i \in 1 .. m : e(i) \in PrinterSymbol
    BY <1>2
  <2>2. RowsOut = [i \in 1 .. m |-> e(i)]
    BY DEF RowsOut
  <2> HIDE DEF m, e
  <2>3. m \in Nat
    BY <1>1 DEF m
  <2>4. QED
    BY <2>1, <2>2, <2>3 DEF m
<1>4. QED
  BY <1>1, <1>3

LEMMA GreaterOfTwo ==
  ASSUME NEW a \in Nat, NEW b \in Nat
  PROVE  Max({a, b}) \in {a, b} /\ a <= Max({a, b}) /\ b <= Max({a, b})
<1>1. \E x \in {a, b} : \A y \in {a, b} : x >= y
  <2>1. CASE a >= b
    BY <2>1
  <2>2. CASE b >= a
    BY <2>2
  <2>3. QED
    BY <2>1, <2>2
<1>2. Max({a, b}) \in {a, b} /\ \A y \in {a, b} : Max({a, b}) >= y
  BY <1>1 DEF Max
<1>3. QED
  BY <1>2

(* What the port accepts stays in the ring, or the ring goes round and     *)
(* there was not the room.                                                 *)
LEMMA PutsAll ==
  ASSUME PrinterInv, level < FifoDepth \div 2, NEW s \in Seq(PrinterSymbol),
         \A n \in Nat : MaxRows(n) => Len(s) <= SixRows * n,
         PutAll(s), refused' = refused, rowrcnt' \in Nat
  PROVE  PrinterInv'
<1> DEFINE t == ring \o s
           a == Len(t)
           q == a \div FifoDepth
<1>1. /\ ring \in Seq(PrinterSymbol) /\ Len(ring) \in Nat /\ Len(s) \in Nat
      /\ laps \in Nat /\ most \in Nat /\ refused \in Nat /\ FifoDepth \in Nat \ {0}
      /\ laps = 0 => ring = unsent
      /\ laps # 0 => 2 * (most + refused) > FifoDepth
  BY La50Assumption DEF PrinterInv, PrintsInOrder
<1>2. level = Len(ring) + FifoDepth * laps - refused
  BY DEF PrinterInv, PrintsInOrder
<1>3. t \in Seq(PrinterSymbol) /\ a = Len(ring) + Len(s) /\ a \in Nat
  BY <1>1, ConcatProperties
<1>4. /\ ring' = SubSeq(t, FifoDepth * q + 1, a) /\ level' = level + Len(s) /\ laps' = laps + q
      /\ unsent' = (IF laps' = 0 THEN unsent \o s ELSE <<>>) /\ most' = Max({most, Len(s)})
  BY DEF PutAll, RingHeld, Laps
<1>5. most' \in Nat /\ most <= most' /\ Len(s) <= most' /\ most' \in {most, Len(s)}
  BY <1>1, <1>4, GreaterOfTwo
<1> HIDE DEF t, q, a
<1>6. q \in Nat /\ FifoDepth * q \in Nat /\ FifoDepth * q <= a /\ (q = 0 => FifoDepth * q = 0)
      /\ (q # 0 => a >= FifoDepth)
  <2>1. \A x \in Nat, d \in Nat \ {0} : x \div d \in Nat /\ d * (x \div d) <= x
    OBVIOUS
  <2>2. q \in Nat /\ FifoDepth * q <= a
    BY <1>1, <1>3, <2>1 DEF q
  <2>3. q # 0 => FifoDepth * q >= FifoDepth
    <3>1. \A x \in Nat \ {0}, d \in Nat \ {0} : d * x >= d
      OBVIOUS
    <3>2. QED
      BY <1>1, <2>2, <3>1
  <2>4. FifoDepth * q \in Nat
    BY <1>1, <2>2
  <2>5. q = 0 => FifoDepth * q = 0
    BY <1>1
  <2>6. q # 0 => a >= FifoDepth
    <3>1. \A x, y, z \in Nat : x <= y /\ y <= z => z >= x
      OBVIOUS
    <3>2. QED
      BY <1>1, <1>3, <2>2, <2>3, <2>4, <3>1
  <2>7. QED
    BY <2>2, <2>4, <2>5, <2>6
<1>7. ring' \in Seq(PrinterSymbol) /\ Len(ring') = a - FifoDepth * q
  <2>1. \A m \in 1 .. a + 1 : SubSeq(t, m, a) \in Seq(PrinterSymbol) /\ Len(SubSeq(t, m, a)) = a - m + 1
    BY <1>3, SubSeqProperties DEF a
  <2>2. FifoDepth * q + 1 \in 1 .. a + 1
    BY <1>3, <1>6
  <2>3. QED
    BY <1>3, <1>4, <1>6, <2>1, <2>2
<1>8. level' = Len(ring') + FifoDepth * laps' - refused'
  <2>1. \A d, x, y \in Nat : d * (x + y) = d * x + d * y /\ d * x \in Nat
    OBVIOUS
  <2>2. FifoDepth * laps' = FifoDepth * laps + FifoDepth * q /\ FifoDepth * laps \in Nat
    BY <1>1, <1>4, <1>6, <2>1
  <2>3. \A i, j, k, x, y \in Nat : (i + x - k) + j = ((i + j) - y) + (x + y) - k
    OBVIOUS
  <2>4. (Len(ring) + FifoDepth * laps - refused) + Len(s)
          = ((Len(ring) + Len(s)) - FifoDepth * q) + (FifoDepth * laps + FifoDepth * q) - refused
    BY <1>1, <1>6, <2>2, <2>3
  <2>5. QED
    BY <1>2, <1>3, <1>4, <1>7, <2>2, <2>4
<1>9. laps' = 0 => ring' = unsent'
  <2> SUFFICES ASSUME laps' = 0 PROVE ring' = unsent'
    OBVIOUS
  <2>1. laps = 0 /\ q = 0
    BY <1>1, <1>4, <1>6
  <2>2. FifoDepth * q + 1 = 1
    BY <1>6, <2>1
  <2>3. ring' = SubSeq(t, 1, a)
    BY <1>4, <2>2
  <2>4. SubSeq(t, 1, a) = t
    BY <1>3 DEF a
  <2>5. unsent' = t
    BY <1>1, <1>4, <2>1 DEF t
  <2>6. QED
    BY <2>3, <2>4, <2>5
<1>10. laps' # 0 => 2 * (most' + refused') > FifoDepth
  <2>1. CASE laps # 0
    <3>1. \A x, y, z, d \in Nat : 2 * (x + z) > d /\ x <= y => 2 * (y + z) > d
      OBVIOUS
    <3>2. QED
      BY <1>1, <1>5, <2>1, <3>1
  <2>2. CASE laps = 0 /\ q # 0
    <3>1. level = Len(ring) - refused
      <4>1. FifoDepth * laps = 0
        BY <1>1, <2>2
      <4>2. QED
        BY <1>1, <1>2, <4>1
    <3>2. Len(ring) + Len(s) >= FifoDepth
      BY <1>3, <1>6, <2>2
    <3>3. \A i, j, k, y, d \in Nat :
            i - k < d \div 2 /\ i + j >= d /\ j <= y => 2 * (y + k) > d
      OBVIOUS
    <3>4. 2 * (most' + refused) > FifoDepth
      BY <1>1, <1>5, <3>1, <3>2, <3>3
    <3>5. QED
      BY <3>4
  <2>3. QED
    <3>1. laps' # 0 => laps # 0 \/ q # 0
      BY <1>1, <1>4, <1>6
    <3>2. QED
      BY <2>1, <2>2, <3>1
<1>11. \A n \in Nat : Rows(n)'
  <2> SUFFICES ASSUME NEW n \in Nat, MaxRows(n) PROVE most' <= SixRows * n
    BY DEF Rows, MaxRows
  <2>1. most <= SixRows * n
    BY DEF PrinterInv, Rows
  <2>2. Len(s) <= SixRows * n
    OBVIOUS
  <2>3. QED
    BY <1>5, <2>1, <2>2
<1>12. laps' \in Nat /\ refused' \in Nat
  BY <1>1, <1>4, <1>6
<1>13. PrintsInOrder'
  BY <1>8, <1>9, <1>10 DEF PrintsInOrder
<1>14. QED
  BY <1>5, <1>7, <1>11, <1>12, <1>13 DEF PrinterInv

LEMMA OneFits == \A n \in Nat : MaxRows(n) => 1 <= SixRows * n
<1>1. \A b, c \in Nat \ {0} : 1 <= b * c
  OBVIOUS
<1>2. QED
  BY <1>1, La50Assumption DEF MaxRows

LEMMA FilterKeeps == ASSUME NEW c \in LaChar PROVE PrinterInv /\ La50Put(c) => PrinterInv'
<1> SUFFICES ASSUME PrinterInv, La50Put(c) PROVE PrinterInv'
  OBVIOUS
<1>1. level < FifoDepth \div 2 /\ SixFilter(c) /\ refused' = refused
  BY DEF La50Put
<1>2. rowrcnt \in Nat
  BY DEF PrinterInv
<1>3. ASSUME NEW x \in {"text", "start", "end"}, PutAll(<<x>>), rowrcnt' \in Nat PROVE PrinterInv'
  <2>1. <<x>> \in Seq(PrinterSymbol) /\ Len(<<x>>) = 1
    BY DEF PrinterSymbol
  <2>2. QED
    BY <1>1, <1>3, <2>1, OneFits, PutsAll
<1>4. ASSUME UNCHANGED out, rowrcnt' \in Nat PROVE PrinterInv'
  BY <1>1, <1>4 DEF PrinterInv, PrintsInOrder, Rows, MaxRows, out
<1>5. CASE Idle(c)
  BY <1>2, <1>3, <1>4, <1>5 DEF Idle
<1>6. CASE Esc(c)
  BY <1>2, <1>4, <1>6 DEF Esc
<1>7. CASE WaitEsc(c)
  BY <1>2, <1>3, <1>4, <1>7 DEF WaitEsc
<1>8. CASE EndPcl
  BY <1>2, <1>3, <1>8 DEF EndPcl
<1>9. CASE PutAll(RowsOut) /\ rowrcnt' = (rowrcnt + SixRows) % Len(RowRep)
  <2>1. rowrcnt' \in Nat
    <3>1. rowrcnt + SixRows \in Nat /\ Len(RowRep) \in Nat /\ Len(RowRep) > 0
      BY <1>2, La50Assumption
    <3>2. \A a, b \in Nat : b > 0 => a % b \in Nat
      OBVIOUS
    <3>3. (rowrcnt + SixRows) % Len(RowRep) \in Nat
      BY <3>1, <3>2
    <3>4. QED
      BY <1>9, <3>3
  <2>2. QED
    BY <1>1, <1>2, <1>9, <2>1, RowsFit, PutsAll
<1>10. CASE SixIdle(c)
  BY <1>2, <1>4, <1>8, <1>9, <1>10 DEF SixIdle, Plot
<1>11. CASE SixRpt(c)
  BY <1>2, <1>4, <1>11 DEF SixRpt, Plot
<1>12. QED
  BY <1>1, <1>5, <1>6, <1>7, <1>8, <1>10, <1>11 DEF SixFilter

LEMMA PrinterPollKeeps == PrinterInv /\ La50Get => PrinterInv'
<1> SUFFICES ASSUME PrinterInv, La50Get PROVE PrinterInv'
  OBVIOUS
<1>1. /\ ring \in Seq(PrinterSymbol) /\ Len(ring) \in Nat
      /\ laps \in Nat /\ most \in Nat /\ refused \in Nat /\ FifoDepth \in Nat
      /\ laps = 0 => ring = unsent
      /\ laps # 0 => 2 * (most + refused) > FifoDepth
  BY La50Assumption DEF PrinterInv, PrintsInOrder
<1>2. PICK n \in 0 .. Len(ring) :
        /\ ring' = SubSeq(ring, n + 1, Len(ring))
        /\ unsent' = IF laps = 0 /\ SubSeq(ring, 1, n) = SubSeq(unsent, 1, n)
                     THEN SubSeq(unsent, n + 1, Len(unsent)) ELSE unsent
        /\ \/ level' = level - n /\ refused' = refused
           \/ level' = level - n - 1 /\ refused' = refused + 1
        /\ rowrcnt' = rowrcnt /\ laps' = laps /\ most' = most
  BY DEF La50Get, filter
<1>3. laps' = 0 => ring' = unsent'
  BY <1>1, <1>2
<1>4. ring' \in Seq(PrinterSymbol) /\ Len(ring') = Len(ring) - n
  BY <1>1, <1>2, SubSeqProperties
<1>5. refused' \in Nat /\ refused <= refused'
  BY <1>1, <1>2
<1>6. level' = Len(ring') + FifoDepth * laps' - refused'
  <2>1. \A x, y \in Nat : x * y \in Nat
    OBVIOUS
  <2>2. FifoDepth * laps \in Nat
    BY <1>1, <2>1
  <2>3. level = Len(ring) + FifoDepth * laps - refused
    BY DEF PrinterInv, PrintsInOrder
  <2>4. \A i, x, k, m \in Nat : /\ i + x - k - m = (i - m) + x - k
                              /\ i + x - k - m - 1 = (i - m) + x - (k + 1)
    OBVIOUS
  <2>5. FifoDepth * laps' = FifoDepth * laps
    BY <1>2
  <2> DEFINE x == FifoDepth * laps
  <2>6. /\ Len(ring) + x - refused - n = (Len(ring) - n) + x - refused
        /\ Len(ring) + x - refused - n - 1 = (Len(ring) - n) + x - (refused + 1)
    BY <1>1, <1>2, <2>2, <2>4
  <2>7. level = Len(ring) + x - refused /\ x \in Nat
    BY <2>2, <2>3
  <2> HIDE DEF x
  <2>8. level' = Len(ring') + x - refused'
    <3>1. CASE level' = level - n /\ refused' = refused
      BY <1>1, <1>2, <1>4, <2>6, <2>7, <3>1
    <3>2. CASE level' = level - n - 1 /\ refused' = refused + 1
      BY <1>1, <1>2, <1>4, <2>6, <2>7, <3>2
    <3>3. QED
      BY <1>2, <3>1, <3>2
  <2>9. QED
    BY <2>5, <2>8 DEF x
<1>7. laps' # 0 => 2 * (most' + refused') > FifoDepth
  <2>1. \A x, y, z, d \in Nat : 2 * (x + y) > d /\ y <= z => 2 * (x + z) > d
    OBVIOUS
  <2>2. QED
    BY <1>1, <1>2, <1>5, <2>1
<1>8. \A k \in Nat : Rows(k)'
  BY <1>2 DEF PrinterInv, Rows, MaxRows
<1>9. rowrcnt' \in Nat
  BY <1>2 DEF PrinterInv
<1>10. QED
  BY <1>1, <1>2, <1>3, <1>4, <1>5, <1>6, <1>7, <1>8, <1>9 DEF PrinterInv, PrintsInOrder

(* An empty ring, at the start or after a reset.                           *)
LEMMA PrinterEmpty ==
  ASSUME ring = <<>>, unsent = <<>>, level = 0, laps = 0, most = 0, refused = 0, rowrcnt \in Nat
  PROVE  PrinterInv
<1>1. \A n \in Nat : MaxRows(n) => 0 <= SixRows * n
  BY OneFits, La50Assumption
<1>2. FifoDepth * 0 = 0 /\ Len(<<>>) = 0
  BY La50Assumption
<1>3. QED
  BY <1>1, <1>2 DEF PrinterInv, PrintsInOrder, Rows

LEMMA PrinterStep == PrinterInv /\ [La50Next]_la50Vars => PrinterInv'
<1> SUFFICES ASSUME PrinterInv, [La50Next]_la50Vars PROVE PrinterInv'
  OBVIOUS
<1>1. CASE UNCHANGED la50Vars
  BY <1>1 DEF la50Vars, filter, out, PrinterInv, PrintsInOrder, Rows, MaxRows
<1>2. CASE La50Reset
  <2>1. ring' = <<>> /\ unsent' = <<>> /\ level' = 0 /\ laps' = 0 /\ most' = 0 /\ refused' = 0
        /\ rowrcnt' \in Nat
    BY <1>2 DEF La50Reset, PrinterInv
  <2>2. \A n \in Nat : MaxRows(n) => 0 <= SixRows * n
    BY OneFits, La50Assumption
  <2>3. FifoDepth * 0 = 0 /\ Len(<<>>) = 0
    BY La50Assumption
  <2>4. QED
    BY <2>1, <2>2, <2>3 DEF PrinterInv, PrintsInOrder, Rows, MaxRows
<1>3. QED
  BY <1>1, <1>2, FilterKeeps, PrinterPollKeeps DEF La50Next

(* For any ring, picture, repetitions and device, which may refuse as      *)
(* often as it likes: the device gets what was printed, in order, until    *)
(* the ring overruns; that happens only when what was refused since the    *)
(* reset and the most put at once exceed half of it; and the level is off  *)
(* by just what was refused and lost.                                      *)
THEOREM AlwaysPrintsInOrder == La50Spec => []PrintsInOrder
<1>1. La50Init => PrinterInv
  BY PrinterEmpty DEF La50Init
<1>2. PrinterInv => PrintsInOrder
  BY DEF PrinterInv
<1>3. QED
  BY <1>1, <1>2, PrinterStep, PTL DEF La50Spec

(* Nothing is lost as long as a line of graphics, of rows repeated at most *)
(* n times, and the characters refused since the reset fit half the ring.  *)
THEOREM PrintsAllWithRoom ==
  La50Spec => [](\A n \in Nat : MaxRows(n) /\ 2 * (SixRows * n + refused) <= FifoDepth => ring = unsent)
<1>1. La50Init => PrinterInv
  BY PrinterEmpty DEF La50Init
<1>2. PrinterInv => \A n \in Nat : MaxRows(n) /\ 2 * (SixRows * n + refused) <= FifoDepth => ring = unsent
  <2> SUFFICES ASSUME PrinterInv, NEW n \in Nat, MaxRows(n), 2 * (SixRows * n + refused) <= FifoDepth
               PROVE  ring = unsent
    OBVIOUS
  <2> DEFINE k == SixRows * n
  <2>1. most <= k /\ most \in Nat /\ refused \in Nat
    BY DEF PrinterInv, Rows
  <2>2. k \in Nat /\ FifoDepth \in Nat
    <3>1. \A x, y \in Nat : x * y \in Nat
      OBVIOUS
    <3>2. QED
      BY <3>1, La50Assumption
  <2>3. 2 * (k + refused) <= FifoDepth
    OBVIOUS
  <2> HIDE DEF k
  <2>4. ~(2 * (most + refused) > FifoDepth)
    BY <2>1, <2>2, <2>3
  <2>5. QED
    BY <2>4 DEF PrinterInv, PrintsInOrder
<1>3. QED
  BY <1>1, <1>2, PrinterStep, PTL DEF La50Spec

-----------------------------------------------------------------------------
(* The menu.  What is shown at each menu, and where the top menu was left. *)
OnDrives(f) == f = [d \in Drive |-> f[d]]
OneEach(a) ==
  /\ a \in [Port -> Device]
  /\ \A p, q \in Port : p # q /\ a[p] = a[q] => a[p] = "null"
  /\ \A p \in Port : a[p] = La50Device => La50Device = "null"
Seen(p, s) == p \in Nat /\ s \in Nat /\ s <= p /\ p < s + Window

MenuTypes ==
  /\ on \in BOOLEAN /\ OneEach(ports)
  /\ OnDrives(name) /\ OnDrives(dir) /\ OnDrives(inDrive)
  /\ pos \in Nat /\ start \in Nat /\ ok \subseteq Nat

(* A serial menu offers what no other port has, a file menu has the door   *)
(* of its drive open.                                                      *)
Offered ==
  \/ active = "top" /\ ok = TopEnabled
  \/ /\ active = "serial" /\ TopItem(topPos) \in Port
     /\ \A i \in ok : i < Len(Devices) => DeviceAt(i) \notin Taken(TopItem(topPos))
  \/ /\ active = "file" /\ TopItem(topPos) \in {"rx0", "rx1"} /\ 0 \in ok
     /\ inDrive[DriveOf(TopItem(topPos))] = "none"
  \/ active = "about"

MenuInv ==
  /\ MenuTypes
  /\ topPos \in TopEnabled /\ Seen(topPos, topStart)
  /\ on => pos \in ok /\ pos < Items /\ Seen(pos, start) /\ Offered

(* The greatest and the least of the places that count.                    *)
LEMMA Greatest ==
  ASSUME NEW S, S \subseteq Nat, S # {}, NEW n \in Nat, \A x \in S : x <= n
  PROVE  Max(S) \in S /\ \A x \in S : x <= Max(S)
<1> DEFINE T == {y \in Nat : n - y \in S}
<1>1. T # {}
  <2>1. PICK x \in S : TRUE
    OBVIOUS
  <2>2. x \in Nat /\ x <= n
    OBVIOUS
  <2>3. n - x \in Nat /\ n - (n - x) = x
    BY <2>2
  <2>4. n - x \in T
    BY <2>3
  <2>5. QED
    BY <2>4
<1>2. T \subseteq Nat
  OBVIOUS
<1>3. PICK y \in T : \A z \in T : y <= z
  BY <1>1, <1>2, Least
<1>4. n - y \in S
  OBVIOUS
<1>5. ASSUME NEW x \in S PROVE n - y >= x
  <2>1. x \in Nat /\ x <= n
    OBVIOUS
  <2>2. n - x \in Nat /\ n - (n - x) = x
    BY <2>1
  <2>3. n - x \in T
    BY <2>2
  <2>4. y <= n - x /\ y \in Nat
    BY <1>3, <2>3
  <2>5. QED
    BY <2>1, <2>4
<1>6. \E m \in S : \A x \in S : m >= x
  BY <1>4, <1>5
<1>7. Max(S) \in S /\ \A x \in S : Max(S) >= x
  BY <1>6 DEF Max
<1>8. QED
  BY <1>7

LEMMA Smallest ==
  ASSUME NEW S, S \subseteq Nat, S # {}
  PROVE  Min(S) \in S /\ \A x \in S : Min(S) <= x
<1>1. \E m \in S : \A x \in S : m <= x
  BY Least
<1>2. QED
  BY <1>1 DEF Min

LEMMA TopFacts ==
  /\ TopEnabled \subseteq 0 .. 12 /\ TopEnabled \subseteq Nat /\ 0 \in TopEnabled
  /\ Len(TopItems) = 13 /\ Window \in Nat \ {0}
<1>1. TopItem(0) = "return"
  BY DEF TopItem, TopItems
<1>2. 0 \in 0 .. 12 /\ TopEnabled \subseteq 0 .. 12
  BY DEF TopEnabled
<1>3. 0 \in TopEnabled
  BY <1>1, <1>2 DEF TopEnabled
<1>4. QED
  BY <1>2, <1>3, WindowAssumption DEF TopItems

LEMMA EntriesFacts ==
  ASSUME NEW path
  PROVE  Len(EntriesOf(path)) \in Nat \ {0} /\ DOMAIN EntriesOf(path) = 1 .. Len(EntriesOf(path))
<1> DEFINE Entry == [name : STRING, isDir : BOOLEAN]
           rest == IF path \in DOMAIN Tree THEN Tree[path] ELSE <<>>
           empty == [name |-> "", isDir |-> FALSE]
           Listed == Entry \cup {empty}
<1>1. rest \in Seq(Entry)
  BY FilesAssumption
<1>2. EntriesOf(path) = <<empty>> \o rest
  BY DEF EntriesOf
<1> HIDE DEF rest, Entry, empty
<1>3. rest \in Seq(Listed) /\ <<empty>> \in Seq(Listed) /\ Len(<<empty>>) = 1
  BY <1>1
<1> HIDE DEF Listed
<1>4. <<empty>> \o rest \in Seq(Listed) /\ Len(<<empty>> \o rest) = 1 + Len(rest) /\ Len(rest) \in Nat
  BY <1>3, ConcatProperties, LenProperties
<1>5. Len(<<empty>> \o rest) \in Nat \ {0} /\ DOMAIN (<<empty>> \o rest) = 1 .. Len(<<empty>> \o rest)
  BY <1>4, LenProperties
<1>6. QED
  BY <1>2, <1>5

(* The item of a device.                                                   *)
LEMMA ItemFacts ==
  ASSUME NEW d \in Device
  PROVE  ItemOf(d) \in 0 .. Len(Devices) - 1 /\ DeviceAt(ItemOf(d)) = d
<1>1. Devices \in Seq(STRING) /\ Len(Devices) \in Nat /\ DOMAIN Devices = 1 .. Len(Devices)
  BY ConfigAssumption
<1>2. \E i \in DOMAIN Devices : Devices[i] = d
  BY DEF Device, ToSet
<1> DEFINE i == CHOOSE i \in DOMAIN Devices : Devices[i] = d
<1>3. i \in DOMAIN Devices /\ Devices[i] = d
  BY <1>2
<1>4. ItemOf(d) = i - 1
  BY DEF ItemOf
<1> HIDE DEF i
<1>5. i \in 1 .. Len(Devices) /\ i - 1 \in 0 .. Len(Devices) - 1 /\ (i - 1) + 1 = i
  BY <1>1, <1>3
<1>6. QED
  BY <1>3, <1>4, <1>5 DEF DeviceAt

LEMMA WindowFacts == ASSUME NEW p \in Nat PROVE Seen(p, WindowFor(p))
  BY TopFacts DEF Seen, WindowFor

-----------------------------------------------------------------------------
(* The menus as they are shown.                                            *)
LEMMA TopShown ==
  ASSUME MenuTypes, MenuTypes', NEW p \in TopEnabled, NEW s, Seen(p, s), ShowTop(p, s),
         topPos' \in TopEnabled, Seen(topPos', topStart')
  PROVE  MenuInv'
<1>1. active' = "top" /\ ok' = TopEnabled /\ pos' = p /\ start' = s
  BY DEF ShowTop
<1>2. Offered'
  BY <1>1 DEF Offered
<1>3. Items' = 13
  BY <1>1, TopFacts DEF Items
<1>4. p < 13
  BY TopFacts
<1>5. QED
  BY <1>1, <1>2, <1>3, <1>4 DEF MenuInv

LEMMA SerialShown ==
  ASSUME MenuTypes, NEW p \in Port, ShowSerial(p), TopItem(topPos') = p,
         topPos' \in TopEnabled, Seen(topPos', topStart'),
         UNCHANGED <<on, ports, name, dir, inDrive>>
  PROVE  MenuInv'
<1>1. OneEach(ports) /\ ports[p] \in Device /\ ok \subseteq Nat /\ Len(Devices) \in Nat
  BY ConfigAssumption DEF MenuTypes, OneEach
<1>2. /\ active' = "serial" /\ pos' = ItemOf(ports[p]) /\ start' = WindowFor(pos')
      /\ ok' = {i \in 0 .. Len(Devices) - 1 : DeviceAt(i) \notin Taken(p)} \cup {i \in ok : i >= Len(Devices)}
  BY DEF ShowSerial
<1>3. pos' \in 0 .. Len(Devices) - 1 /\ DeviceAt(pos') = ports[p]
  BY <1>1, <1>2, ItemFacts
<1>4. ports[p] \notin Taken(p)
  BY <1>1 DEF OneEach, Taken
<1>5. pos' \in ok'
  BY <1>2, <1>3, <1>4
<1>6. ok' \subseteq Nat /\ \A i \in ok' : i < Len(Devices) => DeviceAt(i) \notin Taken(p)
  <2>1. SUFFICES ASSUME NEW i \in ok'
                 PROVE  i \in Nat /\ (i < Len(Devices) => DeviceAt(i) \notin Taken(p))
    OBVIOUS
  <2>2. CASE i \in 0 .. Len(Devices) - 1 /\ DeviceAt(i) \notin Taken(p)
    BY <1>1, <2>2
  <2>3. CASE i \in ok /\ i >= Len(Devices)
    BY <1>1, <2>3
  <2>4. QED
    BY <1>2, <2>1, <2>2, <2>3
<1>7. pos' \in Nat /\ Seen(pos', start') /\ start' \in Nat
  <2>1. pos' \in Nat
    BY <1>1, <1>3
  <2>2. Seen(pos', start')
    BY <1>2, <2>1, WindowFacts
  <2>3. QED
    BY <2>1, <2>2 DEF Seen
<1>8. Taken(p)' = Taken(p)
  BY DEF Taken
<1>9. Offered'
  BY <1>2, <1>6, <1>8 DEF Offered
<1>10. Items' = Len(Devices) /\ pos' < Len(Devices)
  BY <1>1, <1>2, <1>3 DEF Items
<1>11. MenuTypes'
  BY <1>6, <1>7 DEF MenuTypes
<1>12. QED
  BY <1>5, <1>7, <1>9, <1>10, <1>11 DEF MenuInv

LEMMA FileShown ==
  ASSUME MenuTypes, NEW d \in Drive, NEW path, ShowFile(d, path),
         0 \in ok, TopItem(topPos') \in {"rx0", "rx1"}, DriveOf(TopItem(topPos')) = d,
         topPos' \in TopEnabled, Seen(topPos', topStart'),
         UNCHANGED <<on, ports, name>>, OnDrives(dir'), OnDrives(inDrive'),
         dir'[d] = path, inDrive'[d] = "none"
  PROVE  MenuInv'
<1> DEFINE entries == EntriesOf(path)
           named == {i \in DOMAIN entries : entries[i].name = name[d]}
<1>1. /\ active' = "file" /\ ok' = ok \cup 1 .. Len(entries) - 1
      /\ pos' = IF named = {} THEN 0 ELSE Max(named) - 1
      /\ start' = WindowFor(pos')
  BY DEF ShowFile
<1>2. Len(entries) \in Nat \ {0} /\ DOMAIN entries = 1 .. Len(entries)
  BY EntriesFacts
<1>3. Items' = Len(entries)
  BY <1>1 DEF Items
<1>4. named \subseteq 1 .. Len(entries)
  BY <1>2
<1>5. named # {} => Max(named) \in named
  <2>1. named \subseteq Nat /\ Len(entries) \in Nat /\ \A x \in named : x <= Len(entries)
    BY <1>2, <1>4
  <2> HIDE DEF named, entries
  <2>2. QED
    BY <2>1, Greatest
<1> HIDE DEF named, entries
<1>6. pos' \in Nat /\ pos' < Len(entries) /\ (pos' = 0 \/ pos' \in 1 .. Len(entries) - 1)
  <2>1. CASE named = {}
    BY <1>1, <1>2, <2>1
  <2>2. CASE named # {}
    <3>1. Max(named) \in 1 .. Len(entries) /\ pos' = Max(named) - 1
      BY <1>1, <1>4, <1>5, <2>2
    <3>2. QED
      BY <1>2, <3>1
  <2>3. QED
    BY <2>1, <2>2
<1>7. pos' \in ok' /\ 0 \in ok' /\ ok' \subseteq Nat
  <2>1. 1 .. Len(entries) - 1 \subseteq Nat /\ ok \subseteq Nat
    BY <1>2 DEF MenuTypes
  <2>2. QED
    BY <1>1, <1>6, <2>1, Zenon
<1>8. Seen(pos', start') /\ start' \in Nat
  <2>1. Seen(pos', start')
    BY <1>1, <1>6, WindowFacts
  <2>2. QED
    BY <2>1 DEF Seen
<1>9. Offered'
  BY <1>1, <1>7 DEF Offered
<1>10. MenuTypes'
  BY <1>6, <1>7, <1>8 DEF MenuTypes, OnDrives
<1>11. QED
  BY <1>3, <1>6, <1>7, <1>8, <1>9, <1>10 DEF MenuInv

LEMMA AboutShown ==
  ASSUME MenuTypes, ShowAbout, topPos' \in TopEnabled, Seen(topPos', topStart'),
         UNCHANGED <<on, ports, name, dir, inDrive>>
  PROVE  MenuInv'
<1>1. active' = "about" /\ ok' = ok \cup 0 .. 12 /\ pos' = 12 /\ start' = 0
  <2>1. AboutItems - 1 = 12
    BY DEF AboutItems
  <2>2. QED
    BY <2>1 DEF ShowAbout
<1>2. QED
  <2>1. Items' = 13 /\ Offered'
    BY <1>1 DEF Items, AboutItems, Offered
  <2>2. pos' \in ok' /\ ok' \subseteq Nat /\ pos' \in Nat /\ start' \in Nat
    BY <1>1 DEF MenuTypes
  <2>3. Seen(pos', start') /\ pos' < Items'
    BY <1>1, <2>1, WindowAssumption DEF Seen
  <2>4. MenuTypes'
    BY <2>2 DEF MenuTypes, OnDrives
  <2>5. QED
    BY <2>1, <2>2, <2>3, <2>4 DEF MenuInv

-----------------------------------------------------------------------------
(* The steps of the menu, when it is on.                                   *)
LEMMA UpKeeps == MenuInv /\ on /\ Up => MenuInv'
<1> SUFFICES ASSUME MenuInv, on, Up PROVE MenuInv'
  OBVIOUS
<1> DEFINE above == {i \in ok : i < pos}
<1>1. /\ MenuTypes /\ pos \in ok /\ pos < Items /\ Seen(pos, start) /\ Offered
      /\ pos \in Nat /\ start \in Nat /\ ok \subseteq Nat /\ Window \in Nat
      /\ topPos \in TopEnabled /\ Seen(topPos, topStart)
  BY WindowAssumption DEF MenuInv, MenuTypes
<1>2. /\ pos' = IF above = {} THEN pos ELSE Max(above)
      /\ start' = IF pos' < start THEN pos' ELSE start
      /\ UNCHANGED <<on, active, ok, topPos, topStart, ports, name, dir, inDrive>>
  BY DEF Up, floppies
<1>3. pos' \in ok /\ pos' <= pos
  <2>1. CASE above = {}
    BY <1>1, <1>2, <2>1
  <2>2. CASE above # {}
    <3>1. above \subseteq Nat /\ \A x \in above : x <= pos
      <4>1. \A x, y \in Nat : x < y => x <= y
        OBVIOUS
      <4>2. QED
        BY <1>1, <4>1, Zenon
    <3>2. Max(above) \in above
      <4> HIDE DEF above
      <4>1. QED
        BY <1>1, <2>2, <3>1, Greatest
    <3>3. QED
      BY <1>1, <1>2, <2>2, <3>2
  <2>3. QED
    BY <2>1, <2>2
<1> HIDE DEF above
<1>4. pos' \in Nat /\ start' \in Nat /\ Seen(pos', start')
  BY <1>1, <1>2, <1>3, WindowAssumption DEF Seen
<1>5. Items \in Nat /\ Items' = Items
  <2>1. Items' = Items
    BY <1>2 DEF Items
  <2>2. Items \in Nat
    BY <1>1, TopFacts, EntriesFacts, ConfigAssumption DEF Items, Offered, AboutItems
  <2>3. QED
    BY <2>1, <2>2
<1>6. pos' < Items'
  BY <1>1, <1>3, <1>4, <1>5
<1>7. Offered' /\ MenuTypes' /\ topPos' \in TopEnabled /\ Seen(topPos', topStart')
  BY <1>1, <1>2, <1>4 DEF Offered, MenuTypes, OnDrives, Taken
<1>8. QED
  BY <1>2, <1>3, <1>4, <1>6, <1>7 DEF MenuInv

LEMMA DownKeeps == MenuInv /\ on /\ Down => MenuInv'
<1> SUFFICES ASSUME MenuInv, on, Down PROVE MenuInv'
  OBVIOUS
<1> DEFINE below == {i \in ok : pos < i /\ i < Items}
<1>1. /\ MenuTypes /\ pos \in ok /\ pos < Items /\ Seen(pos, start) /\ Offered
      /\ pos \in Nat /\ start \in Nat /\ ok \subseteq Nat /\ Window \in Nat
      /\ topPos \in TopEnabled /\ Seen(topPos, topStart)
  BY WindowAssumption DEF MenuInv, MenuTypes
<1>2. /\ pos' = IF below = {} THEN pos ELSE Min(below)
      /\ start' = IF pos' > start + Window - 1 THEN pos' - Window + 1 ELSE start
      /\ UNCHANGED <<on, active, ok, topPos, topStart, ports, name, dir, inDrive>>
  BY DEF Down, floppies
<1>3. pos' \in ok /\ pos <= pos' /\ pos' < Items
  <2>1. CASE below = {}
    BY <1>1, <1>2, <2>1
  <2>2. CASE below # {}
    <3>1. below \subseteq Nat
      BY <1>1
    <3>2. Min(below) \in below
      <4> HIDE DEF below
      <4>1. QED
        BY <2>2, <3>1, Smallest
    <3>3. QED
      BY <1>1, <1>2, <2>2, <3>2
  <2>3. QED
    BY <2>1, <2>2
<1> HIDE DEF below
<1>4. pos' \in Nat /\ start' \in Nat /\ Seen(pos', start')
  BY <1>1, <1>2, <1>3, WindowAssumption DEF Seen
<1>5. Items' = Items
  BY <1>2 DEF Items
<1>6. Offered' /\ MenuTypes' /\ topPos' \in TopEnabled /\ Seen(topPos', topStart')
  BY <1>1, <1>2, <1>4 DEF Offered, MenuTypes, OnDrives, Taken
<1>7. QED
  BY <1>2, <1>3, <1>4, <1>5, <1>6 DEF MenuInv

(* What a step of the menu keeps: the invariant, and the names of the      *)
(* drives whose door is closed.                                            *)
DoorsKept == \A d \in Drive : name'[d] # name[d] => inDrive[d] = "none"

LEMMA EnterTopKeeps == MenuInv /\ on /\ active = "top" /\ EnterTop => MenuInv' /\ name' = name
<1> SUFFICES ASSUME MenuInv, on, active = "top", EnterTop PROVE MenuInv' /\ name' = name
  OBVIOUS
<1> DEFINE item == TopItem(pos)
<1>1. /\ MenuTypes /\ pos \in TopEnabled /\ Seen(pos, start) /\ 0 \in ok
      /\ ok \subseteq Nat /\ OnDrives(name) /\ OnDrives(dir) /\ OnDrives(inDrive)
  BY TopFacts DEF MenuInv, Offered, MenuTypes
<1>2. topPos' = pos /\ topStart' = start
  BY DEF EnterTop
<1>3. TopItem(topPos') = item /\ topPos' \in TopEnabled /\ Seen(topPos', topStart')
  BY <1>1, <1>2
<1>4. CASE item = "return" /\ on' = FALSE /\ UNCHANGED <<pos, start, ok, ports, floppies>>
  BY <1>1, <1>3, <1>4 DEF MenuInv, MenuTypes, OnDrives, floppies
<1>5. CASE ShowTop(pos, start) /\ UNCHANGED <<ports, floppies>>
  <2>1. MenuTypes'
    BY <1>1, <1>5, TopFacts DEF MenuTypes, ShowTop, OnDrives, floppies, Seen
  <2>2. QED
    BY <1>1, <1>3, <1>5, <2>1, TopShown DEF floppies
<1>6. CASE /\ item \in {"rx0", "rx1"}
           /\ inDrive' = [inDrive EXCEPT ![DriveOf(item)] = "none"]
           /\ ShowFile(DriveOf(item), dir[DriveOf(item)])
           /\ UNCHANGED <<on, overlayOn, full, ports, name, dir>>
  <2> DEFINE d == DriveOf(item)
  <2>1. d \in Drive
    BY DEF DriveOf, Drive
  <2> HIDE DEF item, d
  <2>2. DOMAIN inDrive = Drive
    BY <1>1 DEF OnDrives
  <2>3. inDrive' = [inDrive EXCEPT ![d] = "none"] /\ dir' = dir
    BY <1>6 DEF d
  <2>4. OnDrives(inDrive') /\ inDrive'[d] = "none" /\ OnDrives(dir') /\ dir'[d] = dir[d]
    BY <1>1, <2>1, <2>2, <2>3 DEF OnDrives
  <2>5. DriveOf(TopItem(topPos')) = d /\ TopItem(topPos') \in {"rx0", "rx1"}
    BY <1>3, <1>6 DEF d
  <2>6. ShowFile(d, dir[d]) /\ UNCHANGED <<on, ports, name>>
    BY <1>6 DEF d
  <2>7. QED
    BY <1>1, <1>3, <2>1, <2>4, <2>5, <2>6, FileShown
<1>7. CASE item \in Port /\ ShowSerial(item) /\ UNCHANGED <<on, overlayOn, full, ports, floppies>>
  BY <1>1, <1>3, <1>7, SerialShown DEF floppies
<1>8. CASE ShowAbout /\ UNCHANGED <<on, overlayOn, full, ports, floppies>>
  BY <1>1, <1>3, <1>8, AboutShown DEF floppies
<1>9. QED
  BY <1>4, <1>5, <1>6, <1>7, <1>8 DEF EnterTop

LEMMA EnterSerialKeeps == MenuInv /\ on /\ active = "serial" /\ EnterSerial => MenuInv' /\ name' = name
<1> SUFFICES ASSUME MenuInv, on, active = "serial", EnterSerial PROVE MenuInv' /\ name' = name
  OBVIOUS
<1> DEFINE p == TopItem(topPos)
           d == DeviceAt(pos)
<1>1. /\ MenuTypes /\ pos \in ok /\ pos < Items /\ p \in Port /\ pos \in Nat
      /\ \A i \in ok : i < Len(Devices) => DeviceAt(i) \notin Taken(p)
      /\ topPos \in TopEnabled /\ Seen(topPos, topStart) /\ OneEach(ports)
  BY DEF MenuInv, MenuTypes, Offered
<1>2. pos < Len(Devices)
  BY <1>1 DEF Items
<1>3. d \in Device /\ d \notin Taken(p)
  <2>1. pos + 1 \in DOMAIN Devices
    BY <1>1, <1>2, ConfigAssumption
  <2>2. QED
    BY <1>1, <1>2, <2>1 DEF DeviceAt, Device, ToSet
<1>4. ports' = [ports EXCEPT ![p] = d] /\ ShowTop(topPos, topStart) /\ UNCHANGED <<topPos, topStart, name, dir, inDrive>>
  BY DEF EnterSerial, floppies
<1> HIDE DEF p, d
<1>5. OneEach(ports')
  <2>1. ports \in [Port -> Device]
    BY <1>1 DEF OneEach
  <2>2. ports' \in [Port -> Device] /\ ports'[p] = d /\ \A q \in Port \ {p} : ports'[q] = ports[q]
    BY <1>1, <1>3, <1>4, <2>1
  <2>3. d = "null" \/ (d # La50Device /\ \A q \in Port \ {p} : ports[q] # d)
    BY <1>3 DEF Taken
  <2>4. ASSUME NEW q \in Port, NEW r \in Port, q # r, ports'[q] = ports'[r] PROVE ports'[q] = "null"
    BY <1>1, <2>2, <2>3, <2>4 DEF OneEach
  <2>5. ASSUME NEW q \in Port, ports'[q] = La50Device PROVE La50Device = "null"
    BY <1>1, <2>2, <2>3, <2>5 DEF OneEach
  <2>6. QED
    BY <2>2, <2>4, <2>5 DEF OneEach
<1>6. MenuTypes'
  BY <1>1, <1>4, <1>5, TopFacts DEF MenuTypes, ShowTop, OnDrives, Seen
<1>7. QED
  BY <1>1, <1>4, <1>6, TopShown

LEMMA EnterFileKeeps == MenuInv /\ on /\ active = "file" /\ EnterFile => MenuInv' /\ DoorsKept
<1> SUFFICES ASSUME MenuInv, on, active = "file", EnterFile PROVE MenuInv' /\ DoorsKept
  OBVIOUS
<1> DEFINE d == DriveOf(TopItem(topPos))
           entry == EntriesOf(dir[d])[pos + 1]
           path == NewDir(dir[d], entry.name)
           there == IF pos # 0 /\ inDrive[d] = "none" /\ entry.name \in Fits THEN entry.name ELSE inDrive[d]
<1>1. /\ MenuTypes /\ TopItem(topPos) \in {"rx0", "rx1"} /\ 0 \in ok /\ inDrive[d] = "none"
      /\ topPos \in TopEnabled /\ Seen(topPos, topStart)
      /\ OnDrives(name) /\ OnDrives(dir) /\ OnDrives(inDrive)
  BY DEF MenuInv, MenuTypes, Offered
<1>2. d \in Drive /\ DOMAIN name = Drive /\ DOMAIN dir = Drive /\ DOMAIN inDrive = Drive
  BY <1>1 DEF OnDrives, DriveOf, Drive
<1>3. UNCHANGED <<topPos, topStart, ports>>
  BY DEF EnterFile
<1>4. \/ dir' = [dir EXCEPT ![d] = path] /\ ShowFile(d, path) /\ UNCHANGED <<on, name, inDrive>>
      \/ /\ name' = [name EXCEPT ![d] = entry.name]
         /\ inDrive' = [inDrive EXCEPT ![d] = there]
         /\ ShowTop(topPos, topStart) /\ UNCHANGED dir
  BY <1>2 DEF EnterFile
<1>5. DriveOf(TopItem(topPos')) = d /\ TopItem(topPos') \in {"rx0", "rx1"}
      /\ topPos' \in TopEnabled /\ Seen(topPos', topStart')
  BY <1>1, <1>3
<1> HIDE DEF d, entry, path, there
<1>6. CASE dir' = [dir EXCEPT ![d] = path] /\ ShowFile(d, path) /\ UNCHANGED <<on, name, inDrive>>
  <2>1. OnDrives(dir') /\ dir'[d] = path /\ OnDrives(inDrive') /\ inDrive'[d] = "none"
    BY <1>1, <1>2, <1>6 DEF OnDrives
  <2>2. MenuInv'
    BY <1>1, <1>2, <1>3, <1>5, <1>6, <2>1, FileShown
  <2>3. QED
    BY <1>6, <2>2 DEF DoorsKept
<1>7. CASE /\ name' = [name EXCEPT ![d] = entry.name]
           /\ inDrive' = [inDrive EXCEPT ![d] = there]
           /\ ShowTop(topPos, topStart) /\ UNCHANGED dir
  <2>1. OnDrives(name') /\ OnDrives(inDrive') /\ OnDrives(dir') /\ \A e \in Drive \ {d} : name'[e] = name[e]
    BY <1>1, <1>2, <1>7 DEF OnDrives
  <2>2. MenuTypes'
    BY <1>1, <1>3, <1>7, <2>1, TopFacts DEF MenuTypes, ShowTop, Seen
  <2>3. MenuInv'
    BY <1>1, <1>3, <1>7, <2>2, TopShown
  <2>4. DoorsKept
    BY <1>1, <2>1 DEF DoorsKept
  <2>5. QED
    BY <2>3, <2>4
<1>8. QED
  BY <1>4, <1>6, <1>7

LEMMA EnterAboutKeeps == MenuInv /\ on /\ active = "about" /\ EnterAbout => MenuInv' /\ name' = name
<1> SUFFICES ASSUME MenuInv, on, active = "about", EnterAbout PROVE MenuInv' /\ name' = name
  OBVIOUS
<1>1. /\ MenuTypes /\ pos \in ok /\ pos < Items /\ Seen(pos, start) /\ Offered
      /\ topPos \in TopEnabled /\ Seen(topPos, topStart)
  BY DEF MenuInv
<1>2. UNCHANGED <<topPos, topStart, ports, name, dir, inDrive>>
  BY DEF EnterAbout, floppies
<1>3. CASE ShowTop(topPos, topStart)
  <2>1. MenuTypes'
    BY <1>1, <1>2, <1>3, TopFacts DEF MenuTypes, ShowTop, OnDrives, Seen
  <2>2. QED
    BY <1>1, <1>2, <1>3, <2>1, TopShown
<1>4. CASE UNCHANGED <<active, ok, pos, start, on, overlayOn>>
  <2>1. Items' = Items /\ MenuTypes' /\ Offered'
    BY <1>1, <1>2, <1>4 DEF Items, MenuTypes, OnDrives, Offered, Taken
  <2>2. QED
    BY <1>1, <1>2, <1>4, <2>1 DEF MenuInv
<1>5. QED
  BY <1>3, <1>4 DEF EnterAbout

LEMMA MenuEnterKeeps == MenuInv /\ on /\ Enter => MenuInv' /\ DoorsKept
<1>1. ASSUME name' = name PROVE DoorsKept
  BY <1>1 DEF DoorsKept
<1>2. QED
  BY <1>1, EnterTopKeeps, EnterSerialKeeps, EnterFileKeeps, EnterAboutKeeps DEF Enter

LEMMA MenuFilterKeeps == ASSUME NEW k, MenuInv, Filter(k) PROVE MenuInv' /\ DoorsKept
<1>1. CASE on /\ (Up \/ Down)
  <2>1. UNCHANGED name /\ MenuInv'
    BY <1>1, UpKeeps, DownKeeps DEF Up, Down, floppies
  <2>2. QED
    BY <2>1 DEF DoorsKept
<1>2. CASE on /\ Enter
  BY <1>2, MenuEnterKeeps
<1>3. CASE ShowTop(topPos, topStart) /\ topPos' = 0 /\ topStart' = 0 /\ UNCHANGED <<full, ports, floppies>>
  <2>1. MenuTypes /\ topPos \in TopEnabled /\ Seen(topPos, topStart)
    BY DEF MenuInv
  <2>2. MenuTypes'
    BY <1>3, <2>1, TopFacts DEF MenuTypes, ShowTop, OnDrives, floppies, Seen
  <2>3. topPos' \in TopEnabled /\ Seen(topPos', topStart')
    BY <1>3, TopFacts DEF Seen
  <2>4. QED
    BY <1>3, <2>1, <2>2, <2>3, TopShown DEF DoorsKept, floppies
<1>4. CASE UNCHANGED <<on, overlayOn, position, full, ports, floppies>>
  BY <1>4 DEF MenuInv, MenuTypes, OnDrives, Offered, Items, Taken, DoorsKept, position, floppies
<1>5. QED
  BY <1>1, <1>2, <1>3, <1>4 DEF Filter

LEMMA MenuResetKeeps == ASSUME NEW doors, MenuInv, MenuReset(doors) PROVE MenuInv'
<1>1. OneEach(PortConfig) /\ OnDrives(FileConfig) /\ OnDrives(DirConfig)
  BY ConfigAssumption, FilesAssumption DEF OneEach, OnDrives
<1>2. OnDrives(inDrive')
  BY DEF MenuReset, OnDrives
<1>3. on' = FALSE /\ ports' = PortConfig /\ name' = FileConfig /\ dir' = DirConfig /\ UNCHANGED position
  BY DEF MenuReset
<1>4. QED
  BY <1>1, <1>2, <1>3 DEF MenuInv, MenuTypes, position

LEMMA MenuAtFirst == MenuInit => MenuInv
<1> SUFFICES ASSUME MenuInit PROVE MenuInv
  OBVIOUS
<1>1. OneEach(PortConfig) /\ OnDrives(FileConfig) /\ OnDrives(DirConfig)
  BY ConfigAssumption, FilesAssumption DEF OneEach, OnDrives
<1>2. OnDrives(inDrive)
  BY DEF MenuInit, OnDrives
<1>3. /\ on = FALSE /\ pos = 0 /\ start = 0 /\ ok = {} /\ topPos = 0 /\ topStart = 0
      /\ ports = PortConfig /\ name = FileConfig /\ dir = DirConfig
  BY DEF MenuInit
<1>4. Seen(0, 0)
  BY TopFacts DEF Seen
<1>5. QED
  BY <1>1, <1>2, <1>3, <1>4, TopFacts DEF MenuInv, MenuTypes

(* Each step of the desk filters a key, starts the desk anew or leaves the *)
(* menu alone.                                                             *)
LEMMA DeskOnMenu ==
  [DeskNext]_deskVars => (\E k : Filter(k)) \/ (RestartDesk /\ MenuReset(inDrive)) \/ UNCHANGED menuVars
<1> SUFFICES ASSUME [DeskNext]_deskVars
             PROVE  (\E k : Filter(k)) \/ (RestartDesk /\ MenuReset(inDrive)) \/ UNCHANGED menuVars
  OBVIOUS
<1>1. CASE UNCHANGED deskVars
  BY <1>1 DEF deskVars
<1>2. CASE DeskStep
  <2>1. ASSUME NEW k \in HostKey, TypeAtWindow(k) PROVE \E j : Filter(j)
    BY <2>1 DEF TypeAtWindow
  <2>2. ASSUME NEW k, NEW e, Receive(k, e) PROVE \E j : Filter(j)
    BY <2>2 DEF Receive
  <2>3. CASE PollTyped
    BY <2>2, <2>3 DEF PollTyped
  <2>4. CASE PollQueued
    BY <2>2, <2>4 DEF PollQueued
  <2>5. ASSUME NEW k \in LineKey, PollLine(k) PROVE \E j : Filter(j)
    BY <2>2, <2>5 DEF PollLine
  <2>6. CASE RestartDesk
    BY <2>6 DEF RestartDesk
  <2>7. CASE PollOther \/ (\E b \in Command : Send(b)) \/ Exit
    BY <2>7 DEF PollOther, Send, Exit
  <2>8. QED
    BY <1>2, <2>1, <2>3, <2>4, <2>5, <2>6, <2>7 DEF DeskStep
<1>3. QED
  BY <1>1, <1>2 DEF DeskNext

LEMMA MenuStep == MenuInv /\ [DeskNext]_deskVars => MenuInv' /\ (DoorsKept \/ RestartDesk)
<1> SUFFICES ASSUME MenuInv, [DeskNext]_deskVars PROVE MenuInv' /\ (DoorsKept \/ RestartDesk)
  OBVIOUS
<1>1. ASSUME UNCHANGED menuVars PROVE MenuInv' /\ DoorsKept
  BY <1>1
  DEF MenuInv, MenuTypes, OnDrives, Offered, Items, Taken, DoorsKept, menuVars, position, floppies
<1>2. QED
  BY <1>1, DeskOnMenu, MenuFilterKeeps, MenuResetKeeps

(* For any configuration that gives a device to one port, any files and    *)
(* directories, keys and commands: a device stays at one port, the menu    *)
(* stands on an item that counts and is seen, and the file of a drive      *)
(* changes only while its door is open, or when a reset of the machine     *)
(* reads the configuration again.                                          *)
THEOREM MenuAlwaysKept == DeskSpec => []PortsExclusive /\ DoorOpenWhenChanged
<1>1. DeskInit => MenuInv
  BY MenuAtFirst DEF DeskInit
<1>2. MenuInv => PortsExclusive
  BY DEF MenuInv, MenuTypes, OneEach, Seen, PortsExclusive
<1>3. MenuInv /\ [DeskNext]_deskVars => [RespectsDoors]_deskVars
  BY MenuStep DEF RespectsDoors, DoorsKept
<1>4. MenuInv /\ [DeskNext]_deskVars => MenuInv'
  BY MenuStep
<1>5. QED
  BY <1>1, <1>2, <1>3, <1>4, PTL DEF DeskSpec, DoorOpenWhenChanged

-----------------------------------------------------------------------------
(* The keyboard.  In its ring, while a port has it, are what is left of a  *)
(* wrapped key, and after that the answers.                                *)
Made == {"LT"} \cup {WithCtrl[k] : k \in DOMAIN WithCtrl}
Pressed == {"SHIFT", "CTRL"}
Wrapped ==
  {<<>>} \cup {<<m>> : m \in Pressed} \cup {<<x, m>> : x \in Made, m \in Pressed}
Code == Made \cup Pressed \cup Reply
Plugged == "lk201" \in {ports[p] : p \in Port}
Replies(s) == s \in Seq(Reply) /\ Len(s) <= 4

(* The ring: the machine is about to read the wrapped key, its modifier,   *)
(* or no key.                                                              *)
RingOf(r) ==
  /\ fifo = r \o owed
  /\ due # <<>> => Len(r) = 2 /\ due = <<r[1], {}>>
  /\ trusted /\ ports["kb"] = "lk201" =>
       IF r = <<>> THEN down = Held ELSE Held = {r[Len(r)]} /\ down = {}

KeyInv ==
  /\ misread = FALSE
  /\ due # <<>> => trusted /\ ports["kb"] = "lk201"
  /\ Plugged => Replies(owed) /\ \E r \in Wrapped : RingOf(r)

LEMMA KeyNames ==
  /\ Made \cap (Modifiers \cup Reply) = {} /\ Pressed \subseteq Modifiers
  /\ Pressed \cap Reply = {} /\ Modifiers \cap Reply = {}
  /\ \A x \in Made : x \notin Pressed \cup Reply
  /\ \A k \in Made \cup Pressed \cup Reply :
       k \notin Arrow \cup Confirm \cup {"REPEAT", "HOLD", "ALLUPS"}
<1>1. Made = {"LT", "PF1", "PF2", "PF3", "PF4", "F17", "F18", "F19", "F20"}
  BY DEF Made, WithCtrl
<1>2. QED
  BY <1>1 DEF Modifiers, Pressed, Reply, Arrow, Confirm

LEMMA WrappedFacts ==
  ASSUME NEW r \in Wrapped
  PROVE  /\ r \in Seq(Code) /\ Len(r) \in 0 .. 2 /\ Len(r) \in Nat /\ (r = <<>> <=> Len(r) = 0)
         /\ Len(r) > 0 => r[Len(r)] \in Pressed /\ Tail(r) \in Wrapped /\ Head(r) = r[1]
         /\ Len(r) = 1 => Tail(r) = <<>> /\ r[1] \in Pressed
         /\ Len(r) = 2 => r[1] \in Made /\ Tail(r) # <<>> /\ Len(Tail(r)) = 1 /\ Tail(r)[1] = r[2]
<1>0. Made \subseteq Code /\ Pressed \subseteq Code
  BY DEF Code
<1>1. CASE r = <<>>
  BY <1>1
<1>2. ASSUME NEW m \in Pressed, r = <<m>>
      PROVE  /\ r \in Seq(Code) /\ Len(r) = 1 /\ r # <<>> /\ r[1] = m
             /\ Tail(r) = <<>> /\ Head(r) = m
  BY <1>0, <1>2
<1>3. ASSUME NEW x \in Made, NEW m \in Pressed, r = <<x, m>>
      PROVE  /\ r \in Seq(Code) /\ Len(r) = 2 /\ r # <<>> /\ r[1] = x /\ r[2] = m
             /\ Tail(r) = <<m>> /\ Tail(r) # <<>> /\ Head(r) = x /\ Len(Tail(r)) = 1 /\ Tail(r)[1] = m
  BY <1>0, <1>3
<1>4. \A m \in Pressed : <<m>> \in Wrapped
  BY DEF Wrapped
<1>5. <<>> \in Wrapped
  BY DEF Wrapped
<1>6. r = <<>> \/ (\E m \in Pressed : r = <<m>>) \/ (\E x \in Made, m \in Pressed : r = <<x, m>>)
  BY DEF Wrapped
<1>7. CASE \E m \in Pressed : r = <<m>>
  <2> PICK m \in Pressed : r = <<m>>
    BY <1>7
  <2>1. /\ r \in Seq(Code) /\ Len(r) = 1 /\ r # <<>> /\ r[1] = m
        /\ Tail(r) = <<>> /\ Head(r) = m
    BY <1>2
  <2>2. QED
    BY <1>5, <2>1
<1>8. CASE \E x \in Made, m \in Pressed : r = <<x, m>>
  <2> PICK x \in Made, m \in Pressed : r = <<x, m>>
    BY <1>8
  <2>1. /\ r \in Seq(Code) /\ Len(r) = 2 /\ r # <<>> /\ r[1] = x /\ r[2] = m
        /\ Tail(r) = <<m>> /\ Tail(r) # <<>> /\ Head(r) = x /\ Len(Tail(r)) = 1 /\ Tail(r)[1] = m
    BY <1>3
  <2>2. Tail(r) \in Wrapped
    BY <1>4, <2>1
  <2>3. QED
    BY <2>1, <2>2
<1>9. QED
  BY <1>1, <1>6, <1>7, <1>8

(* What follows a code is a wrapped key, of the modifier that is held.     *)
LEMMA RestFacts ==
  ASSUME NEW k
  PROVE  /\ Rest(k) \in Wrapped
         /\ Rest(k) # <<>> =>
              /\ k \notin Modifiers \cup Reply
              /\ First(k) = "ALLUPS" /\ Len(Rest(k)) = 2 /\ Rest(k)[2] \in Held
         /\ Rest(k) = <<>> => First(k) = k \/ (k = "PERIOD" /\ First(k) = "LT")
<1>1. CASE k = "COMMA" /\ shift
  <2>1. Rest(k) = <<"LT", "SHIFT">> /\ "LT" \in Made /\ "SHIFT" \in Pressed
    BY <1>1 DEF Rest, WithCtrl, Made, Pressed
  <2>2. First(k) = "ALLUPS" /\ "SHIFT" \in Held
    BY <1>1, <2>1 DEF First, Held
  <2>3. k \notin Modifiers \cup Reply
    BY <1>1 DEF Modifiers, Reply
  <2>4. QED
    BY <2>1, <2>2, <2>3 DEF Wrapped
<1>2. CASE k \in DOMAIN WithCtrl /\ ctrl
  <2>0. k # "COMMA" /\ k # "PERIOD" /\ k \notin Modifiers \cup Reply
    BY <1>2 DEF WithCtrl, Modifiers, Reply
  <2>1. Rest(k) = <<WithCtrl[k], "CTRL">> /\ WithCtrl[k] \in Made /\ "CTRL" \in Pressed
    BY <1>2, <2>0 DEF Rest, Made, Pressed
  <2>2. First(k) = "ALLUPS" /\ "CTRL" \in Held
    BY <1>2, <2>0, <2>1 DEF First, Held
  <2> HIDE DEF Modifiers
  <2>3. QED
    BY <2>0, <2>1, <2>2 DEF Wrapped
<1>3. CASE ~(k = "COMMA" /\ shift) /\ ~(k \in DOMAIN WithCtrl /\ ctrl)
  <2>1. Rest(k) = <<>>
    BY <1>3 DEF Rest
  <2>2. First(k) = k \/ (k = "PERIOD" /\ First(k) = "LT")
    BY <2>1 DEF First
  <2>3. QED
    BY <2>1, <2>2 DEF Wrapped
<1>4. QED
  BY <1>1, <1>2, <1>3

(* The ring is never full.                                                 *)
LEMMA RingHoldsAll ==
  ASSUME NEW f \in Seq(Code), NEW s \in Seq(Code), Len(f) <= 2, Len(s) <= 4
  PROVE  FifoPutAll(f, s) = f \o s
<1> DEFINE t == f \o s
<1>2. t \in Seq(Code) /\ Len(t) = Len(f) + Len(s)
  BY ConcatProperties
<1> HIDE DEF t
<1>3. Len(t) \in Nat /\ Depth \in Nat /\ Len(t) < Depth
  BY <1>2, KbdAssumption
<1>4. \A n, k \in Nat : n < k => n \div k = 0
  OBVIOUS
<1>5. Len(t) \div Depth = 0
  BY <1>3, <1>4
<1>6. Depth * 0 + 1 = 1
  BY <1>3
<1>7. SubSeq(t, Depth * (Len(t) \div Depth) + 1, Len(t)) = t
  BY <1>2, <1>5, <1>6
<1>8. QED
  BY <1>7 DEF FifoPutAll, t

LEMMA RepliesAreCodes == ASSUME NEW o, Replies(o) PROVE o \in Seq(Code) /\ Len(o) \in Nat /\ Len(o) <= 4
<1>1. Reply \subseteq Code
  BY DEF Code
<1>2. QED
  BY <1>1 DEF Replies

LEMMA TypedFits ==
  ASSUME NEW r \in Wrapped, NEW o, Replies(o), \E s \in Wrapped : <<>> = s \o o
  PROVE  FifoPutAll(<<>>, r) = r /\ o = <<>> /\ r \o o = r
<1>1. r \in Seq(Code) /\ Len(r) <= 4
  BY WrappedFacts
<1>2. FifoPutAll(<<>>, r) = <<>> \o r
  <2>1. <<>> \in Seq(Code) /\ Len(<<>>) <= 2
    OBVIOUS
  <2>2. QED
    BY <1>1, <2>1, RingHoldsAll
<1>3. o = <<>>
  <2>1. PICK s \in Wrapped : <<>> = s \o o
    OBVIOUS
  <2>2. s \in Seq(Code) /\ o \in Seq(Code)
    BY WrappedFacts, RepliesAreCodes
  <2>3. Len(s \o o) = Len(s) + Len(o) /\ Len(s) \in Nat /\ Len(o) \in Nat
    BY <2>2, ConcatProperties, LenProperties
  <2>4. Len(s \o o) = 0
    <3>1. Len(<<>>) = 0
      OBVIOUS
    <3>2. QED
      BY <2>1, <3>1
  <2>5. QED
    BY <2>2, <2>3, <2>4
<1>4. QED
  BY <1>1, <1>2, <1>3

LEMMA EmptyRing ==
  ASSUME NEW r \in Wrapped, NEW o, Replies(o), <<>> = r \o o
  PROVE  r = <<>> /\ o = <<>>
<1>1. r \in Seq(Code) /\ o \in Seq(Code) /\ Len(r) \in Nat /\ Len(o) \in Nat
  BY WrappedFacts, RepliesAreCodes
<1>2. Len(r \o o) = Len(r) + Len(o)
  BY <1>1, ConcatProperties
<1>3. Len(r \o o) = 0
  <2>1. Len(<<>>) = 0
    OBVIOUS
  <2>2. QED
    BY <2>1
<1>4. Len(r) = 0 /\ Len(o) = 0
  BY <1>1, <1>2, <1>3
<1>5. QED
  BY <1>1, <1>4

LEMMA TypedRing ==
  ASSUME NEW k, GiveTyped(k), owed' = <<>>, Rest(k) \in Wrapped
  PROVE  fifo' = Rest(k) \o owed'
<1>1. fifo' = FifoPutAll(<<>>, Rest(k))
  BY DEF GiveTyped
<1>2. Replies(<<>>) /\ <<>> \in Wrapped
  BY DEF Replies, Wrapped
<1>3. <<>> = <<>> \o <<>>
  OBVIOUS
<1>4. QED
  BY <1>1, <1>2, <1>3, TypedFits

(* The first code is taken out of the ring.                                *)
LEMMA RingTaken ==
  ASSUME NEW r \in Wrapped, Replies(owed), fifo = r \o owed, fifo # <<>>
  PROVE  /\ r # <<>> => Head(fifo) = r[1] /\ Tail(fifo) = Tail(r) \o owed
         /\ r = <<>> => /\ owed # <<>> /\ Head(fifo) \in Reply
                        /\ Replies(Tail(owed)) /\ Tail(fifo) = <<>> \o Tail(owed)
<1>1. r \in Seq(Code) /\ owed \in Seq(Code) /\ owed \in Seq(Reply) /\ Len(owed) <= 4
  BY WrappedFacts, RepliesAreCodes DEF Replies
<1>2. CASE r # <<>>
  BY <1>1, <1>2
<1>3. CASE r = <<>>
  <2>1. fifo = owed /\ owed # <<>>
    BY <1>1, <1>3
  <2>2. Tail(owed) \in Seq(Reply) /\ Len(Tail(owed)) <= 4 /\ Head(owed) \in Reply
        /\ Tail(owed) = <<>> \o Tail(owed)
    BY <1>1, <2>1
  <2>3. QED
    BY <1>3, <2>1, <2>2 DEF Replies
<1>4. QED
  BY <1>2, <1>3

(* No code of the ring means anything to the menu.                         *)
LEMMA QueuedPasses ==
  ASSUME NEW c \in Made \cup Pressed \cup Reply
  PROVE  ~Swallows(c) /\ ~Assigns(c) /\ (Main(c) <=> c \in Made)
<1>1. c \notin Arrow \cup Confirm \cup {"REPEAT", "HOLD", "ALLUPS"}
  BY KeyNames
<1>2. Meant(c) = c
  BY <1>1 DEF Meant
<1>3. Main(c) <=> c \in Made
  BY KeyNames DEF Main
<1>4. QED
  BY <1>1, <1>2, <1>3 DEF Swallows, Assigns

(* The ports change only when one is assigned a device; the keyboard is    *)
(* plugged in where it was, unless it is the one assigned.                 *)
LEMMA PortsFilter ==
  ASSUME MenuInv, NEW k, Filter(k)
  PROVE  /\ ~Assigns(k) => ports' = ports
         /\ Assigns(k) /\ ~Exchange(k) /\ Plugged' => Plugged
<1>1. CASE on /\ Meant(k) \in Confirm /\ active = "serial" /\ EnterSerial
  <2>1. Assigns(k) /\ ports' = [ports EXCEPT ![TopItem(topPos)] = DeviceAt(pos)]
    BY <1>1 DEF Assigns, EnterSerial
  <2>2. ports \in [Port -> Device]
    BY DEF MenuInv, MenuTypes, OneEach
  <2>3. ASSUME DeviceAt(pos) # "lk201", NEW p \in Port, ports'[p] = "lk201" PROVE ports[p] = "lk201"
    BY <2>1, <2>2, <2>3
  <2>4. QED
    BY <2>1, <2>3 DEF Exchange, Plugged
<1>2. CASE UNCHANGED ports
  BY <1>2 DEF Plugged
<1>3. Up \/ Down \/ EnterTop \/ EnterFile \/ EnterAbout => UNCHANGED ports
  BY DEF Up, Down, EnterTop, EnterFile, EnterAbout
<1>4. Enter => (active = "serial" /\ EnterSerial) \/ EnterTop \/ EnterFile \/ EnterAbout
  BY DEF Enter
<1>5. QED
  BY <1>1, <1>2, <1>3, <1>4 DEF Filter

-----------------------------------------------------------------------------
(* The steps.  The machine reads a code of the ring.                       *)
LEMMA QueuedReceived ==
  ASSUME MenuInv, NEW c \in Made \cup Pressed \cup Reply, Receive(c, due)
  PROVE  /\ ports' = ports
         /\ down' = IF c \in Pressed THEN down \cup {c} ELSE down
         /\ misread' = (c \in Made /\ due \notin {<<>>, <<c, down>>})
         /\ due' = IF c \in Made THEN <<>> ELSE due
<1>1. ~Swallows(c) /\ ~Assigns(c) /\ (Main(c) <=> c \in Made)
  BY QueuedPasses
<1>2. /\ Filter(c)
      /\ misread' = (Main(c) /\ due \notin {<<>>, <<c, down>>})
      /\ due' = IF Main(c) THEN <<>> ELSE due
      /\ down' = CASE c = "ALLUPS" -> {}
                   [] c \in {"SHIFT", "CTRL"} -> down \cup {c}
                   [] OTHER -> down
  BY <1>1 DEF Receive
<1>3. c # "ALLUPS"
  BY KeyNames
<1>4. down' = IF c \in Pressed THEN down \cup {c} ELSE down
  BY <1>2, <1>3 DEF Pressed
<1>5. ports' = ports
  BY <1>1, <1>2, PortsFilter
<1>6. QED
  BY <1>1, <1>2, <1>4, <1>5, Zenon

LEMMA PollQueuedKeeps == ASSUME MenuInv, KeyInv, PollQueued PROVE KeyInv'
<1> DEFINE c == Head(fifo)
<1>1. Plugged /\ ports["kb"] = "lk201"
  BY DEF PollQueued, Plugged, Port
<1>2. PICK r \in Wrapped : RingOf(r)
  BY <1>1 DEF KeyInv
<1>3. /\ fifo # <<>> /\ fifo' = Tail(fifo) /\ Receive(c, due) /\ trusted' = trusted /\ Held' = Held
      /\ owed' = IF c \in Reply /\ owed # <<>> THEN Tail(owed) ELSE owed
  BY DEF PollQueued, GiveQueued, Held
<1>4. /\ fifo = r \o owed /\ Replies(owed) /\ misread = FALSE
      /\ due # <<>> => trusted /\ Len(r) = 2 /\ due = <<r[1], {}>>
      /\ trusted => IF r = <<>> THEN down = Held ELSE Held = {r[Len(r)]} /\ down = {}
  BY <1>1, <1>2 DEF KeyInv, RingOf
<1>5. CASE r = <<>>
  <2>1. c \in Reply /\ owed # <<>> /\ Replies(Tail(owed)) /\ Tail(fifo) = <<>> \o Tail(owed)
    BY <1>3, <1>4, <1>5, RingTaken
  <2> HIDE DEF c
  <2>2. c \notin Made /\ c \notin Pressed
    BY <2>1, KeyNames
  <2>3. ports' = ports /\ down' = down /\ misread' = FALSE /\ due' = due
    BY <1>3, <2>1, <2>2, QueuedReceived
  <2>4. due = <<>>
    BY <1>4, <1>5
  <2>5. owed' = Tail(owed) /\ fifo' = <<>> \o owed'
    BY <1>3, <2>1
  <2>6. RingOf(<<>>)'
    BY <1>1, <1>3, <1>4, <1>5, <2>3, <2>4, <2>5 DEF RingOf
  <2>7. <<>> \in Wrapped /\ Replies(owed')
    BY <2>1, <2>5 DEF Wrapped
  <2>8. QED
    BY <2>3, <2>4, <2>6, <2>7 DEF KeyInv, Replies
<1>6. CASE Len(r) = 1
  <2>1. c = r[1] /\ Tail(fifo) = Tail(r) \o owed /\ Tail(r) = <<>> /\ r[1] \in Pressed /\ r # <<>>
    BY <1>3, <1>4, <1>6, RingTaken, WrappedFacts
  <2> HIDE DEF c
  <2>2. c \notin Made /\ c \in Pressed /\ c \notin Reply
    BY <2>1, KeyNames
  <2>3. ports' = ports /\ down' = down \cup {c} /\ misread' = FALSE /\ due' = due
    BY <1>3, <2>1, <2>2, QueuedReceived
  <2>4. due = <<>> /\ owed' = owed
    BY <1>3, <1>4, <1>6, <2>2
  <2>5. RingOf(<<>>)'
    <3>1. fifo' = <<>> \o owed'
      BY <1>3, <2>1, <2>4
    <3>2. trusted' => down' = Held'
      BY <1>3, <1>4, <1>6, <2>1, <2>3
    <3>3. QED
      BY <2>3, <2>4, <3>1, <3>2 DEF RingOf
  <2>6. <<>> \in Wrapped
    BY DEF Wrapped
  <2>7. QED
    BY <1>4, <2>3, <2>4, <2>5, <2>6 DEF KeyInv, Replies
<1>7. CASE Len(r) = 2
  <2>0. /\ r # <<>> /\ r[1] \in Made /\ r[2] \in Pressed
        /\ Tail(r) \in Wrapped /\ Len(Tail(r)) = 1 /\ Tail(r)[1] = r[2] /\ Tail(r) # <<>>
    <3>1. r # <<>> /\ r[1] \in Made /\ r[Len(r)] \in Pressed /\ Tail(r) \in Wrapped
          /\ Len(Tail(r)) = 1 /\ Tail(r)[1] = r[2] /\ Tail(r) # <<>>
      BY <1>7, WrappedFacts
    <3>2. QED
      BY <1>7, <3>1
  <2>1. c = r[1] /\ Tail(fifo) = Tail(r) \o owed
    BY <1>3, <1>4, <2>0, RingTaken
  <2> HIDE DEF c
  <2>2. c \in Made /\ c \notin Pressed /\ c \notin Reply
    BY <2>0, <2>1, KeyNames
  <2>3. ports' = ports /\ down' = down /\ misread' = (due \notin {<<>>, <<c, down>>}) /\ due' = <<>>
    BY <1>3, <2>1, <2>2, QueuedReceived
  <2>4. misread' = FALSE
    <3>1. due = <<>> \/ due = <<c, down>>
      BY <1>4, <2>0, <2>1
    <3>2. QED
      BY <2>3, <3>1
  <2>5. owed' = owed
    BY <1>3, <2>2
  <2>6. RingOf(Tail(r))'
    <3>1. fifo' = Tail(r) \o owed'
      BY <1>3, <2>1, <2>5
    <3>2. trusted' => Held' = {Tail(r)[Len(Tail(r))]} /\ down' = {}
      BY <1>3, <1>4, <1>7, <2>0, <2>3
    <3>3. QED
      BY <2>0, <2>3, <3>1, <3>2 DEF RingOf
  <2>7. QED
    BY <1>4, <2>0, <2>3, <2>4, <2>5, <2>6 DEF KeyInv, Replies
<1>8. QED
  BY <1>5, <1>6, <1>7, WrappedFacts

(* The keyboard on another port: nothing is claimed of what is read there, *)
(* but its ring is as before.                                              *)
LEMMA PollOtherKeeps == ASSUME MenuInv, KeyInv, PollOther PROVE KeyInv'
<1>1. OneEach(ports)
  BY DEF MenuInv, MenuTypes
<1>2. Plugged /\ ports["kb"] # "lk201"
  <2>1. PICK p \in {"com", "ptr"} : ports[p] = "lk201"
    BY DEF PollOther
  <2>2. p \in Port /\ "kb" \in Port /\ p # "kb" /\ "lk201" # "null"
    BY DEF Port
  <2>3. QED
    BY <1>1, <2>1, <2>2 DEF OneEach, Plugged
<1>3. PICK r \in Wrapped : RingOf(r)
  BY <1>2 DEF KeyInv
<1>4. /\ ports' = ports /\ misread' = misread /\ due' = <<>> /\ misread = FALSE
      /\ fifo = r \o owed /\ Replies(owed)
  BY <1>2, <1>3 DEF PollOther, KeyInv, RingOf, menuVars
<1>5. SUFFICES \E s \in Wrapped : fifo' = s \o owed' /\ Replies(owed')
  <2>1. ASSUME NEW s \in Wrapped, fifo' = s \o owed', Replies(owed') PROVE KeyInv'
    <3>1. RingOf(s)'
      BY <1>2, <1>4, <2>1 DEF RingOf
    <3>2. QED
      BY <1>4, <2>1, <3>1 DEF KeyInv, Replies
  <2>2. QED
    BY <2>1
<1>6. CASE GiveQueued /\ owed' = IF Head(fifo) \in Reply /\ owed # <<>> THEN Tail(owed) ELSE owed
  <2>1. fifo # <<>> /\ fifo' = Tail(fifo)
    BY <1>6 DEF GiveQueued
  <2>2. CASE r = <<>>
    <3>1. owed # <<>> /\ Head(fifo) \in Reply /\ Replies(Tail(owed)) /\ Tail(fifo) = <<>> \o Tail(owed)
      BY <1>4, <2>1, <2>2, RingTaken
    <3>2. <<>> \in Wrapped
      BY DEF Wrapped
    <3>3. QED
      BY <1>6, <2>1, <3>1, <3>2 DEF Replies
  <2>3. CASE r # <<>>
    <3>1. Head(fifo) = r[1] /\ Tail(fifo) = Tail(r) \o owed
      BY <1>4, <2>1, <2>3, RingTaken
    <3>2. Tail(r) \in Wrapped /\ r[1] \in Made \cup Pressed
      BY <2>3, WrappedFacts
    <3>3. owed' = owed
      BY <1>6, <3>1, <3>2, KeyNames
    <3>4. QED
      BY <1>4, <2>1, <3>1, <3>2, <3>3 DEF Replies
  <2>4. QED
    BY <2>2, <2>3
<1>7. ASSUME GiveTyped(Head(xq)), UNCHANGED owed PROVE \E s \in Wrapped : fifo' = s \o owed' /\ Replies(owed')
  <2>1. fifo = <<>> /\ fifo' = FifoPutAll(<<>>, Rest(Head(xq)))
    BY <1>7 DEF GiveTyped
  <2>2. Rest(Head(xq)) \in Wrapped
    BY RestFacts
  <2>3. fifo' = Rest(Head(xq)) /\ owed = <<>>
    BY <1>4, <2>1, <2>2, TypedFits
  <2>4. fifo' = Rest(Head(xq)) \o owed'
    BY <1>7, <2>2, <2>3, WrappedFacts
  <2>5. QED
    BY <1>4, <1>7, <2>2, <2>4 DEF Replies
<1>8. QED
  BY <1>6, <1>7 DEF PollOther

LEMMA AnswersFacts ==
  ASSUME NEW b \in DOMAIN Answers
  PROVE  Answers[b] \in Seq(Reply) /\ Len(Answers[b]) <= 4
<1>1. \A w, x, y, z \in Reply :
        /\ <<w>> \in Seq(Reply) /\ Len(<<w>>) <= 4
        /\ <<w, x>> \in Seq(Reply) /\ Len(<<w, x>>) <= 4
        /\ <<w, x, y, z>> \in Seq(Reply) /\ Len(<<w, x, y, z>>) <= 4
  OBVIOUS
<1>0. "LCK_ACK" \in Reply /\ "IDF" \in Reply /\ "IDH" \in Reply /\ "NOERR" \in Reply /\ "KB" \in Reply
  BY DEF Reply
<1>2. b \in {"LCK", "ID", "DECTOUCH", "PWRUP"}
  BY DEF Answers
<1>3. /\ Answers["LCK"] = <<"LCK_ACK">> /\ Answers["ID"] = <<"IDF", "IDH">>
      /\ Answers["DECTOUCH"] = <<"KB">> /\ Answers["PWRUP"] = <<"IDF", "IDH", "NOERR", "NOERR">>
  BY DEF Answers
<1>4. CASE b = "LCK"
  BY <1>0, <1>1, <1>3, <1>4
<1>5. CASE b = "ID"
  BY <1>0, <1>1, <1>3, <1>5
<1>6. CASE b = "DECTOUCH"
  BY <1>0, <1>1, <1>3, <1>6
<1>7. CASE b = "PWRUP"
  BY <1>0, <1>1, <1>3, <1>7
<1>8. QED
  BY <1>2, <1>4, <1>5, <1>6, <1>7

(* A command: its answers follow what is left of a key.                    *)
LEMMA CommandKeeps == ASSUME MenuInv, KeyInv, NEW b \in Command, Send(b) PROVE KeyInv'
<1>1. Plugged
  BY DEF Send, Plugged
<1>2. PICK r \in Wrapped : RingOf(r)
  BY <1>1 DEF KeyInv
<1>3. /\ UNCHANGED <<ports, due, misread, down, trusted>> /\ Held' = Held
      /\ misread = FALSE /\ fifo = r \o owed /\ Replies(owed)
  BY <1>1, <1>2 DEF Send, Put, KeyInv, RingOf, menuVars, Held
<1>4. SUFFICES fifo' = r \o owed' /\ Replies(owed')
  <2>1. RingOf(r)'
    BY <1>2, <1>3, <1>4 DEF RingOf
  <2>2. QED
    BY <1>3, <1>4, <2>1 DEF KeyInv, Replies, Plugged
<1>5. CASE ~param /\ b \in DOMAIN Answers
  <2>1. owed = <<>> /\ owed' = owed \o Answers[b] /\ fifo' = FifoPutAll(fifo, Answers[b])
    BY <1>5 DEF Send, Put
  <2>2. Answers[b] \in Seq(Reply) /\ Len(Answers[b]) <= 4
    BY <1>5, AnswersFacts
  <2>3. fifo = r /\ owed' = Answers[b]
    BY <1>3, <2>1, <2>2, WrappedFacts
  <2>4. fifo' = r \o Answers[b]
    <3>1. Answers[b] \in Seq(Code)
      BY <2>2, RepliesAreCodes DEF Replies
    <3>2. r \in Seq(Code) /\ Len(r) <= 2
      BY WrappedFacts
    <3>3. QED
      BY <2>1, <2>2, <2>3, <3>1, <3>2, RingHoldsAll
  <2>5. QED
    BY <2>2, <2>3, <2>4 DEF Replies
<1>6. CASE ~(~param /\ b \in DOMAIN Answers)
  <2>1. owed' = owed /\ fifo' = fifo
    BY <1>6 DEF Send, Put
  <2>2. QED
    BY <1>3, <2>1 DEF Replies
<1>7. QED
  BY <1>5, <1>6

(* A key of the host that goes to the menu, with no wrapped key under way  *)
(* or the keyboard left alone.                                             *)
LEMMA FreshKeyboard ==
  ASSUME KbdReset, owed' = <<>>, due' = <<>>, misread' = FALSE, down' = Held' \/ ~trusted'
  PROVE  KeyInv'
<1>1. fifo' = <<>> /\ owed' = <<>>
  BY DEF KbdReset
<1>2. RingOf(<<>>)' /\ <<>> \in Wrapped /\ Replies(owed')
  BY <1>1 DEF RingOf, Wrapped, Replies
<1>3. QED
  BY <1>2 DEF KeyInv, Replies

LEMMA KeyboardRests ==
  ASSUME MenuInv, KeyInv, NEW k, Filter(k),
         IF Exchange(k) THEN KbdReset /\ owed' = <<>> ELSE UNCHANGED <<kbd, owed>>,
         trusted' = (trusted /\ ~Assigns(k)),
         due' = <<>> \/ (due' = due /\ ~Assigns(k)), misread' = FALSE, Assigns(k) => due' = <<>>,
         down' = down \/ ports["kb"] # "lk201"
  PROVE  KeyInv'
<1>1. CASE Exchange(k)
  BY <1>1, FreshKeyboard DEF Exchange
<1>2. CASE ~Exchange(k) /\ Assigns(k)
  <2>1. UNCHANGED <<fifo, owed>> /\ trusted' = FALSE /\ due' = <<>> /\ (Plugged' => Plugged)
    BY <1>2, PortsFilter DEF kbd
  <2>2. ASSUME NEW r \in Wrapped, RingOf(r) PROVE RingOf(r)'
    BY <2>1, <2>2 DEF RingOf
  <2>3. QED
    BY <2>1, <2>2 DEF KeyInv, Replies
<1>3. CASE ~Assigns(k)
  <2>0. UNCHANGED <<kbd, owed>> /\ ports' = ports
    BY <1>3, PortsFilter DEF Exchange
  <2>1. UNCHANGED <<fifo, owed, ports>> /\ (trusted' <=> trusted) /\ Held' = Held /\ (Plugged' <=> Plugged)
    BY <1>3, <2>0 DEF kbd, Held, Plugged
  <2>2. ASSUME NEW r \in Wrapped, RingOf(r) PROVE RingOf(r)'
    BY <2>1, <2>2 DEF RingOf
  <2>3. QED
    BY <2>1, <2>2 DEF KeyInv, Replies
<1>4. QED
  BY <1>1, <1>2, <1>3

LEMMA TypeAtWindowKeeps == ASSUME MenuInv, KeyInv, NEW k \in HostKey, TypeAtWindow(k) PROVE KeyInv'
<1>1. /\ Filter(k) /\ trusted' = (trusted /\ ~Assigns(k)) /\ down' = down
      /\ IF Exchange(k) THEN KbdReset /\ owed' = <<>> ELSE UNCHANGED <<kbd, owed>>
      /\ due' = IF Assigns(k) THEN <<>> ELSE due
  BY DEF TypeAtWindow
<1>2. misread' = FALSE
  BY DEF TypeAtWindow, KeyInv
<1>3. QED
  BY <1>1, <1>2, KeyboardRests

LEMMA PollLineKeeps == ASSUME MenuInv, KeyInv, NEW k \in LineKey, PollLine(k) PROVE KeyInv'
<1>1. /\ Filter(k) /\ trusted' = (trusted /\ ~Assigns(k)) /\ ports["kb"] # "lk201"
      /\ IF Exchange(k) THEN KbdReset /\ owed' = <<>> ELSE UNCHANGED <<kbd, owed>>
      /\ due' = <<>>
  BY DEF PollLine, Receive
<1>2. misread' = FALSE
  BY DEF PollLine, Receive, KeyInv
<1>3. QED
  BY <1>1, <1>2, KeyboardRests

(* A key typed at the keyboard of the machine: it is read with the         *)
(* modifiers that are held, or its release comes and the key follows.      *)
LEMMA HeldAfter ==
  ASSUME NEW k, GiveTyped(k)
  PROVE  /\ k = "ALLUPS" => Held' = {}
         /\ k \in Pressed => Held' = Held \cup {k}
         /\ k \notin Modifiers => Held' = Held
<1>1. CASE k = "ALLUPS"
  BY <1>1 DEF GiveTyped, Held, Pressed, Modifiers
<1>2. CASE k = "SHIFT"
  BY <1>2 DEF GiveTyped, Held, Pressed, Modifiers
<1>3. CASE k = "CTRL"
  BY <1>3 DEF GiveTyped, Held, Pressed, Modifiers
<1>4. CASE k \notin Modifiers
  BY <1>4 DEF GiveTyped, Held, Pressed, Modifiers
<1>5. QED
  BY <1>1, <1>2, <1>3, <1>4 DEF Modifiers

LEMMA PollTypedKeeps == ASSUME MenuInv, KeyInv, PollTyped PROVE KeyInv'
<1> DEFINE k == Head(xq)
           code == First(k)
           expected == IF ~Main(k) \/ Swallows(code) \/ ~trusted \/ (shift /\ ctrl)
                       THEN <<>> ELSE Meaning(k)
<1>1. /\ ports["kb"] = "lk201" /\ fifo = <<>> /\ Receive(code, expected)
      /\ IF Exchange(code) THEN KbdReset ELSE GiveTyped(k)
      /\ owed' = IF Exchange(code) THEN <<>> ELSE owed
      /\ trusted' = ((trusted \/ k = "ALLUPS") /\ ~Assigns(code)
                     /\ ~(Rest(k) # <<>> /\ shift /\ ctrl))
  BY DEF PollTyped
<1>2. Plugged
  BY <1>1 DEF Plugged, Port
<1>3. PICK r \in Wrapped : RingOf(r)
  BY <1>2 DEF KeyInv
<1>4. Replies(owed) /\ fifo = r \o owed /\ misread = FALSE
  BY <1>2, <1>3 DEF KeyInv, RingOf
<1>5. r = <<>> /\ owed = <<>>
  BY <1>1, <1>4, EmptyRing
<1>6. due = <<>> /\ (trusted => down = Held)
  BY <1>1, <1>3, <1>5 DEF RingOf
<1> HIDE DEF expected, code, k
<1> PICK s : s = Rest(k)
  OBVIOUS
<1>7. /\ s \in Wrapped
      /\ s # <<>> =>
           /\ k \notin Modifiers \cup Reply
           /\ code = "ALLUPS" /\ Len(s) = 2 /\ s[2] \in Held
      /\ s = <<>> => code = k \/ (k = "PERIOD" /\ code = "LT")
  BY RestFacts DEF code
<1>8. /\ Filter(code)
      /\ Swallows(code) => due' = expected /\ misread' = misread /\ down' = down
      /\ ~Swallows(code) =>
           /\ down' = CASE code = "ALLUPS" -> {}
                        [] code \in {"SHIFT", "CTRL"} -> down \cup {code}
                        [] OTHER -> down
           /\ misread' = (Main(code) /\ expected \notin {<<>>, <<code, down>>})
           /\ due' = IF Main(code) THEN <<>> ELSE expected
  BY <1>1 DEF Receive
<1>9. CASE Swallows(code)
  <2>1. due' = <<>> /\ misread' = FALSE /\ down' = down
    BY <1>4, <1>8, <1>9 DEF expected
  <2>2. code \notin Modifiers
    BY <1>9 DEF Swallows, Meant, Modifiers, Arrow, Confirm
  <2>3. s = <<>> /\ k \notin Modifiers
    BY <1>7, <2>2 DEF Modifiers
  <2>4. CASE Exchange(code)
    <3>1. KbdReset /\ owed' = <<>> /\ trusted' = FALSE
      BY <1>1, <2>4 DEF Exchange
    <3>2. QED
      BY <2>1, <3>1, FreshKeyboard
  <2>5. CASE ~Exchange(code)
    <3>1. GiveTyped(k) /\ owed' = <<>>
      BY <1>1, <1>5, <2>5
    <3>2. fifo' = s \o owed'
      BY <1>7, <3>1, TypedRing
    <3>3. Held' = Held
      BY <2>3, <3>1, HeldAfter
    <3>4. trusted' => trusted
      BY <1>1, <2>3 DEF Modifiers
    <3>5. RingOf(s)'
      BY <1>6, <2>1, <2>3, <3>2, <3>3, <3>4 DEF RingOf
    <3>6. Replies(owed')
      BY <3>1 DEF Replies
    <3>7. QED
      BY <1>7, <2>1, <3>5, <3>6 DEF KeyInv, Replies
  <2>6. QED
    BY <2>4, <2>5
<1>10. CASE ~Swallows(code)
  <2>1. ~Assigns(code) /\ ~Exchange(code)
    BY <1>10 DEF Swallows, Assigns, Exchange
  <2>2. ports' = ports /\ GiveTyped(k) /\ owed' = <<>>
        /\ trusted' = ((trusted \/ k = "ALLUPS") /\ ~(s # <<>> /\ shift /\ ctrl))
    BY <1>1, <1>5, <1>8, <2>1, PortsFilter
  <2>3. fifo' = s \o owed' /\ Replies(owed')
    <3>1. fifo' = s \o owed'
      BY <1>7, <2>2, TypedRing
    <3>2. QED
      BY <2>2, <3>1 DEF Replies
  <2>4. CASE s # <<>>
    <3>1. k \notin Modifiers \cup Reply /\ code = "ALLUPS" /\ Len(s) = 2 /\ s[2] \in Held
      BY <1>7, <2>4
    <3>2. down' = {} /\ misread' = FALSE /\ due' = expected
      BY <1>8, <1>10, <3>1 DEF Main, Modifiers
    <3>3. Held' = Held /\ (trusted' => trusted /\ ~(shift /\ ctrl))
      BY <2>2, <2>4, <3>1, HeldAfter DEF Modifiers
    <3>4. due' = <<>> \/ (due' = <<s[1], {}>> /\ trusted')
      BY <2>2, <2>4, <3>2 DEF expected, Meaning
    <3>5. ~(shift /\ ctrl) => Held = {s[2]}
      BY <3>1 DEF Held
    <3>6. RingOf(s)'
      BY <2>3, <2>4, <3>1, <3>2, <3>3, <3>4, <3>5 DEF RingOf
    <3>7. due' # <<>> => trusted' /\ ports'["kb"] = "lk201"
      BY <1>1, <2>2, <3>4
    <3>8. QED
      BY <1>7, <2>3, <3>2, <3>6, <3>7 DEF KeyInv, Replies
  <2>5. CASE s = <<>>
    <3>1. code = k \/ (k = "PERIOD" /\ code = "LT")
      BY <1>7, <2>5
    <3>2. due' = <<>>
      BY <1>8, <1>10, <3>1 DEF expected, Main, Modifiers, Reply
    <3>3. misread' = FALSE
      <4>1. expected = <<>> \/ expected = <<code, down>>
        BY <1>6, <2>5 DEF expected, Meaning, code
      <4>2. QED
        BY <1>8, <1>10, <4>1
    <3>4. trusted' => down' = Held'
      <4>1. CASE k = "ALLUPS"
        <5>1. code = "ALLUPS" /\ Held' = {}
          BY <2>2, <3>1, <4>1, HeldAfter
        <5>2. QED
          BY <1>8, <1>10, <5>1
      <4>2. CASE k \in Pressed
        <5>1. code = k /\ Held' = Held \cup {k} /\ k # "ALLUPS" /\ k \in {"SHIFT", "CTRL"}
          BY <2>2, <3>1, <4>2, HeldAfter DEF Pressed
        <5>2. down' = down \cup {k}
          BY <1>8, <1>10, <5>1
        <5>3. QED
          BY <1>6, <2>2, <5>1, <5>2
      <4>3. CASE k \notin Modifiers
        <5>1. Held' = Held /\ code \notin {"SHIFT", "CTRL", "ALLUPS"} /\ k # "ALLUPS"
          BY <2>2, <3>1, <4>3, HeldAfter DEF Modifiers
        <5>2. down' = down
          BY <1>8, <1>10, <5>1
        <5>3. QED
          BY <1>6, <2>2, <5>1, <5>2
      <4>4. QED
        BY <4>1, <4>2, <4>3 DEF Modifiers, Pressed
    <3>5. RingOf(s)'
      BY <2>3, <2>5, <3>2, <3>4 DEF RingOf
    <3>6. QED
      BY <1>7, <2>3, <3>2, <3>3, <3>5 DEF KeyInv, Replies
  <2>6. QED
    BY <2>4, <2>5
<1>11. QED
  BY <1>9, <1>10

LEMMA RestartKeeps == ASSUME RestartDesk PROVE KeyInv'
<1>1. ports' = PortConfig /\ due' = <<>> /\ misread' = FALSE /\ owed' = <<>> /\ down' = {}
  BY DEF RestartDesk, MenuReset
<1>2. CASE "lk201" \in {PortConfig[p] : p \in Port}
  <2>1. KbdReset
    BY <1>2 DEF RestartDesk
  <2>2. Held' = {}
    BY <2>1 DEF KbdReset, Held
  <2>3. QED
    BY <1>1, <2>1, <2>2, FreshKeyboard
<1>3. CASE "lk201" \notin {PortConfig[p] : p \in Port}
  <2>1. ~Plugged'
    BY <1>1, <1>3 DEF Plugged
  <2>2. QED
    BY <1>1, <2>1 DEF KeyInv
<1>4. QED
  BY <1>2, <1>3

LEMMA KeyAtFirst == DeskInit => KeyInv
<1> SUFFICES ASSUME DeskInit PROVE KeyInv
  OBVIOUS
<1>1. fifo = <<>> /\ owed = <<>> /\ due = <<>> /\ misread = FALSE /\ down = {} /\ Held = {}
  BY DEF DeskInit, KbdInit, Held
<1>2. RingOf(<<>>) /\ <<>> \in Wrapped /\ Replies(owed)
  BY <1>1 DEF RingOf, Wrapped, Replies
<1>3. QED
  BY <1>1, <1>2 DEF KeyInv

LEMMA KeyStep == MenuInv /\ KeyInv /\ [DeskNext]_deskVars => KeyInv'
<1> SUFFICES ASSUME MenuInv, KeyInv, [DeskNext]_deskVars PROVE KeyInv'
  OBVIOUS
<1>1. ASSUME UNCHANGED <<kbd, ports, machine>> PROVE KeyInv'
  <2>1. UNCHANGED <<fifo, ports, down, due, misread, owed, trusted>> /\ Held' = Held /\ Plugged' = Plugged
    BY <1>1 DEF kbd, machine, Held, Plugged
  <2>2. ASSUME NEW r \in Wrapped, RingOf(r) PROVE RingOf(r)'
    BY <2>1, <2>2 DEF RingOf
  <2>3. QED
    BY <2>1, <2>2 DEF KeyInv, Replies
<1>2. CASE UNCHANGED deskVars
  BY <1>1, <1>2 DEF deskVars, menuVars
<1>3. CASE Exit
  BY <1>1, <1>3 DEF Exit, menuVars
<1>4. CASE DeskStep /\ ~Exit
  BY <1>4, TypeAtWindowKeeps, PollTypedKeeps, PollQueuedKeeps, PollLineKeeps, PollOtherKeeps,
     CommandKeeps, RestartKeeps DEF DeskStep
<1>5. QED
  BY <1>2, <1>3, <1>4 DEF DeskNext

LEMMA KeyIsRight == KeyInv => KeyboardRight
<1> SUFFICES ASSUME KeyInv PROVE KeyboardRight
  OBVIOUS
<1>1. ASSUME NEW r \in Wrapped, RingOf(r), Replies(owed) PROVE RepliesInOrder
  <2>1. /\ r \in Seq(Code) /\ owed \in Seq(Code) /\ Len(r) \in Nat /\ Len(owed) \in Nat
        /\ fifo = r \o owed
    BY <1>1, WrappedFacts, RepliesAreCodes DEF RingOf
  <2>2. Len(fifo) = Len(r) + Len(owed) /\ Len(fifo) - Len(owed) = Len(r)
    BY <2>1
  <2>3. owed = SubSeq(fifo, Len(r) + 1, Len(fifo))
    BY <2>1, <2>2
  <2>4. ASSUME NEW i \in 1 .. Len(r) PROVE fifo[i] \notin Reply
    <3>1. fifo[i] = r[i]
      BY <2>1
    <3>2. r[i] \in Made \cup Pressed
      BY <2>1, WrappedFacts
    <3>3. QED
      BY <3>1, <3>2, KeyNames
  <2>5. QED
    BY <2>1, <2>2, <2>3, <2>4 DEF RepliesInOrder
<1>2. RepliesInOrder
  BY <1>1 DEF KeyInv, Plugged, RepliesInOrder
<1>3. due # <<>> => \E i \in DOMAIN fifo : fifo[i] = due[1]
  <2> SUFFICES ASSUME due # <<>> PROVE \E i \in DOMAIN fifo : fifo[i] = due[1]
    OBVIOUS
  <2>1. Plugged /\ Replies(owed)
    BY DEF KeyInv, Plugged, Port
  <2>2. PICK r \in Wrapped : RingOf(r)
    BY <2>1 DEF KeyInv
  <2>3. fifo = r \o owed /\ due[1] = r[1] /\ Len(r) = 2
    BY <2>2 DEF RingOf
  <2>4. r \in Seq(Code) /\ owed \in Seq(Code)
    BY <2>1, WrappedFacts, RepliesAreCodes
  <2>5. 1 \in DOMAIN fifo /\ fifo[1] = r[1]
    <3>0. Len(r) = 2
      BY <2>3
    <3>1. Len(r \o owed) = Len(r) + Len(owed) /\ Len(owed) \in Nat /\ (r \o owed)[1] = r[1]
      <4>1. \A f, g \in Seq(Code) :
              /\ Len(f \o g) = Len(f) + Len(g) /\ Len(g) \in Nat
              /\ Len(f) = 2 => (f \o g)[1] = f[1]
        OBVIOUS
      <4>2. QED
        BY <2>4, <3>0, <4>1
    <3>2. r \o owed \in Seq(Code)
      BY <2>4
    <3>3. QED
      BY <2>3, <3>0, <3>1, <3>2
  <2>6. QED
    BY <2>3, <2>5
<1>4. ASSUME ports["kb"] = "lk201", trusted, fifo = <<>> PROVE down = Held
  <2>1. Plugged /\ Replies(owed)
    BY <1>4 DEF KeyInv, Plugged, Port
  <2>2. PICK r \in Wrapped : RingOf(r)
    BY <2>1 DEF KeyInv
  <2>3. r = <<>>
    BY <1>4, <2>1, <2>2, EmptyRing DEF RingOf
  <2>4. QED
    BY <1>4, <2>2, <2>3 DEF RingOf
<1>5. QED
  BY <1>2, <1>3, <1>4 DEF KeyboardRight, GuestReads, KeyInv

(* At any desk, with any keys and commands and any ring with room for one  *)
(* wrapped key and one answer: the machine reads every key with the        *)
(* modifiers it should have, and every answer in order.                    *)
THEOREM KeyboardAlwaysRight == DeskSpec => []KeyboardRight
<1>1. DeskInit => MenuInv /\ KeyInv
  BY MenuAtFirst, KeyAtFirst DEF DeskInit
<1>2. MenuInv /\ KeyInv /\ [DeskNext]_deskVars => (MenuInv /\ KeyInv)'
  BY MenuStep, KeyStep
<1>3. QED
  BY <1>1, <1>2, KeyIsRight, PTL DEF DeskSpec

-----------------------------------------------------------------------------
(* A loop: what a value has become after each of n steps.                  *)
Steps(g, x, step, n) == \A i \in 0 .. n : g[i] = IF i = 0 THEN x ELSE step[<<i, g[i - 1]>>]

LEMMA Iteration ==
  ASSUME NEW S, NEW x \in S, NEW step \in [Nat \X S -> S], NEW n \in Nat
  PROVE  \E g \in [0 .. n -> S] : Steps(g, x, step, n)
<1> DEFINE T == {m \in Nat : \E g \in [0 .. m -> S] : Steps(g, x, step, m)}
<1>1. 0 \in T
  <2> DEFINE g == [i \in 0 .. 0 |-> x]
  <2>1. g \in [0 .. 0 -> S] /\ Steps(g, x, step, 0)
    BY DEF Steps
  <2>2. QED
    BY <2>1
<1>2. ASSUME NEW m \in T PROVE m + 1 \in T
  <2>1. PICK g \in [0 .. m -> S] : Steps(g, x, step, m)
    OBVIOUS
  <2> DEFINE h == [i \in 0 .. m + 1 |-> IF i = m + 1 THEN step[<<m + 1, g[m]>>] ELSE g[i]]
  <2>0. m \in Nat /\ m \in 0 .. m /\ m + 1 \in Nat
    OBVIOUS
  <2>2. g[m] \in S /\ step[<<m + 1, g[m]>>] \in S
    BY <2>0
  <2>3. h \in [0 .. m + 1 -> S]
    BY <2>2
  <2>4. ASSUME NEW i \in 0 .. m + 1 PROVE h[i] = IF i = 0 THEN x ELSE step[<<i, h[i - 1]>>]
    <3>1. CASE i = m + 1
      <4>1. i # 0 /\ i - 1 = m /\ h[m] = g[m] /\ h[i] = step[<<m + 1, g[m]>>]
        BY <2>0, <3>1
      <4>2. QED
        BY <3>1, <4>1
    <3>2. CASE i \in 0 .. m
      <4>1. i # m + 1 /\ h[i] = g[i] /\ (i # 0 => i - 1 \in 0 .. m /\ h[i - 1] = g[i - 1])
        BY <2>0, <3>2
      <4>2. g[i] = IF i = 0 THEN x ELSE step[<<i, g[i - 1]>>]
        BY <2>1, <3>2 DEF Steps
      <4>3. QED
        BY <4>1, <4>2
    <3>3. QED
      BY <2>0, <3>1, <3>2
  <2> HIDE DEF h
  <2>5. Steps(h, x, step, m + 1)
    BY <2>4 DEF Steps
  <2>6. QED
    BY <2>0, <2>3, <2>5
<1> HIDE DEF T
<1>3. T = Nat
  <2>1. T \in SUBSET Nat
    BY DEF T
  <2>2. QED
    BY <1>1, <1>2, <2>1, Induction
<1>4. QED
  BY <1>3 DEF T

-----------------------------------------------------------------------------
LEMMA BoardTypes ==
  /\ NLines \in Nat \ {0} /\ LineWords \in Nat \ {0} /\ WordBits \in Nat \ {0}
  /\ NWords \in Nat \ {0} /\ Width \in Nat \ {0}
<1>1. NLines \in Nat \ {0} /\ LineWords \in Nat \ {0} /\ WordBits \in Nat \ {0}
  BY ScreenAssumption, BoardAssumption
<1>2. \A a, b \in Nat \ {0} : a * b \in Nat \ {0}
  OBVIOUS
<1>3. QED
  BY <1>1, <1>2 DEF NWords, Width

LEMMA Modulus == ASSUME NEW a \in Int, NEW b \in Nat \ {0} PROVE a % b \in 0 .. b - 1
  OBVIOUS

(* The words of a line are its own.                                        *)
LEMMA WordOfLine ==
  ASSUME NEW l \in Line, NEW i \in 0 .. LineWords - 1
  PROVE  l * LineWords + i \in 0 .. NWords - 1 /\ LineOfWord(l * LineWords + i) = l
<1>1. l \in Nat /\ l <= NLines - 1 /\ NLines \in Nat /\ LineWords \in Nat \ {0}
  BY BoardTypes DEF Line
<1>2. \A a, b \in Int, n \in Nat : a <= b => a * n <= b * n
  OBVIOUS
<1>3. l * LineWords <= (NLines - 1) * LineWords
  BY <1>1, <1>2
<1>4. (NLines - 1) * LineWords = NLines * LineWords - LineWords /\ l * LineWords \in Nat
      /\ NLines * LineWords \in Nat
  BY <1>1
<1>5. l * LineWords + i \in 0 .. NWords - 1
  BY <1>1, <1>3, <1>4 DEF NWords
<1>6. \A q \in Int, b \in Nat \ {0}, r \in Nat : r < b => (q * b + r) \div b = q
  OBVIOUS
<1>7. (l * LineWords + i) \div LineWords = l
  BY <1>1, <1>6
<1>8. QED
  BY <1>5, <1>7 DEF LineOfWord

(* The memory of a plane, and what a loop that draws leaves of it: only    *)
(* the words it reaches change.                                            *)
Memory == [0 .. NWords - 1 -> SUBSET Bit]
Reached(c, i) == WordNo(PointAt(c, i)[1], PointAt(c, i)[2])
Drawable(c) == c.x \in Nat /\ c.y \in Nat /\ c.cnt \in Nat

LEMMA PointType ==
  ASSUME NEW c, Drawable(c), NEW i \in Nat
  PROVE  PointAt(c, i)[1] % WordBits \in Bit
<1>1. c.x \in Int /\ c.y \in Int /\ i - 1 \in Int
  BY DEF Drawable
<1>2. (c.y + i - 1) \in Int /\ (c.x + i - 1) \in Int
  BY <1>1
<1>3. (c.y + i - 1) \div NLines \in Int
  BY <1>2, BoardTypes
<1>4. (c.x + (c.y + i - 1) \div NLines) % Width \in Int /\ (c.x + i - 1) % Width \in Int
  <2>1. \A a \in Int : a % Width \in Int
    BY BoardTypes
  <2>2. c.x + (c.y + i - 1) \div NLines \in Int
    BY <1>1, <1>3
  <2>3. QED
    BY <1>2, <2>1, <2>2
<1>5. PointAt(c, i)[1] \in Int
  BY <1>4 DEF PointAt
<1>6. QED
  BY <1>5, BoardTypes, Modulus DEF Bit

LEMMA OnePoint ==
  ASSUME NEW mem \in Memory, NEW op, NEW c, Drawable(c), NEW i \in Nat
  PROVE  /\ DrawPoint(mem, op, c, i) \in Memory
         /\ \A u \in 0 .. NWords - 1 : u # Reached(c, i) => DrawPoint(mem, op, c, i)[u] = mem[u]
<1> DEFINE b == PointAt(c, i)[1] % WordBits
<1> DEFINE new(old) == IF PointOp(op, b \in old, (i - 1) % WordBits \in pat)
                       THEN old \cup {b} ELSE old \ {b}
<1>1. DrawPoint(mem, op, c, i) = [mem EXCEPT ![Reached(c, i)] = new(@)]
  BY DEF DrawPoint, Reached
<1>2. b \in Bit
  BY PointType
<1> HIDE DEF b
<1>3. \A old \in SUBSET Bit : new(old) \in SUBSET Bit
  BY <1>2
<1> HIDE DEF new
<1>4. QED
  BY <1>1, <1>3 DEF Memory


-----------------------------------------------------------------------------
LEMMA PointsDrawn ==
  ASSUME NEW mem \in Memory, NEW op, NEW c, Drawable(c)
  PROVE  /\ DrawPoints(mem, op, c) \in Memory
         /\ \A u \in 0 .. NWords - 1 :
              (\A i \in 1 .. c.cnt : u # Reached(c, i)) => DrawPoints(mem, op, c)[u] = mem[u]
<1> DEFINE step == [is \in Nat \X Memory |-> DrawPoint(is[2], op, c, is[1])]
<1> DEFINE Drawn(g) == g = [i \in 0 .. c.cnt |-> IF i = 0 THEN mem ELSE DrawPoint(g[i - 1], op, c, i)]
<1>0. c.cnt \in Nat
  BY DEF Drawable
<1>1. step \in [Nat \X Memory -> Memory]
  <2>1. \A is \in Nat \X Memory : DrawPoint(is[2], op, c, is[1]) \in Memory
    BY OnePoint
  <2>2. QED
    BY <2>1
<1>2. PICK h \in [0 .. c.cnt -> Memory] : Steps(h, mem, step, c.cnt)
  <2> HIDE DEF step
  <2>1. QED
    BY <1>0, <1>1, Iteration
<1>3. Drawn(h)
  <2>1. ASSUME NEW i \in 0 .. c.cnt
        PROVE  h[i] = IF i = 0 THEN mem ELSE DrawPoint(h[i - 1], op, c, i)
    <3>1. i # 0 => i - 1 \in 0 .. c.cnt /\ h[i - 1] \in Memory /\ step[<<i, h[i - 1]>>] = DrawPoint(h[i - 1], op, c, i)
      BY <1>0
    <3>2. h[i] = IF i = 0 THEN mem ELSE step[<<i, h[i - 1]>>]
      BY <1>2 DEF Steps
    <3>3. QED
      BY <3>1, <3>2
  <2>2. QED
    BY <2>1
<1> DEFINE g == CHOOSE gg : Drawn(gg)
<1>4. Drawn(g)
  BY <1>3
<1>5. DrawPoints(mem, op, c) = g[c.cnt]
  BY DEF DrawPoints
<1> HIDE DEF g
<1>6. \A i \in 0 .. c.cnt : g[i] = IF i = 0 THEN mem ELSE DrawPoint(g[i - 1], op, c, i)
  BY <1>4
<1> DEFINE Placed(n) == /\ g[n] \in Memory
                      /\ \A u \in 0 .. NWords - 1 :
                           (\A i \in 1 .. n : u # Reached(c, i)) => g[n][u] = mem[u]
           T == {n \in Nat : n <= c.cnt => Placed(n)}
<1>7. 0 \in T
  <2>1. g[0] = mem
    BY <1>0, <1>6
  <2>2. QED
    BY <2>1
<1>8. ASSUME NEW n \in T PROVE n + 1 \in T
  <2> SUFFICES ASSUME n + 1 <= c.cnt PROVE Placed(n + 1)
    OBVIOUS
  <2>1. n \in Nat /\ n + 1 \in 0 .. c.cnt /\ n + 1 # 0 /\ (n + 1) - 1 = n
    BY <1>0
  <2>2. Placed(n)
    <3> HIDE DEF Placed
    <3>1. n <= c.cnt
      BY <1>0, <2>1
    <3>2. QED
      BY <3>1
  <2>3. g[n + 1] = DrawPoint(g[n], op, c, n + 1)
    <3> HIDE DEF Placed, T, Drawn, step
    <3>1. QED
      BY <1>6, <2>1
  <2> HIDE DEF Drawn, step
  <2>4. g[n + 1] \in Memory /\ \A u \in 0 .. NWords - 1 : u # Reached(c, n + 1) => g[n + 1][u] = g[n][u]
    BY <2>1, <2>2, <2>3, OnePoint
  <2>5. ASSUME NEW u \in 0 .. NWords - 1, \A i \in 1 .. n + 1 : u # Reached(c, i)
        PROVE  g[n + 1][u] = mem[u]
    <3>1. (\A i \in 1 .. n : u # Reached(c, i)) /\ u # Reached(c, n + 1)
      BY <2>1, <2>5
    <3>2. QED
      BY <2>2, <2>4, <3>1
  <2>6. QED
    BY <2>4, <2>5
<1> HIDE DEF T, Placed, Drawn
<1>9. T = Nat
  <2>1. T \in SUBSET Nat
    BY DEF T
  <2>2. QED
    BY <1>7, <1>8, <2>1, Induction
<1>10. Placed(c.cnt)
  BY <1>0, <1>9 DEF T
<1>11. QED
  BY <1>5, <1>10 DEF Placed

(* The same for words, with the word before that a shift takes bits of.    *)
Shifting == [mem : Memory, before : SUBSET Bit]

LEMMA WordReached ==
  ASSUME NEW c, Drawable(c), scl \in Nat, NEW i \in Nat
  PROVE  /\ (WordNo(c.x, c.y) + NWords * c.cnt + 1 - i) % NWords \in 0 .. NWords - 1
         /\ (WordNo(c.x, c.y) + i - 1) % NWords \in 0 .. NWords - 1
<1>1. c.x \in Int /\ c.y + scl \in Int /\ c.cnt \in Int
  BY DEF Drawable
<1>2. (c.y + scl) % NLines \in Int /\ c.x \div WordBits \in Int
  BY <1>1, BoardTypes
<1>3. WordNo(c.x, c.y) \in Int
  <2>1. \A a, b, d \in Int : a * b + d \in Int
    OBVIOUS
  <2>2. LineWords \in Int
    BY BoardTypes
  <2>3. QED
    BY <1>2, <2>1, <2>2 DEF WordNo
<1>4. NWords * c.cnt \in Int
  BY <1>1, BoardTypes
<1>5. WordNo(c.x, c.y) + NWords * c.cnt + 1 - i \in Int /\ WordNo(c.x, c.y) + i - 1 \in Int
  BY <1>3, <1>4
<1>6. QED
  BY <1>5, BoardTypes, Modulus

LEMMA OneWord ==
  ASSUME scl \in Nat, NEW s \in Shifting, NEW op, NEW c, Drawable(c), NEW i \in 1 .. c.cnt
  PROVE  /\ DrawWord(s, op, c, i) \in Shifting
         /\ \A u \in 0 .. NWords - 1 : u # WordsOf(c)[i] => DrawWord(s, op, c, i).mem[u] = s.mem[u]
<1> DEFINE w == WordsOf(c)[i]
           new(old) == WordOp(op, c.oc0, old, s.before)
<1>1. w \in 0 .. NWords - 1
  <2>1. i \in Nat
    BY DEF Drawable
  <2>2. w = IF c.oc0 THEN (WordNo(c.x, c.y) + NWords * c.cnt + 1 - i) % NWords
            ELSE (WordNo(c.x, c.y) + i - 1) % NWords
    BY DEF WordsOf
  <2>3. QED
    BY <2>1, <2>2, WordReached
<1>2. ASSUME NEW old \in SUBSET Bit PROVE new(old) \in SUBSET Bit
  BY DEF WordOp, Solid
<1>3. DrawWord(s, op, c, i) = [mem |-> [s.mem EXCEPT ![w] = new(@)], before |-> s.mem[w]]
  BY DEF DrawWord
<1> HIDE DEF w, new
<1>4. s.mem \in Memory /\ s.mem[w] \in SUBSET Bit
  BY <1>1 DEF Shifting, Memory
<1>5. [s.mem EXCEPT ![w] = new(@)] \in Memory
      /\ \A u \in 0 .. NWords - 1 : u # w => [s.mem EXCEPT ![w] = new(@)][u] = s.mem[u]
  BY <1>1, <1>2, <1>4 DEF Memory
<1>6. QED
  BY <1>3, <1>4, <1>5 DEF Shifting, w

LEMMA WordsDrawn ==
  ASSUME scl \in Nat, NEW mem \in Memory, NEW op, NEW c, Drawable(c)
  PROVE  /\ DrawWords(mem, op, c) \in Memory
         /\ \A u \in 0 .. NWords - 1 :
              (\A i \in 1 .. c.cnt : u # WordsOf(c)[i]) => DrawWords(mem, op, c)[u] = mem[u]
<1> DEFINE first == [mem |-> mem, before |-> Solid]
           step == [is \in Nat \X Shifting |-> IF is[1] \in 1 .. c.cnt THEN DrawWord(is[2], op, c, is[1]) ELSE is[2]]
           Drawn(g) == g = [i \in 0 .. c.cnt |-> IF i = 0 THEN first ELSE DrawWord(g[i - 1], op, c, i)]
<1>0. c.cnt \in Nat /\ first \in Shifting
  BY DEF Drawable, Shifting, Solid
<1> HIDE DEF first
<1>1. step \in [Nat \X Shifting -> Shifting]
  <2>1. ASSUME NEW is \in Nat \X Shifting
        PROVE  (IF is[1] \in 1 .. c.cnt THEN DrawWord(is[2], op, c, is[1]) ELSE is[2]) \in Shifting
    BY OneWord
  <2>2. QED
    BY <2>1
<1>2. PICK h \in [0 .. c.cnt -> Shifting] : Steps(h, first, step, c.cnt)
  <2> HIDE DEF step
  <2>1. QED
    BY <1>0, <1>1, Iteration
<1>3. Drawn(h)
  <2>1. ASSUME NEW i \in 0 .. c.cnt
        PROVE  h[i] = IF i = 0 THEN first ELSE DrawWord(h[i - 1], op, c, i)
    <3>1. i # 0 => i \in 1 .. c.cnt /\ i - 1 \in 0 .. c.cnt /\ h[i - 1] \in Shifting
                   /\ step[<<i, h[i - 1]>>] = DrawWord(h[i - 1], op, c, i)
      BY <1>0
    <3>2. h[i] = IF i = 0 THEN first ELSE step[<<i, h[i - 1]>>]
      BY <1>2 DEF Steps
    <3>3. QED
      BY <3>1, <3>2
  <2>2. QED
    BY <2>1
<1> DEFINE g == CHOOSE gg : Drawn(gg)
<1>4. Drawn(g)
  BY <1>3
<1>5. DrawWords(mem, op, c) = g[c.cnt].mem
  BY DEF DrawWords, first
<1> HIDE DEF g
<1>6. \A i \in 0 .. c.cnt : g[i] = IF i = 0 THEN first ELSE DrawWord(g[i - 1], op, c, i)
  BY <1>4
<1> DEFINE Placed(n) == /\ g[n] \in Shifting
                      /\ \A u \in 0 .. NWords - 1 :
                           (\A i \in 1 .. n : u # WordsOf(c)[i]) => g[n].mem[u] = mem[u]
           T == {n \in Nat : n <= c.cnt => Placed(n)}
<1>7. 0 \in T
  <2>1. g[0] = first
    BY <1>0, <1>6
  <2>2. QED
    BY <1>0, <2>1 DEF first
<1>8. ASSUME NEW n \in T PROVE n + 1 \in T
  <2> SUFFICES ASSUME n + 1 <= c.cnt PROVE Placed(n + 1)
    OBVIOUS
  <2>1. n \in Nat /\ n + 1 \in 0 .. c.cnt /\ n + 1 \in 1 .. c.cnt /\ n + 1 # 0 /\ (n + 1) - 1 = n
    BY <1>0
  <2>2. Placed(n)
    <3> HIDE DEF Placed
    <3>1. n <= c.cnt
      BY <1>0, <2>1
    <3>2. QED
      BY <3>1
  <2>3. g[n + 1] = DrawWord(g[n], op, c, n + 1)
    <3> HIDE DEF Placed, T, Drawn, step
    <3>1. QED
      BY <1>6, <2>1
  <2> HIDE DEF Drawn, step
  <2>4. g[n + 1] \in Shifting
        /\ \A u \in 0 .. NWords - 1 : u # WordsOf(c)[n + 1] => g[n + 1].mem[u] = g[n].mem[u]
    BY <2>1, <2>2, <2>3, OneWord
  <2>5. ASSUME NEW u \in 0 .. NWords - 1, \A i \in 1 .. n + 1 : u # WordsOf(c)[i]
        PROVE  g[n + 1].mem[u] = mem[u]
    <3>1. (\A i \in 1 .. n : u # WordsOf(c)[i]) /\ u # WordsOf(c)[n + 1]
      BY <2>1, <2>5
    <3>2. QED
      BY <2>2, <2>4, <3>1
  <2>6. QED
    BY <2>4, <2>5
<1> HIDE DEF T, Placed, Drawn
<1>9. T = Nat
  <2>1. T \in SUBSET Nat
    BY DEF T
  <2>2. QED
    BY <1>7, <1>8, <2>1, Induction
<1>10. Placed(c.cnt)
  BY <1>0, <1>9 DEF T
<1>11. QED
  BY <1>5, <1>10 DEF Placed, Shifting

-----------------------------------------------------------------------------
(* The two parts of Coherent, and what every row depends on.               *)
RowsRight ==
  ~blank => \A y \in Row : (y + scl) % NLines \in mvalid =>
    shown[y] = [bits |-> Picture[(y + scl) % NLines], lut |-> Lut(cme), over |-> Over(y)]
PaletteRight == clutmode = 1 => palette = Palette(cme, map)
ScreenTypes == vram \in [Plane -> Memory] /\ scl \in Line /\ stale \in BOOLEAN
ScreenInv == ScreenTypes /\ ScreenShowsMemory

LEMMA CoherentParts == Coherent <=> RowsRight /\ PaletteRight
  BY DEF Coherent, RowsRight, PaletteRight

LEMMA LineShown == ASSUME scl \in Line, NEW y \in Row PROVE (y + scl) % NLines \in Line
<1>1. y + scl \in Int /\ NLines \in Nat \ {0}
  BY BoardTypes, ScreenAssumption DEF Row, Line
<1>2. QED
  BY <1>1, Modulus DEF Line

LEMMA LineKept ==
  ASSUME NEW l \in Line,
         \A p \in Plane, u \in 0 .. NWords - 1 : LineOfWord(u) = l => vram'[p][u] = vram[p][u]
  PROVE  Picture'[l] = Picture[l]
<1>1. \A p \in Plane, i \in 0 .. LineWords - 1 : vram'[p][l * LineWords + i] = vram[p][l * LineWords + i]
  BY WordOfLine
<1>2. QED
  BY <1>1 DEF Picture

(* A step that leaves what a row shows, and does not mark more lines, need *)
(* only keep the lines that stay marked.                                   *)
LEMMA RowsKept ==
  ASSUME scl \in Line, RowsRight, blank' = blank, shown' = shown, scl' = scl, mvalid' \subseteq mvalid,
         \A l \in Line \cap mvalid' : Picture'[l] = Picture[l],
         mvalid' # {} => Lut(cme)' = Lut(cme),
         \A y \in Row : (y + scl) % NLines \in mvalid' => Over(y)' = Over(y)
  PROVE  RowsRight'
<1> SUFFICES ASSUME ~blank, NEW y \in Row, (y + scl) % NLines \in mvalid'
             PROVE  shown[y] = [bits |-> Picture'[(y + scl) % NLines], lut |-> Lut(cme)', over |-> Over(y)']
  BY DEF RowsRight
<1>1. (y + scl) % NLines \in Line
  BY LineShown
<1>2. shown[y] = [bits |-> Picture[(y + scl) % NLines], lut |-> Lut(cme), over |-> Over(y)]
  BY DEF RowsRight
<1>3. QED
  BY <1>1, <1>2

LEMMA NoRowsMarked == ASSUME mvalid' = {} PROVE RowsRight'
  BY DEF RowsRight

LEMMA SameMemory == ASSUME vram' = vram PROVE Picture' = Picture
  BY DEF Picture

-----------------------------------------------------------------------------
(* Drawing, and writing to the window.                                     *)
LEMMA ScreenDraw ==
  ASSUME ScreenTypes, NEW c \in Commands, Draw(c)
  PROVE  vram' \in [Plane -> Memory] /\ (Coherent => Coherent')
<1>1. Drawable(c)
  BY DrawingAssumption DEF Drawable
<1>2. scl \in Nat /\ vram \in [Plane -> Memory]
  BY BoardTypes DEF ScreenTypes, Line
<1>3. ASSUME NEW p \in Plane
      PROVE  /\ vram'[p] \in Memory
             /\ \A u \in 0 .. NWords - 1 : LineOfWord(u) \notin Touched(c) => vram'[p][u] = vram[p][u]
  <2>0. vram[p] \in Memory
    BY <1>2
  <2>1. vram'[p] = IF c.op[p] = "NOP" THEN vram[p]
                   ELSE IF c.oc1 THEN DrawWords(vram[p], c.op[p], c) ELSE DrawPoints(vram[p], c.op[p], c)
    BY DEF Draw
  <2>2. CASE c.op[p] = "NOP"
    BY <2>0, <2>1, <2>2
  <2>3. CASE c.op[p] # "NOP" /\ c.oc1
    <3>1. vram'[p] = DrawWords(vram[p], c.op[p], c)
      BY <2>1, <2>3
    <3>2. Touched(c) = {LineOfWord(w) : w \in ToSet(WordsOf(c))}
      BY <2>3 DEF Touched
    <3>3. DOMAIN WordsOf(c) = 1 .. c.cnt
      BY DEF WordsOf
    <3>4. ASSUME NEW u \in 0 .. NWords - 1, LineOfWord(u) \notin Touched(c)
          PROVE  \A i \in 1 .. c.cnt : u # WordsOf(c)[i]
      BY <3>2, <3>3, <3>4 DEF ToSet
    <3>5. QED
      BY <1>1, <1>2, <2>0, <3>1, <3>4, WordsDrawn
  <2>4. CASE c.op[p] # "NOP" /\ ~c.oc1
    <3>1. vram'[p] = DrawPoints(vram[p], c.op[p], c)
      BY <2>1, <2>4
    <3>2. Touched(c) = {LineOfWord(Reached(c, i)) : i \in 1 .. c.cnt}
      BY <2>4 DEF Touched, Reached
    <3>4. ASSUME NEW u \in 0 .. NWords - 1, LineOfWord(u) \notin Touched(c)
          PROVE  \A i \in 1 .. c.cnt : u # Reached(c, i)
      BY <3>2, <3>4
    <3>5. QED
      BY <1>1, <1>2, <2>0, <3>1, <3>4, PointsDrawn
  <2>5. QED
    BY <2>2, <2>3, <2>4
<1>4. vram' \in [Plane -> Memory]
  <2>1. vram' = [p \in Plane |-> vram'[p]]
    BY DEF Draw
  <2>2. QED
    BY <1>3, <2>1
<1>5. ASSUME Coherent PROVE Coherent'
  <2>1. RowsRight /\ PaletteRight
    BY <1>5, CoherentParts
  <2>2. /\ blank' = blank /\ shown' = shown /\ scl' = scl /\ mvalid' = mvalid \ Touched(c)
        /\ overlay' = overlay /\ clutmode' = clutmode /\ cme' = cme /\ colours' = colours
    BY DEF Draw
  <2>3. \A l \in Line \cap mvalid' : Picture'[l] = Picture[l]
    BY <1>3, <2>2, LineKept
  <2>4. Lut(cme)' = Lut(cme) /\ \A y \in Row : Over(y)' = Over(y)
    BY <2>2 DEF Lut, Over, colours
  <2>5. RowsRight'
    BY <2>1, <2>2, <2>3, <2>4, RowsKept DEF ScreenTypes
  <2>6. PaletteRight'
    BY <2>1, <2>2 DEF PaletteRight, Palette, colours
  <2>7. QED
    BY <2>5, <2>6 DEF Coherent, RowsRight, PaletteRight
<1>6. QED
  BY <1>4, <1>5

LEMMA ScreenVramWrite ==
  ASSUME ScreenTypes, NEW w \in 0 .. NWords - 1, NEW bits \in Data, VramWrite(w, bits)
  PROVE  vram' \in [Plane -> Memory] /\ (Coherent => Coherent')
<1> DEFINE at == (w + scl * LineWords) % NWords
<1>1. at \in 0 .. NWords - 1 /\ bits \in SUBSET Bit
  <2>1. scl \in Int /\ LineWords \in Int /\ w \in Int
    BY BoardTypes DEF ScreenTypes, Line
  <2>2. w + scl * LineWords \in Int
    BY <2>1
  <2>3. QED
    BY <2>2, BoardTypes, Modulus, DrawingAssumption
<1>2. vram' = [p \in Plane |-> IF p \in planeEn THEN [vram[p] EXCEPT ![at] = bits] ELSE vram[p]]
      /\ mvalid' = mvalid \ {LineOfWord(at)}
  BY DEF VramWrite
<1> HIDE DEF at
<1>3. ASSUME NEW p \in Plane
      PROVE  /\ vram'[p] \in Memory
             /\ \A u \in 0 .. NWords - 1 : LineOfWord(u) # LineOfWord(at) => vram'[p][u] = vram[p][u]
  <2>1. vram[p] \in Memory
    BY DEF ScreenTypes
  <2>2. [vram[p] EXCEPT ![at] = bits] \in Memory
        /\ \A u \in 0 .. NWords - 1 : u # at => [vram[p] EXCEPT ![at] = bits][u] = vram[p][u]
    BY <1>1, <2>1 DEF Memory
  <2>3. QED
    BY <1>2, <2>1, <2>2
<1>4. vram' \in [Plane -> Memory]
  BY <1>2, <1>3
<1>5. ASSUME Coherent PROVE Coherent'
  <2>1. RowsRight /\ PaletteRight
    BY <1>5, CoherentParts
  <2>2. /\ blank' = blank /\ shown' = shown /\ scl' = scl
        /\ overlay' = overlay /\ clutmode' = clutmode /\ cme' = cme /\ colours' = colours
    BY DEF VramWrite
  <2>3. \A l \in Line \cap mvalid' : Picture'[l] = Picture[l]
    BY <1>2, <1>3, LineKept
  <2>4. Lut(cme)' = Lut(cme) /\ \A y \in Row : Over(y)' = Over(y)
    BY <2>2 DEF Lut, Over, colours
  <2>5. RowsRight'
    BY <1>2, <2>1, <2>2, <2>3, <2>4, RowsKept DEF ScreenTypes
  <2>6. PaletteRight'
    BY <2>1, <2>2 DEF PaletteRight, Palette, colours
  <2>7. QED
    BY <2>5, <2>6 DEF Coherent, RowsRight, PaletteRight
<1>6. QED
  BY <1>4, <1>5

(* The retrace: what it draws is right, and what it leaves was.            *)
LEMMA ScreenRetrace ==
  ASSUME ScreenTypes, VidEq, Coherent
  PROVE  Coherent'
<1>1. RowsRight /\ PaletteRight
  BY CoherentParts
<1>2. vram' = vram /\ scl' = scl /\ cme' = cme /\ clutmode' = clutmode /\ overlay' = overlay
      /\ map' = map /\ table' = table /\ palette' = palette
  BY DEF VidEq, ScreenUpdate, board, colours
<1>3. PaletteRight'
  BY <1>1, <1>2 DEF PaletteRight, Palette
<1>4. PICK expose \in BOOLEAN :
        LET valid == IF expose \/ (blank /\ ~off) THEN {} ELSE mvalid
        IN  /\ blank' = off
            /\ shown' = [y \in Row |->
                 IF off THEN IF expose \/ ~blank THEN "clear" ELSE shown[y]
                 ELSE IF (y + scl) % NLines \in valid THEN shown[y]
                 ELSE [bits |-> Picture[(y + scl) % NLines], lut |-> Lut(cme), over |-> Over(y)]]
  BY DEF VidEq, ScreenUpdate
<1>5. Picture' = Picture /\ Lut(cme)' = Lut(cme) /\ \A y \in Row : Over(y)' = Over(y)
  BY <1>2, SameMemory DEF Lut, Over
<1>6. RowsRight'
  <2> SUFFICES ASSUME ~off, NEW y \in Row
               PROVE  shown'[y] = [bits |-> Picture[(y + scl) % NLines], lut |-> Lut(cme), over |-> Over(y)]
    BY <1>2, <1>4, <1>5 DEF RowsRight
  <2>1. CASE ~expose /\ ~blank /\ (y + scl) % NLines \in mvalid
    <3>1. shown'[y] = shown[y]
      BY <1>4, <2>1
    <3>2. QED
      BY <1>1, <2>1, <3>1 DEF RowsRight
  <2>2. CASE expose \/ blank \/ (y + scl) % NLines \notin mvalid
    BY <1>4, <2>2
  <2>3. QED
    BY <2>1, <2>2
<1>7. QED
  BY <1>3, <1>6 DEF Coherent, RowsRight, PaletteRight

-----------------------------------------------------------------------------
(* The other steps that change what a row shows take the marks away, those *)
(* of the menu only from the rows of its box.                              *)
LEMMA ScreenOthers ==
  ASSUME ScreenTypes, VideoStep, Coherent,
         ~(\E c \in Commands : Draw(c)), ~VidEq,
         ~(\E w \in 0 .. NWords - 1, bits \in Data : VramWrite(w, bits))
  PROVE  Coherent'
<1>1. RowsRight /\ PaletteRight
  BY CoherentParts
<1> SUFFICES RowsRight' /\ PaletteRight'
  BY DEF Coherent, RowsRight, PaletteRight
<1>2. ASSUME UNCHANGED <<vram, scl, cme, screenVars>> PROVE RowsRight' /\ PaletteRight'
  BY <1>1, <1>2, SameMemory DEF RowsRight, PaletteRight, Palette, Lut, Over, screenVars, colours
<1>3. ASSUME NEW v \in CsrValues, WriteCsr(v[1], v[2]) PROVE RowsRight' /\ PaletteRight'
  <2>1. /\ vram' = vram /\ scl' = scl /\ clutmode' = clutmode /\ blank' = blank /\ shown' = shown
        /\ overlay' = overlay /\ cme' = v[2]
    BY <1>3 DEF WriteCsr
  <2>2. CASE v[2] = cme
    <3>1. cme' = cme /\ UNCHANGED <<vram, scl, screenVars>>
      BY <1>3, <2>2 DEF WriteCsr, screenVars, colours
    <3>2. QED
      BY <1>2, <3>1
  <2>3. CASE v[2] # cme /\ clutmode = 1
    <3>1. palette' = Palette(cme', map) /\ map' = map /\ table' = table /\ mvalid' = mvalid
      BY <1>3, <2>3 DEF WriteCsr, Mapchange
    <3>2. Lut(cme)' = Lut(cme) /\ \A y \in Row : Over(y)' = Over(y)
      BY <2>1, <2>3 DEF Lut, Over
    <3>3. RowsRight'
      BY <1>1, <2>1, <3>1, <3>2, RowsKept, SameMemory DEF ScreenTypes
    <3>4. QED
      BY <3>1, <3>3 DEF PaletteRight, Palette
  <2>4. CASE v[2] # cme /\ clutmode # 1
    <3>1. mvalid' = {}
      BY <1>3, <2>4 DEF WriteCsr, Mapchange
    <3>2. QED
      BY <2>1, <2>4, <3>1, NoRowsMarked DEF PaletteRight
  <2>5. QED
    BY <2>2, <2>3, <2>4
<1>4. ASSUME NEW s \in Line, WriteScroll(s) PROVE RowsRight' /\ PaletteRight'
  <2>1. UNCHANGED <<vram, cme, clutmode, blank, shown, overlay, map, table, palette>>
    BY <1>4 DEF WriteScroll, colours
  <2>2. CASE s = scl
    <3>1. UNCHANGED <<vram, scl, cme, screenVars>>
      BY <1>4, <2>2 DEF WriteScroll, screenVars, colours
    <3>2. QED
      BY <1>2, <3>1
  <2>3. CASE s # scl
    <3>1. mvalid' = {}
      BY <1>4, <2>3 DEF WriteScroll
    <3>2. QED
      BY <1>1, <2>1, <3>1, NoRowsMarked DEF PaletteRight, Palette
  <2>4. QED
    BY <2>2, <2>3
<1>5. ASSUME NEW k \in Colour, WriteColormap(k) PROVE RowsRight' /\ PaletteRight'
  <2>1. /\ UNCHANGED <<vram, scl, cme, clutmode, blank, shown, overlay>>
        /\ map' = k
        /\ table' = IF clutmode = 0 THEN k ELSE table
        /\ palette' = IF clutmode = 1 /\ cme THEN k ELSE palette
        /\ mvalid' = IF clutmode = 0 /\ cme THEN {} ELSE mvalid
    BY <1>5 DEF WriteColormap, ColormapWrite, board
  <2>2. PaletteRight'
    BY <1>1, <2>1 DEF PaletteRight, Palette
  <2>3. CASE clutmode = 0 /\ cme
    BY <2>1, <2>2, <2>3, NoRowsMarked
  <2>4. CASE ~(clutmode = 0 /\ cme)
    <3>1. Lut(cme)' = Lut(cme) /\ mvalid' = mvalid /\ \A y \in Row : Over(y)' = Over(y)
      BY <2>1, <2>4 DEF Lut, Over
    <3>2. RowsRight'
      BY <1>1, <2>1, <3>1, RowsKept, SameMemory DEF ScreenTypes
    <3>3. QED
      BY <2>2, <3>2
  <2>5. QED
    BY <2>3, <2>4
<1>6. ASSUME NEW card \in Pictures, MenuPrints(card) PROVE RowsRight' /\ PaletteRight'
  <2>1. /\ UNCHANGED <<vram, scl, cme, clutmode, blank, shown, map, table, palette>>
        /\ mvalid' = mvalid \ {(y + scl) % NLines : y \in Box}
    BY <1>6 DEF MenuPrints, OverlayPrint, board, colours
  <2>2. \A y \in Row : (y + scl) % NLines \in mvalid' => Over(y)' = Over(y)
    BY <2>1 DEF Over
  <2>3. Lut(cme)' = Lut(cme)
    BY <2>1 DEF Lut
  <2>4. RowsRight'
    BY <1>1, <2>1, <2>2, <2>3, RowsKept, SameMemory DEF ScreenTypes
  <2>5. QED
    BY <1>1, <2>1, <2>4 DEF PaletteRight, Palette
<1>7. ASSUME NEW card \in Pictures, MenuSwitches(card) PROVE RowsRight' /\ PaletteRight'
  <2>1. mvalid' = {} /\ clutmode' = clutmode /\ map' = map /\ cme' = cme /\ palette' = Palette(cme, map)
    BY <1>7 DEF MenuSwitches, SwitchMode, board
  <2>2. QED
    BY <2>1, NoRowsMarked DEF PaletteRight, Palette
<1>8. ASSUME MenuCloses PROVE RowsRight' /\ PaletteRight'
  <2>1. mvalid' = {} /\ UNCHANGED <<clutmode, map, palette, cme>>
    BY <1>8 DEF MenuCloses, OverlayDisable, board, colours
  <2>2. QED
    BY <1>1, <2>1, NoRowsMarked DEF PaletteRight, Palette
<1>9. CASE \/ VidCmdEq
           \/ \E planes \in SUBSET Plane, o \in BOOLEAN : WritePlaneControl(planes, o)
           \/ \E bits \in Patterns : WritePattern(bits)
  BY <1>2, <1>9 DEF VidCmdEq, WritePlaneControl, WritePattern
<1>10. QED
  BY <1>3, <1>4, <1>5, <1>6, <1>7, <1>8, <1>9 DEF VideoStep

LEMMA ScreenTypesKept ==
  ASSUME ScreenTypes, VideoStep \/ VideoReset
  PROVE  vram' \in [Plane -> Memory] /\ scl' \in Line
<1>1. ASSUME UNCHANGED vram PROVE vram' \in [Plane -> Memory]
  BY <1>1 DEF ScreenTypes
<1>2. ASSUME UNCHANGED scl PROVE scl' \in Line
  BY <1>2 DEF ScreenTypes
<1>3. ASSUME NEW c \in Commands, Draw(c) PROVE vram' \in [Plane -> Memory] /\ UNCHANGED scl
  BY <1>3, ScreenDraw DEF Draw
<1>4. ASSUME NEW w \in 0 .. NWords - 1, NEW bits \in Data, VramWrite(w, bits)
      PROVE  vram' \in [Plane -> Memory] /\ UNCHANGED scl
  BY <1>4, ScreenVramWrite DEF VramWrite
<1>5. ASSUME NEW s \in Line, WriteScroll(s) PROVE UNCHANGED vram /\ scl' \in Line
  BY <1>5 DEF WriteScroll
<1>6. ASSUME NEW v \in CsrValues, WriteCsr(v[1], v[2]) PROVE UNCHANGED <<vram, scl>>
  BY <1>6 DEF WriteCsr
<1>7. ASSUME NEW k \in Colour, WriteColormap(k) PROVE UNCHANGED <<vram, scl>>
  BY <1>7 DEF WriteColormap, board
<1>8. CASE VidCmdEq \/ VidEq \/ MenuCloses
  BY <1>1, <1>2, <1>8 DEF VidCmdEq, VidEq, MenuCloses, board
<1>9. ASSUME NEW card \in Pictures, MenuPrints(card) \/ MenuSwitches(card) PROVE UNCHANGED <<vram, scl>>
  BY <1>9 DEF MenuPrints, MenuSwitches, board
<1>10. ASSUME NEW planes, NEW o, WritePlaneControl(planes, o) PROVE UNCHANGED <<vram, scl>>
  BY <1>10 DEF WritePlaneControl
<1>11. ASSUME NEW bits, WritePattern(bits) PROVE UNCHANGED <<vram, scl>>
  BY <1>11 DEF WritePattern
<1>12. CASE VideoReset
  <2>1. vram' = [p \in Plane |-> [w \in 0 .. NWords - 1 |-> {}]] /\ scl' = 0
    BY <1>12 DEF VideoReset
  <2>2. 0 \in Line
    BY BoardTypes DEF Line
  <2>3. QED
    BY <2>1, <2>2 DEF Memory
<1>13. QED
  BY <1>1, <1>2, <1>3, <1>4, <1>5, <1>6, <1>7, <1>8, <1>9, <1>10, <1>11, <1>12 DEF VideoStep

LEMMA ScreenStep == ASSUME ScreenInv, [VideoNext]_videoVars PROVE ScreenInv'
<1>1. CASE UNCHANGED videoVars
  <2>1. UNCHANGED <<vram, scl, cme, stale, clutmode, mvalid, blank, shown, overlay, map, table, palette>>
    BY <1>1 DEF videoVars, board, screenVars
  <2>2. Picture' = Picture /\ Lut(cme)' = Lut(cme) /\ \A y \in Row : Over(y)' = Over(y)
    BY <2>1, SameMemory DEF Lut, Over
  <2>3. Coherent => Coherent'
    BY <2>1, <2>2 DEF Coherent, Palette
  <2>4. QED
    BY <2>1, <2>3 DEF ScreenInv, ScreenTypes, ScreenShowsMemory
<1>2. CASE VideoStep /\ stale' = (stale /\ ~Coherent')
  <2>1. vram' \in [Plane -> Memory] /\ scl' \in Line /\ stale' \in BOOLEAN
    BY <1>2, ScreenTypesKept DEF ScreenInv, ScreenTypes
  <2>2. ASSUME Coherent PROVE Coherent'
    BY <1>2, <2>2, ScreenDraw, ScreenVramWrite, ScreenRetrace, ScreenOthers DEF ScreenInv
  <2>3. stale' \/ Coherent'
    BY <1>2, <2>2, Zenon DEF ScreenInv, ScreenShowsMemory
  <2>4. QED
    BY <2>1, <2>3 DEF ScreenInv, ScreenTypes, ScreenShowsMemory
<1>3. CASE VideoReset /\ stale' = TRUE
  BY <1>3, ScreenTypesKept DEF ScreenInv, ScreenTypes, ScreenShowsMemory
<1>4. QED
  BY <1>1, <1>2, <1>3 DEF VideoNext

(* For any size of the screen, planes, commands, colours and menus, and    *)
(* with every kind of window: a row whose line is marked valid shows what  *)
(* the memory holds there, under the menu and in the colours of the mode.  *)
THEOREM ScreenAlwaysRight == VideoSpec => []ScreenShowsMemory
<1>1. VideoInit => ScreenInv
  <2> SUFFICES ASSUME VideoInit PROVE ScreenInv
    OBVIOUS
  <2>1. vram = [p \in Plane |-> [w \in 0 .. NWords - 1 |-> {}]] /\ scl = 0 /\ stale = FALSE
    BY DEF VideoInit
  <2>2. 0 \in Line
    BY BoardTypes DEF Line
  <2>3. ScreenTypes
    BY <2>1, <2>2 DEF ScreenTypes, Memory
  <2>4. Coherent
    BY DEF VideoInit, ScreenInit, Coherent, Palette
  <2>5. QED
    BY <2>3, <2>4 DEF ScreenInv, ScreenShowsMemory
<1>2. QED
  BY <1>1, ScreenStep, PTL DEF VideoSpec, ScreenInv
=============================================================================
