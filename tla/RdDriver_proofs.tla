---------------------------- MODULE RdDriver_proofs ----------------------------
(* Proofs about the disk controller and its driver program, for a disk of  *)
(* any geometry and sectors of any even size.                              *)
EXTENDS RdDriver, Integers, TLAPS

-----------------------------------------------------------------------------
(* The arithmetic of the image file.                                       *)
LEMMA Quotient ==
  ASSUME NEW q \in Int, NEW b \in Nat \ {0}, NEW r \in 0 .. b - 1
  PROVE  (q * b + r) \div b = q
  OBVIOUS

LEMMA Digits ==
  ASSUME NEW b \in Nat \ {0}, NEW p \in Int, NEW q \in Int,
         NEW r \in 0 .. b - 1, NEW t \in 0 .. b - 1, p * b + r = q * b + t
  PROVE  p = q /\ r = t
<1>1. p = q
  BY Quotient
<1>2. QED
  BY <1>1

LEMMA Grows == ASSUME NEW n \in Nat, NEW p \in Nat, NEW q \in Nat, p <= q PROVE p * n <= q * n
  OBVIOUS

LEMMA Distribute ==
  ASSUME NEW x \in Int, NEW y \in Int, NEW z \in Int
  PROVE  (x + y) * z = x * z + y * z
  OBVIOUS

(* The offset of a sector in two digits: its track, and its place there.   *)
Track(c, h) == c * Heads + h

LEMMA GeometryTypes == Cyls \in Nat \ {0} /\ Heads \in Nat \ {0} /\ Secs \in Nat \ {0}
  BY GeometryAssumption

LEMMA OffsetByTrack ==
  ASSUME NEW c \in Nat, NEW h \in Nat, NEW s \in Nat
  PROVE  Track(c, h) \in Nat /\ Offset(c, h, s) = Track(c, h) * Secs + s
<1>1. c * Heads \in Nat
  BY GeometryTypes
<1>2. (c * Heads + h) * Secs = c * Heads * Secs + h * Secs
  BY <1>1, GeometryTypes, Distribute
<1>3. QED
  BY <1>1, <1>2 DEF Track, Offset

(* A number whose digits are in range is below the product of the ranges.  *)
LEMMA DigitsBound ==
  ASSUME NEW n \in Nat, NEW b \in Nat \ {0}, NEW p \in 0 .. n - 1, NEW r \in 0 .. b - 1
  PROVE  p * b + r \in 0 .. n * b - 1
<1>1. (p + 1) * b <= n * b
  BY Grows
<1>2. (p + 1) * b = p * b + b
  BY Distribute
<1>3. p * b \in Nat /\ n * b \in Nat
  OBVIOUS
<1>4. QED
  BY <1>1, <1>2, <1>3

(* Every sector of the disk is in the file.                                *)
LEMMA OffsetInFile ==
  ASSUME NEW c \in 0 .. Cyls - 1, NEW h \in 0 .. Heads - 1, NEW s \in 0 .. Secs - 1
  PROVE  Offset(c, h, s) \in 0 .. Cyls * Heads * Secs - 1
<1>1. Track(c, h) \in 0 .. Cyls * Heads - 1
  BY GeometryTypes, DigitsBound DEF Track
<1>2. Cyls * Heads \in Nat
  BY GeometryTypes
<1>3. Track(c, h) * Secs + s \in 0 .. Cyls * Heads * Secs - 1
  BY <1>1, <1>2, GeometryTypes, DigitsBound
<1>4. QED
  BY <1>3, OffsetByTrack, GeometryTypes

LEMMA TrackUnique ==
  ASSUME NEW c \in 0 .. Cyls - 1, NEW h \in 0 .. Heads - 1,
         NEW d \in 0 .. Cyls - 1, NEW g \in 0 .. Heads - 1, Track(c, h) = Track(d, g)
  PROVE  c = d /\ h = g
<1>1. c \in Int /\ d \in Int /\ c * Heads + h = d * Heads + g
  BY GeometryTypes DEF Track
<1>2. QED
  BY <1>1, GeometryTypes, Digits

(* No two sectors have one place, and the sectors of a track are together. *)
LEMMA OffsetUnique ==
  ASSUME NEW c \in 0 .. Cyls - 1, NEW h \in 0 .. Heads - 1, NEW s \in 0 .. Secs - 1,
         NEW d \in 0 .. Cyls - 1, NEW g \in 0 .. Heads - 1, NEW t \in 0 .. Secs - 1
  PROVE  Offset(c, h, s) = Offset(d, g, t) <=> c = d /\ h = g /\ s = t
<1> {c, h, s, d, g, t} \subseteq Nat
  BY GeometryTypes
<1>1. Track(c, h) \in Nat /\ Track(d, g) \in Nat
  BY OffsetByTrack
<1>2. Offset(c, h, s) = Track(c, h) * Secs + s /\ Offset(d, g, t) = Track(d, g) * Secs + t
  BY OffsetByTrack
<1>3. Track(c, h) = Track(d, g) => c = d /\ h = g
  BY TrackUnique
<1>4. Track(c, h) * Secs + s = Track(d, g) * Secs + t => Track(c, h) = Track(d, g) /\ s = t
  BY <1>1, GeometryTypes, Digits
<1>5. QED
  BY <1>2, <1>3, <1>4

LEMMA OffsetInTrack ==
  ASSUME NEW c \in 0 .. Cyls - 1, NEW h \in 0 .. Heads - 1, NEW s \in 0 .. Secs - 1,
         NEW d \in 0 .. Cyls - 1, NEW g \in 0 .. Heads - 1
  PROVE  Offset(c, h, s) \in Offset(d, g, 0) .. Offset(d, g, Secs - 1) <=> c = d /\ h = g
<1> {c, h, s, d, g, 0, Secs - 1} \subseteq Nat
  BY GeometryTypes
<1>1. Track(c, h) \in Nat /\ Track(d, g) \in Nat
  BY OffsetByTrack
<1>2. /\ Offset(c, h, s) = Track(c, h) * Secs + s
      /\ Offset(d, g, 0) = Track(d, g) * Secs + 0
      /\ Offset(d, g, Secs - 1) = Track(d, g) * Secs + (Secs - 1)
  BY OffsetByTrack
<1>3. Track(c, h) = Track(d, g) => c = d /\ h = g
  BY TrackUnique
<1>4. Track(c, h) * Secs \in Nat /\ Track(d, g) * Secs \in Nat
  BY <1>1, GeometryTypes
<1>5. \A t \in 0 .. Secs - 1 :
        Track(c, h) * Secs + s = Track(d, g) * Secs + t => Track(c, h) = Track(d, g)
  <2> TAKE t \in 0 .. Secs - 1
  <2>1. (Track(c, h) * Secs + s) \div Secs = Track(c, h)
    BY <1>1, GeometryTypes, Quotient
  <2>2. (Track(d, g) * Secs + t) \div Secs = Track(d, g)
    BY <1>1, GeometryTypes, Quotient
  <2>3. QED
    BY <2>1, <2>2
<1>6. ASSUME Offset(c, h, s) \in Offset(d, g, 0) .. Offset(d, g, Secs - 1)
      PROVE  c = d /\ h = g
  <2> DEFINE t == Offset(c, h, s) - Track(d, g) * Secs
  <2>1. t \in 0 .. Secs - 1 /\ Track(c, h) * Secs + s = Track(d, g) * Secs + t
    BY <1>2, <1>4, <1>6, GeometryTypes
  <2> HIDE DEF t
  <2>2. QED
    BY <1>5, <1>3, <2>1
<1>7. ASSUME c = d, h = g
      PROVE  Offset(c, h, s) \in Offset(d, g, 0) .. Offset(d, g, Secs - 1)
  BY <1>2, <1>4, <1>7, GeometryTypes
<1>8. QED
  BY <1>6, <1>7

LEMMA SectorSize == Bytes \in Nat /\ Bytes \div 2 \in Nat /\ Bytes = 2 * (Bytes \div 2) /\ 2 <= Bytes
  BY BytesAssumption

LEMMA ZerosType == Zeros \in Sector
  BY BytesAssumption DEF Zeros, Sector

-----------------------------------------------------------------------------
(* The inductive invariant.  While words are moved the pointer follows the *)
(* driver's count, and the part of the buffer behind it is what the driver *)
(* has; once the operation is over the driver has the whole of it.         *)
Moving == events = 1 \/ intB \/ isr = "B"
Over == intA \/ isr = "A"

OneComing ==
  /\ events \in {0, 1}
  /\ events = 1 => ~intA /\ ~intB /\ isr = "none"
  /\ intA => ~intB /\ isr = "none"
  /\ intB => isr = "none"
  /\ request = Idle <=> ~Moving /\ ~Over

Requests ==
  /\ drq = datareq
  /\ drq <=> (intB \/ isr = "B")
  /\ request # Idle => (opended <=> Over)

(* The registers still say what was asked for.                             *)
AsAsked ==
  request # Idle =>
    /\ cmd = request.op
    /\ request.at = [cyl |-> cyl, head |-> head, sec |-> sec]
    /\ error <=> Store!Refused(request)

Source == IF request.op = "read" THEN received ELSE request.data

Transfer ==
  Moving =>
    /\ request.op # "restore" /\ ~error
    /\ ptr = 2 * moved /\ 2 * moved < Bytes
    /\ events = 1 => request.op = "read"
    /\ request.op = "read" => secbuf = disk[Offset(cyl, head, sec)]
    /\ \A b \in 0 .. 2 * moved - 1 : secbuf[b] = Source[b]

Received ==
  Over /\ request.op = "read" /\ ~error => received = disk[Offset(cyl, head, sec)]

Fresh == request = Idle => moved = 0

RdInv == DriverTypeOK /\ OneComing /\ Requests /\ AsAsked /\ Transfer /\ Received /\ Fresh

LEMMA RdInit == DriverInit => RdInv
<1> SUFFICES ASSUME DriverInit PROVE RdInv
  OBVIOUS
<1> USE DEF DriverInit, Init
<1>1. TypeOK
  <2>1. disk \in [0 .. Cyls * Heads * Secs - 1 -> Sector]
    BY ZerosType
  <2>2. events \in 0 .. MaxEvents /\ ptr \in 0 .. Last
    BY BoundAssumption, SectorSize DEF Last
  <2>3. QED
    BY <2>1, <2>2, ZerosType, RegisterAssumption DEF TypeOK
<1>2. DriverTypeOK
  <2>1. moved \in 0 .. Bytes \div 2 /\ changes \in 0 .. MaxChanges
    BY SectorSize, ChangesAssumption
  <2>2. QED
    BY <1>1, <2>1, ZerosType DEF DriverTypeOK
<1>3. ~Moving /\ ~Over
  BY DEF Moving, Over
<1>4. OneComing /\ Requests
  BY <1>3 DEF OneComing, Requests
<1>5. QED
  BY <1>2, <1>3, <1>4 DEF RdInv, AsAsked, Transfer, Received, Fresh

(* A request is never the record of an idle program.                       *)
LEMMA RequestIsNotIdle == \A r \in Request : r # Idle /\ r.op \in Cmd /\ r.op # "none"
  BY DEF Request, Idle, Cmd

LEMMA RdSetAddress == ASSUME RdInv, SetAddress PROVE RdInv'
<1> USE DEF RdInv, Fresh, SetAddress, WriteCyl, WriteHead, WriteSec, driverVars, status, address
<1>1. DriverTypeOK'
  BY DEF DriverTypeOK, TypeOK
<1>2. ~Moving /\ ~Over /\ ~Moving' /\ ~Over'
  BY DEF OneComing, Moving, Over
<1>3. OneComing' /\ Requests'
  BY <1>2 DEF OneComing, Requests
<1>4. QED
  BY <1>1, <1>2, <1>3 DEF AsAsked, Transfer, Received

LEMMA RdTakes == ASSUME RdInv, DataIsReady \/ EnterA \/ EnterB PROVE RdInv'
<1> USE DEF RdInv, Fresh
<1>1. CASE DataIsReady
  <2> USE <1>1 DEF DataIsReady, RdEvent, IntB, driverVars, address
  <2>1. events = 1 /\ events' = 0
    BY DEF OneComing
  <2>2. DriverTypeOK'
    BY <2>1, BoundAssumption DEF DriverTypeOK, TypeOK
  <2>3. OneComing' /\ Requests'
    BY <2>1 DEF OneComing, Requests, Moving, Over
  <2>4. Moving /\ ~Over /\ ~Over'
    BY <2>1 DEF OneComing, Moving, Over
  <2>5. AsAsked' /\ Transfer'
    BY <2>1, <2>4 DEF AsAsked, Transfer, Store!Refused, Store!OnDisk, Source
  <2>6. QED
    BY <2>2, <2>3, <2>4, <2>5 DEF Received
<1>2. CASE EnterA
  <2> USE <1>2 DEF EnterA, TakeA, address
  <2>1. DriverTypeOK'
    BY DEF DriverTypeOK, TypeOK
  <2>2. OneComing' /\ Requests' /\ ~Moving' /\ Over
    BY DEF OneComing, Requests, Moving, Over
  <2>3. QED
    BY <2>1, <2>2 DEF AsAsked, Transfer, Received, Store!Refused, Store!OnDisk
<1>3. CASE EnterB
  <2> USE <1>3 DEF EnterB, TakeB, address
  <2>1. DriverTypeOK'
    BY DEF DriverTypeOK, TypeOK
  <2>2. OneComing' /\ Requests' /\ Moving /\ ~Over'
    BY DEF OneComing, Requests, Moving, Over
  <2>3. AsAsked' /\ Transfer'
    BY <2>2 DEF AsAsked, Transfer, OneComing, Source, Store!Refused, Store!OnDisk
  <2>4. QED
    BY <2>1, <2>2, <2>3 DEF Received
<1>4. QED
  BY <1>1, <1>2, <1>3

LEMMA RdRestart == ASSUME RdInv, Restart PROVE RdInv'
<1> USE DEF RdInv, Fresh, Restart, Reset
<1>1. TypeOK'
  <2>1. events' \in 0 .. MaxEvents /\ ptr' \in 0 .. Last
    BY BoundAssumption, SectorSize DEF Last
  <2>2. QED
    BY <2>1, ZerosType, RegisterAssumption DEF DriverTypeOK, TypeOK
<1>2. DriverTypeOK'
  <2>1. moved' \in 0 .. Bytes \div 2
    BY SectorSize
  <2>2. QED
    BY <1>1, <2>1, ZerosType DEF DriverTypeOK
<1>3. ~Moving' /\ ~Over'
  BY DEF Moving, Over
<1>4. OneComing' /\ Requests'
  BY <1>3 DEF OneComing, Requests
<1>5. QED
  BY <1>2, <1>3, <1>4 DEF AsAsked, Transfer, Received

LEMMA RdFinish == ASSUME RdInv, Finish PROVE RdInv'
<1> USE DEF RdInv, Fresh, Finish, ReadS2c, address
<1>1. DriverTypeOK'
  <2>1. moved' \in 0 .. Bytes \div 2
    BY SectorSize
  <2>2. answer' \in [error : BOOLEAN, data : Sector]
    BY DEF DriverTypeOK, TypeOK
  <2>3. QED
    BY <2>1, <2>2, ZerosType DEF DriverTypeOK, TypeOK
<1>2. ~Moving' /\ ~Over'
  BY DEF OneComing, Moving, Over
<1>3. OneComing' /\ Requests'
  BY <1>2 DEF OneComing, Requests, Moving, Over
<1>4. QED
  BY <1>1, <1>2, <1>3 DEF AsAsked, Transfer, Received

(* An accepted request starts its transfer, any other is over at once.     *)
LEMMA RdAsk == ASSUME RdInv, NEW op \in Cmd, NEW d \in Payload, Ask(op, d) PROVE RdInv'
<1> USE DEF RdInv, Fresh, Ask, address
<1>1. /\ request' \in Request /\ request' # Idle /\ request = Idle
      /\ request'.op = op /\ request'.data = d
      /\ request'.at = [cyl |-> cyl, head |-> head, sec |-> sec]
  BY DEF DriverTypeOK, TypeOK, Request, Idle, Cmd
<1>2. ~Moving /\ ~Over /\ events = 0 /\ ~intA /\ ~intB /\ isr = "none" /\ isr' = "none"
  BY <1>1 DEF OneComing, Moving, Over, DriverTypeOK
<1>3. changes' \in 0 .. MaxChanges
  BY ChangesAssumption DEF DriverTypeOK
<1>4. UNCHANGED <<address, disk, moved, received, isr, answer>> /\ cmd' = op
  BY DEF WriteCommand
<1>5. Cyls \in Nat /\ Heads \in Nat /\ Secs \in Nat /\ {cyl, head, sec} \subseteq Nat
  BY GeometryTypes, RegisterAssumption DEF DriverTypeOK, TypeOK
<1>6. request'.at.cyl = cyl /\ request'.at.head = head /\ request'.at.sec = sec
  BY <1>1
<1>7. Store!Refused(request') <=>
        \/ op \in {"read", "write"} /\ (cyl >= Cyls \/ head >= Heads \/ sec >= Secs)
        \/ op = "format" /\ (cyl >= Cyls \/ head >= Heads)
  BY <1>1, <1>5, <1>6 DEF Store!Refused, Store!OnDisk
<1>8. CASE op = "restore" \/ Store!Refused(request')
  <2>1. /\ intA' = TRUE /\ opended' = TRUE /\ drq' = FALSE /\ datareq' = FALSE
        /\ UNCHANGED <<secbuf, ptr, intB, events>>
    <3>1. CASE op = "restore"
      BY <1>7, <3>1 DEF WriteCommand, IntA, NoRequest
    <3>2. CASE op # "restore" /\ Store!Refused(request')
      BY <1>5, <1>7, <3>2 DEF WriteCommand, IntA, Error, NoRequest
    <3>3. QED
      BY <1>8, <3>1, <3>2
  <2>2. /\ op = "restore" => error' = FALSE /\ ~Store!Refused(request')
        /\ op # "restore" => error' = TRUE /\ Store!Refused(request')
    <3>1. op = "restore" => error' = FALSE /\ ~Store!Refused(request')
      BY <1>7 DEF WriteCommand
    <3>2. op # "restore" => error' = TRUE /\ Store!Refused(request')
      BY <1>5, <1>7, <1>8 DEF WriteCommand, IntA, Error, NoRequest
    <3>3. QED
      BY <3>1, <3>2
  <2>3. DriverTypeOK'
    <3>1. TypeOK'
      BY <1>1, <1>4, <2>1, <2>2 DEF DriverTypeOK, TypeOK
    <3>2. QED
      BY <1>1, <1>3, <1>4, <3>1 DEF DriverTypeOK
  <2>4. ~Moving' /\ Over'
    BY <1>2, <1>4, <2>1 DEF Moving, Over
  <2>5. OneComing' /\ Requests'
    <3>1. OneComing'
      BY <1>1, <1>2, <1>4, <2>1, <2>4 DEF OneComing
    <3>2. QED
      BY <1>2, <1>4, <2>1, <2>4, <3>1 DEF Requests
  <2>6. AsAsked'
    BY <1>1, <1>4, <2>2 DEF AsAsked
  <2>7. Received'
    BY <1>7, <1>8, <2>2, <1>1 DEF Received, Cmd
  <2>8. QED
    BY <2>3, <2>4, <2>5, <2>6, <2>7 DEF Transfer
<1>9. CASE op = "read" /\ ~Store!Refused(request')
  <2>1. cyl \in 0 .. Cyls - 1 /\ head \in 0 .. Heads - 1 /\ sec \in 0 .. Secs - 1
    BY <1>5, <1>7, <1>9
  <2>2. /\ events < MaxEvents /\ events' = 1 /\ error' = FALSE /\ opended' = FALSE
        /\ drq' = FALSE /\ datareq' = FALSE
        /\ secbuf' = disk[Offset(cyl, head, sec)] /\ ptr' = 0
        /\ UNCHANGED <<intA, intB>>
    BY <1>2, <1>7, <1>9 DEF WriteCommand, NoRequest, Error
  <2>3. secbuf' \in Sector
    BY <2>1, <2>2, OffsetInFile DEF DriverTypeOK, TypeOK
  <2>4. events' \in 0 .. MaxEvents /\ ptr' \in 0 .. Last
    BY <1>2, <2>2, BoundAssumption, SectorSize DEF Last
  <2>5. TypeOK'
    BY <1>1, <1>4, <2>2, <2>3, <2>4 DEF DriverTypeOK, TypeOK
  <2>6. DriverTypeOK'
    BY <1>1, <1>3, <1>4, <2>5 DEF DriverTypeOK
  <2>7. Moving' /\ ~Over'
    BY <1>2, <2>2 DEF Moving, Over
  <2>8. OneComing' /\ Requests'
    BY <1>1, <1>2, <2>2, <2>7 DEF OneComing, Requests
  <2>9. AsAsked'
    BY <1>1, <1>4, <1>9, <2>2 DEF AsAsked
  <2>10. Transfer'
    BY <1>1, <1>4, <1>9, <2>2, SectorSize DEF Transfer
  <2>11. QED
    BY <1>1, <2>6, <2>7, <2>8, <2>9, <2>10 DEF Received
<1>10. CASE op \in {"write", "format"} /\ ~Store!Refused(request')
  <2>1. cyl \in 0 .. Cyls - 1 /\ head \in 0 .. Heads - 1
    BY <1>5, <1>7, <1>10
  <2>2. /\ intB' = TRUE /\ error' = FALSE /\ opended' = FALSE
        /\ drq' = TRUE /\ datareq' = TRUE /\ ptr' = 0
        /\ UNCHANGED <<intA, secbuf, events>>
    BY <1>7, <1>10 DEF WriteCommand, IntB, Error
  <2>3. ptr' \in 0 .. Last
    BY <2>2, SectorSize DEF Last
  <2>4. TypeOK'
    BY <1>1, <1>4, <2>2, <2>3 DEF DriverTypeOK, TypeOK
  <2>5. DriverTypeOK'
    BY <1>1, <1>3, <1>4, <2>4 DEF DriverTypeOK
  <2>6. Moving' /\ ~Over'
    BY <1>2, <2>2 DEF Moving, Over
  <2>7. OneComing' /\ Requests'
    BY <1>1, <1>2, <2>2, <2>6 DEF OneComing, Requests
  <2>8. AsAsked'
    BY <1>1, <1>4, <1>10, <2>2 DEF AsAsked
  <2>9. Transfer'
    BY <1>1, <1>2, <1>4, <1>10, <2>2, SectorSize DEF Transfer
  <2>10. QED
    BY <1>1, <2>5, <2>6, <2>7, <2>8, <2>9 DEF Received
<1>11. QED
  BY <1>8, <1>9, <1>10 DEF Cmd

(* What a word moves: the buffer behind the pointer is the driver's.       *)
LEMMA WordMoves ==
  ASSUME RdInv, MoveWord
  PROVE  /\ moved \in Nat /\ request \in Request /\ cmd = request.op
         /\ drq /\ ~error /\ request.op # "restore"
         /\ secbuf' \in Sector /\ received' \in Sector
         /\ \A b \in 0 .. 2 * moved + 1 : secbuf'[b] = Source'[b]
         /\ request.op = "read" => UNCHANGED <<secbuf, disk>> /\ secbuf = disk[Offset(cyl, head, sec)]
         /\ request.op # "read" => /\ UNCHANGED received
                                   /\ disk' = IF ptr < Last THEN disk ELSE Written(secbuf')
<1> USE DEF RdInv
<1>1. Moving /\ request # Idle /\ isr = "B"
  BY DEF MoveWord, Moving, OneComing
<1>2. request \in Request /\ request.data \in Sector /\ cmd = request.op /\ drq
  BY <1>1, PayloadAssumption DEF DriverTypeOK, Request, AsAsked, Requests
<1>3. /\ request.op # "restore" /\ ~error /\ ptr = 2 * moved
      /\ request.op = "read" => secbuf = disk[Offset(cyl, head, sec)]
      /\ \A b \in 0 .. 2 * moved - 1 : secbuf[b] = Source[b]
  BY <1>1 DEF Transfer
<1>4. moved \in Nat /\ ptr \in 0 .. Bytes - 1 /\ ptr + 1 \in 0 .. Bytes - 1
  BY SectorSize, <1>1 DEF DriverTypeOK, TypeOK, Last, Transfer
<1>5. secbuf \in Sector /\ received \in Sector
  BY DEF DriverTypeOK, TypeOK
<1>6. CASE request.op = "read"
  <2>1. /\ received' = [received EXCEPT ![ptr] = secbuf[ptr], ![ptr + 1] = secbuf[ptr + 1]]
        /\ UNCHANGED <<secbuf, disk, request>>
    BY <1>3, <1>6 DEF MoveWord, ReadData, DataWord
  <2>2. received' \in Sector
    BY <1>4, <1>5, <2>1 DEF Sector
  <2>3. Source = received /\ Source' = received'
    BY <1>6, <2>1 DEF Source
  <2>4. \A b \in 0 .. 2 * moved + 1 : secbuf'[b] = Source'[b]
    <3> TAKE b \in 0 .. 2 * moved + 1
    <3>1. CASE b \in 0 .. 2 * moved - 1
      <4>1. b # ptr /\ b # ptr + 1 /\ b \in 0 .. Bytes - 1
        BY <1>3, <1>4, <3>1, SectorSize
      <4>2. received'[b] = received[b]
        BY <1>5, <2>1, <4>1 DEF Sector
      <4>3. QED
        BY <1>3, <2>1, <2>3, <3>1, <4>2
    <3>2. CASE b = ptr \/ b = ptr + 1
      BY <1>4, <1>5, <2>1, <2>3, <3>2 DEF Sector
    <3>3. QED
      BY <1>3, <1>4, <3>1, <3>2
  <2>5. QED
    BY <1>2, <1>3, <1>4, <1>5, <1>6, <2>1, <2>2, <2>4
<1>7. CASE request.op # "read"
  <2> DEFINE low == request.data[2 * moved]
             high == request.data[2 * moved + 1]
  <2>1. /\ secbuf' = [secbuf EXCEPT ![ptr] = low, ![ptr + 1] = high]
        /\ disk' = IF ptr < Last THEN disk ELSE Written(secbuf')
        /\ UNCHANGED <<received, request>>
    BY <1>2, <1>7 DEF MoveWord, WriteData
  <2>2. secbuf' \in Sector
    BY <1>2, <1>3, <1>4, <1>5, <2>1 DEF Sector
  <2>3. Source = request.data /\ Source' = request.data
    BY <1>7, <2>1 DEF Source
  <2>4. \A b \in 0 .. 2 * moved + 1 : secbuf'[b] = Source'[b]
    <3> TAKE b \in 0 .. 2 * moved + 1
    <3>1. CASE b \in 0 .. 2 * moved - 1
      <4>1. b # ptr /\ b # ptr + 1 /\ b \in 0 .. Bytes - 1
        BY <1>3, <1>4, <3>1, SectorSize
      <4>2. secbuf'[b] = secbuf[b]
        BY <1>5, <2>1, <4>1 DEF Sector
      <4>3. QED
        BY <1>3, <1>7, <2>3, <3>1, <4>2
    <3>2. CASE b = ptr \/ b = ptr + 1
      BY <1>3, <1>4, <1>5, <2>1, <2>3, <3>2 DEF Sector
    <3>3. QED
      BY <1>3, <1>4, <3>1, <3>2
  <2> HIDE DEF low, high
  <2>5. QED
    BY <1>2, <1>3, <1>4, <1>5, <1>7, <2>1, <2>2, <2>4
<1>8. QED
  BY <1>6, <1>7

LEMMA WrittenType ==
  ASSUME RdInv, NEW buffer \in Sector
  PROVE  Written(buffer) \in [0 .. Cyls * Heads * Secs - 1 -> Sector]
<1>1. disk \in [0 .. Cyls * Heads * Secs - 1 -> Sector]
  BY DEF RdInv, DriverTypeOK, TypeOK
<1>2. [b \in 0 .. Bytes - 1 |-> buffer[Bytes - 1]] \in Sector
  BY SectorSize DEF Sector
<1>3. QED
  BY <1>1, <1>2 DEF Written

LEMMA RdMove == ASSUME RdInv, MoveWord PROVE RdInv'
<1> USE DEF RdInv, Fresh
<1>1. /\ Moving /\ ~Over /\ events = 0 /\ ~intA /\ ~intB /\ isr = "B" /\ isr' = "none"
      /\ moved' = moved + 1 /\ ~opended /\ request # Idle
  BY DEF MoveWord, Moving, Over, OneComing, Requests
<1>2. UNCHANGED <<cmd, error, address, events, request, answer, changes>>
  BY DEF MoveWord, ReadData, WriteData
<1>3. IF ptr < Last
      THEN /\ ptr' = ptr + 2 /\ drq' = TRUE /\ datareq' = TRUE /\ intB' = TRUE
           /\ UNCHANGED <<opended, intA>>
      ELSE /\ drq' = FALSE /\ datareq' = FALSE /\ opended' = TRUE /\ intA' = TRUE
           /\ UNCHANGED <<ptr, intB>>
  BY WordMoves DEF MoveWord, ReadData, WriteData, NextWord, IntA, IntB, NoRequest
<1>4. moved \in Nat /\ ptr = 2 * moved /\ 2 * moved < Bytes
  BY <1>1, WordMoves DEF Transfer
<1>5. moved' \in 0 .. Bytes \div 2 /\ ptr' \in 0 .. Last
  BY <1>1, <1>3, <1>4, SectorSize DEF DriverTypeOK, TypeOK, Last
<1>6. disk' \in [0 .. Cyls * Heads * Secs - 1 -> Sector]
  BY WordMoves, WrittenType DEF DriverTypeOK, TypeOK
<1>7. {drq', opended', datareq', error', intA', intB'} \subseteq BOOLEAN
  BY <1>2, <1>3 DEF DriverTypeOK, TypeOK
<1>8. DriverTypeOK'
  BY <1>1, <1>2, <1>5, <1>6, <1>7, WordMoves DEF DriverTypeOK, TypeOK, address
<1>9. CASE ptr < Last
  <2>1. Moving' /\ ~Over'
    BY <1>1, <1>3, <1>9 DEF Moving, Over
  <2>2. OneComing'
    BY <1>1, <1>2, <1>3, <1>9, <2>1 DEF OneComing
  <2>3. Requests'
    BY <1>1, <1>3, <1>9, <2>1 DEF Requests
  <2>4. Transfer'
    <3>1. ptr' = 2 * moved' /\ 2 * moved' < Bytes /\ 2 * moved' - 1 = 2 * moved + 1
      BY <1>1, <1>3, <1>4, <1>9, SectorSize DEF Last
    <3>2. QED
      BY <1>1, <1>2, <3>1, WordMoves DEF Transfer, address
  <2>5. QED
    BY <1>1, <1>2, <1>8, <2>1, <2>2, <2>3, <2>4
       DEF AsAsked, Received, address, Store!Refused, Store!OnDisk
<1>10. CASE ~(ptr < Last)
  <2>1. ~Moving' /\ Over'
    BY <1>1, <1>2, <1>3, <1>10 DEF Moving, Over
  <2>2. OneComing'
    BY <1>1, <1>2, <1>3, <1>10, <2>1 DEF OneComing
  <2>3. Requests'
    BY <1>1, <1>3, <1>10, <2>1 DEF Requests
  <2>4. Received'
    <3>1. 2 * moved + 1 = Bytes - 1
      BY <1>4, <1>10, SectorSize DEF Last
    <3>2. ASSUME request.op = "read" PROVE received' = secbuf'
      <4>1. Source' = received'
        BY <1>2, <3>2 DEF Source
      <4>2. \A b \in 0 .. Bytes - 1 : secbuf'[b] = received'[b]
        BY <3>1, <4>1, WordMoves
      <4>3. secbuf' \in [0 .. Bytes - 1 -> Byte] /\ received' \in [0 .. Bytes - 1 -> Byte]
        BY WordMoves DEF Sector
      <4>4. /\ secbuf' = [b \in 0 .. Bytes - 1 |-> secbuf'[b]]
            /\ received' = [b \in 0 .. Bytes - 1 |-> received'[b]]
        BY <4>3
      <4>5. QED
        BY <4>2, <4>4
    <3>3. QED
      BY <1>2, <3>2, WordMoves DEF Received, address
  <2>5. QED
    BY <1>1, <1>2, <1>8, <2>1, <2>2, <2>3, <2>4
       DEF AsAsked, Transfer, address, Store!Refused, Store!OnDisk
<1>11. QED
  BY <1>9, <1>10

LEMMA RdInvariant == DriverSpec => []RdInv
<1>1. DriverInit => RdInv
  BY RdInit
<1>2. RdInv /\ [DriverNext]_allVars => RdInv'
  <2> SUFFICES ASSUME RdInv, [DriverNext]_allVars PROVE RdInv'
    OBVIOUS
  <2>1. CASE SetAddress
    BY <2>1, RdSetAddress
  <2>2. ASSUME NEW op \in Cmd, NEW d \in Payload, Ask(op, d) PROVE RdInv'
    BY <2>2, RdAsk
  <2>3. CASE DataIsReady \/ EnterA \/ EnterB
    BY <2>3, RdTakes
  <2>4. CASE MoveWord
    BY <2>4, RdMove
  <2>5. CASE Finish
    BY <2>5, RdFinish
  <2>6. CASE Restart
    BY <2>6, RdRestart
  <2>7. CASE UNCHANGED allVars
    BY <2>7 DEF allVars, vars, driverVars, address, status, RdInv, DriverTypeOK, TypeOK, OneComing,
               Requests, AsAsked, Transfer, Received, Fresh, Moving, Over, Source,
               Store!Refused, Store!OnDisk
  <2>8. QED
    BY <2>1, <2>2, <2>3, <2>4, <2>5, <2>6, <2>7 DEF DriverNext
<1>3. QED
  BY <1>1, <1>2, PTL DEF DriverSpec

(* For any disk, sectors and addresses: an operation under way always has  *)
(* exactly one thing coming, the two copies of the data request agree, and *)
(* the end is shown when interrupt A says so.                              *)
THEOREM OperationSignalled == DriverSpec => []Signalled
<1>1. RdInv => Signalled
  <2> SUFFICES ASSUME RdInv PROVE Signalled
    OBVIOUS
  <2> USE DEF RdInv
  <2>1. isr \in {"none", "A", "B"}
    BY DEF DriverTypeOK
  <2>2. Coming[1] + Coming[2] + Coming[3] + Coming[4] = IF request = Idle THEN 0 ELSE 1
    <3>1. CASE request = Idle
      <4>1. events = 0 /\ ~intA /\ ~intB /\ isr = "none"
        BY <2>1, <3>1 DEF OneComing, Moving, Over
      <4>2. QED
        BY <3>1, <4>1 DEF Coming
    <3>2. CASE request # Idle /\ events = 1
      <4>1. ~intA /\ ~intB /\ isr = "none"
        BY <3>2 DEF OneComing
      <4>2. QED
        BY <3>2, <4>1 DEF Coming
    <3>3. CASE request # Idle /\ events = 0
      <4>1. intA \/ intB \/ isr # "none"
        BY <3>3 DEF OneComing, Moving, Over
      <4>2. (intA => ~intB /\ isr = "none") /\ (intB => isr = "none")
        BY DEF OneComing
      <4>3. QED
        BY <3>3, <4>1, <4>2 DEF Coming
    <3>4. QED
      BY <3>1, <3>2, <3>3 DEF OneComing
  <2>3. QED
    BY <2>2 DEF Signalled, Requests, Over
<1>2. QED
  BY <1>1, RdInvariant, PTL

-----------------------------------------------------------------------------
(* The sectors by their addresses, which is how the abstract store sees    *)
(* the file.                                                               *)
Sectors(file) == [a \in Store!Address |-> file[Offset(a.cyl, a.head, a.sec)]]

LEMMA AddressParts ==
  ASSUME NEW a \in Store!Address
  PROVE  /\ a.cyl \in 0 .. Cyls - 1 /\ a.head \in 0 .. Heads - 1 /\ a.sec \in 0 .. Secs - 1
         /\ a = [cyl |-> a.cyl, head |-> a.head, sec |-> a.sec]
         /\ Offset(a.cyl, a.head, a.sec) \in 0 .. Cyls * Heads * Secs - 1
<1>1. a.cyl \in 0 .. Cyls - 1 /\ a.head \in 0 .. Heads - 1 /\ a.sec \in 0 .. Secs - 1
  BY DEF Store!Address
<1>2. a = [cyl |-> a.cyl, head |-> a.head, sec |-> a.sec]
  BY DEF Store!Address
<1>3. QED
  BY <1>1, <1>2, OffsetInFile

(* A sector of the file is one sector of the store, and a range of the     *)
(* file is a track.                                                        *)
LEMMA OneSectorWritten ==
  ASSUME disk \in [0 .. Cyls * Heads * Secs - 1 -> Sector],
         cyl \in 0 .. Cyls - 1, head \in 0 .. Heads - 1, sec \in 0 .. Secs - 1,
         disk' = [disk EXCEPT ![Offset(cyl, head, sec)] = request.data]
  PROVE  Sectors(disk') = [Sectors(disk) EXCEPT ![[cyl |-> cyl, head |-> head, sec |-> sec]] =
                                                   request.data]
<1> DEFINE at == [cyl |-> cyl, head |-> head, sec |-> sec]
<1>1. ASSUME NEW a \in Store!Address
      PROVE  disk'[Offset(a.cyl, a.head, a.sec)]
               = IF a = at THEN request.data ELSE disk[Offset(a.cyl, a.head, a.sec)]
  <2>1. a = at <=> Offset(a.cyl, a.head, a.sec) = Offset(cyl, head, sec)
    BY AddressParts, OffsetUnique
  <2>2. Offset(a.cyl, a.head, a.sec) \in 0 .. Cyls * Heads * Secs - 1
    BY AddressParts
  <2> HIDE DEF at
  <2>3. QED
    BY <2>1, <2>2
<1>2. Sectors(disk') = [a \in Store!Address |-> disk'[Offset(a.cyl, a.head, a.sec)]]
  BY DEF Sectors
<1>3. [Sectors(disk) EXCEPT ![at] = request.data]
        = [a \in Store!Address |->
            IF a = at THEN request.data ELSE disk[Offset(a.cyl, a.head, a.sec)]]
  BY DEF Sectors
<1> HIDE DEF at
<1>4. Sectors(disk') = [Sectors(disk) EXCEPT ![at] = request.data]
  BY <1>1, <1>2, <1>3
<1>5. QED
  BY <1>4 DEF at

LEMMA TrackWritten ==
  ASSUME disk \in [0 .. Cyls * Heads * Secs - 1 -> Sector],
         cyl \in 0 .. Cyls - 1, head \in 0 .. Heads - 1, NEW fill,
         disk' = [s \in DOMAIN disk |->
                   IF s \in Offset(cyl, head, 0) .. Offset(cyl, head, Secs - 1)
                   THEN fill ELSE disk[s]]
  PROVE  Sectors(disk') =
           [a \in Store!Address |->
             IF a.cyl = cyl /\ a.head = head THEN fill ELSE Sectors(disk)[a]]
<1>1. ASSUME NEW a \in Store!Address
      PROVE  disk'[Offset(a.cyl, a.head, a.sec)]
               = IF a.cyl = cyl /\ a.head = head THEN fill ELSE disk[Offset(a.cyl, a.head, a.sec)]
  <2>1. Offset(a.cyl, a.head, a.sec) \in DOMAIN disk
    BY AddressParts
  <2>2. Offset(a.cyl, a.head, a.sec) \in Offset(cyl, head, 0) .. Offset(cyl, head, Secs - 1)
          <=> a.cyl = cyl /\ a.head = head
    BY AddressParts, OffsetInTrack
  <2>3. QED
    BY <2>1, <2>2
<1>2. QED
  BY <1>1 DEF Sectors

LEMMA StoreIsSectors ==
  [a \in [cyl : 0 .. Cyls - 1, head : 0 .. Heads - 1, sec : 0 .. Secs - 1] |->
     disk[Offset(a.cyl, a.head, a.sec)]] = Sectors(disk)
  BY DEF Sectors, Store!Address

(* The last word of a write or a format performs it, that of a read shows  *)
(* only that all words have been moved.                                    *)
LEMMA LastWordPerforms ==
  ASSUME RdInv, MoveWord, ~(ptr < Last)
  PROVE  /\ request.op = "read" => Sectors(disk') = Sectors(disk)
         /\ request.op = "write" =>
              Sectors(disk') = [Sectors(disk) EXCEPT ![request.at] = request.data]
         /\ request.op = "format" =>
              Sectors(disk') =
                [a \in Store!Address |->
                  IF a.cyl = request.at.cyl /\ a.head = request.at.head
                  THEN [b \in 0 .. Bytes - 1 |-> request.data[Bytes - 1]]
                  ELSE Sectors(disk)[a]]
<1> USE DEF RdInv
<1>1. Moving /\ request # Idle
  BY DEF MoveWord, Moving, OneComing
<1>2. /\ request.at = [cyl |-> cyl, head |-> head, sec |-> sec] /\ cmd = request.op
      /\ ~Store!Refused(request)
  BY <1>1 DEF AsAsked, Transfer
<1>3. request \in Request /\ request.data \in Sector
  BY <1>1, PayloadAssumption DEF DriverTypeOK, Request
<1>4. disk \in [0 .. Cyls * Heads * Secs - 1 -> Sector] /\ {cyl, head, sec} \subseteq Nat
  BY RegisterAssumption DEF DriverTypeOK, TypeOK
<1>5. request.at.cyl = cyl /\ request.at.head = head /\ request.at.sec = sec
  BY <1>2
<1>6. 2 * moved + 1 = Bytes - 1 /\ moved \in Nat
  BY <1>1, SectorSize DEF Transfer, Last, DriverTypeOK
<1>7. request.op # "read" => /\ \A b \in 0 .. Bytes - 1 : secbuf'[b] = request.data[b]
                             /\ disk' = Written(secbuf')
  <2>1. request' = request
    BY DEF MoveWord
  <2>2. QED
    BY <1>6, <2>1, WordMoves DEF Source
<1>8. ASSUME request.op = "write"
      PROVE  Sectors(disk') = [Sectors(disk) EXCEPT ![request.at] = request.data]
  <2>1. cyl \in 0 .. Cyls - 1 /\ head \in 0 .. Heads - 1 /\ sec \in 0 .. Secs - 1
    BY <1>2, <1>4, <1>5, <1>8, GeometryTypes DEF Store!Refused, Store!OnDisk
  <2>2. /\ secbuf' = [b \in 0 .. Bytes - 1 |-> secbuf'[b]]
        /\ request.data = [b \in 0 .. Bytes - 1 |-> request.data[b]]
    BY <1>3, WordMoves DEF Sector
  <2>3. secbuf' = request.data
    BY <1>7, <1>8, <2>2
  <2>4. disk' = [disk EXCEPT ![Offset(cyl, head, sec)] = request.data]
    BY <1>2, <1>7, <1>8, <2>3 DEF Written
  <2>5. Sectors(disk') = [Sectors(disk) EXCEPT ![[cyl |-> cyl, head |-> head, sec |-> sec]] =
                                                  request.data]
    BY <1>4, <2>1, <2>4, OneSectorWritten
  <2>6. QED
    BY <1>2, <2>5
<1>9. ASSUME request.op = "format"
      PROVE  Sectors(disk') =
               [a \in Store!Address |->
                 IF a.cyl = request.at.cyl /\ a.head = request.at.head
                 THEN [b \in 0 .. Bytes - 1 |-> request.data[Bytes - 1]]
                 ELSE Sectors(disk)[a]]
  <2>1. cyl \in 0 .. Cyls - 1 /\ head \in 0 .. Heads - 1
    BY <1>2, <1>4, <1>5, <1>9, GeometryTypes DEF Store!Refused, Store!OnDisk
  <2>2. secbuf'[Bytes - 1] = request.data[Bytes - 1]
    BY <1>7, <1>9, SectorSize
  <2> DEFINE fill == [b \in 0 .. Bytes - 1 |-> request.data[Bytes - 1]]
  <2>3. disk' = [s \in DOMAIN disk |->
                  IF s \in Offset(cyl, head, 0) .. Offset(cyl, head, Secs - 1)
                  THEN fill ELSE disk[s]]
    BY <1>2, <1>7, <1>9, <2>2 DEF Written
  <2> HIDE DEF fill
  <2>4. Sectors(disk') = [a \in Store!Address |->
                           IF a.cyl = cyl /\ a.head = head THEN fill ELSE Sectors(disk)[a]]
    BY <1>4, <2>1, <2>3, TrackWritten
  <2>5. QED
    BY <1>5, <2>4 DEF fill
<1>10. request.op = "read" => Sectors(disk') = Sectors(disk)
  BY WordMoves
<1>11. QED
  BY <1>8, <1>9, <1>10

LEMMA FinishTells == ASSUME RdInv, Finish PROVE Store!Told
<1> USE DEF RdInv
<1>1. Over /\ request # Idle /\ opended
  BY DEF Finish, Over, OneComing, Requests
<1>2. /\ request' = Store!NoRequest /\ request' = Idle
      /\ answer' = [error |-> error,
                    data |-> IF request.op = "read" /\ ~error THEN received ELSE answer.data]
      /\ disk' = disk
  BY DEF Finish, ReadS2c, Store!NoRequest, Idle
<1>3. request \in Request /\ request.at = [cyl |-> cyl, head |-> head, sec |-> sec]
  BY <1>1 DEF DriverTypeOK, AsAsked
<1>4. request.at.cyl = cyl /\ request.at.head = head /\ request.at.sec = sec
  BY <1>3
<1>5. {cyl, head, sec} \subseteq Nat
  BY RegisterAssumption DEF DriverTypeOK, TypeOK
<1>6. ASSUME request.op = "read", ~error PROVE received = Sectors(disk)[request.at]
  <2>1. ~Store!Refused(request)
    BY <1>1, <1>6 DEF AsAsked
  <2>2. cyl \in 0 .. Cyls - 1 /\ head \in 0 .. Heads - 1 /\ sec \in 0 .. Secs - 1
    BY <1>4, <1>5, <1>6, <2>1, GeometryTypes DEF Store!Refused, Store!OnDisk
  <2>3. request.at \in Store!Address
    BY <1>3, <2>2 DEF Store!Address
  <2>4. received = disk[Offset(cyl, head, sec)]
    BY <1>1, <1>6 DEF Received
  <2>5. QED
    BY <1>4, <2>3, <2>4 DEF Sectors
<1>7. answer' = [error |-> Store!Refused(request),
                 data |-> IF request.op = "read" /\ ~Store!Refused(request)
                          THEN Sectors(disk)[request.at] ELSE answer.data]
  <2>1. error <=> Store!Refused(request)
    BY <1>1 DEF AsAsked
  <2>2. error \in BOOLEAN /\ Store!Refused(request) \in BOOLEAN
    BY DEF DriverTypeOK, TypeOK, Store!Refused
  <2>3. error = Store!Refused(request)
    BY <2>1, <2>2
  <2>4. QED
    BY <1>2, <1>6, <2>1, <2>3
<1>8. QED
  BY <1>1, <1>2, <1>7, StoreIsSectors DEF Store!Told, Sectors

LEMMA StoreStep == RdInv /\ [DriverNext]_allVars => [Store!StoreNext]_Store!storeVars
<1> SUFFICES ASSUME RdInv, [DriverNext]_allVars PROVE [Store!StoreNext]_Store!storeVars
  OBVIOUS
<1> USE DEF RdInv
<1>1. CASE SetAddress
  BY <1>1 DEF SetAddress, WriteCyl, WriteHead, WriteSec, driverVars, status, Store!storeVars
<1>2. ASSUME NEW op \in Cmd, NEW d \in Payload, Ask(op, d) PROVE Store!StoreNext
  <2>1. RdInv'
    BY <1>2, RdAsk
  <2>2. request = Idle /\ request' # Idle /\ request'.op = op
    BY <1>2 DEF Ask, Idle, Cmd
  <2>3. UNCHANGED <<disk, answer, isr>>
    BY <1>2 DEF Ask, WriteCommand
  <2>4. opended' <=> op = "restore" \/ Store!Refused(request')
    <3>1. error' <=> Store!Refused(request')
      BY <2>1, <2>2 DEF AsAsked
    <3>2. op = "restore" => opended' = TRUE
      BY <1>2 DEF Ask, WriteCommand, IntA
    <3>3. op # "restore" => \/ opended' = TRUE /\ error' = TRUE
                            \/ opended' = FALSE /\ error' = FALSE
      BY <1>2 DEF Ask, WriteCommand, IntA, Error
    <3>4. op = "restore" => ~Store!Refused(request')
      BY <2>2 DEF Store!Refused
    <3>5. QED
      BY <3>1, <3>2, <3>3, <3>4
  <2>5. Store!Ask
    BY <2>2, <2>3, <2>4 DEF Store!Ask, Store!NoRequest, Idle
  <2>6. QED
    BY <2>5 DEF Store!StoreNext
<1>3. CASE DataIsReady \/ EnterA \/ EnterB
  BY <1>3 DEF DataIsReady, RdEvent, IntB, EnterA, TakeA, EnterB, TakeB, driverVars, Store!storeVars
<1>4. CASE MoveWord /\ ptr < Last
  <2>1. UNCHANGED <<opended, request, answer>>
    BY <1>4, WordMoves DEF MoveWord, ReadData, WriteData, NextWord
  <2>2. UNCHANGED disk
    BY <1>4, WordMoves
  <2>3. QED
    BY <2>1, <2>2 DEF Store!storeVars
<1>5. CASE MoveWord /\ ~(ptr < Last)
  <2>1. opended' = TRUE /\ UNCHANGED <<request, answer>>
    BY <1>5, WordMoves DEF MoveWord, ReadData, WriteData, NextWord, IntA
  <2>2. request # Idle /\ ~opended
    BY <1>5 DEF MoveWord, OneComing, Requests, Moving, Over
  <2>3. request.op \in {"read", "write", "format"}
    BY <1>5, WordMoves DEF Request, Cmd
  <2>4. Store!Perform
    BY <1>5, <2>1, <2>2, <2>3, LastWordPerforms, StoreIsSectors
       DEF Store!Perform, Store!NoRequest, Idle, Sectors
  <2>5. QED
    BY <2>4 DEF Store!StoreNext
<1>6. CASE Finish
  BY <1>6, FinishTells DEF Store!StoreNext
<1>7. CASE Restart
  <2>1. Store!Lost
    BY <1>7 DEF Restart, Reset, Store!Lost, Store!NoRequest, Idle
  <2>2. QED
    BY <2>1 DEF Store!StoreNext
<1>8. CASE UNCHANGED allVars
  BY <1>8 DEF allVars, vars, driverVars, status, Store!storeVars
<1>9. QED
  BY <1>1, <1>2, <1>3, <1>4, <1>5, <1>6, <1>7, <1>8 DEF DriverNext

(* The controller with its driver is a store of sectors, for any geometry  *)
(* and sector size: a word by word transfer through one buffer, with two   *)
(* interrupts and restarts in the middle, changes whole sectors at the     *)
(* place that was asked for, and answers with what is there.               *)
THEOREM RdImplementsStore == DriverSpec => ImplementsStore
<1>1. DriverInit => Store!StoreInit
  <2> SUFFICES ASSUME DriverInit PROVE Store!StoreInit
    OBVIOUS
  <2>1. Sectors(disk) \in [Store!Address -> Store!Sector]
    <3>1. \A a \in Store!Address : Offset(a.cyl, a.head, a.sec) \in 0 .. Cyls * Heads * Secs - 1
      BY AddressParts
    <3>2. \A n \in 0 .. Cyls * Heads * Secs - 1 : disk[n] \in Store!Sector
      BY ZerosType DEF DriverInit, Init, Sector, Store!Sector
    <3>3. QED
      BY <3>1, <3>2 DEF Sectors
  <2>2. request = Store!NoRequest /\ request = Idle
    BY DEF DriverInit, Store!NoRequest, Idle
  <2>3. answer \in [error : {FALSE}, data : Store!Sector]
    BY ZerosType DEF DriverInit, Sector, Store!Sector
  <2>4. QED
    BY <2>1, <2>2, <2>3, StoreIsSectors DEF Store!StoreInit
<1>2. QED
  BY <1>1, RdInvariant, StoreStep, PTL DEF DriverSpec, ImplementsStore, Store!StoreSpec
=============================================================================
