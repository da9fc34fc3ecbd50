----------------------------- MODULE RxDriver_proofs ----------------------------
(* Proofs about the floppy controller and its driver program, for any      *)
(* drives, files, sizes of diskettes and operators.                        *)
EXTENDS RxDriver, TLAPS

-----------------------------------------------------------------------------
(* The protocol: what the controller remembers, what is on its way to the  *)
(* program, and what the program believes.                                 *)

(* An interrupt is due for the next change, or has come, or the program is *)
(* going to ask anyway.                                                    *)
Alert == intbEn \/ intB \/ noticed
Asking == request.op = "stat" /\ Started
WillHear == Alert \/ (todo # {} /\ ~Asking)

(* One request at a time, and its command in the registers until it runs.  *)
OneRequest ==
  /\ request = Idle => ~intA /\ ~ended
  /\ ended => ~intA
  /\ request.op = "stat" /\ ~Started => command.fn = "stat" /\ command.drive = request.drive
  /\ request.op # "stat" /\ request # Idle /\ ~Started => command.fn # "stat"
  /\ request.op = "stat" => request.drive \in Exist

NoLooseTab == \A d \in wprot : d \in Drive /\ inDrive[d] # "none"

Quiet == intbEn => vchanged = {}

(* A status that was asked for is right unless the drive changed since.    *)
Fresh ==
  Asking => \/ request.drive \in vchanged
            \/ /\ status.ready = Ready(request.drive)
               /\ status.wprot = (request.drive \in wprot)

Told == \A d \in Exist : known[d] = State(d) \/ Underway(d)

ToldInv ==
  /\ OneRequest /\ WillHear /\ NoLooseTab /\ Quiet /\ Fresh /\ Told
  /\ todo \subseteq Exist /\ DOMAIN known = Exist /\ DOMAIN inDrive = Drive

LEMMA ToldInit == DriverInit => ToldInv
  BY DriveAssumption, FileAssumption
  DEF DriverInit, Init, ToldInv, OneRequest, WillHear, NoLooseTab, Quiet, Fresh, Told, Idle,
      Underway, Alert, Asking, Started, Ready, Unknown

(* What an operator does is one of these steps.                            *)
LEMMA ToldDoor ==
  ASSUME ToldInv, NEW d \in Exist, UNCHANGED driverVars, status' = status, command' = command,
         intA' = intA,
         \/ /\ OpenDoor(d)
         \/ \E f \in Rack[d] : CloseDoor(d, f)
  PROVE  ToldInv'
<1> USE DEF ToldInv, driverVars, Alert, Asking, Started
<1>1. d \in Drive
  BY DriveAssumption
<1>2. CASE inDrive' = inDrive /\ wprot' = wprot \ {d} /\ UNCHANGED <<vchanged, intbEn, intB>> /\ ~Ready(d)
  <2>1. wprot' = wprot
    BY <1>2 DEF NoLooseTab, Ready
  <2>2. QED
    BY <1>2, <2>1 DEF OneRequest, WillHear, NoLooseTab, Quiet, Fresh, Told, Ready, State, Underway
<1>3. CASE /\ VolumeChanged(d) /\ DOMAIN inDrive' = Drive
           /\ \A e \in Drive \ {d} : inDrive'[e] = inDrive[e] /\ (e \in wprot' <=> e \in wprot)
           /\ \A e \in wprot' : e \in Drive /\ inDrive'[e] # "none"
  <2>1. OneRequest'
    BY DEF OneRequest
  <2>2. WillHear'
    BY <1>3 DEF WillHear, VolumeChanged
  <2>3. NoLooseTab'
    BY <1>3 DEF NoLooseTab
  <2>7. Quiet'
    BY <1>3 DEF Quiet, VolumeChanged
  <2>4. Fresh'
    BY <1>3, DriveAssumption DEF Fresh, VolumeChanged, Ready, OneRequest
  <2>5. Told'
    BY <1>3, DriveAssumption DEF Told, VolumeChanged, Ready, State, Underway
  <2>6. QED
    BY <1>3, <2>1, <2>2, <2>3, <2>4, <2>5, <2>7
<1>4. CASE OpenDoor(d)
  <2>1. VolumeChanged(d) /\ wprot' = wprot \ {d} /\ inDrive' = [inDrive EXCEPT ![d] = "none"]
    BY <1>4 DEF OpenDoor
  <2>2. QED
    BY <1>1, <1>3, <2>1 DEF NoLooseTab, Ready
<1>5. ASSUME NEW f \in Rack[d], CloseDoor(d, f) PROVE ToldInv'
  <2>1. CASE f \in Fits
    <3>1. /\ VolumeChanged(d) /\ inDrive' = [inDrive EXCEPT ![d] = f]
          /\ wprot' = IF f \in ReadOnly THEN wprot \cup {d} ELSE wprot
      BY <1>5, <2>1 DEF CloseDoor
    <3>2. QED
      BY <1>1, <1>3, <2>1, <3>1, FileAssumption DEF NoLooseTab, Ready
  <2>2. CASE f \notin Fits
    BY <1>2, <1>5, <2>2 DEF CloseDoor
  <2>3. QED
    BY <2>1, <2>2
<1>6. QED
  BY <1>4, <1>5

-----------------------------------------------------------------------------
(* The steps of the program.                                               *)
LEMMA ToldAsk ==
  ASSUME ToldInv, DriverTypeOK,
         \/ \E op \in {"read", "write"}, at \in Wanted, data \in Payload :
              AskSector(op, at[1], at[2], at[3], data)
         \/ \E fn \in {"init", "address", "version"} : AskOther(fn)
  PROVE  ToldInv'
<1> USE DEF ToldInv, Alert, Asking, Started
<1>1. /\ UNCHANGED <<doors, intA, status, ended, noticed, todo, known>>
      /\ request = Idle /\ request' # Idle /\ request'.op \in {"read", "write", "other"}
      /\ command'.fn # "stat"
  <2>1. ASSUME NEW op \in {"read", "write"}, NEW at \in Wanted, NEW data \in Payload,
               AskSector(op, at[1], at[2], at[3], data)
        PROVE  <1>1!:
    BY <2>1 DEF AskSector, Idle, doors
  <2>2. ASSUME NEW fn \in {"init", "address", "version"}, AskOther(fn)
        PROVE  <1>1!:
    BY <2>2 DEF AskOther, WriteCommand, NoCommand, regs, doors, Idle
  <2>3. QED
    BY <2>1, <2>2
<1>2. ~Started
  BY <1>1 DEF OneRequest
<1>3. request.op = "none"
  BY <1>1 DEF Idle
<1>4. OneRequest'
  BY <1>1, <1>2 DEF OneRequest
<1>5. WillHear' /\ NoLooseTab' /\ Quiet' /\ Fresh'
  BY <1>1, <1>3 DEF WillHear, NoLooseTab, Quiet, Fresh, doors, Ready
<1>6. Told'
  BY <1>1, <1>3 DEF Told, State, Ready, Underway, doors
<1>7. QED
  BY <1>1, <1>4, <1>5, <1>6 DEF doors

LEMMA ToldAskStatus ==
  ASSUME ToldInv, DriverTypeOK, NEW d \in Exist, AskStatus(d)
  PROVE  ToldInv'
<1> USE DEF ToldInv, Alert, Asking, Started
<1>1. /\ UNCHANGED <<doors, intA, status, ended, noticed, todo, known>>
      /\ request = Idle /\ request' # Idle /\ request'.op = "stat" /\ request'.drive = d
      /\ command'.fn = "stat" /\ command'.drive = d
  BY DEF AskStatus, WriteCommand, NoCommand, Idle
<1>2. ~Started
  BY <1>1 DEF OneRequest
<1>3. request.op = "none"
  BY <1>1 DEF Idle
<1>4. OneRequest'
  BY <1>1, <1>2 DEF OneRequest
<1>5. WillHear' /\ NoLooseTab' /\ Quiet' /\ Fresh'
  BY <1>1, <1>2, <1>3 DEF WillHear, NoLooseTab, Quiet, Fresh, doors, Ready
<1>6. Told'
  BY <1>1, <1>3 DEF Told, State, Ready, Underway, doors
<1>7. QED
  BY <1>1, <1>4, <1>5, <1>6 DEF doors

(* The command runs.                                                       *)
LEMMA ToldStart ==
  ASSUME ToldInv, DriverTypeOK, Start
  PROVE  ToldInv'
<1> USE DEF ToldInv, Alert, Asking, Started
<1>1. /\ UNCHANGED <<request, command, inDrive, wprot, intB, ended, todo, known>>
      /\ request # Idle /\ ~Started /\ intA' = TRUE
      /\ noticed' = (noticed /\ request.op # "stat")
  BY DEF Start, StartCommand
<1>2. CASE request.op = "stat"
  <2>1. /\ status' = MaintStatus /\ vchanged' = {} /\ intbEn' = TRUE
    BY <1>1, <1>2 DEF Start, StartCommand, ShowChanges, OneRequest
  <2>2. OneRequest' /\ WillHear' /\ NoLooseTab' /\ Quiet'
    BY <1>1, <1>2, <2>1 DEF OneRequest, WillHear, NoLooseTab, Quiet
  <2>3. Fresh'
    BY <1>1, <1>2, <2>1 DEF Fresh, MaintStatus, OneRequest, Ready
  <2>4. Told'
    BY <1>1, <1>2, <2>1 DEF Told, State, Ready, Underway, MaintStatus
  <2>5. QED
    BY <1>1, <2>2, <2>3, <2>4
<1>3. CASE request.op # "stat"
  <2>1. UNCHANGED <<vchanged, intbEn>>
    BY <1>1, <1>3 DEF Start, StartCommand, OneRequest
  <2>2. noticed' = noticed
    BY <1>1, <1>3 DEF DriverTypeOK
  <2>3. OneRequest' /\ WillHear' /\ NoLooseTab' /\ Quiet' /\ Fresh'
    BY <1>1, <1>3, <2>1, <2>2 DEF OneRequest, WillHear, NoLooseTab, Quiet, Fresh
  <2>4. Told'
    BY <1>1, <1>3, <2>1 DEF Told, State, Ready, Underway
  <2>5. QED
    BY <1>1, <2>3, <2>4
<1>4. QED
  BY <1>2, <1>3

LEMMA ToldInterrupts ==
  ASSUME ToldInv, DriverTypeOK, EnterA \/ EnterB
  PROVE  ToldInv'
<1> USE DEF ToldInv, Alert, Asking, Started
<1>1. CASE EnterA
  <2>1. /\ UNCHANGED <<regs, doors, request, noticed, todo, known>>
        /\ intA = TRUE /\ intA' = FALSE /\ ended' = TRUE
    BY <1>1 DEF EnterA, DriverTypeOK, TypeOK
  <2>2. OneRequest' /\ WillHear' /\ NoLooseTab' /\ Quiet' /\ Fresh'
    BY <2>1 DEF OneRequest, WillHear, NoLooseTab, Quiet, Fresh, doors, regs, Ready
  <2>3. Told'
    BY <2>1 DEF Told, State, Ready, Underway, doors, regs
  <2>4. QED
    BY <2>1, <2>2, <2>3 DEF doors
<1>2. CASE EnterB
  <2>1. /\ UNCHANGED <<regs, inDrive, wprot, vchanged, intbEn, intA, request, ended, todo, known>>
        /\ noticed' = TRUE
    BY <1>2 DEF EnterB, TakeB
  <2>2. OneRequest' /\ WillHear' /\ NoLooseTab' /\ Quiet' /\ Fresh'
    BY <2>1 DEF OneRequest, WillHear, NoLooseTab, Quiet, Fresh, regs, Ready
  <2>3. Told'
    BY <2>1 DEF Told, State, Ready, Underway, regs
  <2>4. QED
    BY <2>1, <2>2, <2>3
<1>3. QED
  BY <1>1, <1>2

LEMMA ToldBytes ==
  ASSUME ToldInv, DriverTypeOK, Fill \/ Empty
  PROVE  ToldInv'
<1> USE DEF ToldInv, Alert, Asking, Started
<1>1. UNCHANGED <<regs, doors, intA, request, ended, noticed, todo, known>>
  BY DEF Fill, FillByte, Empty, EmptyByte
<1>2. OneRequest' /\ WillHear' /\ NoLooseTab' /\ Quiet' /\ Fresh'
  BY <1>1 DEF OneRequest, WillHear, NoLooseTab, Quiet, Fresh, doors, regs, Ready
<1>3. Told'
  BY <1>1 DEF Told, State, Ready, Underway, doors, regs
<1>4. QED
  BY <1>1, <1>2, <1>3 DEF doors

LEMMA ToldFinish ==
  ASSUME ToldInv, DriverTypeOK, FinishSector \/ FinishOther \/ FinishStatus
  PROVE  ToldInv'
<1> USE DEF ToldInv, Alert, Asking, Started
<1>1. /\ UNCHANGED <<status, doors, intA, noticed>>
      /\ ended = TRUE /\ ended' = FALSE /\ request' = Idle
      /\ request.op \in {"read", "write", "other", "stat"}
  BY DEF FinishSector, FinishOther, FinishStatus, Done, WriteCommand, DriverTypeOK
<1>2. ~intA /\ ~intA'
  BY <1>1 DEF OneRequest
<1>3. request'.op = "none"
  BY <1>1 DEF Idle
<1>4. OneRequest' /\ NoLooseTab' /\ Quiet' /\ Fresh'
  BY <1>1, <1>2, <1>3 DEF OneRequest, NoLooseTab, Quiet, Fresh, doors, Ready
<1>5. CASE FinishStatus
  <2>1. /\ request.op = "stat"
        /\ known' = [known EXCEPT ![request.drive] = [ready |-> status.ready, wprot |-> status.wprot]]
        /\ todo' = (todo \cup (status.changed \cap Exist)) \ {request.drive}
    BY <1>5 DEF FinishStatus
  <2>2. WillHear'
    BY <1>1, <2>1 DEF WillHear, doors
  <2>3. ASSUME NEW d \in Exist PROVE known'[d] = State(d)' \/ Underway(d)'
    <3>1. CASE d = request.drive
      BY <1>1, <2>1, <3>1 DEF Fresh, State, Ready, Underway, doors
    <3>2. CASE d # request.drive
      BY <1>1, <2>1, <3>2 DEF Told, State, Ready, Underway, doors
    <3>3. QED
      BY <3>1, <3>2
  <2>4. QED
    BY <1>1, <1>4, <2>1, <2>2, <2>3 DEF Told, doors
<1>6. CASE FinishSector \/ FinishOther
  <2>1. request.op # "stat" /\ UNCHANGED <<todo, known>>
    BY <1>6 DEF FinishSector, FinishOther
  <2>2. WillHear'
    BY <1>1, <1>3, <2>1 DEF WillHear, doors
  <2>3. Told'
    BY <1>1, <2>1 DEF Told, State, Ready, Underway, doors
  <2>4. QED
    BY <1>1, <1>4, <2>1, <2>2, <2>3 DEF doors
<1>7. QED
  BY <1>5, <1>6

LEMMA ToldRestart ==
  ASSUME ToldInv, Restart
  PROVE  ToldInv'
<1>1. PICK files \in [Closed -> File] :
         ResetTo(inDrive, files) \/ ResetTo([d \in Drive |-> "none"], files)
  BY DEF Restart, Reset, ExitAndStart
<1>2. /\ intbEn' = FALSE /\ intA' = FALSE /\ request' = Idle /\ ended' = FALSE
      /\ todo' = Exist /\ known' = [d \in Exist |-> Unknown] /\ request'.op = "none"
  BY <1>1 DEF Restart, Done, ResetTo, Idle
<1>3. DOMAIN inDrive' = Drive /\ wprot' = {d \in Drive : inDrive'[d] \in ReadOnly}
  BY <1>1 DEF ResetTo
<1>4. OneRequest' /\ WillHear' /\ Quiet' /\ Fresh'
  BY <1>2, DriveAssumption DEF OneRequest, WillHear, Quiet, Fresh, Alert, Asking, Started
<1>5. NoLooseTab'
  BY <1>3, FileAssumption DEF NoLooseTab
<1>6. Told'
  BY <1>2 DEF Told, Underway
<1>7. QED
  BY <1>2, <1>3, <1>4, <1>5, <1>6 DEF ToldInv

LEMMA ToldStep == ToldInv /\ DriverTypeOK /\ [DriverNext]_allVars => ToldInv'
<1> SUFFICES ASSUME ToldInv, DriverTypeOK, [DriverNext]_allVars PROVE ToldInv'
  OBVIOUS
<1>1. ASSUME NEW op \in {"read", "write"}, NEW at \in Wanted, NEW data \in Payload,
             AskSector(op, at[1], at[2], at[3], data)
      PROVE  ToldInv'
  BY <1>1, ToldAsk
<1>2. ASSUME NEW fn \in {"init", "address", "version"}, AskOther(fn) PROVE ToldInv'
  BY <1>2, ToldAsk
<1>3. CASE Serve
  BY <1>3, ToldAskStatus, ToldStart, ToldInterrupts, ToldBytes, ToldFinish DEF Serve
<1>4. CASE EnterB
  BY <1>4, ToldInterrupts
<1>5. CASE Operate
  <2>1. PICK d \in Exist : OpenDoor(d) \/ \E f \in Rack[d] : CloseDoor(d, f)
    BY <1>5 DEF Operate
  <2>2. UNCHANGED <<driverVars, status, command, intA>>
    BY <1>5, <2>1 DEF Operate, OpenDoor, CloseDoor, regs
  <2>3. QED
    BY <2>1, <2>2, ToldDoor
<1>6. CASE Restart
  BY <1>6, ToldRestart
<1>7. CASE UNCHANGED allVars
  <2>1. UNCHANGED <<regs, doors, intA, request, ended, noticed, todo, known>>
    BY <1>7 DEF allVars, vars, driverVars
  <2>2. QED
    BY <2>1 DEF ToldInv, OneRequest, WillHear, NoLooseTab, Quiet, Fresh, Told, State, Ready,
                Underway, Alert, Asking, Started, doors, regs
<1>8. QED
  BY <1>1, <1>2, <1>3, <1>4, <1>5, <1>6, <1>7 DEF DriverNext

-----------------------------------------------------------------------------
(* Types.  The buffers are sectors because an address that passes the      *)
(* checks is one of the image.                                             *)
RequestOK ==
  /\ request.op = "write" => request.data \in Sector
  /\ request.op = "stat" => request.drive \in Exist

Types == DriverTypeOK /\ RequestOK

LEMMA OffsetInImage ==
  ASSUME NEW track \in Number, NEW sector \in Number,
         track < Tracks, sector # 0, sector <= Spt
  PROVE  Offset(track, sector) \in 0 .. Tracks * Spt - 1
<1>1. track \in Nat /\ sector \in Nat /\ Tracks \in Nat /\ Spt \in Nat
  BY SizeAssumption, NumberAssumption
<1>2. track * Spt \in Nat /\ Tracks * Spt \in Nat
  BY <1>1
<1>3. (track + 1) * Spt <= Tracks * Spt
  BY <1>1
<1>4. (track + 1) * Spt = track * Spt + Spt
  BY <1>1
<1>5. QED
  BY <1>1, <1>2, <1>3, <1>4 DEF Offset

LEMMA ZerosType == Zeros \in Sector
  BY SizeAssumption DEF Zeros, Sector

LEMMA NextPlaceType ==
  ASSUME ptr \in 0 .. Bytes - 1
  PROVE  NextPlace \in 0 .. Bytes - 1
<1>1. Bytes \in Nat \ {0}
  BY SizeAssumption
<1>2. QED
  BY <1>1 DEF NextPlace

(* What a command leaves, whichever it is.                                 *)
LEMMA CommandTypes ==
  ASSUME TypeOK, StartCommand
  PROVE  TypeOK'
<1> USE DEF TypeOK
<1>1. NoStatus \in [error : Code, changed : SUBSET Drive, ready : BOOLEAN, wprot : BOOLEAN]
  BY DEF NoStatus, Code
<1>2. MaintStatus \in [error : Code, changed : SUBSET Drive, ready : BOOLEAN, wprot : BOOLEAN]
  BY DEF MaintStatus, Code, Ready
<1>3. ASSUME NEW code \in Code, Failed(code)
      PROVE  /\ status' \in [error : Code, changed : SUBSET Drive, ready : BOOLEAN, wprot : BOOLEAN]
             /\ secbuf' \in Sector /\ image' \in [Fits -> [0 .. Tracks * Spt - 1 -> Sector]]
  BY <1>1, <1>3 DEF Failed, RwStatus
<1>4. ASSUME NEW w \in BOOLEAN
      PROVE  /\ Verdict(w) \in Code
             /\ Verdict(w) = "none" => /\ inDrive[command.drive] \in Fits
                                       /\ Offset(command.track, command.sector) \in 0 .. Tracks * Spt - 1
  <2>1. command.drive \in Drive /\ command.track \in Number /\ command.sector \in Number
    OBVIOUS
  <2>2. Verdict(w) \in Code
    BY DEF Verdict, Code
  <2>3. ASSUME Verdict(w) = "none"
        PROVE  /\ Ready(command.drive) /\ ~(command.track >= Tracks)
               /\ command.sector # 0 /\ ~(command.sector > Spt)
    BY <2>3 DEF Verdict
  <2>4. ASSUME Verdict(w) = "none"
        PROVE  command.track < Tracks /\ command.sector <= Spt
    <3>1. /\ command.track \in Nat /\ command.sector \in Nat /\ Tracks \in Nat /\ Spt \in Nat
          /\ ~(command.track >= Tracks) /\ ~(command.sector > Spt)
      BY <2>1, <2>3, <2>4, SizeAssumption, NumberAssumption
    <3> HIDE DEF TypeOK
    <3>2. QED
      BY <3>1
  <2>5. QED
    BY <2>1, <2>2, <2>3, <2>4, OffsetInImage DEF Ready
<1>5. /\ status' \in [error : Code, changed : SUBSET Drive, ready : BOOLEAN, wprot : BOOLEAN]
      /\ secbuf' \in Sector /\ image' \in [Fits -> [0 .. Tracks * Spt - 1 -> Sector]]
  <2>1. CASE ReadSector
    <3>1. CASE Verdict(FALSE) # "none"
      BY <1>3, <1>4, <2>1, <3>1 DEF ReadSector
    <3>2. CASE Verdict(FALSE) = "none"
      <4>1. /\ status' = NoStatus /\ image' = image
            /\ secbuf' = image[inDrive[command.drive]][Offset(command.track, command.sector)]
        BY <2>1, <3>2 DEF ReadSector, RwStatus
      <4>2. PICK f \in Fits, n \in 0 .. Tracks * Spt - 1 : secbuf' = image[f][n]
        BY <1>4, <3>2, <4>1
      <4>3. image[f] \in [0 .. Tracks * Spt - 1 -> Sector]
        OBVIOUS
      <4> HIDE DEF TypeOK
      <4>4. secbuf' \in Sector
        BY <4>2, <4>3, Zenon
      <4> USE DEF TypeOK
      <4>5. QED
        BY <1>1, <4>1, <4>4
    <3>3. QED
      BY <3>1, <3>2
  <2>2. CASE WriteSector
    <3>1. CASE Verdict(TRUE) # "none"
      BY <1>3, <1>4, <2>2, <3>1 DEF WriteSector
    <3>2. CASE Verdict(TRUE) = "none"
      <4>1. /\ status' = NoStatus /\ secbuf' = secbuf
            /\ image' = [image EXCEPT
                 ![inDrive[command.drive]][Offset(command.track, command.sector)] = secbuf]
        BY <2>2, <3>2 DEF WriteSector, RwStatus
      <4> DEFINE f == inDrive[command.drive]
               n == Offset(command.track, command.sector)
      <4>3. f \in Fits /\ n \in 0 .. Tracks * Spt - 1
        BY <1>4, <3>2
      <4>4. [image[f] EXCEPT ![n] = secbuf] \in [0 .. Tracks * Spt - 1 -> Sector]
        BY <4>3
      <4>5. image' = [image EXCEPT ![f] = [image[f] EXCEPT ![n] = secbuf]]
        BY <4>1
      <4>6. image' \in [Fits -> [0 .. Tracks * Spt - 1 -> Sector]]
        BY <4>3, <4>4, <4>5
      <4>7. QED
        BY <1>1, <4>1, <4>6
    <3>3. QED
      BY <3>1, <3>2
  <2>3. CASE status' \in {status, MaintStatus, NoStatus} /\ UNCHANGED <<secbuf, image>>
    BY <1>1, <1>2, <2>3
  <2>4. QED
    BY <2>1, <2>2, <2>3 DEF StartCommand, ShowChanges, RwStatus
<1>6. /\ vchanged' \subseteq Drive /\ intbEn' \in BOOLEAN /\ intA' \in BOOLEAN /\ intB' \in BOOLEAN
  BY DEF StartCommand, ShowChanges
<1>7. UNCHANGED <<command, ptr, inDrive, wprot>>
  BY DEF StartCommand
<1>8. QED
  BY <1>5, <1>6, <1>7

(* The program's variables, whatever the controller does.                  *)
Requests ==
  /\ request = Idle \/ request.op \in {"read", "write", "other", "stat"}
  /\ RequestOK
Program ==
  /\ moved \in 0 .. Bytes /\ received \in Sector
  /\ {ended, noticed} \subseteq BOOLEAN
  /\ todo \subseteq Exist
  /\ known \in [Exist -> [ready : BOOLEAN, wprot : BOOLEAN]]
  /\ writes \in 0 .. MaxWrites

LEMMA TypesParts == Types <=> TypeOK /\ Requests /\ Program
  BY DEF Types, DriverTypeOK, Requests, Program

LEMMA TypesInit == DriverInit => Types
<1> SUFFICES ASSUME DriverInit PROVE TypeOK /\ Requests /\ Program
  BY TypesParts
<1>1. TypeOK
  <2>1. 0 \in 0 .. Bytes - 1 /\ 0 \in Number /\ 0 \in Drive
    BY SizeAssumption, NumberAssumption, DriveAssumption
  <2>2. NoCommand \in [fn : Function, drive : Drive, track : Number, sector : Number]
    BY <2>1 DEF NoCommand, Function
  <2>3. NoStatus \in [error : Code, changed : SUBSET Drive, ready : BOOLEAN, wprot : BOOLEAN]
    BY DEF NoStatus, Code
  <2>4. image \in [Fits -> [0 .. Tracks * Spt - 1 -> Sector]]
    BY ZerosType DEF DriverInit, Init
  <2>5. QED
    BY <2>1, <2>2, <2>3, <2>4, ZerosType DEF DriverInit, Init, TypeOK
<1>2. Requests
  BY DEF DriverInit, Requests, RequestOK, Idle
<1>3. Program
  <2>1. 0 \in 0 .. Bytes /\ 0 \in 0 .. MaxWrites
    BY SizeAssumption, WritesAssumption
  <2>2. known \in [Exist -> [ready : BOOLEAN, wprot : BOOLEAN]]
    BY DEF DriverInit, Unknown
  <2>3. QED
    BY <2>1, <2>2, ZerosType DEF DriverInit, Program
<1>4. QED
  BY <1>1, <1>2, <1>3

LEMMA TypesAsk ==
  ASSUME Types,
         \/ \E op \in {"read", "write"}, at \in Wanted, data \in Payload :
              AskSector(op, at[1], at[2], at[3], data)
         \/ \E fn \in {"init", "address", "version"} : AskOther(fn)
         \/ \E d \in Exist : AskStatus(d)
  PROVE  Types'
<1> SUFFICES TypeOK' /\ Requests' /\ Program'
  BY DEF Types, DriverTypeOK, Requests, Program
<1> USE TypesParts
<1>1. 0 \in Number /\ 0 \in Drive /\ 0 \in 0 .. Bytes - 1 /\ Exist \subseteq Drive
  BY SizeAssumption, NumberAssumption, DriveAssumption
<1>2. ASSUME NEW op \in {"read", "write"}, NEW at \in Wanted, NEW data \in Payload,
             AskSector(op, at[1], at[2], at[3], data)
      PROVE  TypeOK' /\ Requests' /\ Program'
  <2>1. at[1] \in Drive /\ at[2] \in Number /\ at[3] \in Number /\ data \in Sector
    BY WantedAssumption, PayloadAssumption
  <2>2. TypeOK'
    <3>1. command' \in [fn : Function, drive : Drive, track : Number, sector : Number]
      BY <1>2, <2>1 DEF AskSector, Function
    <3>2. ptr' \in 0 .. Bytes - 1
      BY <1>1, <1>2 DEF AskSector, TypeOK
    <3>3. QED
      BY <1>2, <3>1, <3>2 DEF AskSector, TypeOK, doors
  <2>3. Requests'
    BY <1>2, <2>1 DEF AskSector, Requests, RequestOK
  <2>4. writes' \in 0 .. MaxWrites
    BY <1>2, WritesAssumption DEF AskSector, Program
  <2>5. Program'
    BY <1>2, <2>4 DEF AskSector, Program
  <2>6. QED
    BY <2>2, <2>3, <2>5
<1>3. ASSUME NEW fn \in {"init", "address", "version"}, AskOther(fn)
      PROVE  TypeOK' /\ Requests' /\ Program'
  <2>1. TypeOK'
    BY <1>1, <1>3 DEF AskOther, WriteCommand, NoCommand, TypeOK, Function, buffer, doors
  <2>2. Requests' /\ Program'
    BY <1>3 DEF AskOther, Requests, RequestOK, Program
  <2>3. QED
    BY <2>1, <2>2
<1>4. ASSUME NEW d \in Exist, AskStatus(d)
      PROVE  TypeOK' /\ Requests' /\ Program'
  <2>1. TypeOK'
    BY <1>1, <1>4 DEF AskStatus, WriteCommand, NoCommand, TypeOK, Function, buffer, doors
  <2>2. Requests' /\ Program'
    BY <1>4 DEF AskStatus, Requests, RequestOK, Program
  <2>3. QED
    BY <2>1, <2>2
<1>5. QED
  BY <1>2, <1>3, <1>4

LEMMA TypesServe ==
  ASSUME Types, Start \/ EnterA \/ EnterB \/ Fill \/ Empty
  PROVE  Types'
<1> SUFFICES TypeOK' /\ Requests' /\ Program'
  BY DEF Types, DriverTypeOK, Requests, Program
<1> USE TypesParts
<1>1. CASE Start
  <2>1. TypeOK'
    BY <1>1, CommandTypes DEF Start
  <2>2. Requests' /\ Program'
    BY <1>1 DEF Start, Requests, RequestOK, Program
  <2>3. QED
    BY <2>1, <2>2
<1>2. CASE EnterA
  <2>1. ptr' \in 0 .. Bytes - 1
    BY <1>2, SizeAssumption DEF EnterA, TypeOK
  <2>2. TypeOK'
    BY <1>2, <2>1 DEF EnterA, TypeOK, regs, doors
  <2>3. Requests' /\ Program'
    BY <1>2 DEF EnterA, Requests, RequestOK, Program
  <2>4. QED
    BY <2>2, <2>3
<1>3. CASE EnterB
  BY <1>3 DEF EnterB, TakeB, TypeOK, regs, buffer, Requests, RequestOK, Program
<1>4. CASE Fill
  <2>1. /\ moved \in 0 .. Bytes - 1 /\ moved' = moved + 1 /\ moved' \in 0 .. Bytes
        /\ request.data \in Sector /\ ptr \in 0 .. Bytes - 1
    BY <1>4, SizeAssumption DEF Fill, Program, Requests, RequestOK, TypeOK
  <2>2. request.data[moved] \in Byte
    BY <2>1 DEF Sector
  <2>3. ptr' \in 0 .. Bytes - 1
    BY <1>4, <2>1, NextPlaceType DEF Fill, FillByte
  <2>4. secbuf' \in Sector
    BY <1>4, <2>1, <2>2 DEF Fill, FillByte, Sector, TypeOK
  <2>5. TypeOK'
    BY <1>4, <2>3, <2>4 DEF Fill, FillByte, TypeOK, regs, doors
  <2>6. Requests' /\ Program'
    BY <1>4, <2>1 DEF Fill, Requests, RequestOK, Program
  <2>7. QED
    BY <2>5, <2>6
<1>5. CASE Empty
  <2>1. /\ moved \in 0 .. Bytes - 1 /\ moved' = moved + 1 /\ moved' \in 0 .. Bytes
        /\ ptr \in 0 .. Bytes - 1
    BY <1>5, SizeAssumption DEF Empty, Program, TypeOK
  <2>2. ptr' \in 0 .. Bytes - 1
    BY <1>5, <2>1, NextPlaceType DEF Empty, EmptyByte
  <2>3. received' \in Sector
    BY <1>5, <2>1 DEF Empty, Sector, TypeOK, Program
  <2>4. TypeOK'
    BY <1>5, <2>2 DEF Empty, EmptyByte, TypeOK, regs, doors
  <2>5. Requests' /\ Program'
    BY <1>5, <2>1, <2>3 DEF Empty, Requests, RequestOK, Program
  <2>6. QED
    BY <2>4, <2>5
<1>6. QED
  BY <1>1, <1>2, <1>3, <1>4, <1>5

LEMMA TypesFinish ==
  ASSUME Types, FinishSector \/ FinishOther \/ FinishStatus
  PROVE  Types'
<1> SUFFICES TypeOK' /\ Requests' /\ Program'
  BY DEF Types, DriverTypeOK, Requests, Program
<1> USE TypesParts
<1>1. 0 \in Number /\ 0 \in Drive /\ 0 \in 0 .. Bytes
  BY SizeAssumption, NumberAssumption, DriveAssumption
<1>2. Done /\ WriteCommand(NoCommand) /\ UNCHANGED <<noticed, writes>>
  BY DEF FinishSector, FinishOther, FinishStatus
<1>3. TypeOK'
  BY <1>1, <1>2 DEF WriteCommand, NoCommand, TypeOK, Function, buffer, doors
<1>4. Requests'
  BY <1>2 DEF Done, Requests, RequestOK, Idle
<1>5. todo' \subseteq Exist /\ known' \in [Exist -> [ready : BOOLEAN, wprot : BOOLEAN]]
  <2>1. CASE UNCHANGED <<todo, known>>
    BY <2>1 DEF Program
  <2>2. CASE FinishStatus
    <3>1. todo' \subseteq Exist
      BY <2>2 DEF FinishStatus, Program
    <3>2. [ready |-> status.ready, wprot |-> status.wprot] \in [ready : BOOLEAN, wprot : BOOLEAN]
      BY DEF TypeOK
    <3>3. known' \in [Exist -> [ready : BOOLEAN, wprot : BOOLEAN]]
      BY <2>2, <3>2 DEF FinishStatus, Program
    <3>4. QED
      BY <3>1, <3>3
  <2>3. QED
    BY <2>1, <2>2 DEF FinishSector, FinishOther
<1>6. Program'
  BY <1>1, <1>2, <1>5, ZerosType DEF Done, Program
<1>7. QED
  BY <1>3, <1>4, <1>6

LEMMA TypesOperate ==
  ASSUME Types, Operate
  PROVE  Types'
<1> SUFFICES TypeOK' /\ Requests' /\ Program'
  BY DEF Types, DriverTypeOK, Requests, Program
<1> USE TypesParts
<1>1. Requests' /\ Program'
  BY DEF Operate, driverVars, Requests, RequestOK, Program
<1>2. PICK d \in Exist : OpenDoor(d) \/ \E f \in Rack[d] : CloseDoor(d, f)
  BY DEF Operate
<1>3. d \in Drive
  BY DriveAssumption
<1>4. ASSUME VolumeChanged(d) PROVE vchanged' \subseteq Drive /\ {intbEn', intB'} \subseteq BOOLEAN
  BY <1>3, <1>4 DEF VolumeChanged, TypeOK
<1>5. ASSUME OpenDoor(d) PROVE TypeOK'
  <2>1. VolumeChanged(d) /\ UNCHANGED <<regs, buffer, intA, image>>
    BY <1>5 DEF OpenDoor
  <2>2. inDrive' \in [Drive -> Fits \cup {"none"}] /\ wprot' \subseteq Drive
    BY <1>3, <1>5 DEF OpenDoor, TypeOK
  <2>3. QED
    BY <1>4, <2>1, <2>2 DEF TypeOK, regs, buffer
<1>6. ASSUME NEW f \in Rack[d], CloseDoor(d, f) PROVE TypeOK'
  <2>1. CASE f \in Fits
    <3>1. VolumeChanged(d) /\ UNCHANGED <<regs, buffer, intA, image>>
      BY <1>6, <2>1 DEF CloseDoor
    <3>2. inDrive' \in [Drive -> Fits \cup {"none"}] /\ wprot' \subseteq Drive
      BY <1>3, <1>6, <2>1 DEF CloseDoor, TypeOK
    <3>3. QED
      BY <1>4, <3>1, <3>2 DEF TypeOK, regs, buffer
  <2>2. CASE f \notin Fits
    BY <1>3, <1>6, <2>2 DEF CloseDoor, TypeOK, regs, buffer
  <2>3. QED
    BY <2>1, <2>2
<1>7. QED
  BY <1>1, <1>2, <1>5, <1>6

LEMMA TypesRestart ==
  ASSUME Types, Restart
  PROVE  Types'
<1> SUFFICES TypeOK' /\ Requests' /\ Program'
  BY DEF Types, DriverTypeOK, Requests, Program
<1> USE TypesParts
<1>1. 0 \in Number /\ 0 \in Drive /\ 0 \in 0 .. Bytes /\ 0 \in 0 .. Bytes - 1
  BY SizeAssumption, NumberAssumption, DriveAssumption
<1>2. PICK open \in [Drive -> Fits \cup {"none"}], files \in [Closed -> File] : ResetTo(open, files)
  BY DEF Restart, Reset, ExitAndStart, TypeOK
<1>3. inDrive' \in [Drive -> Fits \cup {"none"}] /\ vchanged' \subseteq Drive /\ wprot' \subseteq Drive
  BY <1>2, DriveAssumption DEF ResetTo
<1>4. /\ NoCommand \in [fn : Function, drive : Drive, track : Number, sector : Number]
      /\ NoStatus \in [error : Code, changed : SUBSET Drive, ready : BOOLEAN, wprot : BOOLEAN]
  BY <1>1 DEF NoCommand, NoStatus, Function, Code
<1>5. /\ command' = NoCommand /\ status' = NoStatus /\ secbuf' = Zeros /\ ptr' = 0
      /\ intbEn' = FALSE /\ intA' = FALSE /\ intB' = FALSE /\ image' = image
  BY <1>2 DEF ResetTo
<1>6. TypeOK'
  BY <1>1, <1>3, <1>4, <1>5, ZerosType DEF TypeOK
<1>7. Requests'
  BY DEF Restart, Done, Requests, RequestOK, Idle
<1>8. known' \in [Exist -> [ready : BOOLEAN, wprot : BOOLEAN]]
  BY DEF Restart, Unknown
<1>9. Program'
  BY <1>1, <1>8, ZerosType DEF Restart, Done, Program
<1>10. QED
  BY <1>6, <1>7, <1>9

LEMMA TypesStep == Types /\ [DriverNext]_allVars => Types'
<1> SUFFICES ASSUME Types, [DriverNext]_allVars PROVE Types'
  OBVIOUS
<1>1. CASE UNCHANGED allVars
  BY <1>1 DEF Types, DriverTypeOK, TypeOK, RequestOK, allVars, vars, driverVars, regs, buffer, doors
<1>2. CASE DriverNext
  BY <1>2, TypesAsk, TypesServe, TypesFinish, TypesOperate, TypesRestart DEF DriverNext, Serve
<1>3. QED
  BY <1>1, <1>2

-----------------------------------------------------------------------------
(* The two together are what the program relies on.                        *)
LEMMA ToldKnows == ToldInv /\ Types => KnownOrTold
  BY DEF ToldInv, Told, WillHear, Alert, Quiet, Types, KnownOrTold

(* What the program believes of every drive is so, or a change of it is on *)
(* its way: remembered by the controller (vchanged), in the status just    *)
(* delivered, or on the program's list; and a change that is remembered    *)
(* has its interrupt, whatever doors open and close while the status       *)
(* command runs and whenever the machine restarts.                         *)
THEOREM AlwaysKnownOrTold == DriverSpec => []KnownOrTold
<1>1. DriverInit => ToldInv /\ Types
  BY ToldInit, TypesInit
<1>2. ToldInv /\ Types /\ [DriverNext]_allVars => (ToldInv /\ Types)'
  <2>1. Types => DriverTypeOK
    BY DEF Types
  <2>2. QED
    BY <2>1, ToldStep, TypesStep
<1>3. ToldInv /\ Types => KnownOrTold
  BY ToldKnows
<1>4. QED
  BY <1>1, <1>2, <1>3, PTL DEF DriverSpec

-----------------------------------------------------------------------------
(* The sectors: what the registers, the buffer and the program's copy of   *)
(* it hold of the request under way.                                       *)
Protection == wprot = {d \in Drive : inDrive[d] \in ReadOnly}

InRegisters ==
  request.op \in {"read", "write"} /\ ~Started =>
    command = [fn |-> request.op, drive |-> request.drive,
               track |-> request.track, sector |-> request.sector]

(* A request for no sector has the command of none.                        *)
Apart ==
  request.op = "other" /\ ~Started => command.fn \notin {"read", "retry", "write", "delete"}

(* The buffer is filled from its first byte, and no other command comes in *)
(* between.                                                                *)
Filling ==
  request.op = "write" /\ ~Started =>
    /\ moved < Bytes => ptr = moved
    /\ \A b \in 0 .. moved - 1 : secbuf[b] = request.data[b]

Emptying ==
  request.op = "read" =>
    /\ ~ended => moved = 0
    /\ ended /\ status.error = "none" =>
         /\ moved < Bytes => ptr = moved
         /\ \A b \in 0 .. moved - 1 : received[b] = secbuf[b]

Unmoved == request = Idle => moved = 0

Transfer == InRegisters /\ Apart /\ Filling /\ Emptying /\ Unmoved

MediaInv == Types /\ ToldInv /\ Protection /\ Transfer

LEMMA ByteCount == Bytes \in Nat \ {0} /\ 0 \in 0 .. Bytes - 1
  BY SizeAssumption

LEMMA SameSector ==
  ASSUME NEW s \in Sector, NEW t \in Sector, \A b \in 0 .. Bytes - 1 : s[b] = t[b]
  PROVE  s = t
<1>1. s = [b \in 0 .. Bytes - 1 |-> s[b]] /\ t = [b \in 0 .. Bytes - 1 |-> t[b]]
  BY DEF Sector
<1>2. [b \in 0 .. Bytes - 1 |-> s[b]] = [b \in 0 .. Bytes - 1 |-> t[b]]
  OBVIOUS
<1>3. QED
  BY <1>1, <1>2, Zenon

(* Without a request nothing has been moved.                               *)
LEMMA IdleTransfer ==
  ASSUME request' = Idle, moved' = 0
  PROVE  Transfer'
<1>1. request'.op = "none"
  BY DEF Idle
<1>2. QED
  BY <1>1 DEF Transfer, InRegisters, Apart, Filling, Emptying, Unmoved

LEMMA TransferKept ==
  ASSUME Transfer, UNCHANGED <<request, moved, received, ended, intA, secbuf, ptr, command, status>>
  PROVE  Transfer'
  BY DEF Transfer, InRegisters, Apart, Filling, Emptying, Unmoved, Started

LEMMA TransferAsk ==
  ASSUME MediaInv,
         NEW op \in {"read", "write"}, NEW at \in Wanted, NEW data \in Payload,
         AskSector(op, at[1], at[2], at[3], data)
  PROVE  Transfer'
<1>1. /\ request = Idle /\ moved' = moved /\ ended' = ended /\ intA' = intA
      /\ ptr' = IF op = "write" THEN 0 ELSE ptr
      /\ request' = [op |-> op, drive |-> at[1], track |-> at[2], sector |-> at[3], data |-> data]
      /\ command' = [fn |-> op, drive |-> at[1], track |-> at[2], sector |-> at[3]]
  BY DEF AskSector
<1>2. moved = 0 /\ ~ended
  BY <1>1 DEF MediaInv, Transfer, Unmoved, ToldInv, OneRequest
<1>3. request'.op = op /\ request' # Idle
  BY <1>1 DEF Idle
<1>4. InRegisters'
  BY <1>1 DEF InRegisters
<1>5. Apart' /\ Filling' /\ Emptying' /\ Unmoved'
  BY <1>1, <1>2, <1>3 DEF Apart, Filling, Emptying, Unmoved
<1>6. QED
  BY <1>4, <1>5 DEF Transfer

LEMMA TransferFill ==
  ASSUME MediaInv, Fill
  PROVE  Transfer'
<1>1. /\ request.op = "write" /\ ~Started /\ moved < Bytes /\ moved' = moved + 1
      /\ secbuf' = [secbuf EXCEPT ![ptr] = request.data[moved]] /\ ptr' = (ptr + 1) % Bytes
      /\ UNCHANGED <<request, ended, intA, command>>
  BY DEF Fill, FillByte, NextPlace, regs
<1>2. /\ moved \in 0 .. Bytes - 1 /\ secbuf \in Sector /\ ptr = moved
      /\ \A b \in 0 .. moved - 1 : secbuf[b] = request.data[b]
  BY <1>1, ByteCount DEF MediaInv, Types, DriverTypeOK, TypeOK, Transfer, Filling
<1>3. request # Idle
  BY <1>1 DEF Idle
<1>4. moved' < Bytes => ptr' = moved'
  BY <1>1, <1>2, ByteCount
<1>5. ASSUME NEW b \in 0 .. moved' - 1 PROVE secbuf'[b] = request.data[b]
  BY <1>1, <1>2, ByteCount DEF Sector
<1>6. Filling'
  BY <1>1, <1>4, <1>5 DEF Filling
<1>7. InRegisters' /\ Apart' /\ Emptying' /\ Unmoved'
  BY <1>1, <1>3 DEF MediaInv, Transfer, InRegisters, Apart, Emptying, Unmoved, Started
<1>8. QED
  BY <1>6, <1>7 DEF Transfer

LEMMA TransferEmpty ==
  ASSUME MediaInv, Empty
  PROVE  Transfer'
<1>1. /\ request.op = "read" /\ ended /\ status.error = "none" /\ moved < Bytes
      /\ moved' = moved + 1 /\ ptr' = (ptr + 1) % Bytes
      /\ received' = [received EXCEPT ![moved] = secbuf[ptr]]
      /\ UNCHANGED <<request, ended, secbuf, status>>
  BY DEF Empty, EmptyByte, NextPlace, regs
<1>2. /\ moved \in 0 .. Bytes - 1 /\ received \in Sector /\ ptr = moved
      /\ \A b \in 0 .. moved - 1 : received[b] = secbuf[b]
  BY <1>1, ByteCount DEF MediaInv, Types, DriverTypeOK, Transfer, Emptying
<1>3. request # Idle
  BY <1>1 DEF Idle
<1>4. moved' < Bytes => ptr' = moved'
  BY <1>1, <1>2, ByteCount
<1>5. ASSUME NEW b \in 0 .. moved' - 1 PROVE received'[b] = secbuf[b]
  BY <1>1, <1>2, ByteCount DEF Sector
<1>6. Emptying'
  BY <1>1, <1>4, <1>5 DEF Emptying
<1>7. InRegisters' /\ Apart' /\ Filling' /\ Unmoved'
  BY <1>1, <1>3 DEF InRegisters, Apart, Filling, Unmoved, Started
<1>8. QED
  BY <1>6, <1>7 DEF Transfer

LEMMA TransferRuns ==
  ASSUME MediaInv, Start \/ EnterA
  PROVE  Transfer'
<1>1. CASE Start
  <2>1. /\ request # Idle /\ ~Started /\ intA' = TRUE /\ UNCHANGED <<request, moved, ended>>
    BY <1>1 DEF Start, StartCommand
  <2>2. InRegisters' /\ Apart' /\ Filling' /\ Unmoved'
    BY <2>1 DEF InRegisters, Apart, Filling, Unmoved, Started
  <2>3. Emptying'
    BY <2>1 DEF Emptying, MediaInv, Transfer, Started
  <2>4. QED
    BY <2>2, <2>3 DEF Transfer
<1>2. CASE EnterA
  <2>1. /\ intA /\ ended' = TRUE /\ UNCHANGED <<request, moved, received, secbuf, status>>
        /\ request.op = "read" => ptr' = 0
    BY <1>2 DEF EnterA, regs
  <2>2. ~ended /\ request # Idle
    BY <2>1 DEF MediaInv, ToldInv, OneRequest
  <2>3. InRegisters' /\ Apart' /\ Filling' /\ Unmoved'
    BY <2>1, <2>2 DEF InRegisters, Apart, Filling, Unmoved, Started
  <2>4. request.op = "read" => moved' = 0
    BY <2>1, <2>2 DEF MediaInv, Transfer, Emptying
  <2>5. Emptying'
    BY <2>1, <2>4 DEF Emptying
  <2>6. QED
    BY <2>3, <2>5 DEF Transfer
<1>3. QED
  BY <1>1, <1>2

(* A request for no sector.                                                *)
LEMMA TransferOther ==
  ASSUME MediaInv, (\E fn \in {"init", "address", "version"} : AskOther(fn))
                   \/ (\E d \in Exist : AskStatus(d))
  PROVE  Transfer'
<1>1. request'.op \in {"other", "stat"}
  <2>1. ASSUME NEW fn \in {"init", "address", "version"}, AskOther(fn) PROVE request'.op = "other"
    BY <2>1 DEF AskOther
  <2>2. ASSUME NEW d \in Exist, AskStatus(d) PROVE request'.op = "stat"
    BY <2>2 DEF AskStatus
  <2>3. QED
    BY <2>1, <2>2
<1>2. request' # Idle
  BY <1>1 DEF Idle
<1>3. request'.op = "other" => command'.fn \in {"init", "address", "version"}
  <2>1. ASSUME NEW fn \in {"init", "address", "version"}, AskOther(fn) PROVE command'.fn = fn
    BY <2>1 DEF AskOther, WriteCommand, NoCommand
  <2>2. ASSUME NEW d \in Exist, AskStatus(d) PROVE request'.op = "stat"
    BY <2>2 DEF AskStatus
  <2>3. QED
    BY <2>1, <2>2
<1>4. QED
  BY <1>1, <1>2, <1>3 DEF Transfer, InRegisters, Apart, Filling, Emptying, Unmoved

LEMMA ProtectionKept ==
  ASSUME Protection, UNCHANGED <<inDrive, wprot>>
  PROVE  Protection'
  BY DEF Protection

(* The tab of a diskette is looked at when its door closes.                *)
LEMMA ProtectionDoors ==
  ASSUME Types, Protection, Operate
  PROVE  Protection'
<1>1. PICK d \in Exist : OpenDoor(d) \/ \E f \in Rack[d] : CloseDoor(d, f)
  BY DEF Operate
<1>2. d \in Drive /\ inDrive \in [Drive -> Fits \cup {"none"}]
  BY DriveAssumption DEF Types, DriverTypeOK, TypeOK
<1>3. "none" \notin ReadOnly
  BY FileAssumption
<1>4. CASE OpenDoor(d)
  BY <1>2, <1>3, <1>4 DEF OpenDoor, Protection
<1>5. ASSUME NEW f \in Rack[d], CloseDoor(d, f) PROVE Protection'
  <2>1. CASE f \in Fits
    BY <1>2, <1>3, <1>5, <2>1 DEF CloseDoor, Protection, Ready
  <2>2. CASE f \notin Fits
    BY <1>2, <1>3, <1>5, <2>2 DEF CloseDoor, Protection, Ready
  <2>3. QED
    BY <2>1, <2>2
<1>6. QED
  BY <1>1, <1>4, <1>5

LEMMA MediaStep == MediaInv /\ [DriverNext]_allVars => MediaInv'
<1> SUFFICES ASSUME MediaInv, [DriverNext]_allVars PROVE MediaInv'
  OBVIOUS
<1>1. Types' /\ ToldInv'
  BY TypesStep, ToldStep DEF MediaInv, Types
<1> SUFFICES Protection' /\ Transfer'
  BY <1>1 DEF MediaInv
<1>2. Protection /\ Transfer
  BY DEF MediaInv
<1>3. ASSUME NEW op \in {"read", "write"}, NEW at \in Wanted, NEW data \in Payload,
             AskSector(op, at[1], at[2], at[3], data)
      PROVE  Protection' /\ Transfer'
  BY <1>2, <1>3, TransferAsk, ProtectionKept DEF AskSector, doors
<1>4. ASSUME NEW fn \in {"init", "address", "version"}, AskOther(fn)
      PROVE  Protection' /\ Transfer'
  BY <1>2, <1>4, TransferOther, ProtectionKept DEF AskOther, WriteCommand, doors
<1>5. ASSUME NEW d \in Exist, AskStatus(d) PROVE Protection' /\ Transfer'
  BY <1>2, <1>5, TransferOther, ProtectionKept DEF AskStatus, WriteCommand, doors
<1>6. CASE Fill
  BY <1>2, <1>6, TransferFill, ProtectionKept DEF Fill, FillByte, doors
<1>7. CASE Empty
  BY <1>2, <1>7, TransferEmpty, ProtectionKept DEF Empty, EmptyByte, doors
<1>8. CASE Start
  BY <1>2, <1>8, TransferRuns, ProtectionKept DEF Start, StartCommand
<1>9. CASE EnterA
  BY <1>2, <1>9, TransferRuns, ProtectionKept DEF EnterA, doors
<1>10. CASE FinishSector \/ FinishOther \/ FinishStatus
  BY <1>2, <1>10, IdleTransfer, ProtectionKept
     DEF FinishSector, FinishOther, FinishStatus, Done, WriteCommand, doors
<1>11. CASE EnterB
  BY <1>2, <1>11, TransferKept, ProtectionKept DEF EnterB, TakeB, regs, buffer
<1>12. CASE Operate
  <2>1. UNCHANGED <<request, moved, received, ended, intA, secbuf, ptr, command, status>>
    BY <1>12 DEF Operate, OpenDoor, CloseDoor, driverVars, regs, buffer
  <2>2. QED
    BY <1>2, <1>12, <2>1, TransferKept, ProtectionDoors DEF MediaInv
<1>13. CASE Restart
  <2>1. Transfer'
    BY <1>13, IdleTransfer DEF Restart, Done
  <2>2. Protection'
    BY <1>13 DEF Restart, Reset, ExitAndStart, ResetTo, Protection
  <2>3. QED
    BY <2>1, <2>2
<1>14. CASE UNCHANGED allVars
  BY <1>2, <1>14, TransferKept, ProtectionKept DEF allVars, vars, driverVars, regs, buffer, doors
<1>15. QED
  BY <1>3, <1>4, <1>5, <1>6, <1>7, <1>8, <1>9, <1>10, <1>11, <1>12, <1>13, <1>14
     DEF DriverNext, Serve

LEMMA MediaInvariant == DriverSpec => []MediaInv
<1>1. DriverInit => MediaInv
  <2> SUFFICES ASSUME DriverInit PROVE MediaInv
    OBVIOUS
  <2>1. Protection /\ request = Idle /\ moved = 0
    BY DEF DriverInit, Init, Protection
  <2>2. request.op = "none"
    BY <2>1 DEF Idle
  <2>3. Transfer
    BY <2>1, <2>2 DEF Transfer, InRegisters, Apart, Filling, Emptying, Unmoved
  <2>4. QED
    BY <2>1, <2>3, TypesInit, ToldInit DEF MediaInv
<1>2. QED
  BY <1>1, MediaStep, PTL DEF DriverSpec

-----------------------------------------------------------------------------
(* The refinement: what the abstract store sees.                           *)
AskedOf == IF request.op \in {"stat", "other"} THEN Idle ELSE request
OutcomeOf ==
  IF request.op \notin {"read", "write"} \/ ~Started THEN Idle
  ELSE IF request.op = "read" /\ status.error = "none"
  THEN [error |-> "none", data |-> IF moved = Bytes THEN received ELSE secbuf]
  ELSE [error |-> status.error]

LEMMA AnswerIsSomething ==
  ASSUME NEW e
  PROVE  /\ [error |-> e] # Idle
         /\ \A d : [error |-> e, data |-> d] # Idle
<1>1. "error" \in DOMAIN [error |-> e] /\ "error" \notin DOMAIN Idle
  BY DEF Idle
<1>2. ASSUME NEW d PROVE "error" \in DOMAIN [error |-> e, data |-> d]
  OBVIOUS
<1>3. QED
  BY <1>1, <1>2

(* Whether the request has taken place is what the outcome says.           *)
LEMMA OutcomeWhenRun ==
  /\ OutcomeOf = Idle <=> request.op \notin {"read", "write"} \/ ~Started
  /\ AskedOf = Idle <=> request = Idle \/ request.op \in {"stat", "other"}
<1>1. OutcomeOf = Idle <=> request.op \notin {"read", "write"} \/ ~Started
  BY AnswerIsSomething, Zenon DEF OutcomeOf
<1>2. AskedOf = Idle <=> request = Idle \/ request.op \in {"stat", "other"}
  BY DEF AskedOf
<1>3. QED
  BY <1>1, <1>2

(* What keeps all the store sees, or its parts.                            *)
LEMMA SeenAsBefore ==
  ASSUME UNCHANGED <<request, intA, ended, status, moved, received, secbuf>>
  PROVE  UNCHANGED <<AskedOf, OutcomeOf>>
  BY DEF AskedOf, OutcomeOf, Started

LEMMA NothingSeen ==
  ASSUME request' = Idle
  PROVE  AskedOf' = Idle /\ OutcomeOf' = Idle
<1>1. request'.op = "none"
  BY DEF Idle
<1>2. QED
  BY <1>1 DEF AskedOf, OutcomeOf

(* The checks of a command are those of the store.                         *)
LEMMA VerdictIsRefusal ==
  ASSUME MediaInv, request.op \in {"read", "write"}, ~Started
  PROVE  Verdict(request.op = "write") = Media!Refusal(request)
<1>1. command = [fn |-> request.op, drive |-> request.drive,
                 track |-> request.track, sector |-> request.sector]
  BY DEF MediaInv, Transfer, InRegisters
<1>2. /\ request.drive \in Drive /\ request.track \in Nat /\ request.sector \in Nat
      /\ Spt \in Nat /\ Tracks \in Nat
  <2>1. command \in [fn : Function, drive : Drive, track : Number, sector : Number]
    BY DEF MediaInv, Types, DriverTypeOK, TypeOK
  <2>2. QED
    BY <1>1, <2>1, SizeAssumption, NumberAssumption
<1>3. request.drive \in wprot <=> inDrive[request.drive] \in ReadOnly
  BY <1>2 DEF MediaInv, Protection
<1>4. request.sector = 0 \/ request.sector > Spt <=> request.sector \notin 1 .. Spt
  BY <1>2
<1>5. QED
  BY <1>1, <1>3, <1>4, Zenon DEF Verdict, Media!Refusal, Media!NoImage, Ready

(* A sector that passes the checks is in the image of the drive.           *)
LEMMA CommandRuns ==
  ASSUME MediaInv, Start, request.op \in {"read", "write"}
  PROVE  LET why == Media!Refusal(request)
             at == request.track * Spt + request.sector - 1
             file == inDrive[request.drive]
         IN  /\ status'.error = why
             /\ why # "none" \/ request.op = "read" => image' = image
             /\ why = "none" /\ request.op = "read" => secbuf' = image[file][at]
             /\ why = "none" /\ request.op = "write" =>
                  image' = [image EXCEPT ![file][at] = request.data]
<1>1. /\ request # Idle /\ ~Started /\ StartCommand
      /\ request.op = "write" => moved = Bytes
  BY DEF Start
<1>2. /\ command = [fn |-> request.op, drive |-> request.drive,
                    track |-> request.track, sector |-> request.sector]
      /\ command.fn = request.op /\ command.drive = request.drive
      /\ command.track = request.track /\ command.sector = request.sector
  BY <1>1 DEF MediaInv, Transfer, InRegisters
<1>3. Verdict(request.op = "write") = Media!Refusal(request)
  BY <1>1, VerdictIsRefusal
<1>4. ASSUME NEW code, Failed(code) PROVE status'.error = code /\ image' = image
  BY <1>4 DEF Failed, RwStatus, NoStatus
<1>5. RwStatus.error = "none"
  BY DEF RwStatus, NoStatus
<1>6. CASE request.op = "read"
  <2>1. ReadSector
    BY <1>1, <1>2, <1>6 DEF StartCommand
  <2>2. Verdict(FALSE) = Media!Refusal(request)
    BY <1>3, <1>6
  <2>3. QED
    BY <1>2, <1>4, <1>5, <1>6, <2>1, <2>2 DEF ReadSector, Offset
<1>7. CASE request.op = "write"
  <2>1. WriteSector
    BY <1>1, <1>2, <1>7 DEF StartCommand
  <2>2. Verdict(TRUE) = Media!Refusal(request)
    BY <1>3, <1>7
  <2>3. secbuf = request.data
    <3>1. \A b \in 0 .. Bytes - 1 : secbuf[b] = request.data[b]
      BY <1>1, <1>7 DEF MediaInv, Transfer, Filling
    <3>2. secbuf \in Sector /\ request.data \in Sector
      BY <1>7 DEF MediaInv, Types, DriverTypeOK, TypeOK, RequestOK
    <3>3. QED
      BY <3>1, <3>2, SameSector
  <2>4. QED
    BY <1>2, <1>4, <1>5, <1>7, <2>1, <2>2, <2>3 DEF WriteSector, Offset
<1>8. QED
  BY <1>6, <1>7

LEMMA StartPerforms ==
  ASSUME MediaInv, Start, request.op \in {"read", "write"}
  PROVE  Media!Perform
<1>1. /\ request # Idle /\ ~Started /\ intA' = TRUE
      /\ UNCHANGED <<request, moved, received, inDrive>>
  BY DEF Start, StartCommand
<1>2. AskedOf = request /\ AskedOf' = request /\ OutcomeOf = Idle
  BY <1>1 DEF AskedOf, OutcomeOf
<1>3. request.op = "read" => moved' # Bytes
  <2>1. request.op = "read" => moved = 0
    BY <1>1 DEF MediaInv, Transfer, Emptying, Started
  <2>2. QED
    BY <1>1, <2>1, ByteCount
<1>4. OutcomeOf' = IF request.op = "read" /\ status'.error = "none"
                   THEN [error |-> "none", data |-> secbuf']
                   ELSE [error |-> status'.error]
  BY <1>1, <1>3 DEF OutcomeOf, Started
<1>5. QED
  BY <1>1, <1>2, <1>4, CommandRuns DEF Media!Perform, Media!Nothing, Idle, AskedOf, OutcomeOf

(* The program has the sector that the controller read.                    *)
LEMMA EmptyKeepsOutcome ==
  ASSUME MediaInv, Empty
  PROVE  UNCHANGED <<AskedOf, OutcomeOf>>
<1>1. /\ request.op = "read" /\ ended /\ status.error = "none" /\ moved < Bytes
      /\ moved' = moved + 1
      /\ UNCHANGED <<request, ended, secbuf, status>>
  BY DEF Empty, EmptyByte, regs
<1>2. AskedOf' = AskedOf
  BY <1>1 DEF AskedOf
<1>3. OutcomeOf = [error |-> "none", data |-> secbuf]
  BY <1>1, ByteCount DEF OutcomeOf, Started, MediaInv, Types, DriverTypeOK
<1>4. ASSUME moved' = Bytes PROVE received' = secbuf
  <2>1. \A b \in 0 .. Bytes - 1 : received'[b] = secbuf[b]
    BY <1>1, <1>4, TransferEmpty DEF Transfer, Emptying
  <2>2. received' \in Sector /\ secbuf \in Sector
    <3>1. Types'
      BY TypesServe DEF MediaInv
    <3>2. QED
      BY <3>1 DEF MediaInv, Types, DriverTypeOK, TypeOK
  <2>3. QED
    BY <2>1, <2>2, SameSector
<1>5. OutcomeOf' = [error |-> "none", data |-> secbuf]
  BY <1>1, <1>4 DEF OutcomeOf, Started
<1>6. QED
  BY <1>2, <1>3, <1>5

(* A door is a change of media in its drive, and seen by no request.       *)
LEMMA DoorChangesMedia ==
  ASSUME MediaInv, Operate
  PROVE  Media!ChangeMedia \/ UNCHANGED Media!mediaVars
<1>1. PICK d \in Exist : OpenDoor(d) \/ \E f \in Rack[d] : CloseDoor(d, f)
  BY DEF Operate
<1>2. UNCHANGED <<request, intA, ended, status, moved, received, secbuf, image>>
  BY <1>1 DEF Operate, OpenDoor, CloseDoor, driverVars, regs, buffer
<1>3. UNCHANGED <<AskedOf, OutcomeOf>>
  BY <1>2, SeenAsBefore
<1>4. d \in Drive
  BY DriveAssumption
<1>5. CASE OpenDoor(d)
  <2>1. inDrive' = [inDrive EXCEPT ![d] = "none"]
    BY <1>5 DEF OpenDoor
  <2>2. QED
    BY <1>2, <1>3, <1>4, <2>1 DEF Media!ChangeMedia, Media!NoImage, AskedOf, OutcomeOf
<1>6. ASSUME NEW f \in Rack[d], CloseDoor(d, f)
      PROVE  Media!ChangeMedia \/ UNCHANGED Media!mediaVars
  <2>1. CASE f \in Fits
    <3>1. inDrive[d] = "none" /\ inDrive' = [inDrive EXCEPT ![d] = f]
      BY <1>6, <2>1 DEF CloseDoor, Ready
    <3>2. QED
      BY <1>2, <1>3, <1>4, <2>1, <3>1 DEF Media!ChangeMedia, Media!NoImage, AskedOf, OutcomeOf
  <2>2. CASE f \notin Fits
    <3>1. inDrive' = inDrive
      BY <1>6, <2>2 DEF CloseDoor
    <3>2. QED
      BY <1>2, <1>3, <3>1 DEF Media!mediaVars, AskedOf, OutcomeOf
  <2>3. QED
    BY <2>1, <2>2
<1>7. QED
  BY <1>1, <1>5, <1>6

LEMMA MediaNextStep == MediaInv /\ [DriverNext]_allVars => [Media!MediaNext]_Media!mediaVars
<1> SUFFICES ASSUME MediaInv, [DriverNext]_allVars PROVE [Media!MediaNext]_Media!mediaVars
  OBVIOUS
<1>1. ASSUME UNCHANGED <<image, inDrive, AskedOf, OutcomeOf>> PROVE UNCHANGED Media!mediaVars
  BY <1>1 DEF Media!mediaVars, AskedOf, OutcomeOf
<1>2. ASSUME NEW op \in {"read", "write"}, NEW at \in Wanted, NEW data \in Payload,
             AskSector(op, at[1], at[2], at[3], data)
      PROVE  Media!Ask
  <2>1. /\ request = Idle /\ request'.op = op /\ UNCHANGED <<image, inDrive, intA, ended>>
    BY <1>2 DEF AskSector, doors
  <2>2. ~Started /\ ~Started'
    BY <2>1 DEF MediaInv, ToldInv, OneRequest, Started
  <2>3. AskedOf = Idle /\ AskedOf' # Idle /\ OutcomeOf = Idle /\ OutcomeOf' = Idle
    BY <2>1, <2>2 DEF AskedOf, OutcomeOf, Idle
  <2>4. QED
    BY <2>1, <2>3 DEF Media!Ask, Media!Nothing, Idle, AskedOf, OutcomeOf
<1>3. ASSUME \/ \E fn \in {"init", "address", "version"} : AskOther(fn)
             \/ \E d \in Exist : AskStatus(d)
      PROVE  UNCHANGED Media!mediaVars
  <2>1. request = Idle /\ request'.op \in {"other", "stat"} /\ UNCHANGED <<image, inDrive>>
    <3>1. ASSUME NEW fn \in {"init", "address", "version"}, AskOther(fn) PROVE <2>1!:
      BY <3>1 DEF AskOther, WriteCommand, doors
    <3>2. ASSUME NEW d \in Exist, AskStatus(d) PROVE <2>1!:
      BY <3>2 DEF AskStatus, WriteCommand, doors
    <3>3. QED
      BY <1>3, <3>1, <3>2
  <2>2. request.op = "none"
    BY <2>1 DEF Idle
  <2>3. UNCHANGED <<AskedOf, OutcomeOf>>
    BY <2>1, <2>2 DEF AskedOf, OutcomeOf
  <2>4. QED
    BY <1>1, <2>1, <2>3
<1>4. CASE Fill
  <2>1. UNCHANGED <<image, inDrive, request, intA, ended>> /\ request.op = "write" /\ ~Started
    BY <1>4 DEF Fill, FillByte, doors
  <2>2. UNCHANGED <<AskedOf, OutcomeOf>>
    BY <2>1 DEF AskedOf, OutcomeOf, Started
  <2>3. QED
    BY <1>1, <2>1, <2>2
<1>5. CASE Start /\ request.op \in {"read", "write"}
  BY <1>5, StartPerforms DEF Media!MediaNext
<1>6. CASE Start /\ request.op \notin {"read", "write"}
  <2>1. request.op \in {"other", "stat"}
    BY <1>6 DEF Start, MediaInv, Types, DriverTypeOK
  <2>2. UNCHANGED <<request, inDrive>>
    BY <1>6 DEF Start, StartCommand
  <2>3. UNCHANGED image
    <3>1. ASSUME request.op = "stat" PROVE command.fn = "stat"
      BY <1>6, <3>1 DEF Start, MediaInv, ToldInv, OneRequest
    <3>2. ASSUME request.op = "other" PROVE command.fn \notin {"read", "retry", "write", "delete"}
      BY <1>6, <3>2 DEF Start, MediaInv, Transfer, Apart
    <3>3. QED
      BY <1>6, <2>1, <3>1, <3>2 DEF Start, StartCommand, ShowChanges
  <2>4. UNCHANGED <<AskedOf, OutcomeOf>>
    BY <1>6, <2>2 DEF AskedOf, OutcomeOf
  <2>5. QED
    BY <1>1, <2>2, <2>3, <2>4
<1>7. CASE EnterA
  <2>1. UNCHANGED <<image, inDrive, request, status, moved, received, secbuf>>
        /\ intA /\ ended' = TRUE
    BY <1>7 DEF EnterA, regs, doors
  <2>2. UNCHANGED <<AskedOf, OutcomeOf>>
    BY <2>1 DEF AskedOf, OutcomeOf, Started
  <2>3. QED
    BY <1>1, <2>1, <2>2
<1>8. CASE EnterB
  <2>1. UNCHANGED <<image, inDrive, request, intA, ended, status, moved, received, secbuf>>
    BY <1>8 DEF EnterB, TakeB, regs, buffer
  <2>2. QED
    BY <1>1, <2>1, SeenAsBefore
<1>9. CASE Empty
  <2>1. UNCHANGED <<image, inDrive>>
    BY <1>9 DEF Empty, EmptyByte, doors
  <2>2. QED
    BY <1>1, <1>9, <2>1, EmptyKeepsOutcome
<1>10. CASE FinishSector
  <2>1. request.op \in {"read", "write"} /\ Started /\ request' = Idle /\ UNCHANGED <<image, inDrive>>
    BY <1>10 DEF FinishSector, Started, Done, WriteCommand, doors
  <2>2. OutcomeOf # Idle /\ OutcomeOf' = Idle /\ AskedOf' = Idle
    BY <2>1, OutcomeWhenRun, NothingSeen
  <2>3. Media!Told
    BY <2>1, <2>2 DEF Media!Told, Media!Nothing, Idle, AskedOf, OutcomeOf
  <2>4. QED
    BY <2>3 DEF Media!MediaNext
<1>11. CASE FinishOther \/ FinishStatus
  <2>1. request.op \in {"other", "stat"} /\ request' = Idle /\ UNCHANGED <<image, inDrive>>
    BY <1>11 DEF FinishOther, FinishStatus, Done, WriteCommand, doors
  <2>2. AskedOf = Idle /\ OutcomeOf = Idle
    BY <2>1 DEF AskedOf, OutcomeOf
  <2>3. QED
    BY <1>1, <2>1, <2>2, NothingSeen
<1>12. CASE Operate
  BY <1>12, DoorChangesMedia DEF Media!MediaNext
<1>13. CASE Restart
  <2>1. inDrive' \in [Drive -> Fits \cup {"none"}]
    <3>1. Types'
      BY <1>13, TypesRestart DEF MediaInv
    <3>2. QED
      BY <3>1 DEF Types, DriverTypeOK, TypeOK
  <2>2. request' = Idle /\ image' = image
    BY <1>13 DEF Restart, Done, Reset, ExitAndStart, ResetTo
  <2>3. Media!Restart
    BY <2>1, <2>2, NothingSeen DEF Media!Restart, Media!NoImage, Media!Nothing, Idle, AskedOf, OutcomeOf
  <2>4. QED
    BY <2>3 DEF Media!MediaNext
<1>14. CASE UNCHANGED allVars
  <2>1. UNCHANGED <<image, inDrive, request, intA, ended, status, moved, received, secbuf>>
    BY <1>14 DEF allVars, vars, driverVars, regs, buffer, doors
  <2>2. QED
    BY <1>1, <2>1, SeenAsBefore
<1>15. QED
  BY <1>2, <1>3, <1>4, <1>5, <1>6, <1>7, <1>8, <1>9, <1>10, <1>11, <1>12, <1>13, <1>14
     DEF DriverNext, Serve, Media!MediaNext

(* The controller with its program is a store of whole sectors on          *)
(* diskettes that are changed at any time, for any size of a diskette and  *)
(* of a sector: a request takes place at once and as a whole, on the       *)
(* diskette that is in the drive then, at the place that was asked for, or *)
(* not at all and with the reason, whatever doors, status commands and     *)
(* restarts come between the bytes.                                        *)
THEOREM RxImplementsMedia == DriverSpec => ImplementsMedia
<1>1. DriverInit => Media!MediaInit
  <2> SUFFICES ASSUME DriverInit PROVE Media!MediaInit
    OBVIOUS
  <2>1. image \in [Fits -> [Media!Place -> Sector]]
    BY ZerosType DEF DriverInit, Init, Media!Place
  <2>2. inDrive \in [Drive -> Fits \cup {"none"}] /\ request = Idle
    BY DEF DriverInit, Init
  <2>3. request.op = "none"
    BY <2>2 DEF Idle
  <2>4. QED
    BY <2>1, <2>2, <2>3 DEF Media!MediaInit, Media!NoImage, Media!Nothing, Idle
<1>2. QED
  BY <1>1, MediaInvariant, MediaNextStep, PTL DEF DriverSpec, ImplementsMedia, Media!MediaSpec
=============================================================================
