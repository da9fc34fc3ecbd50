------------------------------- MODULE RxDisk --------------------------------
(***************************************************************************)
(* The RX50 floppy controller (src/src/pro_rx.c): command and status       *)
(* registers, the sector buffer with its pointer, the doors of the drives, *)
(* the volume-changed interrupt and the image files.  A command runs at    *)
(* once, inside the access to the start register.                          *)
(*                                                                         *)
(* A command register is a field of command, the function and the extended *)
(* function together; the status registers are a record as well.  An image *)
(* is a function of the number of the sector in its file.                  *)
(***************************************************************************)
EXTENDS Naturals

CONSTANTS
  Drive, Exist,   \* drives that can be named (0 .. 3), and those there are
  Closed,         \* drives closed by the configuration (pro_rx_closed)
  File,           \* names the operator may give
  Fits,           \* files that exist and have the size of a diskette
  ReadOnly,       \* files without the write permission
  Tracks, Spt,    \* tracks (80) and sectors of a track (10)
  Bytes, Byte,    \* size of a sector (512), and what it is made of
  Number          \* values of the track and sector registers

ASSUME DriveAssumption == Exist \subseteq Drive /\ Exist # {} /\ Closed \subseteq Drive /\ 0 \in Drive
ASSUME FileAssumption == Fits \subseteq File /\ ReadOnly \subseteq File /\ "none" \notin File
ASSUME SizeAssumption == {Tracks, Spt, Bytes} \subseteq Nat \ {0} /\ 0 \in Byte
ASSUME NumberAssumption == Number \subseteq Nat /\ 0 \in Number

VARIABLES
  command,     \* csr0_c, csr1_c, csr2_c, csr5_c
  status,      \* csr1_s, csr3_s: error code, and what a status command shows
  secbuf, ptr, \* PRO_RX_SECBUF, pro_rx_secbuf_addr
  inDrive,     \* the file open for each drive, "none" when it is not ready
  wprot,       \* drives whose diskette is write protected
  vchanged,    \* drives whose volume changed since the last status command
  intbEn,      \* pro_rx_intb_en
  intA, intB,  \* interrupt requests in the controllers
  image        \* the files of the right size

regs == <<command, status>>
buffer == <<secbuf, ptr>>
doors == <<inDrive, wprot, vchanged, intbEn, intB>>
vars == <<regs, buffer, doors, intA, image>>

Function == {"stat", "maint", "restore", "init", "read", "retry", "write", "delete",
             "address", "version", "other"}
Code == {"none", "unavailable", "protected", "track", "sector"}
Sector == [0 .. Bytes - 1 -> Byte]
Zeros == [b \in 0 .. Bytes - 1 |-> 0]

TypeOK ==
  /\ command \in [fn : Function, drive : Drive, track : Number, sector : Number]
  /\ status \in [error : Code, changed : SUBSET Drive, ready : BOOLEAN, wprot : BOOLEAN]
  /\ secbuf \in Sector /\ ptr \in 0 .. Bytes - 1
  /\ inDrive \in [Drive -> Fits \cup {"none"}]
  /\ wprot \subseteq Drive /\ vchanged \subseteq Drive
  /\ {intbEn, intA, intB} \subseteq BOOLEAN
  /\ image \in [Fits -> [0 .. Tracks * Spt - 1 -> Sector]]

Ready(d) == inDrive[d] # "none"

NoStatus == [error |-> "none", changed |-> {}, ready |-> FALSE, wprot |-> FALSE]
NoCommand == [fn |-> "stat", drive |-> 0, track |-> 0, sector |-> 0]

-----------------------------------------------------------------------------
(* The end of a door operation, with pro_rx_intb: the first change since   *)
(* the last status command interrupts.                                     *)
VolumeChanged(d) ==
  /\ vchanged' = vchanged \cup {d}
  /\ intB' = (intB \/ intbEn)
  /\ intbEn' = FALSE

(* pro_rx_open_door.                                                       *)
OpenDoor(d) ==
  /\ Ready(d)
  /\ inDrive' = [inDrive EXCEPT ![d] = "none"]
  /\ wprot' = wprot \ {d}
  /\ VolumeChanged(d)
  /\ UNCHANGED <<regs, buffer, intA, image>>

(* pro_rx_close_door.  A file that cannot be opened or has a wrong size    *)
(* leaves the drive as it was.  A file is put in one drive at a time: two  *)
(* streams of the C library on one file need not see each other's writes.  *)
CloseDoor(d, f) ==
  /\ ~Ready(d) /\ \A e \in Drive : inDrive[e] # f
  /\ IF f \in Fits
     THEN /\ inDrive' = [inDrive EXCEPT ![d] = f]
          /\ wprot' = IF f \in ReadOnly THEN wprot \cup {d} ELSE wprot
          /\ VolumeChanged(d)
     ELSE wprot' = wprot \ {d} /\ UNCHANGED <<inDrive, vchanged, intbEn, intB>>
  /\ UNCHANGED <<regs, buffer, intA, image>>

-----------------------------------------------------------------------------
(* pro_rx_set_maintstat: the status of the drive named in csr0, and the    *)
(* volume-changed bits of all.                                             *)
MaintStatus ==
  [error |-> "none", changed |-> vchanged,
   ready |-> Ready(command.drive), wprot |-> command.drive \in wprot]

(* Slip: the error of the command before is not cleared.                   *)
RwStatus_KeepsError == status

(* pro_rx_set_rwstat: the other registers show track and sector.           *)
RwStatus == NoStatus

(* The place of a sector in the file.                                      *)
Offset(track, sector) == track * Spt + sector - 1

(* The error checks of pro_rx_readsec and pro_rx_writesec.                 *)
Verdict(writing) ==
  LET c == command IN
  IF c.drive \notin Exist \/ ~Ready(c.drive) THEN "unavailable"
  ELSE IF writing /\ c.drive \in wprot THEN "protected"
  ELSE IF c.track >= Tracks THEN "track"
  ELSE IF c.sector = 0 \/ c.sector > Spt THEN "sector"
  ELSE "none"

Failed(code) == status' = [RwStatus EXCEPT !.error = code] /\ UNCHANGED <<secbuf, image>>

ReadSector ==
  LET code == Verdict(FALSE) IN
  IF code # "none" THEN Failed(code)
  ELSE /\ status' = RwStatus
       /\ secbuf' = image[inDrive[command.drive]][Offset(command.track, command.sector)]
       /\ UNCHANGED image

WriteSector ==
  LET code == Verdict(TRUE) IN
  IF code # "none" THEN Failed(code)
  ELSE /\ status' = RwStatus
       /\ image' = [image EXCEPT
                      ![inDrive[command.drive]][Offset(command.track, command.sector)] = secbuf]
       /\ UNCHANGED secbuf

(* Slip: the status command does not enable the volume-changed interrupt.  *)
ShowChanges_NoEnable ==
  /\ status' = MaintStatus
  /\ vchanged' = {}
  /\ UNCHANGED <<intbEn, secbuf, image>>

(* The status command shows the changes and forgets them.                  *)
ShowChanges ==
  /\ status' = MaintStatus
  /\ vchanged' = {}
  /\ intbEn' = TRUE
  /\ UNCHANGED <<secbuf, image>>

(* pro_rx_start_command, with the interrupt at its end.  The version and   *)
(* the functions not implemented leave the error code as it was.           *)
StartCommand ==
  /\ \/ command.fn = "stat" /\ ShowChanges
     \/ /\ command.fn # "stat" /\ UNCHANGED <<vchanged, intbEn>>
        /\ CASE command.fn \in {"read", "retry"} -> ReadSector
             [] command.fn \in {"write", "delete"} -> WriteSector
             [] command.fn \in {"maint", "restore", "init"} ->
                  status' = MaintStatus /\ UNCHANGED <<secbuf, image>>
             [] command.fn = "address" -> status' = RwStatus /\ UNCHANGED <<secbuf, image>>
             [] OTHER -> UNCHANGED <<status, secbuf, image>>
  /\ intA' = TRUE
  /\ UNCHANGED <<command, ptr, inDrive, wprot, intB>>

(* pro_rx_wr of the command registers.                                     *)
WriteCommand(c) ==
  /\ command' = c
  /\ UNCHANGED <<status, buffer, doors, intA, image>>

NextPlace == (ptr + 1) % Bytes

(* Data port and buffer pointer (pro_rx_rd, pro_rx_wr).                    *)
FillByte(v) ==
  /\ secbuf' = [secbuf EXCEPT ![ptr] = v]
  /\ ptr' = NextPlace
  /\ UNCHANGED <<regs, doors, intA, image>>

EmptyByte == ptr' = NextPlace /\ UNCHANGED <<regs, secbuf, doors, intA, image>>

ClearAddress == ptr' = 0 /\ UNCHANGED <<regs, secbuf, doors, intA, image>>

(* The processor acknowledges an interrupt.                                *)
TakeA == intA /\ intA' = FALSE /\ UNCHANGED <<regs, buffer, doors, image>>
TakeB == intB /\ intB' = FALSE
         /\ UNCHANGED <<regs, buffer, inDrive, wprot, vchanged, intbEn, intA, image>>

(* pro_rx_reset, after pro_rx_exit when the program is started again: the  *)
(* doors the configuration closes are closed, each with its file.          *)
ResetTo(open, files) ==
  LET closing == {d \in Closed : open[d] = "none" /\ files[d] \in Fits}
      now == [d \in Drive |-> IF d \in closing THEN files[d] ELSE open[d]]
  IN  /\ \A d, e \in Drive : now[d] = now[e] /\ now[d] # "none" => d = e
      /\ command' = NoCommand /\ status' = NoStatus
      /\ secbuf' = Zeros /\ ptr' = 0
      /\ inDrive' = now
      /\ wprot' = {d \in Drive : now[d] \in ReadOnly}
      /\ vchanged' = closing /\ intbEn' = FALSE
      /\ intA' = FALSE /\ intB' = FALSE
      /\ UNCHANGED image

Reset == \E files \in [Closed -> File] : ResetTo(inDrive, files)
ExitAndStart == \E files \in [Closed -> File] : ResetTo([d \in Drive |-> "none"], files)

(* After the first reset.                                                  *)
Init ==
  /\ command = NoCommand /\ status = NoStatus
  /\ secbuf = Zeros /\ ptr = 0
  /\ inDrive \in [Drive -> Fits \cup {"none"}]
  /\ \A d, e \in Drive : inDrive[d] = inDrive[e] /\ Ready(d) => d = e
  /\ \A d \in Drive : Ready(d) => d \in Closed
  /\ vchanged = {d \in Drive : Ready(d)}
  /\ wprot = {d \in Drive : inDrive[d] \in ReadOnly}
  /\ intbEn = FALSE /\ intA = FALSE /\ intB = FALSE
  /\ image = [f \in Fits |-> [n \in 0 .. Tracks * Spt - 1 |-> Zeros]]

(* Any guest and any operator.                                             *)
Next ==
  \/ \E d \in Drive : OpenDoor(d) \/ \E f \in File : CloseDoor(d, f)
  \/ \E c \in [fn : Function, drive : Drive, track : Number, sector : Number] : WriteCommand(c)
  \/ StartCommand
  \/ \E v \in Byte : FillByte(v)
  \/ EmptyByte \/ ClearAddress
  \/ TakeA \/ TakeB
  \/ Reset \/ ExitAndStart

Spec == Init /\ [][Next]_vars
=============================================================================
