------------------------------- MODULE RdDisk --------------------------------
(***************************************************************************)
(* The RD hard disk controller (src/src/pro_rd.c): registers, the sector   *)
(* buffer that is filled or emptied two bytes at a time, the two           *)
(* interrupts, the event that starts a read and the image file.  The file  *)
(* is a function of the sector's number in it.  A disk image with a known  *)
(* geometry is present.  The guest may do anything with a register;        *)
(* RdDriver is a guest that follows the protocol.                          *)
(***************************************************************************)
EXTENDS Naturals

CONSTANTS
  Cyls, Heads, Secs,  \* geometry of the disk
  Bytes, Byte,        \* size of a sector (512), and what it is made of
  Register,           \* values of the address registers
  MaxEvents           \* bound: RD events in the event queue

ASSUME GeometryAssumption == {Cyls, Heads, Secs} \subseteq Nat \ {0}
ASSUME BytesAssumption == Bytes \in Nat \ {0} /\ Bytes % 2 = 0 /\ 0 \in Byte
ASSUME RegisterAssumption == Register \subseteq Nat /\ 0 \in Register
ASSUME BoundAssumption == MaxEvents \in Nat

Cmd == {"restore", "read", "write", "format"}
Sector == [0 .. Bytes - 1 -> Byte]
Last == Bytes - 2

VARIABLES
  drq, opended,    \* status: data transfer request, operation ended
  cmd, datareq,    \* s2c: command, data request
  error,           \* s2c: error, and ep: ID not found
  cyl, head, sec,  \* address registers
  secbuf, ptr,     \* sector buffer and the place in it
  intA, intB,      \* interrupt requests in the controllers
  events,          \* PRO_EVENT_RD events in the event queue
  disk             \* the image file

address == <<cyl, head, sec>>
status == <<drq, opended, cmd, datareq, error, intA, intB, events>>
vars == <<address, status, secbuf, ptr, disk>>

TypeOK ==
  /\ {drq, opended, datareq, error, intA, intB} \subseteq BOOLEAN
  /\ cmd \in Cmd \cup {"none"}
  /\ {cyl, head, sec} \subseteq Register
  /\ secbuf \in Sector /\ ptr \in 0 .. Last
  /\ events \in 0 .. MaxEvents
  /\ disk \in [0 .. Cyls * Heads * Secs - 1 -> Sector]

Zeros == [b \in 0 .. Bytes - 1 |-> 0]

(* After the first reset.                                                  *)
Init ==
  /\ drq = FALSE /\ opended = TRUE
  /\ cmd = "none" /\ datareq = FALSE /\ error = FALSE
  /\ cyl = 0 /\ head = 0 /\ sec = 0
  /\ secbuf = Zeros /\ ptr = 0
  /\ intA = FALSE /\ intB = FALSE /\ events = 0
  /\ disk = [s \in 0 .. Cyls * Heads * Secs - 1 |-> Zeros]

-----------------------------------------------------------------------------
(* Slip: a cylinder is taken for a track.                                  *)
Offset_NoHeads(c, h, s) == c * Secs + h * Secs + s

(* The number of a sector in the file.                                     *)
Offset(c, h, s) == c * Heads * Secs + h * Secs + s

(* Operation ended (pro_rd_inta), or ready to move two bytes (pro_rd_intb).*)
IntA == opended' = TRUE /\ intA' = TRUE
IntB == drq' = TRUE /\ datareq' = TRUE /\ intB' = TRUE

NoRequest == drq' = FALSE /\ datareq' = FALSE

(* Slip: an error does not end the operation.                              *)
Error_NoInterrupt ==
  /\ error' = TRUE
  /\ opended' = FALSE /\ UNCHANGED intA

Error == error' = TRUE /\ IntA

(* The event of a read.                                                    *)
RdEvent ==
  /\ events > 0
  /\ events' = events - 1
  /\ IntB
  /\ UNCHANGED <<opended, cmd, error, address, secbuf, ptr, intA, disk>>

(* Slip: the requests are not taken back.                                  *)
NextWord_KeepsRequest ==
  IF ptr < Last
  THEN ptr' = ptr + 2 /\ IntB /\ UNCHANGED <<opended, intA>>
  ELSE IntA /\ UNCHANGED <<drq, datareq, ptr, intB>>

(* The pointer moves on and asks for the next word, or the operation ends. *)
NextWord ==
  IF ptr < Last
  THEN ptr' = ptr + 2 /\ IntB /\ UNCHANGED <<opended, intA>>
  ELSE NoRequest /\ IntA /\ UNCHANGED <<ptr, intB>>

(* A read of the data register gives DataWord and moves on.                *)
DataWord == <<secbuf[ptr], secbuf[ptr + 1]>>

ReadData ==
  /\ IF drq
     THEN NextWord
     ELSE UNCHANGED <<drq, datareq, ptr, opended, intA, intB>>
  /\ UNCHANGED <<cmd, error, address, secbuf, events, disk>>

(* The sectors that the end of a write or of a format puts in the file, at *)
(* the address and for the command that the registers hold by then.        *)
Written(buffer) ==
  CASE cmd = "write" -> [disk EXCEPT ![Offset(cyl, head, sec)] = buffer]
    [] cmd = "format" ->
         [s \in DOMAIN disk |->
           IF s \in Offset(cyl, head, 0) .. Offset(cyl, head, Secs - 1)
           THEN [b \in 0 .. Bytes - 1 |-> buffer[Bytes - 1]]
           ELSE disk[s]]
    [] OTHER -> disk

WriteData(low, high) ==
  /\ IF drq
     THEN /\ secbuf' = [secbuf EXCEPT ![ptr] = low, ![ptr + 1] = high]
          /\ disk' = IF ptr < Last THEN disk ELSE Written(secbuf')
          /\ NextWord
     ELSE UNCHANGED <<drq, datareq, ptr, opended, intA, intB, secbuf, disk>>
  /\ UNCHANGED <<cmd, error, address, events>>

WriteCyl(c) ==
  /\ cyl' = c
  /\ UNCHANGED <<head, sec, status, secbuf, ptr, disk>>

WriteHead(h) ==
  /\ head' = h
  /\ UNCHANGED <<cyl, sec, status, secbuf, ptr, disk>>

WriteSec(s) ==
  /\ sec' = s
  /\ UNCHANGED <<cyl, head, status, secbuf, ptr, disk>>

(* The command register's low byte is written.  A read fills the buffer at *)
(* once and its data is asked for later.                                   *)
WriteCommand(c) ==
  /\ cmd' = c
  /\ \/ /\ c = "restore"
        /\ IntA /\ error' = FALSE /\ NoRequest
        /\ UNCHANGED <<secbuf, ptr, intB, events>>
     \/ /\ \/ c \in {"read", "write"} /\ (cyl >= Cyls \/ head >= Heads \/ sec >= Secs)
           \/ c = "format" /\ (cyl >= Cyls \/ head >= Heads)
        /\ Error /\ NoRequest
        /\ UNCHANGED <<secbuf, ptr, intB, events>>
     \/ /\ c = "read" /\ cyl < Cyls /\ head < Heads /\ sec < Secs
        /\ events < MaxEvents
        /\ secbuf' = disk[Offset(cyl, head, sec)] /\ ptr' = 0
        /\ events' = events + 1
        /\ error' = FALSE /\ NoRequest /\ opended' = FALSE
        /\ UNCHANGED <<intA, intB>>
     \/ /\ c \in {"write", "format"} /\ cyl < Cyls /\ head < Heads
        /\ c = "write" => sec < Secs
        /\ ptr' = 0
        /\ IntB /\ error' = FALSE /\ opended' = FALSE
        /\ UNCHANGED <<secbuf, intA, events>>
  /\ UNCHANGED <<address, disk>>

(* Reading s2c takes the end of the operation back.                        *)
ReadS2c ==
  /\ opended' = FALSE
  /\ UNCHANGED <<drq, cmd, datareq, error, address, secbuf, ptr, intA, intB, events, disk>>

(* RESET or RUN at the console: the event queue, the interrupt controllers *)
(* and pro_rd_reset.                                                       *)
Reset ==
  /\ drq' = FALSE /\ opended' = TRUE
  /\ cmd' = "none" /\ datareq' = FALSE /\ error' = FALSE
  /\ cyl' = 0 /\ head' = 0 /\ sec' = 0
  /\ secbuf' = Zeros /\ ptr' = 0
  /\ intA' = FALSE /\ intB' = FALSE /\ events' = 0
  /\ UNCHANGED disk

(* The guest acknowledges a request, or clears it in the controller.       *)
TakeA ==
  /\ intA /\ intA' = FALSE
  /\ UNCHANGED <<drq, opended, cmd, datareq, error, address, secbuf, ptr, intB, events, disk>>

TakeB ==
  /\ intB /\ intB' = FALSE
  /\ UNCHANGED <<drq, opended, cmd, datareq, error, address, secbuf, ptr, intA, events, disk>>
=============================================================================
