----------------------------- MODULE HostSerial ------------------------------
(***************************************************************************)
(* A serial device number of the host (src/src/pro_serial.c): the lines of *)
(* the host that a port is given by the configuration and by the menu.  A  *)
(* line is opened for the port, read by chunks into a buffer that outlives *)
(* it, and closed with its settings as they were.  A character read is     *)
(* <<l, n>>, the nth that came down line l.                                *)
(***************************************************************************)
EXTENDS Naturals, Sequences, FiniteSets

CONSTANTS
  HostLine,     \* lines of the host
  Configured,   \* what the configuration gives the port: a line, or "other"
  RSize,        \* PRO_SER_RSIZE, 16
  WDepth,       \* PRO_SERIAL_WDEPTH, 2
  Countable,    \* lines whose waiting characters the host can count (TIOCOUTQ)
  HostDepth,    \* characters the host takes for a line before it refuses
  Speed, Unsupported,  \* speeds of the port, and those the host has not
  Slowest,      \* the speed after a reset
  MaxCome       \* bound: characters that come down each line

ASSUME LineAssumption ==
  Configured \in HostLine \cup {"other"} /\ HostLine \cap {"other", "closed"} = {}
ASSUME BufferAssumption ==
  RSize \in Nat \ {0} /\ WDepth \in Nat /\ HostDepth \in Nat /\ HostDepth > WDepth

VARIABLES
  attached,   \* what the port is connected to
  sfd,        \* pro_ser_sfd: the line that is open, or "closed"
  rbuf, getCnt,  \* what is left of pro_ser_rbuf, and pro_ser_cnt
  speed,      \* the speed the program asks for
  settings, saved, \* settings of each line; pro_ser_par_save
  atHost, taken, delivered, \* of each line: characters the host keeps, has given,
                             \* and those the machine got
  sending,    \* characters the host has still to send down each line
  moved       \* a reset gave the port away while it had a line open, or lost one

lineIn == <<atHost, taken, delivered>>
serialVars == <<attached, sfd, rbuf, getCnt, speed, settings, saved, lineIn, sending, moved>>

-----------------------------------------------------------------------------
(* Slip: the buffer is filled again one call too early.                    *)
ReadDue_Early == getCnt + 2 >= RSize

(* Every RSize calls.                                                      *)
ReadDue == getCnt + 1 >= RSize

(* pro_serial_get.  A read that finds n characters replaces the buffer.    *)
SerialGet ==
  /\ attached \in HostLine
  /\ getCnt' = IF ReadDue THEN 0 ELSE getCnt + 1
  /\ \E n \in 0 .. RSize :
       LET l == sfd
           buf == IF n = 0 THEN rbuf ELSE [i \in 1 .. n |-> <<l, taken[l] + i>>]
       IN  /\ IF ReadDue /\ l # "closed"
              THEN /\ n <= atHost[l] /\ (n = 0 => atHost[l] = 0)
                   /\ atHost' = [atHost EXCEPT ![l] = @ - n]
                   /\ taken' = [taken EXCEPT ![l] = @ + n]
              ELSE n = 0 /\ UNCHANGED <<atHost, taken>>
           /\ IF buf = <<>> THEN rbuf' = buf /\ UNCHANGED delivered
              ELSE /\ rbuf' = Tail(buf)
                   /\ delivered' = [delivered EXCEPT ![Head(buf)[1]] = Head(buf)[2]]
  /\ UNCHANGED <<attached, sfd, speed, settings, saved, sending, moved>>

(* pro_serial_put.  A line whose waiting characters cannot be counted      *)
(* leaves the test to an uninitialized variable.  A character that is      *)
(* refused is tried again (Usart2661, ComPort); without an open line it is *)
(* lost, and the controller believes it was sent.                          *)
SerialPut ==
  /\ attached \in HostLine /\ sfd # "closed"
  /\ sfd \in Countable => sending[sfd] <= WDepth
  /\ sending[sfd] < HostDepth
  /\ sending' = [sending EXCEPT ![sfd] = @ + 1]
  /\ UNCHANGED <<attached, sfd, rbuf, getCnt, speed, settings, saved, lineIn, moved>>

(* pro_serial_ctrl_put: what it asks of the host.  A speed the host has    *)
(* not hangs up.                                                           *)
Asked(v) == IF v \in Unsupported THEN "hangup" ELSE v
CtrlPut(on, v, now) == IF on = "closed" THEN now ELSE [now EXCEPT ![on] = Asked(v)]

SetSpeed(v) ==
  /\ speed' = v
  /\ settings' = IF attached \in HostLine THEN CtrlPut(sfd, v, settings) ELSE settings
  /\ UNCHANGED <<attached, sfd, rbuf, getCnt, saved, lineIn, sending, moved>>

-----------------------------------------------------------------------------
(* pro_com_open and the like: pro_serial_reset of the line, which does     *)
(* nothing when one is open, then the parameters.  open is the line that   *)
(* is open before, now the settings.  A line of the host may be missing.   *)
OpenPort(to, open, now, v) ==
  /\ attached' = to /\ speed' = v
  /\ \E opened \in IF to \in HostLine /\ open = "closed" THEN {to, "closed"} ELSE {open} :
       /\ sfd' = opened
       /\ saved' = IF opened # open THEN now[opened] ELSE saved
       /\ settings' = IF to \in HostLine THEN CtrlPut(opened, v, now) ELSE now

(* pro_serial_exit, when the port has a line: the line open and the        *)
(* settings after it.                                                      *)
Closing ==
  IF attached \in HostLine /\ sfd # "closed"
  THEN [open |-> "closed", now |-> [settings EXCEPT ![sfd] = saved]]
  ELSE [open |-> sfd, now |-> settings]

(* The menu gives the port a device: pro_com_exit, then pro_com_open.      *)
Assign(to) ==
  /\ OpenPort(to, Closing.open, Closing.now, speed)
  /\ UNCHANGED <<rbuf, getCnt, lineIn, sending, moved>>

(* pro_reset from the console: the configuration counts again, and no line *)
(* is closed.                                                              *)
ConsoleReset ==
  /\ OpenPort(Configured, sfd, settings, Slowest)
  /\ moved' = (moved \/ (sfd # "closed" /\ sfd # Configured))
  /\ UNCHANGED <<rbuf, getCnt, lineIn, sending>>

(* pro_exit and the next start; what was read and not taken is forgotten.  *)
LeaveAndStart ==
  /\ OpenPort(Configured, "closed", Closing.now, Slowest)
  /\ rbuf' = <<>> /\ getCnt' = 0 /\ delivered' = taken
  /\ UNCHANGED <<atHost, taken, sending, moved>>

-----------------------------------------------------------------------------
(* The other ends of the lines.                                            *)
Comes(l) ==
  /\ atHost[l] + taken[l] < MaxCome[l]
  /\ atHost' = [atHost EXCEPT ![l] = @ + 1]
  /\ UNCHANGED <<attached, sfd, rbuf, getCnt, speed, settings, saved, taken, delivered, sending,
                 moved>>

Goes(l) ==
  /\ sending[l] > 0 /\ sending' = [sending EXCEPT ![l] = @ - 1]
  /\ UNCHANGED <<attached, sfd, rbuf, getCnt, speed, settings, saved, lineIn, moved>>

SerialInit ==
  LET none == [l \in HostLine |-> 0]
      original == [l \in HostLine |-> "original"]
  IN  /\ attached = Configured /\ speed = Slowest
      /\ sfd \in IF Configured \in HostLine THEN {Configured, "closed"} ELSE {"closed"}
      /\ settings = CtrlPut(sfd, Slowest, original) /\ saved = "original"
      /\ rbuf = <<>> /\ getCnt = 0
      /\ atHost = none /\ taken = none /\ delivered = none /\ sending = none
      /\ moved = FALSE

SerialNext ==
  \/ SerialGet \/ SerialPut
  \/ \E v \in Speed : SetSpeed(v)
  \/ \E to \in HostLine \cup {"other"} : Assign(to)
  \/ ConsoleReset \/ LeaveAndStart
  \/ \E l \in HostLine : Comes(l) \/ Goes(l)

SerialSpec == SerialInit /\ [][SerialNext]_serialVars

-----------------------------------------------------------------------------
(* What the machine takes from a line comes in order, and nothing of it is *)
(* overwritten in the buffer, also when the port changes its line between  *)
(* two reads; the host has never more to send than was meant; the line     *)
(* that is open has the settings the program asked for and every other     *)
(* line has its own again.  The open line is the one the port shows unless *)
(* a reset gave the port another; if that is no line of the host, nothing  *)
(* restores the settings either.                                           *)
LinesKept ==
  /\ \A l \in HostLine :
       LET left == {i \in DOMAIN rbuf : rbuf[i][1] = l} IN
       /\ delivered[l] + Cardinality(left) = taken[l]
       /\ \A i \in left : rbuf[i][2] = delivered[l] + Cardinality({j \in left : j <= i})
       /\ l \in Countable => sending[l] <= WDepth + 1
  /\ sfd \in HostLine /\ attached = sfd => settings[sfd] = Asked(speed)
  /\ ~moved => sfd \in {"closed", attached}
  /\ ~moved \/ Configured \in HostLine =>
       \A l \in HostLine \ {sfd} : settings[l] = "original"
=============================================================================
