------------------------------- MODULE Digipad -------------------------------
(***************************************************************************)
(* The digitizing tablet (src/src/pro_digipad.c): the machine asks for the *)
(* place of the pen, or is told whenever it has changed.  A report is      *)
(* several characters in a ring, mixed with the echoes of the commands.    *)
(* Characters of a command matter only as far as its letters do.           *)
(***************************************************************************)
EXTENDS Naturals, Sequences

CONSTANTS
  PadDepth,    \* PRO_DIGIPAD_FIFO_DEPTH
  ReportLen,   \* characters of a report and of the answer to a reset, 5
  Place        \* places of the pen, with its buttons

(* The ring has room for three reports and more (1024 characters and 5 in  *)
(* the code).                                                              *)
ASSUME PadAssumption ==
  /\ PadDepth \in Nat /\ ReportLen \in Nat /\ ReportLen > 1 /\ 3 * ReportLen + 1 < PadDepth
  /\ Place \cap {"echo", "more", "0xff"} = {}

VARIABLES
  pen, near,   \* where the pen is, and whether it is near the tablet
  mode,        \* "remote", "suppressed" or "none"
  enable,      \* XON has come after XOFF
  s0, startOfHeading, \* the previous character; the one before it was SOH
  reported,        \* what the last report of a change was about, or <<>>
  padRing,     \* the ring, from tail to head
  known,       \* the last report the ring was given
  overran,     \* the ring was filled
  asked        \* since the last reset the machine asked for a report

padVars == <<pen, near, mode, enable, s0, startOfHeading, reported, padRing, known, overran, asked>>

Letter == {"R", "S", "M", "C"}   \* C stands for D and L too
PadChar == {"SOH", "STX", "XON", "XOFF"} \cup Letter

(* Away from the tablet every place is reported as the origin.             *)
Shown == IF near THEN pen ELSE "away"
Where == <<pen, near>>

-----------------------------------------------------------------------------
(* pro_digipad_fifo_put for every character of s.  Its test for a full     *)
(* ring never fails: the put that fills the ring makes it look empty.      *)
PadHeld(s) == SubSeq(s, PadDepth * (Len(s) \div PadDepth) + 1, Len(s))

PadPutAll(s) ==
  /\ padRing' = PadHeld(padRing \o s)
  /\ overran' = (overran \/ Len(padRing) + Len(s) >= PadDepth)

(* pro_digipad_coord.                                                      *)
Report == [i \in 1 .. ReportLen |-> IF i = 1 THEN Shown ELSE "more"]

ResetAnswer == [i \in 1 .. ReportLen |-> "0xff"]

(* pro_digipad_get: what has changed is reported, and a character is taken *)
(* if there is one.                                                        *)
PadGet ==
  /\ enable
  /\ IF mode = "suppressed" /\ Where # reported
     THEN /\ LET f == PadHeld(padRing \o Report) IN padRing' = IF f = <<>> THEN f ELSE Tail(f)
          /\ overran' = (overran \/ Len(padRing) + ReportLen >= PadDepth)
          /\ reported' = Where /\ known' = Shown
     ELSE /\ padRing # <<>> /\ padRing' = Tail(padRing)
          /\ UNCHANGED <<reported, known, overran>>
  /\ UNCHANGED <<pen, near, mode, enable, s0, startOfHeading, asked>>

-----------------------------------------------------------------------------
(* pro_digipad_put: flow control, and commands that are a heading and two  *)
(* letters.                                                                *)
Flow(c) ==
  /\ enable' = (c = "XON")
  /\ UNCHANGED <<mode, reported, padRing, known, overran, asked>>

Question ==
  /\ mode = "remote"
  /\ PadPutAll(<<"echo">> \o Report)
  /\ known' = Shown /\ asked' = TRUE
  /\ UNCHANGED <<mode, enable, reported>>

(* Slip: what was reported before the reset counts after it.               *)
ResetPad_KeepsLast ==
  /\ PadPutAll(<<"echo">> \o ResetAnswer)
  /\ mode' = "none" /\ enable' = TRUE /\ asked' = FALSE
  /\ UNCHANGED <<reported, known>>

(* RS.                                                                     *)
ResetPad ==
  /\ PadPutAll(<<"echo">> \o ResetAnswer)
  /\ mode' = "none" /\ enable' = TRUE /\ asked' = FALSE
  /\ reported' = <<>> /\ UNCHANGED known

(* The modes: RM, S and any letter, or one that is not supported.          *)
ModeAfter(c) ==
  CASE startOfHeading /\ s0 = "R" /\ c = "M" -> "remote"
    [] startOfHeading /\ s0 = "S" -> "suppressed"
    [] startOfHeading /\ s0 = "C" -> "none"
    [] OTHER -> mode

ChangeMode(c) ==
  /\ PadPutAll(<<"echo">>) /\ mode' = ModeAfter(c)
  /\ UNCHANGED <<enable, reported, known, asked>>

PadPut(c) ==
  /\ IF c \in {"XON", "XOFF"} THEN Flow(c)
     ELSE IF c = "STX" /\ mode = "remote" THEN Question
     ELSE IF startOfHeading /\ s0 = "R" /\ c = "S" THEN ResetPad
     ELSE ChangeMode(c)
  /\ startOfHeading' = (s0 = "SOH")
  /\ s0' = IF c \in {"SOH", "R", "S", "C"} THEN c ELSE "other"
  /\ UNCHANGED <<pen, near>>

(* The machine waits for the echo of a command's character before it sends *)
(* the next, and reads reports faster than the host sees the pen move.     *)
PadSend(c) ==
  /\ c \in {"XON", "XOFF"} \/ \A i \in DOMAIN padRing : padRing[i] # "echo"
  /\ PadPut(c)

MovePen ==
  /\ \A i \in DOMAIN padRing : padRing[i] \notin Place \cup {"away"}
  /\ \E p \in Place, n \in BOOLEAN : pen' = p /\ near' = n
  /\ UNCHANGED <<mode, enable, s0, startOfHeading, reported, padRing, known, overran, asked>>

PadInit ==
  /\ pen \in Place /\ near = TRUE /\ mode = "none" /\ enable = FALSE
  /\ s0 = "other" /\ startOfHeading = FALSE
  /\ reported = <<>> /\ padRing = <<>> /\ known = "none" /\ overran = FALSE /\ asked = FALSE

PadNext == PadGet \/ (\E c \in PadChar : PadSend(c)) \/ MovePen

PadSpec == PadInit /\ [][PadNext]_padVars

-----------------------------------------------------------------------------
(* The machine is told where the pen was seen last: its reports are not    *)
(* lost in a ring that overran, and the last one is about the place that   *)
(* is compared with when the tablet decides whether there is news.  A      *)
(* machine that asked for a report in between may miss one; it has to      *)
(* reset the tablet.                                                       *)
ReportsFollowPen ==
  /\ ~overran
  /\ reported # <<>> /\ ~asked => known = IF reported[2] THEN reported[1] ELSE "away"
=============================================================================
