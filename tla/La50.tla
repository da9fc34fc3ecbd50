-------------------------------- MODULE La50 ---------------------------------
(***************************************************************************)
(* The LA50 printer (src/src/pro_la50.c): text goes through, sixel         *)
(* graphics are collected into a picture and sent as PCL rows, both into a *)
(* ring the device behind the port is fed from whenever the port is read.  *)
(* The port refuses characters while the ring is half full.  A character   *)
(* of the ring is "text", the "start" or "end" of graphics, or one of the  *)
(* rows of dots a graphics line becomes, each of several bytes in the      *)
(* code.  Columns past the last one are counted as that.                   *)
(***************************************************************************)
EXTENDS Integers, Sequences, FiniteSetsExt

CONSTANTS
  FifoDepth,   \* PTR_FIFO_DEPTH
  MaxCols,     \* MAXCOLS
  SixRows,     \* rows of dots of a sixel, 6 in the code
  ColRep, RowRep, \* how often columns and rows are repeated, in turn
  MaxPos,      \* dots that fit across
  Dots,        \* the rows a sixel plots; letters are sixels
  Burst        \* what a poll copies, 10 in the code

ASSUME La50Assumption ==
  /\ {"P", "q"} \subseteq DOMAIN Dots
  /\ FifoDepth \in Nat \ {0} /\ MaxCols \in Nat /\ SixRows \in Nat \ {0}
  /\ RowRep \in Seq(Nat) /\ Len(RowRep) > 0 /\ ColRep \in Seq(Nat) /\ Len(ColRep) > 0

VARIABLES
  state,       \* of the filter
  escCmd,      \* the character after the escape was P
  rpt,         \* pro_la50.c's repeat count
  col, pic,    \* next column, and the dots of the line
  colrcnt, rowrcnt, \* turns of the repetitions
  ring, level, \* the ring, from tail to head, and what it should hold
  unsent,      \* history: what the device has still to get, until laps # 0
  laps,        \* history: how often a full ring was lost
  most,        \* history: the most put for one character
  refused      \* history: characters the device refused

filter == <<state, escCmd, rpt, col, pic, colrcnt, rowrcnt>>
out == <<ring, level, unsent, laps, most>>
la50Vars == <<filter, out, refused>>

(* Characters with a part in the code; SUB is the empty sixel.             *)
Sixel == DOMAIN Dots
DigitOf == [zero |-> 0, two |-> 2]
LaChar == {"ESC", "P", "q", "space", "CTL", "RPT", "NL", "CR"} \cup DOMAIN DigitOf \cup Sixel

-----------------------------------------------------------------------------
(* ptr_fifo_put for every character of s.  It does not look at the tail:   *)
(* the put that fills the ring makes it look empty, and what was in it is  *)
(* lost.                                                                   *)
Laps(s) == Len(s) \div FifoDepth
RingHeld(s) == SubSeq(s, FifoDepth * Laps(s) + 1, Len(s))

PutAll(s) ==
  /\ ring' = RingHeld(ring \o s)
  /\ level' = level + Len(s)
  /\ laps' = laps + Laps(ring \o s)
  /\ unsent' = IF laps' = 0 THEN unsent \o s ELSE <<>>
  /\ most' = Max({most, Len(s)})

(* output_pcl: the line scaled to the resolution of the device.            *)
ScaledRow(r) ==
  LET from[c \in 0 .. MaxCols] ==   \* where column c starts
        IF c = 0 THEN 0
        ELSE from[c - 1] + ColRep[((colrcnt + r * MaxCols + c - 1) % Len(ColRep)) + 1]
  IN  {d \in 0 .. MaxPos - 1 : \E c \in 0 .. MaxCols - 1 :
         <<r, c>> \in pic /\ from[c] <= d /\ d < from[c + 1]}

(* How many rows have gone out after r rows of the line.                  *)
RowEnd[r \in 0 .. SixRows] ==
  IF r = 0 THEN 0 ELSE RowEnd[r - 1] + RowRep[((rowrcnt + r - 1) % Len(RowRep)) + 1]

RowsOut ==
  [i \in 1 .. RowEnd[SixRows] |->
     ScaledRow(CHOOSE r \in 0 .. SixRows - 1 : RowEnd[r] < i /\ i <= RowEnd[r + 1])]

(* plot_six.                                                               *)
Plot(six, n) ==
  /\ pic' = pic \cup {p \in Dots[six] \X (col .. col + n - 1) : p[2] < MaxCols}
  /\ col' = Min({col + n, MaxCols})
  /\ UNCHANGED <<colrcnt, rowrcnt, escCmd>>

-----------------------------------------------------------------------------
(* six_filter, by its states.                                              *)
Idle(c) ==
  /\ state = "idle"
  /\ IF c = "ESC" THEN state' = "esc" /\ UNCHANGED out
     ELSE PutAll(<<"text">>) /\ UNCHANGED state
  /\ UNCHANGED <<escCmd, rpt, col, pic, colrcnt, rowrcnt>>

Esc(c) ==
  /\ state = "esc"
  /\ IF c \in {"ESC", "CTL"} THEN state' = "idle" /\ UNCHANGED escCmd
     ELSE state' = "wait" /\ escCmd' = (c = "P")
  /\ UNCHANGED <<rpt, col, pic, colrcnt, rowrcnt, out>>

WaitEsc(c) ==
  /\ state = "wait"
  /\ IF c = "q" /\ escCmd
     THEN /\ state' = "six" /\ PutAll(<<"start">>)
          /\ col' = 0 /\ pic' = {} /\ colrcnt' = 0 /\ rowrcnt' = 0
     ELSE /\ state' = IF c \in {"P", "q"} THEN "idle" ELSE state
          /\ UNCHANGED <<col, pic, colrcnt, rowrcnt, out>>
  /\ UNCHANGED <<escCmd, rpt>>

(* A character that is none of graphics ends it, and so does any character *)
(* after an escape.                                                        *)
EndPcl ==
  /\ state' = "idle" /\ PutAll(<<"end">>)
  /\ UNCHANGED <<rpt, escCmd, col, pic, colrcnt, rowrcnt>>

SixIdle(c) ==
  /\ state = "six"
  /\ \/ c \in Sixel /\ Plot(c, 1) /\ UNCHANGED <<state, rpt, out>>
     \/ /\ c \in {"ESC", "RPT"}
        /\ state' = IF c = "ESC" THEN "sixesc" ELSE "sixrpt"
        /\ rpt' = IF c = "RPT" THEN 0 ELSE rpt
        /\ UNCHANGED <<escCmd, col, pic, colrcnt, rowrcnt, out>>
     \/ /\ c = "NL" /\ PutAll(RowsOut)
        /\ colrcnt' = (colrcnt + SixRows * MaxCols) % Len(ColRep)
        /\ rowrcnt' = (rowrcnt + SixRows) % Len(RowRep)
        /\ col' = 0 /\ pic' = {} /\ UNCHANGED <<state, escCmd, rpt>>
     \/ c = "CR" /\ col' = 0 /\ UNCHANGED <<state, escCmd, rpt, pic, colrcnt, rowrcnt, out>>
     \/ c \notin Sixel \cup {"ESC", "RPT", "NL", "CR"} /\ EndPcl

SixRpt(c) ==
  /\ state = "sixrpt"
  /\ \/ c \in DOMAIN DigitOf /\ rpt' = Min({10 * rpt + DigitOf[c], MaxCols}) /\ UNCHANGED state
        /\ UNCHANGED <<escCmd, col, pic, colrcnt, rowrcnt>>
     \/ c \in Sixel /\ Plot(c, rpt) /\ state' = "six" /\ UNCHANGED rpt
     \/ /\ c \notin Sixel \cup DOMAIN DigitOf
        /\ state' = IF c = "ESC" THEN "sixesc" ELSE "six"
        /\ UNCHANGED <<rpt, escCmd, col, pic, colrcnt, rowrcnt>>
  /\ UNCHANGED out

SixFilter(c) ==
  \/ Idle(c) \/ Esc(c) \/ WaitEsc(c) \/ SixIdle(c) \/ SixRpt(c)
  \/ state = "sixesc" /\ EndPcl

-----------------------------------------------------------------------------
(* Slip: the port accepts whatever comes.                                  *)
La50Put_Always(c) == SixFilter(c) /\ UNCHANGED refused

(* pro_la50_put of a character the port accepts.                           *)
La50Put(c) == level < FifoDepth \div 2 /\ SixFilter(c) /\ UNCHANGED refused

(* pro_la50_get: the device takes n of the characters, then it refuses one *)
(* unless the ring or the poll is at its end.  The refused one stays, but  *)
(* the level has been taken down for it, and nothing puts it up again.     *)
La50Get ==
  \E n \in 0 .. Len(ring) :
    /\ n <= Burst
    /\ ring' = SubSeq(ring, n + 1, Len(ring))
    /\ unsent' = IF laps = 0 /\ SubSeq(ring, 1, n) = SubSeq(unsent, 1, n)
                 THEN SubSeq(unsent, n + 1, Len(unsent)) ELSE unsent
    /\ \/ n \in {Len(ring), Burst} /\ level' = level - n /\ UNCHANGED refused
       \/ n < Len(ring) /\ n < Burst /\ level' = level - n - 1 /\ refused' = refused + 1
    /\ UNCHANGED <<filter, laps, most>>

(* pro_la50_reset.                                                         *)
La50Reset ==
  /\ state' = "idle" /\ ring' = <<>> /\ level' = 0
  /\ unsent' = <<>> /\ laps' = 0 /\ most' = 0 /\ refused' = 0
  /\ UNCHANGED <<escCmd, rpt, col, pic, colrcnt, rowrcnt>>

La50Init ==
  /\ state = "idle" /\ escCmd = FALSE /\ rpt = 0 /\ col = 0 /\ pic = {}
  /\ colrcnt = 0 /\ rowrcnt = 0
  /\ ring = <<>> /\ level = 0
  /\ unsent = <<>> /\ laps = 0 /\ most = 0 /\ refused = 0

La50Next == (\E c \in LaChar : La50Put(c)) \/ La50Get \/ La50Reset

La50Spec == La50Init /\ [][La50Next]_la50Vars

-----------------------------------------------------------------------------
(* As long as the ring has not overrun, the device gets what was printed,  *)
(* all of it and in order.  It overruns only when the characters refused   *)
(* since the reset and the most that was put at once are together more     *)
(* than half of it; and the level counts what is in the ring, less what    *)
(* was refused and with all that was lost, so that after an overrun the    *)
(* port waits for characters that are gone.                                *)
PrintsInOrder ==
  /\ laps = 0 => ring = unsent
  /\ laps # 0 => 2 * (most + refused) > FifoDepth
  /\ level = Len(ring) + FifoDepth * laps - refused
=============================================================================
