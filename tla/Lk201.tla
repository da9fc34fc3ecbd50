-------------------------------- MODULE Lk201 --------------------------------
(***************************************************************************)
(* The LK201 keyboard the emulator plays for the machine                   *)
(* (src/src/pro_lk201.c): it reads keys of the host, turns some of them    *)
(* into the keys a PC keyboard lacks, and answers commands.  What it has   *)
(* to say beyond the key just read waits in a ring of Depth places.        *)
(***************************************************************************)
EXTENDS Naturals, Sequences

CONSTANT Depth   \* PRO_LK201_FIFO_DEPTH

(* The ring has room for a wrapped key and the longest answer.             *)
ASSUME KbdAssumption == Depth \in Nat /\ Depth > 6

VARIABLES
  shift, ctrl,   \* what the keyboard knows of these keys
  locked,        \* it may not transmit
  param,         \* the next byte is a parameter
  lastCmd,       \* the command whose parameter is expected, if it matters
  host,          \* which of click, auto-repeat and bell are on
  fifo           \* the ring, from tail to head

kbd == <<shift, ctrl, locked, param, lastCmd, host, fifo>>

(* Control makes these keys into keys of the keypad and the top row.       *)
WithCtrl ==
  [PRINT |-> "PF1", SETUP |-> "PF2", FFOUR |-> "PF3", BREAK |-> "PF4",
   INT |-> "F17", RESUME |-> "F18", CANCEL |-> "F19", MAIN |-> "F20"]

(* The answers to a command.                                               *)
Answers ==
  [LCK |-> <<"LCK_ACK">>, ID |-> <<"IDF", "IDH">>, DECTOUCH |-> <<"KB">>,
   PWRUP |-> <<"IDF", "IDH", "NOERR", "NOERR">>]
Reply == {"LCK_ACK", "IDF", "IDH", "NOERR", "KB"}

(* Settings a command takes away and gives.  BELL_E counts only with its   *)
(* parameter.                                                              *)
TurnsOff == [CLICK_D |-> "click", AUTO_D |-> "auto", BELL_D |-> "bell"]
TurnsOn == [CLICK_E |-> "click", AUTO_E |-> "auto"]

(* Bytes without the bit that ends a command (PRO_LK201_PARAMS).           *)
More == {"CLICK_E", "BELL_E", "more"}

-----------------------------------------------------------------------------
(* pro_lk201_fifo_put for each of keys.  The head does not look at the     *)
(* tail: the put that fills the ring makes it look empty.                  *)
FifoPutAll(f, keys) ==
  LET s == f \o keys IN SubSeq(s, Depth * (Len(s) \div Depth) + 1, Len(s))

KbdInit ==
  /\ shift = FALSE /\ ctrl = FALSE /\ locked = FALSE
  /\ param = FALSE /\ lastCmd = "NOCMD"
  /\ host = {"click", "auto", "bell"} /\ fifo = <<>>

(* pro_lk201_reset.  The settings of the host stay, except that the        *)
(* keyboard believes the bell is enabled.                                  *)
KbdReset ==
  /\ shift' = FALSE /\ ctrl' = FALSE /\ locked' = FALSE
  /\ param' = FALSE /\ lastCmd' = "NOCMD"
  /\ host' = host \cup {"bell"} /\ fifo' = <<>>

-----------------------------------------------------------------------------
(* Slip: the modifier is not pressed again after the key.                  *)
Rest_NoPress(k) ==
  CASE k = "COMMA" /\ shift -> <<"LT">>
    [] k \in DOMAIN WithCtrl /\ ctrl -> <<WithCtrl[k]>>
    [] OTHER -> <<>>

(* What follows the first code when the host gives key k: a key that must  *)
(* come without its modifier is wrapped in its release and its press.      *)
Rest(k) ==
  CASE k = "COMMA" /\ shift -> <<"LT", "SHIFT">>
    [] k \in DOMAIN WithCtrl /\ ctrl -> <<WithCtrl[k], "CTRL">>
    [] OTHER -> <<>>

First(k) ==
  CASE k = "PERIOD" /\ shift -> "LT"
    [] Rest(k) # <<>> -> "ALLUPS"
    [] OTHER -> k

(* The two ways pro_lk201_get finds a code: the ring first, then the host. *)
GiveQueued ==
  /\ ~locked /\ fifo # <<>>
  /\ fifo' = Tail(fifo)
  /\ UNCHANGED <<shift, ctrl, locked, param, lastCmd, host>>

GiveTyped(k) ==
  /\ ~locked /\ fifo = <<>>
  /\ shift' = IF k = "SHIFT" THEN TRUE ELSE IF k = "ALLUPS" THEN FALSE ELSE shift
  /\ ctrl' = IF k = "CTRL" THEN TRUE ELSE IF k = "ALLUPS" THEN FALSE ELSE ctrl
  /\ fifo' = FifoPutAll(fifo, Rest(k))
  /\ UNCHANGED <<locked, param, lastCmd, host>>

-----------------------------------------------------------------------------
(* pro_lk201_put.                                                          *)
Put(b) ==
  /\ param' = (b \in More)
  /\ IF param
     THEN /\ host' = IF lastCmd = "BELL_E" THEN host \cup {"bell"} ELSE host
          /\ lastCmd' = IF lastCmd = "BELL_E" THEN "NOCMD" ELSE lastCmd
          /\ UNCHANGED <<locked, fifo>>
     ELSE /\ locked' = IF b = "LCK" THEN TRUE ELSE IF b = "UNLCK" THEN FALSE ELSE locked
          /\ fifo' = IF b \in DOMAIN Answers THEN FifoPutAll(fifo, Answers[b]) ELSE fifo
          /\ host' = IF b \in DOMAIN TurnsOff THEN host \ {TurnsOff[b]}
                     ELSE IF b \in DOMAIN TurnsOn THEN host \cup {TurnsOn[b]} ELSE host
          /\ lastCmd' = IF b = "BELL_E" THEN b ELSE "NOCMD"
  /\ UNCHANGED <<shift, ctrl>>
=============================================================================
