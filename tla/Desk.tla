-------------------------------- MODULE Desk ---------------------------------
(***************************************************************************)
(* Keyboard and menu together.  Keys of the host window pass the menu      *)
(* twice: when the window queues them (src/src/term/term_x11.c) and when   *)
(* the keyboard port reads them through the LK201 (src/src/pro_kb.c); keys *)
(* of a terminal on a serial line pass it once.  In between the machine's  *)
(* program sends commands to the keyboard and waits for their answers.     *)
(***************************************************************************)
EXTENDS Lk201, Menu

CONSTANTS
  XDepth,    \* PRO_KEYBOARD_FIFO_DEPTH
  HostKey,   \* keys of the window
  LineKey,   \* keys of a terminal
  Command    \* bytes the program sends

ASSUME XDepthAssumption == XDepth \in Nat \ {0}

VARIABLES
  xq,        \* the window's queue
  running,   \* the program has not exited
  down,      \* the modifiers the machine believes are down
  due,       \* the key it has to read next and the modifiers with it, if known
  misread,   \* it read another
  owed,      \* answers it waits for
  trusted    \* since all keys were up the keyboard lost no modifier

machine == <<down, due, misread, owed, trusted>>
deskVars == <<kbd, menuVars, xq, running, machine>>

Modifiers == {"SHIFT", "CTRL", "ALLUPS"}
Main(k) == k \notin Modifiers \cup Reply
Held == (IF shift THEN {"SHIFT"} ELSE {}) \cup (IF ctrl THEN {"CTRL"} ELSE {})

(* What the machine should read for a key: the keys a PC lacks come        *)
(* without the modifier that made them.                                    *)
Meaning(k) ==
  IF Rest(k) # <<>> THEN <<Rest(k)[1], {}>> ELSE <<First(k), Held>>

-----------------------------------------------------------------------------
(* pro_keyboard_fifo_put, after the filter.                                *)
Enqueue(q, k) == IF Len(q) < XDepth - 1 THEN Append(q, k) ELSE q

(* Closing and opening the screen brings the window's idea of the          *)
(* modifiers up to date; these keys skip the menu.                         *)
Toggles(k) == on /\ active = "top" /\ TopItem(pos) = "screen" /\ Meant(k) \in Confirm
Resynced(q) == {q} \cup {Enqueue(q, m) : m \in Modifiers \cap HostKey}

(* The LK201 starts anew when a port is given to it.                       *)
Exchange(k) == Assigns(k) /\ DeviceAt(pos) = "lk201"

(* A key press or release at the window.  The pointer that comes back into *)
(* the window repeats the modifiers that changed as such keys.             *)
TypeAtWindow(k) ==
  /\ ~Exits(k) /\ Filter(k)
  /\ xq' \in IF Toggles(k) THEN Resynced(xq)
             ELSE IF Swallows(k) THEN {xq} ELSE {Enqueue(xq, k)}
  /\ IF Exchange(k) THEN KbdReset /\ owed' = <<>> ELSE UNCHANGED <<kbd, owed>>
  /\ trusted' = (trusted /\ ~Assigns(k))
  /\ due' = IF Assigns(k) THEN <<>> ELSE due
  /\ UNCHANGED <<running, down, misread>>

(* The machine reads code k, unless the menu keeps it (pro_kb_get);        *)
(* expected is the key it should read.                                     *)
Receive(k, expected) ==
  /\ ~Exits(k) /\ Filter(k)
  /\ IF Swallows(k)
     THEN due' = expected /\ UNCHANGED <<down, misread>>
     ELSE /\ down' = CASE k = "ALLUPS" -> {}
                       [] k \in {"SHIFT", "CTRL"} -> down \cup {k}
                       [] OTHER -> down
          /\ misread' = (Main(k) /\ expected \notin {<<>>, <<k, down>>})
          /\ due' = IF Main(k) THEN <<>> ELSE expected
  /\ UNCHANGED running

PollTyped ==
  LET k == Head(xq)  code == First(k) IN
  /\ ports["kb"] = "lk201" /\ xq # <<>> /\ ~locked /\ fifo = <<>>
  /\ Receive(code, IF ~Main(k) \/ Swallows(code) \/ ~trusted \/ (shift /\ ctrl)
                   THEN <<>> ELSE Meaning(k))
  /\ xq' \in IF Toggles(code) THEN Resynced(Tail(xq)) ELSE {Tail(xq)}
  /\ IF Exchange(code) THEN KbdReset ELSE GiveTyped(k)
  /\ owed' = IF Exchange(code) THEN <<>> ELSE owed
  /\ trusted' = ((trusted \/ k = "ALLUPS") /\ ~Assigns(code)
                 /\ ~(Rest(k) # <<>> /\ shift /\ ctrl))

PollQueued ==
  /\ ports["kb"] = "lk201" /\ GiveQueued /\ Receive(Head(fifo), due)
  /\ owed' = IF Head(fifo) \in Reply /\ owed # <<>> THEN Tail(owed) ELSE owed
  /\ UNCHANGED <<xq, trusted>>

PollLine(k) ==
  /\ ports["kb"] \notin {"lk201", "null"} /\ Receive(k, <<>>)
  /\ xq' \in IF Toggles(k) THEN Resynced(xq) ELSE {xq}
  /\ IF Exchange(k) THEN KbdReset /\ owed' = <<>> ELSE UNCHANGED <<kbd, owed>>
  /\ trusted' = (trusted /\ ~Assigns(k))

(* A keyboard on another port is read without the menu.                    *)
PollOther ==
  /\ "lk201" \in {ports["com"], ports["ptr"]}
  /\ \/ GiveQueued /\ UNCHANGED xq
        /\ owed' = IF Head(fifo) \in Reply /\ owed # <<>> THEN Tail(owed) ELSE owed
     \/ xq # <<>> /\ GiveTyped(Head(xq)) /\ xq' = Tail(xq) /\ UNCHANGED owed
  /\ due' = <<>>
  /\ UNCHANGED <<menuVars, running, down, misread, trusted>>

(* The program asks the next question when the last one is answered.       *)
Send(b) ==
  /\ "lk201" \in {ports[p] : p \in Port}
  /\ b \in DOMAIN Answers => owed = <<>>
  /\ Put(b)
  /\ owed' = IF ~param /\ b \in DOMAIN Answers THEN owed \o Answers[b] ELSE owed
  /\ UNCHANGED <<menuVars, xq, running, down, due, misread, trusted>>

(* pro_exit, from either pass through the menu.                            *)
Exit ==
  /\ \/ \E k \in HostKey : Exits(k)
     \/ ports["kb"] = "lk201" /\ ~locked /\ fifo = <<>> /\ xq # <<>> /\ Exits(First(Head(xq)))
     \/ ports["kb"] \notin {"lk201", "null"} /\ \E k \in LineKey : Exits(k)
  /\ running' = FALSE
  /\ UNCHANGED <<kbd, menuVars, xq, machine>>

(* pro_reset from the console.  The window keeps what was typed.           *)
RestartDesk ==
  /\ MenuReset(inDrive)
  /\ IF "lk201" \in {PortConfig[p] : p \in Port} THEN KbdReset ELSE UNCHANGED kbd
  /\ down' = {} /\ due' = <<>> /\ misread' = FALSE /\ owed' = <<>> /\ trusted' = TRUE
  /\ UNCHANGED <<xq, running>>

DeskInit ==
  /\ KbdInit /\ MenuInit
  /\ xq = <<>> /\ running = TRUE
  /\ down = {} /\ due = <<>> /\ misread = FALSE /\ owed = <<>> /\ trusted = TRUE

DeskStep ==
  \/ \E k \in HostKey : TypeAtWindow(k)
  \/ PollTyped
  \/ PollQueued
  \/ \E k \in LineKey : PollLine(k)
  \/ PollOther
  \/ \E b \in Command : Send(b)
  \/ Exit
  \/ RestartDesk

DeskNext ==
  \/ running /\ DeskStep
  \/ ~running /\ UNCHANGED deskVars

DeskSpec == DeskInit /\ [][DeskNext]_deskVars

-----------------------------------------------------------------------------
(* The machine reads every key with the modifiers it should have: a key    *)
(* that is made by a modifier comes without it, the modifier is down again *)
(* afterwards, and neither the menu nor an answer of the keyboard comes    *)
(* between.  With both modifiers held one of them is lost, and nothing is  *)
(* claimed.                                                                *)
GuestReads ==
  /\ ~misread
  /\ due # <<>> => \E i \in DOMAIN fifo : fifo[i] = due[1]
  /\ ports["kb"] = "lk201" /\ trusted /\ fifo = <<>> => down = Held

(* Whatever is typed meanwhile, the answers the program waits for are the  *)
(* end of the ring, all of them and in order, and no other answer is in    *)
(* it: the size of the ring is never used up.                              *)
RepliesInOrder ==
  LET before == Len(fifo) - Len(owed) IN
  "lk201" \in {ports[p] : p \in Port} =>
    /\ before >= 0 /\ owed = SubSeq(fifo, before + 1, Len(fifo))
    /\ \A i \in 1 .. before : fifo[i] \notin Reply

(* Both: the machine reads every key with the modifiers it should have,    *)
(* and the answers to its commands in order.                               *)
KeyboardRight == GuestReads /\ RepliesInOrder

(* A step that respects the door of every drive: the name of its file      *)
(* changes only while it is open, except when the configuration is read    *)
(* again.                                                                  *)
RespectsDoors == \A d \in Drive : name'[d] # name[d] => inDrive[d] = "none" \/ RestartDesk

(* What the drive has open is what the menu shows: every step respects the *)
(* doors.                                                                  *)
DoorOpenWhenChanged == [][RespectsDoors]_deskVars
=============================================================================
