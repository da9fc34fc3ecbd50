-------------------------------- MODULE Video --------------------------------
(***************************************************************************)
(* The video board (src/src/pro_vid.c): planes of memory the program       *)
(* writes through a window or draws in with commands, on the screen        *)
(* (Screen).  A command is set up in registers that are only stored; they  *)
(* are part of the command here.  A word of memory and the pattern are     *)
(* the sets of their bits that are on.                                     *)
(***************************************************************************)
EXTENDS Screen, Integers, Sequences, SequencesExt

CONSTANTS
  NPlanes,            \* PRO_VID_NUMPLANES
  WordBits, LineWords,
  Commands,           \* what the program draws
  Patterns,           \* patterns it writes
  Data,               \* words it writes to memory
  CsrValues,          \* pairs of interrupt enable and mode it writes
  Pictures,           \* what the menu shows
  MaxDrawing          \* bound: commands under way

Plane == 0 .. NPlanes - 1
Width == WordBits * LineWords
Bit == 0 .. WordBits - 1
NWords == NLines * LineWords

ASSUME CsrAssumption == CsrValues \subseteq BOOLEAN \X BOOLEAN
ASSUME BoardAssumption == {NPlanes, WordBits, LineWords} \subseteq Nat \ {0}
ASSUME DrawingAssumption ==
  /\ \A c \in Commands : {c.x, c.y, c.cnt} \subseteq Nat
  /\ Data \subseteq SUBSET Bit

VARIABLES
  vram,        \* the words of each plane
  planeEn,     \* planes the window reaches
  off, cme,    \* the display is off, the colour map is used
  scl,         \* line of memory at the top (pro_vid_y_offset)
  pat,         \* the pattern
  td, die,     \* transfer done, and its interrupt enable
  drawing,     \* command-done events scheduled
  hasty,       \* a command was given before the one before it was done
  told,        \* the interrupt for the last command was requested
  stale        \* nothing renewed the picture since the last reset

board == <<vram, planeEn, off, cme, scl, pat, td, die, drawing, told, hasty>>
videoVars == <<board, screenVars, stale>>

-----------------------------------------------------------------------------
(* The word of memory at x and y (vmem), and what the planes have in line  *)
(* l.                                                                      *)
WordNo(x, y) == ((y + scl) % NLines) * LineWords + x \div WordBits
LineOfWord(w) == w \div LineWords
Picture ==
  [l \in Line |-> [p \in Plane |-> [i \in 0 .. LineWords - 1 |-> vram[p][l * LineWords + i]]]]

(* Bit mode: what an operation does with a point, given the pattern's bit. *)
PointOp(op, on, bit) ==
  CASE op = "XOR" -> on # bit
    [] op = "MOVE" -> bit
    [] op = "NMOVE" -> ~bit
    [] op = "SETPAT" -> on \/ bit
    [] op = "CLRPAT" -> on /\ ~bit
    [] op = "SETBIT" -> TRUE
    [] op = "CLRBIT" -> FALSE

(* The points of a command, from left to right or from top to bottom.      *)
PointAt(c, i) ==
  IF c.oc0 THEN <<(c.x + (c.y + i - 1) \div NLines) % Width, (c.y + i - 1) % NLines>>
  ELSE <<(c.x + i - 1) % Width, (c.y + (c.x + i - 1) \div Width) % NLines>>

DrawPoint(mem, op, c, i) ==
  LET at == PointAt(c, i)
      b == at[1] % WordBits
      bit == (i - 1) % WordBits \in pat
  IN  [mem EXCEPT ![WordNo(at[1], at[2])] =
         IF PointOp(op, b \in @, bit) THEN @ \cup {b} ELSE @ \ {b}]

DrawPoints(mem, op, c) ==
  LET after[i \in 0 .. c.cnt] ==
        IF i = 0 THEN mem ELSE DrawPoint(after[i - 1], op, c, i)
  IN  after[c.cnt]

(* Word mode.  A shift takes in the bits that left the word before.        *)
Solid == IF 0 \in pat THEN Bit ELSE {}
Places == [S1 |-> 1, S2 |-> 2, S4 |-> 4]

WordOp(op, back, bits, before) ==
  CASE op = "COM" -> Bit \ bits
    [] op = "MOVE" -> Solid
    [] op = "NMOVE" -> Bit \ Solid
    [] op \in DOMAIN Places /\ back ->
         LET k == Places[op] IN
         {b \in Bit : b + k \in bits} \cup {b \in Bit : b + k - WordBits \in before}
    [] op \in DOMAIN Places /\ ~back ->
         LET k == Places[op] IN
         {b \in Bit : b - k \in bits} \cup {b \in Bit : b + WordBits - k \in before}
    [] OTHER -> bits

WordsOf(c) ==
  [i \in 1 .. c.cnt |->
     IF c.oc0 THEN (WordNo(c.x, c.y) + NWords * c.cnt + 1 - i) % NWords
     ELSE (WordNo(c.x, c.y) + i - 1) % NWords]

DrawWord(s, op, c, i) ==
  LET w == WordsOf(c)[i]
  IN  [mem |-> [s.mem EXCEPT ![w] = WordOp(op, c.oc0, @, s.before)], before |-> s.mem[w]]

DrawWords(mem, op, c) ==
  LET after[i \in 0 .. c.cnt] ==
        IF i = 0 THEN [mem |-> mem, before |-> Solid]
        ELSE DrawWord(after[i - 1], op, c, i)
  IN  after[c.cnt].mem

-----------------------------------------------------------------------------
(* Slip: only the first line of a drawing is taken off the valid ones.     *)
Touched_First(c) == {LineOfWord(WordNo(c.x, c.y))}

(* Lines a command takes the mark from: in word mode all it passes, in bit *)
(* mode those where some plane has an operation.                           *)
Touched(c) ==
  IF c.oc1 THEN {LineOfWord(w) : w \in ToSet(WordsOf(c))}
  ELSE IF \A p \in Plane : c.op[p] = "NOP" THEN {}
  ELSE {LineOfWord(WordNo(PointAt(c, i)[1], PointAt(c, i)[2])) : i \in 1 .. c.cnt}

(* The pattern after a command, which is the last plane's.                 *)
Rotating == {"XOR", "MOVE", "NMOVE", "SETPAT", "CLRPAT"}
PatAfter(c) ==
  IF ~c.oc1 /\ c.op[NPlanes - 1] \in Rotating
  THEN {b \in Bit : (b + c.cnt) % WordBits \in pat} ELSE pat

(* pro_vid_wr of the count register.  A count of 0 draws nothing.          *)
Draw(c) ==
  /\ vram' = [p \in Plane |->
       IF c.op[p] = "NOP" THEN vram[p]
       ELSE IF c.oc1 THEN DrawWords(vram[p], c.op[p], c) ELSE DrawPoints(vram[p], c.op[p], c)]
  /\ mvalid' = mvalid \ Touched(c)
  /\ pat' = PatAfter(c)
  /\ drawing < MaxDrawing /\ drawing' = drawing + 1
  /\ td' = FALSE /\ told' = FALSE /\ hasty' = (hasty \/ ~td)
  /\ UNCHANGED <<planeEn, off, cme, scl, die, clutmode, blank, shown, overlay, colours>>

(* pro_vid_cmd_eq.                                                         *)
VidCmdEq ==
  /\ drawing > 0 /\ drawing' = drawing - 1
  /\ td' = TRUE /\ told' = (told \/ die)
  /\ hasty' = (hasty /\ drawing > 1)
  /\ UNCHANGED <<vram, planeEn, off, cme, scl, pat, die, screenVars>>

(* pro_vid_eq.                                                             *)
VidEq == ScreenUpdate(off, Picture, cme, scl) /\ UNCHANGED board

(* pro_vram_wr: the word at w from the start of the window.                *)
VramWrite(w, bits) ==
  LET at == (w + scl * LineWords) % NWords IN
  /\ vram' = [p \in Plane |-> IF p \in planeEn THEN [vram[p] EXCEPT ![at] = bits] ELSE vram[p]]
  /\ mvalid' = mvalid \ {LineOfWord(at)}
  /\ UNCHANGED <<planeEn, off, cme, scl, pat, td, die, drawing, told, hasty,
                 clutmode, blank, shown, overlay, colours>>

-----------------------------------------------------------------------------
(* Slip: enabling the interrupt does not look at the done bit.             *)
WriteCsr_NotTold(d, m) ==
  /\ die' = d /\ cme' = m
  /\ told' = told
  /\ IF m # cme THEN Mapchange(m) ELSE UNCHANGED <<mvalid, colours>>
  /\ UNCHANGED <<vram, planeEn, off, scl, pat, td, drawing, hasty, clutmode, blank, shown, overlay>>

(* pro_vid_wr of the other registers.  Enabling the interrupt of a command *)
(* that is done requests it.                                               *)
WriteCsr(d, m) ==
  /\ die' = d /\ cme' = m
  /\ told' = (told \/ (d /\ ~die /\ td))
  /\ IF m # cme THEN Mapchange(m) ELSE UNCHANGED <<mvalid, colours>>
  /\ UNCHANGED <<vram, planeEn, off, scl, pat, td, drawing, hasty, clutmode, blank, shown, overlay>>

WritePlaneControl(planes, o) ==
  /\ planeEn' = planes /\ off' = o
  /\ UNCHANGED <<vram, cme, scl, pat, td, die, drawing, told, hasty, screenVars>>

(* The scroll register; a new value renews the picture (pro_x11_scroll).   *)
WriteScroll(s) ==
  /\ scl' = s
  /\ mvalid' = IF s = scl THEN mvalid ELSE {}
  /\ UNCHANGED <<vram, planeEn, off, cme, pat, td, die, drawing, told, hasty,
                 clutmode, blank, shown, overlay, colours>>

WritePattern(bits) ==
  /\ pat' = bits
  /\ UNCHANGED <<vram, planeEn, off, cme, scl, td, die, drawing, told, hasty, screenVars>>

WriteColormap(c) ==
  ColormapWrite(c, cme) /\ UNCHANGED <<board, clutmode, blank, shown, overlay>>

(* What the menu does to the screen.                                       *)
MenuPrints(pic) ==
  OverlayPrint(pic, scl) /\ UNCHANGED <<board, clutmode, blank, shown, colours>>
MenuCloses ==
  overlay # "off" /\ OverlayDisable /\ UNCHANGED <<board, clutmode, blank, shown, colours>>
MenuSwitches(pic) == overlay # "off" /\ SwitchMode(cme, pic) /\ UNCHANGED board

(* pro_vid_reset.                                                          *)
VideoReset ==
  /\ vram' = [p \in Plane |-> [w \in 0 .. NWords - 1 |-> {}]]
  /\ planeEn' = {} /\ off' = FALSE /\ cme' = FALSE /\ scl' = 0 /\ pat' = {}
  /\ td' = TRUE /\ die' = FALSE /\ drawing' = 0 /\ told' = FALSE /\ hasty' = FALSE
  /\ ScreenReset

-----------------------------------------------------------------------------
(* What every row should show that is marked valid.                        *)
Coherent ==
  /\ ~blank => \A y \in Row : (y + scl) % NLines \in mvalid =>
       shown[y] = [bits |-> Picture[(y + scl) % NLines], lut |-> Lut(cme), over |-> Over(y)]
  /\ clutmode = 1 => palette = Palette(cme, map)

VideoInit ==
  /\ ScreenInit
  /\ vram = [p \in Plane |-> [w \in 0 .. NWords - 1 |-> {}]]
  /\ planeEn = {} /\ off = FALSE /\ cme = FALSE /\ scl = 0 /\ pat = {}
  /\ td = TRUE /\ die = FALSE /\ drawing = 0 /\ told = FALSE /\ hasty = FALSE /\ stale = FALSE

VideoStep ==
  \/ \E c \in Commands : Draw(c)
  \/ VidCmdEq
  \/ VidEq
  \/ \E w \in 0 .. NWords - 1, bits \in Data : VramWrite(w, bits)
  \/ \E v \in CsrValues : WriteCsr(v[1], v[2])
  \/ \E planes \in SUBSET Plane, o \in BOOLEAN : WritePlaneControl(planes, o)
  \/ \E s \in Line : WriteScroll(s)
  \/ \E bits \in Patterns : WritePattern(bits)
  \/ \E c \in Colour : WriteColormap(c)
  \/ \E pic \in Pictures : MenuPrints(pic) \/ MenuSwitches(pic)
  \/ MenuCloses

(* After a reset the old picture stays until something renews it.          *)
VideoNext ==
  \/ VideoStep /\ stale' = (stale /\ ~Coherent')
  \/ VideoReset /\ stale' = TRUE

VideoSpec == VideoInit /\ [][VideoNext]_videoVars

-----------------------------------------------------------------------------
(* What the window shows is the memory of the board under the menu, in the *)
(* colours of its mode, except where a line waits to be drawn, and until a *)
(* reset of the running machine is followed by anything that renews it.    *)
ScreenShowsMemory == stale \/ Coherent

(* A program that has the done interrupt enabled hears of every command    *)
(* that is done, whichever comes first; one that waits for done does not   *)
(* wait forever; and done means that nothing is under way, unless a        *)
(* command was given to a board that was not done.                         *)
DoneIsTold ==
  /\ td /\ die => told
  /\ ~td => drawing > 0
  /\ td /\ ~hasty => drawing = 0
=============================================================================
