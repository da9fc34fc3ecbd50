------------------------------- MODULE Screen --------------------------------
(***************************************************************************)
(* The window of the host that shows the video memory                      *)
(* (src/src/term/term_x11.c, in a window).  At every retrace it draws the  *)
(* lines of memory that are not marked valid, and marks them; whatever     *)
(* changes the picture has to take the marks away.  With a palette of its  *)
(* own the window shows a change of colours at once, else the colours are  *)
(* part of what is drawn.  The menu lies over the rows of its box.         *)
(***************************************************************************)
EXTENDS Naturals, FiniteSets

CONSTANTS
  NLines,    \* lines of the video memory
  NRows,     \* rows of the window, the same or fewer
  Box,       \* rows the menu covers
  Clutmodes, \* kinds of window, see clutmode
  Colour     \* contents of the colour map; "black" after a reset

ASSUME ScreenAssumption == NLines \in Nat \ {0} /\ NRows \in 1 .. NLines

Line == 0 .. NLines - 1
Row == 0 .. NRows - 1

VARIABLES
  clutmode,      \* 1: the window has a palette of its own
  mvalid,        \* lines marked valid (pro_vid_mvalid)
  blank,         \* the window was blanked (pro_screen_blank)
  shown,         \* what each row shows
  overlay,       \* what the menu shows, "off" without it
  map, table,    \* ProColor_map, and pro_colormap allocated from it
  palette        \* the colours of a palette of its own

screenVars == <<clutmode, mvalid, blank, shown, overlay, map, table, palette>>
colours == <<map, table, palette>>

Over(y) == IF y \in Box THEN overlay ELSE "off"

(* The colours the two modes of the board ask for.                         *)
Palette(cme, m) == IF cme THEN m ELSE "fixed"
Lut(cme) == IF clutmode = 1 THEN "indexed" ELSE IF cme THEN table ELSE "fixed"

-----------------------------------------------------------------------------
(* pro_x11_mapchange.                                                      *)
Mapchange(cme) ==
  IF clutmode = 1
  THEN palette' = Palette(cme, map) /\ UNCHANGED <<map, table, mvalid>>
  ELSE mvalid' = {} /\ UNCHANGED colours

(* pro_x11_colormap_write.                                                 *)
ColormapWrite(c, cme) ==
  /\ map' = c
  /\ table' = IF clutmode = 0 THEN c ELSE table
  /\ palette' = IF clutmode = 1 /\ cme THEN c ELSE palette
  /\ mvalid' = IF clutmode = 0 /\ cme THEN {} ELSE mvalid

(* The menu prints its whole box (pro_x11_overlay_print), after it has     *)
(* cleared the rest when it opens; offset is the line of the first row.    *)
OverlayPrint(pic, offset) ==
  /\ overlay' = pic
  /\ mvalid' = mvalid \ {(y + offset) % NLines : y \in Box}

OverlayDisable == overlay' = "off" /\ mvalid' = {}

(* pro_x11_screen_service_events and pro_x11_screen_update.  off: the      *)
(* board shows nothing; pic[l]: what it has in line l.                     *)
ScreenUpdate(off, pic, cme, offset) ==
  \E expose \in BOOLEAN :
    LET valid == IF expose \/ (blank /\ ~off) THEN {} ELSE mvalid
        LineOf(y) == (y + offset) % NLines
    IN  /\ blank' = off
        /\ shown' = [y \in Row |->
             IF off THEN IF expose \/ ~blank THEN "clear" ELSE shown[y]
             ELSE IF LineOf(y) \in valid THEN shown[y]
             ELSE [bits |-> pic[LineOf(y)], lut |-> Lut(cme), over |-> Over(y)]]
        /\ mvalid' = IF off THEN valid ELSE valid \cup {LineOf(y) : y \in Row}
        /\ UNCHANGED <<clutmode, overlay, colours>>

(* pro_x11_screen_close and pro_x11_screen_init, from the menu, which then *)
(* shows itself.                                                           *)
SwitchMode(cme, pic) ==
  /\ shown' = [y \in Row |-> "clear"] /\ mvalid' = {} /\ overlay' = pic
  /\ palette' = Palette(cme, map) /\ table' = IF clutmode = 0 THEN map ELSE table
  /\ UNCHANGED <<clutmode, blank, map>>

(* pro_x11_screen_reset.  The window stays open.                           *)
ScreenReset == map' = "black" /\ UNCHANGED <<clutmode, mvalid, blank, shown, overlay, table, palette>>

ScreenInit ==
  /\ clutmode \in Clutmodes /\ mvalid = {} /\ blank = FALSE
  /\ shown = [y \in Row |-> "clear"] /\ overlay = "off"
  /\ map = "black" /\ table = "black" /\ palette = "fixed"
=============================================================================
