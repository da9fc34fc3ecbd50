-------------------------------- MODULE Menu ---------------------------------
(***************************************************************************)
(* The control menu (src/src/pro_menu.c): a filter on the keys on their    *)
(* way to the machine that opens the menu on Control-Hold, keeps the keys  *)
(* that move in it, and with them assigns devices to the serial ports and  *)
(* diskette files to the drives while the machine runs.                    *)
(*                                                                         *)
(* Items are counted from 0, as in the code; ok is the set of the places   *)
(* where item_ok is 1.  A directory is the sequence of its path's parts.   *)
(***************************************************************************)
EXTENDS Naturals, Sequences, SequencesExt, FiniteSetsExt

CONSTANTS
  Devices,      \* devices, in the order of the serial menu
  La50Device,   \* where the LA50 prints (pro_la50device)
  PortConfig,   \* the configuration: device of each port,
  FileConfig, DirConfig,   \* file and directory of each drive,
  Closed,       \* drives it closes
  Tree,         \* the file system: directory -> its entries, sorted
  Fits,         \* files that are images of a diskette
  Window,       \* items the menu shows at a time (MENU_AH)
  Repeats       \* there is a keyboard that sends the code for repetition

Port == {"com", "ptr", "kb"}
Drive == {0, 1}
Device == ToSet(Devices)

(* The configuration gives every device to one port at most.               *)
ASSUME ConfigAssumption ==
  /\ Devices \in Seq(STRING) /\ "null" \in Device /\ La50Device \in Device /\ PortConfig \in [Port -> Device]
  /\ \A p, q \in Port : p # q /\ PortConfig[p] = PortConfig[q] => PortConfig[p] = "null"
  /\ \A p \in Port : PortConfig[p] = La50Device => La50Device = "null"
ASSUME FilesAssumption ==
  /\ FileConfig \in [Drive -> STRING] /\ DirConfig \in [Drive -> Seq(STRING)]
  /\ \A path \in DOMAIN Tree : Tree[path] \in Seq([name : STRING, isDir : BOOLEAN])
(* The window has the height of the top menu (13).                           *)
ASSUME WindowAssumption == Window \in Nat /\ Window >= 13

VARIABLES
  last,              \* pro_menu_last_char
  keyCtrl,           \* Control is down, as far as the menu has seen
  on, overlayOn,       \* the menu is on, the overlay is
  active,            \* the menu shown
  pos, start, ok,    \* selected item, first item of the window, items that count
  topPos, topStart,  \* where the top menu was left
  full,              \* full screen
  ports,             \* device of each port
  name, dir,         \* pro_rx_file, pro_rx_dir
  inDrive            \* the file behind the closed door of a drive, "none" if open

position == <<active, pos, start, ok, topPos, topStart>>
floppies == <<name, dir, inDrive>>
menuVars == <<last, keyCtrl, on, overlayOn, position, full, ports, floppies>>

-----------------------------------------------------------------------------
TopItems == <<"return", "screen", "rx0", "rx1", "rd0", "com", "ptr", "kb",
              "save", "rest", "reset", "about", "shut">>
TopItem(i) == TopItems[i + 1]
TopEnabled == {i \in 0 .. 12 : TopItem(i) \notin {"rd0", "save", "rest", "reset"}}
AboutItems == 13
DriveOf(item) == IF item = "rx0" THEN 0 ELSE 1

(* The item of a device in the serial menu (pro_menu_print_serial), and    *)
(* the device of an item (pro_menu_assign_serial).                         *)
ItemOf(d) == (CHOOSE i \in DOMAIN Devices : Devices[i] = d) - 1
DeviceAt(i) == Devices[i + 1]

(* A file menu starts with an empty line, which takes the diskette out.    *)
(* A directory that cannot be read shows nothing else.                     *)
EntriesOf(path) ==
  <<[name |-> "", isDir |-> FALSE]>> \o IF path \in DOMAIN Tree THEN Tree[path] ELSE <<>>

Items ==
  CASE active = "top" -> Len(TopItems)
    [] active = "serial" -> Len(Devices)
    [] active = "file" -> Len(EntriesOf(dir[DriveOf(TopItem(topPos))]))
    [] active = "about" -> AboutItems

(* pro_menu_newdir.  The parent of a directory that is already relative    *)
(* upwards has one more "..".                                              *)
NewDir(path, entry) ==
  CASE entry = "." -> path
    [] entry = ".." -> IF Last(path) \in {".", ".."} THEN Append(path, "..") ELSE Front(path)
    [] OTHER -> Append(path, entry)

-----------------------------------------------------------------------------
(* The window that shows item p at its lower end, from the start of a menu.*)
WindowFor(p) == IF p > Window - 1 THEN p - Window + 1 ELSE 0

(* pro_menu_top, at the place given.                                       *)
ShowTop(p, s) ==
  /\ active' = "top" /\ ok' = TopEnabled
  /\ pos' = p /\ start' = s
  /\ on' = TRUE /\ overlayOn' = TRUE

(* What the serial menu of a port greys out: the devices of the others.    *)
Taken(p) == ({ports[q] : q \in Port \ {p}} \cup {La50Device}) \ {"null"}

(* pro_menu_serial.                                                        *)
ShowSerial(p) ==
  /\ active' = "serial"
  /\ ok' = {i \in 0 .. Len(Devices) - 1 : DeviceAt(i) \notin Taken(p)} \cup
           {i \in ok : i >= Len(Devices)}
  /\ pos' = ItemOf(ports[p]) /\ start' = WindowFor(pos')

(* pro_menu_file, in directory path.  It selects the file of the drive.    *)
ShowFile(d, path) ==
  LET entries == EntriesOf(path)
      named == {i \in DOMAIN entries : entries[i].name = name[d]}
  IN  /\ active' = "file"
      /\ ok' = ok \cup 1 .. Len(entries) - 1
      /\ pos' = IF named = {} THEN 0 ELSE Max(named) - 1
      /\ start' = WindowFor(pos')

(* pro_menu_about.                                                         *)
ShowAbout ==
  /\ active' = "about" /\ ok' = ok \cup 0 .. AboutItems - 1
  /\ pos' = AboutItems - 1 /\ start' = 0

-----------------------------------------------------------------------------
(* The arrows go to the next item that counts, or stay.                    *)
Up ==
  LET above == {i \in ok : i < pos} IN
  /\ pos' = IF above = {} THEN pos ELSE Max(above)
  /\ start' = IF pos' < start THEN pos' ELSE start
  /\ UNCHANGED <<on, overlayOn, active, ok, topPos, topStart, full, ports, floppies>>

Down ==
  LET below == {i \in ok : pos < i /\ i < Items} IN
  /\ pos' = IF below = {} THEN pos ELSE Min(below)
  /\ start' = IF pos' > start + Window - 1 THEN pos' - Window + 1 ELSE start
  /\ UNCHANGED <<on, overlayOn, active, ok, topPos, topStart, full, ports, floppies>>

(* Slip: the file menu opens with the door closed.                         *)
EnterTop_NoDoor ==
  LET item == TopItem(pos) IN
  /\ topPos' = pos /\ topStart' = start
  /\ item \in {"rx0", "rx1"} /\ ShowFile(DriveOf(item), dir[DriveOf(item)])
  /\ UNCHANGED <<on, overlayOn, full, ports, floppies>>

(* Return or Do in the top menu.  The other screen mode may not be there,  *)
(* then the old one is opened again.                                       *)
EnterTop ==
  LET item == TopItem(pos) IN
  /\ topPos' = pos /\ topStart' = start
  /\ \/ /\ item = "return" /\ on' = FALSE /\ overlayOn' = FALSE
        /\ UNCHANGED <<active, pos, start, ok, full, ports, floppies>>
     \/ /\ item = "screen" /\ full' \in BOOLEAN /\ ShowTop(pos, start)
        /\ UNCHANGED <<ports, floppies>>
     \/ /\ item \in {"rx0", "rx1"}
        /\ inDrive' = [inDrive EXCEPT ![DriveOf(item)] = "none"]
        /\ ShowFile(DriveOf(item), dir[DriveOf(item)])
        /\ UNCHANGED <<on, overlayOn, full, ports, name, dir>>
     \/ /\ item \in Port /\ ShowSerial(item)
        /\ UNCHANGED <<on, overlayOn, full, ports, floppies>>
     \/ /\ item = "about" /\ ShowAbout
        /\ UNCHANGED <<on, overlayOn, full, ports, floppies>>

(* In a serial menu: the port closes its device, takes the one selected    *)
(* and opens that.                                                         *)
EnterSerial ==
  /\ ports' = [ports EXCEPT ![TopItem(topPos)] = DeviceAt(pos)]
  /\ ShowTop(topPos, topStart)
  /\ UNCHANGED <<topPos, topStart, full, floppies>>

(* In a file menu: a directory is entered, a file becomes the one of the   *)
(* drive and the door closes, if it is an image; the empty line only takes *)
(* the name away.                                                          *)
EnterFile ==
  LET d == DriveOf(TopItem(topPos))
      entry == EntriesOf(dir[d])[pos + 1]
      path == NewDir(dir[d], entry.name)
  IN  /\ \/ /\ entry.isDir
            /\ dir' = [dir EXCEPT ![d] = path] /\ ShowFile(d, path)
            /\ UNCHANGED <<on, overlayOn, name, inDrive>>
         \/ /\ ~entry.isDir
            /\ name' = [name EXCEPT ![d] = entry.name]
            /\ inDrive' = [inDrive EXCEPT ![d] =
                             IF pos # 0 /\ @ = "none" /\ entry.name \in Fits
                             THEN entry.name ELSE @]
            /\ ShowTop(topPos, topStart) /\ UNCHANGED dir
      /\ UNCHANGED <<topPos, topStart, full, ports>>

EnterAbout ==
  /\ IF pos = AboutItems - 1
     THEN ShowTop(topPos, topStart)
     ELSE UNCHANGED <<active, ok, pos, start, on, overlayOn>>
  /\ UNCHANGED <<topPos, topStart, full, ports, floppies>>

Enter ==
  \/ active = "top" /\ EnterTop
  \/ active = "serial" /\ EnterSerial
  \/ active = "file" /\ EnterFile
  \/ active = "about" /\ EnterAbout

-----------------------------------------------------------------------------
(* pro_menu.  The auto-repeat code of a real keyboard stands for the key   *)
(* before it.                                                              *)
Meant(k) == IF k = "REPEAT" THEN last ELSE k
Modifier == {"CTRL", "ALLUPS"}
Confirm == {"RETURN", "DO"}
Arrow == {"UP", "DOWN"}

(* Keys that end the program: Control-Delete, and the last item of the top *)
(* menu.                                                                   *)
Exits(k) ==
  \/ Meant(k) = "DEL" /\ keyCtrl
  \/ Meant(k) \in Confirm /\ on /\ active = "top" /\ TopItem(pos) = "shut"

(* Keys that go no further.                                                *)
Swallows(k) ==
  \/ on /\ Meant(k) \in Arrow \cup Confirm
  \/ ~on /\ Meant(k) = "HOLD" /\ keyCtrl

Assigns(k) == on /\ active = "serial" /\ Meant(k) \in Confirm

(* Opening the menu shows the place it was left at, and forgets that only  *)
(* afterwards.  The last key is kept only where something repeats it.      *)
Filter(k) ==
  LET c == Meant(k) IN
  /\ last' = IF Repeats THEN c ELSE last
  /\ keyCtrl' = IF c = "CTRL" THEN TRUE ELSE IF c = "ALLUPS" THEN FALSE ELSE keyCtrl
  /\ \/ on /\ c = "UP" /\ Up
     \/ on /\ c = "DOWN" /\ Down
     \/ on /\ c \in Confirm /\ Enter
     \/ /\ ~on /\ c = "HOLD" /\ keyCtrl
        /\ ShowTop(topPos, topStart) /\ topPos' = 0 /\ topStart' = 0
        /\ UNCHANGED <<full, ports, floppies>>
     \/ ~Swallows(k) /\ UNCHANGED <<on, overlayOn, position, full, ports, floppies>>

(* The part of pro_reset about ports, drives and the menu.  A door that is *)
(* closed stays closed; the overlay is not touched.                          *)
MenuReset(doors) ==
  /\ last' = "none" /\ keyCtrl' = FALSE /\ on' = FALSE
  /\ ports' = PortConfig /\ name' = FileConfig /\ dir' = DirConfig
  /\ inDrive' = [d \in Drive |-> IF doors[d] = "none" /\ d \in Closed /\ FileConfig[d] \in Fits
                                 THEN FileConfig[d] ELSE doors[d]]
  /\ UNCHANGED <<overlayOn, position, full>>

MenuInit ==
  /\ last = "none" /\ keyCtrl = FALSE /\ on = FALSE /\ overlayOn = FALSE
  /\ active = "top" /\ pos = 0 /\ start = 0 /\ ok = {} /\ topPos = 0 /\ topStart = 0
  /\ full = FALSE /\ ports = PortConfig /\ name = FileConfig /\ dir = DirConfig
  /\ inDrive = [d \in Drive |-> IF d \in Closed /\ FileConfig[d] \in Fits
                                THEN FileConfig[d] ELSE "none"]

-----------------------------------------------------------------------------
(* A device is at one port only, whatever was selected, and the menu, when *)
(* it is on, stands on an item that counts and that its window shows.      *)
PortsExclusive ==
  /\ \A p, q \in Port : p # q /\ ports[p] = ports[q] => ports[p] = "null"
  /\ \A p \in Port : ports[p] = La50Device => La50Device = "null"
  /\ on => pos \in ok /\ pos < Items /\ start <= pos /\ pos < start + Window
=============================================================================
