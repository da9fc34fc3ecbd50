--------------------------------- MODULE Bus ---------------------------------
(***************************************************************************)
(* The I/O page (src/src/pro_reg.c): which device answers at an address,   *)
(* and the registers that belong to no device: system status, lamps and    *)
(* the battery-backed memory, which is a file (bat.ram) between two runs   *)
(* of the program.  A word is the set of its bits that are on.             *)
(***************************************************************************)
EXTENDS Naturals

CONSTANTS
  Address,      \* addresses the program tries
  Value,        \* words it writes
  CsrInit,      \* PRO_CSR_INIT
  Present       \* PRO_OMP: the option modules that are present

ASSUME AddressAssumption == Address \subseteq Nat
ASSUME ValueAssumption == Value \cup {CsrInit, Present} \subseteq SUBSET (0 .. 15)

VARIABLES
  battery,      \* BATRAM
  batFile,      \* what bat.ram holds, <<>> when there is no such file
  csr, led,     \* pro_csr, pro_led
  meant         \* what the program may expect to find in it

busVars == <<battery, batFile, csr, led, meant>>

-----------------------------------------------------------------------------
Even(pa) == pa - (pa % 2)
EvenIn(a, b) == {pa \in a .. b : pa % 2 = 0}

InBattery(pa) == pa \in \o17773034 .. \o17773177
BatteryWord(pa) == (pa - \o17773034) \div 2

Clock == EvenIn(\o17773000, \o17773032)
Usarts == EvenIn(\o17773400, \o17773406) \cup EvenIn(\o17773500, \o17773506)
Com == EvenIn(\o17773300, \o17773314)
Console == EvenIn(\o17777560, \o17777566)
CpuMaint == {\o17777750}

(* The registers that can be read (reg_rd) and those that can be written   *)
(* (reg_wr), by even addresses; the hard disk, the floppy and the video    *)
(* board have some of one kind only.                                       *)
Readable ==
  Clock \cup Usarts \cup Com \cup Console \cup CpuMaint
  \cup {\o17773700, \o17773702, \o17773704}
  \cup {\o17774000} \cup EvenIn(\o17774004, \o17774020)
  \cup {\o17774200} \cup EvenIn(\o17774204, \o17774224)
  \cup {\o17774400} \cup EvenIn(\o17774404, \o17774410) \cup EvenIn(\o17774414, \o17774420)
  \cup {\o17774600}

Writable ==
  Clock \cup Usarts \cup Com \cup Console \cup CpuMaint
  \cup {\o17773700, \o17773704}
  \cup EvenIn(\o17774002, \o17774020)
  \cup (EvenIn(\o17774202, \o17774226) \ {\o17774214})
  \cup EvenIn(\o17774402, \o17774426) \cup {\o17774602}

InController(pa) == pa \in \o17773200 .. \o17773213
Identification(pa) == pa \in \o17773600 .. \o17773677

(* SCPE_NXM, which aborts the access (Mmu).                                *)
ReadFails(pa) ==
  ~(Identification(pa) \/ InBattery(pa) \/ InController(pa) \/ Even(pa) \in Readable)
WriteFails(pa) == ~(InBattery(pa) \/ InController(pa) \/ Even(pa) \in Writable)

-----------------------------------------------------------------------------
Low == 0 .. 7
Cleared == [w \in 0 .. 49 |-> {}]

(* Bits that can be written (PRO_BATRAM_W, PRO_CSR_W, PRO_LED_W).          *)
BatteryBits == Low
CsrBits == {7}
LedBits == 0 .. 3

(* The byte at an odd address is the upper half of the word.               *)
Shifted(data) == {b + 8 : b \in data \cap Low}

(* Slip: a byte written at an odd address clears the other half.           *)
WriteWB_Clears(reg, we, data, pa, byte) ==
  LET bits == IF ~byte THEN data
              ELSE IF pa % 2 = 1 THEN Shifted(data)
              ELSE (data \cap Low) \cup (reg \ Low)
  IN  (reg \ we) \cup (bits \cap we)

(* WRITE_WB: a word, or the half that is addressed, where it can be        *)
(* written.                                                                *)
WriteWB(reg, we, data, pa, byte) ==
  LET bits == IF ~byte THEN data
              ELSE IF pa % 2 = 1 THEN Shifted(data) \cup (reg \cap Low)
              ELSE (data \cap Low) \cup (reg \ Low)
  IN  (reg \ we) \cup (bits \cap we)

(* What reg_rd answers where no device does.                               *)
Answer(pa) ==
  CASE InBattery(pa) -> battery[BatteryWord(pa)]
    [] Even(pa) = \o17773700 -> csr
    [] Even(pa) = \o17773702 -> Present
    [] Even(pa) = \o17773704 -> led
    [] OTHER -> {}

(* reg_wr.  The memory has one byte for every word, the lower half.        *)
Write(pa, data, byte) ==
  /\ ~WriteFails(pa)
  /\ IF InBattery(pa)
     THEN /\ battery' =
               [battery EXCEPT ![BatteryWord(pa)] = WriteWB(@, BatteryBits, data, pa, byte)]
          /\ meant' = [meant EXCEPT ![BatteryWord(pa)] =
                         IF byte /\ pa % 2 = 1 THEN @ ELSE (@ \ Low) \cup (data \cap Low)]
     ELSE UNCHANGED <<battery, meant>>
  /\ csr' = IF Even(pa) = \o17773700 THEN WriteWB(csr, CsrBits, data, pa, byte) ELSE csr
  /\ led' = IF Even(pa) = \o17773704 THEN WriteWB(led, LedBits, data, pa, byte) ELSE led
  /\ UNCHANGED batFile

(* The part of pro_reset about these registers, with the file as it is.    *)
Loaded(file) == IF file = <<>> THEN Cleared ELSE file
ResetFrom(file) == battery' = Loaded(file) /\ csr' = CsrInit /\ led' = {}

(* A reset of the running machine, or the program was killed and started   *)
(* again: the memory goes back to what the last exit wrote.                *)
ResetOrKilled == ResetFrom(batFile) /\ meant' = Loaded(batFile) /\ UNCHANGED batFile

(* pro_exit and the next start.                                            *)
SaveAndStart ==
  /\ batFile' = battery /\ ResetFrom(battery)
  /\ UNCHANGED meant

(* The machine has been used before or has not.                            *)
BusInit ==
  /\ batFile \in {<<>>} \cup {[w \in 0 .. 49 |-> v] : v \in Value}
  /\ battery = Loaded(batFile) /\ meant = battery
  /\ csr = CsrInit /\ led = {}

BusNext ==
  \/ \E pa \in Address, data \in Value, byte \in BOOLEAN : Write(pa, data, byte)
  \/ ResetOrKilled \/ SaveAndStart

BusSpec == BusInit /\ [][BusNext]_busVars

-----------------------------------------------------------------------------
(* The program finds in the battery-backed memory what it stored, through  *)
(* words and bytes, next to the registers around it and over an exit;      *)
(* what it writes elsewhere leaves it alone; and it cannot change what     *)
(* the system status says of the machine.                                  *)
BatteryKept ==
  /\ \A pa \in Address : ~ReadFails(pa) /\ InBattery(pa) => Answer(pa) = meant[BatteryWord(pa)]
  /\ \A pa \in Address : InBattery(pa) => ~ReadFails(pa) /\ ~WriteFails(pa)
  /\ csr \ CsrBits = CsrInit \ CsrBits /\ led \subseteq LedBits
=============================================================================
