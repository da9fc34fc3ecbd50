--------------------------------- MODULE Mmu ---------------------------------
(***************************************************************************)
(* The memory management unit of the processor (src/src/simh/pdp11_cpu.c): *)
(* what relocR, relocW and relocC promise, without the translation caches  *)
(* of MmuCached.                                                           *)
(*                                                                         *)
(* A reference names a page, the index of an active page register (mode,   *)
(* space and va<15:13>), and a block of 64 bytes in it.  A page index is   *)
(* the set of its 1 bits, since the program builds the page field of MMR0  *)
(* by OR.  Physical addresses are counted in blocks.                       *)
(***************************************************************************)
EXTENDS Naturals

CONSTANTS
  IndexBit,   \* bits of a page index (6 in the program)
  Guest,      \* pages whose registers are in the I/O page: user and kernel
  LastBn,     \* last block of a page (127)
  Blocks22,   \* blocks of the 22 bit space
  Blocks18,   \* blocks of the 18 bit space
  IoPage18,   \* first block of the 18 bit space that is in the I/O page
  PdrFlags, PdrLength, ParBase,   \* what a guest stores in PDRs and PARs,
  Mmr0Data,                       \* in MMR0
  Pc          \* addresses of instructions

Flag == {"NR", "WE", "ED", "W"}           \* PDR_NR is 0 for non-resident
Freeze == {"NR", "PL", "RO"}              \* MMR0_FREEZE: why a reference aborted
Mmr0Flag == Freeze \cup {"MME"}
Page == SUBSET IndexBit
Bn == 0 .. LastBn
Block == 0 .. Blocks22 - 1
PageRegister == [flags : SUBSET Flag, plf : Bn, base : Block]    \* PDR and PAR

ASSUME PageAssumption == Guest \subseteq Page
ASSUME PdrAssumption == PdrFlags \subseteq SUBSET (Flag \ {"W"}) /\ PdrLength \subseteq Bn
ASSUME ParAssumption == ParBase \subseteq Block
ASSUME DataAssumption == Mmr0Data \subseteq SUBSET Mmr0Flag
ASSUME SpaceAssumption ==
  /\ LastBn \in Nat /\ Blocks22 \in Nat \ {0} /\ Blocks18 \in Nat \ {0}
  /\ IoPage18 \in Nat /\ Blocks18 <= Blocks22

VARIABLES
  mmr0,   \* MMR0: enable and abort flags
  fpage,  \* MMR0<6:1>, the page of the abort
  mmr2,   \* MMR2, the address of the instruction
  mmr3,   \* MMR3: 22 bit mapping
  apr,    \* APRFILE
  out     \* result of the last reference: [res, block]

mmuVars == <<mmr0, fpage, mmr2, mmr3, apr, out>>

Result == {"none", "ok", "unmapped"} \cup Freeze

TypeOK ==
  /\ mmr0 \in SUBSET Mmr0Flag
  /\ fpage \in Page
  /\ mmr2 \in Pc \cup {0}
  /\ mmr3 \in SUBSET {"M22E"}
  /\ apr \in [Page -> PageRegister]
  /\ out \in [res : Result, block : Block]

-----------------------------------------------------------------------------
(* Why a reference to block b of page p aborts, "ok" if it does not.       *)
PastEnd(p, b) ==
  IF "ED" \in apr[p].flags THEN b < apr[p].plf ELSE b > apr[p].plf

Verdict(p, b, write) ==
  IF "NR" \notin apr[p].flags THEN "NR"
  ELSE IF PastEnd(p, b) THEN "PL"
  ELSE IF write /\ "WE" \notin apr[p].flags THEN "RO"
  ELSE "ok"

(* The physical block.  Without 22 bit mapping the top of the 18 bit space *)
(* is moved to the top of the 22 bit space.                                *)
Relocate(p, b) ==
  LET pa == (apr[p].base + b) % Blocks22
      low == pa % Blocks18
  IN IF "M22E" \in mmr3 THEN pa
     ELSE IF low >= IoPage18 THEN low + (Blocks22 - Blocks18) ELSE low

Enabled == "MME" \in mmr0
Updating == Enabled /\ mmr0 \cap Freeze = {}     \* update_MM

Answer(res, block) == out' = [res |-> res, block |-> block]

Init ==
  /\ mmr0 = {} /\ fpage = {} /\ mmr2 = 0 /\ mmr3 = {}
  /\ apr = [p \in Page |-> [flags |-> {}, plf |-> 0, base |-> 0]]
  /\ out = [res |-> "none", block |-> 0]

-----------------------------------------------------------------------------
(* Management is off: the address is not translated.                       *)
Unmapped ==
  /\ ~Enabled
  /\ Answer("unmapped", 0)
  /\ UNCHANGED <<mmr0, fpage, mmr2, mmr3, apr>>

(* The reference aborts.                                                   *)
Abort(p, b, write) ==
  /\ Enabled
  /\ Verdict(p, b, write) # "ok"
  /\ fpage' = IF Updating THEN fpage \cup p ELSE fpage
  /\ mmr0' = mmr0 \cup {Verdict(p, b, write)}
  /\ Answer(Verdict(p, b, write), 0)
  /\ UNCHANGED <<mmr2, mmr3, apr>>

(* The reference succeeds; a write marks the page as written.              *)
Translated(p, b, write) ==
  /\ Enabled
  /\ Verdict(p, b, write) = "ok"
  /\ Answer("ok", Relocate(p, b))
  /\ apr' = IF write THEN [apr EXCEPT ![p].flags = @ \cup {"W"}] ELSE apr
  /\ UNCHANGED <<mmr0, fpage, mmr2, mmr3>>

Read(p, b) == Unmapped \/ Abort(p, b, FALSE) \/ Translated(p, b, FALSE)
Write(p, b) == Unmapped \/ Abort(p, b, TRUE) \/ Translated(p, b, TRUE)

(* The console translates an address: relocC.  It leaves no trace.         *)
ConsoleReference(p, b) ==
  /\ IF Enabled
     THEN Answer(Verdict(p, b, FALSE),
                 IF Verdict(p, b, FALSE) = "ok" THEN Relocate(p, b) ELSE 0)
     ELSE Answer("unmapped", 0)
  /\ UNCHANGED <<mmr0, fpage, mmr2, mmr3, apr>>

(* Slip: the fetch does not test update_MM.                                *)
BeginInstruction_Always(pc) ==
  /\ mmr2' = pc
  /\ UNCHANGED <<mmr0, fpage, mmr3, apr, out>>

(* The loop fetches the next instruction.                                  *)
BeginInstruction(pc) ==
  /\ mmr2' = IF Updating THEN pc ELSE mmr2
  /\ UNCHANGED <<mmr0, fpage, mmr3, apr, out>>

-----------------------------------------------------------------------------
(* Guest writes.  half is the part of the word that is written.            *)
Half == {"word", "low", "high"}

Mmr0Covered(half) ==
  (IF half = "high" THEN {} ELSE {"MME"}) \cup (IF half = "low" THEN {} ELSE Freeze)

WriteMMR0(data, half) ==
  /\ mmr0' = (mmr0 \ Mmr0Covered(half)) \cup (data \cap Mmr0Covered(half))
  /\ UNCHANGED <<fpage, mmr2, mmr3, apr, out>>

(* A byte write to the odd half of MMR3 does nothing.                      *)
WriteMMR3(data, half) ==
  /\ mmr3' = IF half = "high" THEN mmr3 ELSE data
  /\ UNCHANGED <<mmr0, fpage, mmr2, apr, out>>

(* Any write to a page register clears its W.                              *)
WritePDR(p, flags, plf, half) ==
  /\ apr' = [apr EXCEPT
       ![p].flags = (IF half = "high" THEN @ ELSE flags) \ {"W"},
       ![p].plf = IF half = "low" THEN @ ELSE plf]
  /\ UNCHANGED <<mmr0, fpage, mmr2, mmr3, out>>

(* The two halves of a PAR together make the base.                         *)
WritePAR(p, base) ==
  /\ apr' = [apr EXCEPT ![p].flags = @ \ {"W"}, ![p].base = base]
  /\ UNCHANGED <<mmr0, fpage, mmr2, mmr3, out>>

(* The RESET instruction.                                                  *)
ResetInstruction ==
  /\ mmr0' = {} /\ mmr3' = {}
  /\ UNCHANGED <<fpage, mmr2, apr, out>>

(* cpu_reset, from the console's RESET and RUN commands.                   *)
CpuReset ==
  /\ mmr0' = {} /\ fpage' = {} /\ mmr2' = 0 /\ mmr3' = {}
  /\ UNCHANGED <<apr, out>>

GuestStore ==
  \/ \E data \in Mmr0Data, half \in Half : WriteMMR0(data, half)
  \/ \E data \in SUBSET {"M22E"}, half \in Half : WriteMMR3(data, half)
  \/ \E p \in Guest, flags \in PdrFlags, plf \in PdrLength, half \in Half :
       WritePDR(p, flags, plf, half)
  \/ \E p \in Guest, base \in ParBase : WritePAR(p, base)

Next ==
  \/ \E p \in Page, b \in Bn : Read(p, b) \/ Write(p, b) \/ ConsoleReference(p, b)
  \/ \E pc \in Pc : BeginInstruction(pc)
  \/ GuestStore
  \/ ResetInstruction
  \/ CpuReset

Spec == Init /\ [][Next]_mmuVars

-----------------------------------------------------------------------------
Frozen == mmr0 \cap Freeze # {}

(* The handler of an abort can restart the instruction: from the abort     *)
(* until the guest clears the abort flags, neither the handler's own       *)
(* instructions nor further aborts disturb MMR2 and the page field.        *)
FirstFaultKept ==
  [][Frozen /\ (mmr0' \cap Freeze # {}) => UNCHANGED <<fpage, mmr2>>]_mmuVars

(* "Aborts must update MMR0<15:13,6:1> if updating is enabled" (relocR,    *)
(* relocW): the page field then names the page of the abort.               *)
PageFieldNamesFault ==
  [][\A p \in Page, b \in Bn : Updating /\ (Abort(p, b, FALSE) \/ Abort(p, b, TRUE))
       => fpage' = p]_mmuVars
=============================================================================
